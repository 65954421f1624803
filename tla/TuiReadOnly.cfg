SPECIFICATION Spec
CONSTANTS
  Connections = 2
  ReadOnly = {2}
  Commands <- MCCommands
  FormCommands <- MCForms
  MaxHistory = 1
INVARIANT
  ReadOnlyIsNeverMutated
CHECK_DEADLOCK FALSE
