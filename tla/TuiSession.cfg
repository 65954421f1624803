SPECIFICATION FairSpec
CONSTANTS
  Connections = 2
  ReadOnly = {2}
  Commands <- MCCommands
  FormCommands <- MCForms
  MaxHistory = 2
INVARIANTS
  TypeOK
  GatedWritesAreConfirmed
  TerminalRestored
PROPERTIES
  SessionEnds
CHECK_DEADLOCK FALSE
