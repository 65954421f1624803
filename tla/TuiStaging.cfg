SPECIFICATION Spec
CONSTANTS
  Connections = 2
  ReadOnly = {}
  Commands <- PlainCommands
  FormCommands <- MCForms
  MaxHistory = 1
INVARIANT
  ConfirmedWriteStaysOnItsConnection
CHECK_DEADLOCK FALSE
