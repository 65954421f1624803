SPECIFICATION Spec
CONSTANTS
  a = a
  d1 = d1
  d2 = d2
  Names = {a}
  Dsns = {d1, d2}
  AmqpDsns = {d2}
  ServerInfos <- MCServerInfos
  MaxU64 = 2
  NotANumber = NotANumber
  Limit = 2
  RawAdapterItemLimit = 3
  RawNodeLimit = 6
  Texts <- MCTexts
  RawArgs <- MCRawArgs
  Pipelines <- MCPipelines
  Consumes <- MCConsumes
  Asked <- MCStatements
INVARIANTS
  ChangesNeedPermission
CHECK_DEADLOCK FALSE
