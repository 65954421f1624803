SPECIFICATION Spec
CONSTANTS
  Processes = {p1, p2}
  Count = 2
  Kinds <- AllKinds
  Expiring <- FirstMayExpire
  Sources <- MCSources
  ExportLimits = {2, 3}
  ImportOptions <- MCImportOptions
  MaxFileBytes = 6
  MaxUsize = 30
  MaxReadBytes = 8
  MaxInputItems = 3
  Overhead = 1
SYMMETRY Symmetry
INVARIANTS
  TypeOK
  ReplacementsWereConfirmed
  RowsAreAtomic
  FailureIsDefinite
  OkMeansImported
