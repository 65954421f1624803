SPECIFICATION FairSpec
CONSTANTS
  Callers = {c1, c2}
  MaxConcurrency = 0
  HasRate = TRUE
  Burst = 1
  AcquireTimeout = 1
  RequestTimeout = 1
  HasDeadline = TRUE
  OverallDeadline = 3
  MaxRetries = 1
  BackoffUnit = 1
INVARIANTS
  TypeOK
  PermitsConserved
  NeverReplayed
  MutationOutcomeIsHonest
  ReplaysAreBounded
  BudgetsWithinDeadline
  OverloadedNeedsContention
PROPERTIES
  EveryCallReturns
CHECK_DEADLOCK FALSE
