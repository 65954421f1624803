SPECIFICATION Spec
CONSTANTS
  MaxUsize = 30
  MaxReadBytes = 8
  MaxInputItems = 2
  Overhead = 1
  ItemKinds <- MCItemKinds
  MaxInput = 3
  InputBudget <- MCInputBudget
  MaxRepeats = 1
  HeadLimit = 1
  BodyLimit = 8
  MaxMessages = 2
  MaxChanges = 2
  Names = {1, 2, 3}
  Hidden = {3}
  SizeOf <- MCSizeOf
  ReadBudgets <- MCReadBudgets
  MaxMessage = 1
  PageMax = 2
  MaxCursor = 2
  MaxGroups = 2
  MaxI64 = 5
  Unreported = Unreported
  MaxEdits = 1
  SeriesAnswers <- MCSeriesAnswers
  SeriesBudgets <- MCSeriesBudgets
INVARIANTS
  TypeOK
  OkCountsEffects
  VerifiedAbsenceIsReal
  DestructionIsAsAsked
  TruncationIsHonest
  BudgetKept
  NothingIsLeftOpen
PROPERTIES
  OutcomePromise
  ReadsEnd
CHECK_DEADLOCK FALSE
