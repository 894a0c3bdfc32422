SPECIFICATION ASpec
CONSTANTS
  UpdateIds = {u1, u2, u3}
  MaxLedger = 3
  MaxIds = 3
  Signatures = {a, b, c}
  HistoryLimit = 6
  MaxUnits = 4
  Costs = {1, 3}
  Handoffs = {0, 2}
  ChunkLimits = {0, 2, 4}
  MaxCalls = 5
  DispatchesPerUnit = {1, 2}
  Shapes = {x}
  HandleLists <- MCHandleLists
  MaxTemplate = 2
  ClusterMaxParameters = 2
  Words = {0, 1, 2, 3}
  MaxWords = 6
  SaveSizes = {0, 3}
  FlimeLimitPairs <- MCFlimeLimitPairs
  MaxParams = 2
  MaxElements = 7
CHECK_DEADLOCK FALSE
INVARIANTS
  WalksAgree
  PeriodFound
  PlanOptimal
  UnitsAndPlanFit
  MatchIsRenaming
  ClusterAllOrNothing
  CallsWholeInOrder
