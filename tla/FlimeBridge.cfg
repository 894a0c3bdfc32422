SPECIFICATION Spec
CONSTANTS
  Streams = {s1, s2}
  Queues = {q1}
  NoQueue = NoQueue
  Sizes = {2}
  PlanChunks = 2
  MaxPeriods = 3
  MaxSessions = 2
SYMMETRY MCSymmetry
CHECK_DEADLOCK FALSE
INVARIANTS
  RefsBalanced
  CompletionAccepted
  RunsWholeAndOnce
  CommittedMeansRun
  LostIsRecovered
  PeriodsAgree
  NoBypass
  RecoverHasExit
PROPERTIES
  NothingForgotten
