SPECIFICATION Spec
CONSTANTS
  Shapes = {s1, s2}
  ReplanPeriods = 3
  InitialProfiles = 3
  MaxChunks = 2
  MaxPeriods = 12
CHECK_DEADLOCK FALSE
INVARIANTS
  PlanOfThisTemplate
  PlanTakenUpSoon
PROPERTIES
  NothingRefused
