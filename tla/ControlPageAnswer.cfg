SPECIFICATION Spec
CONSTANTS
  SeqTop = 1000
  Attempts = 2
  MaxSends = 2
  MaxPlans = 0
CHECK_DEADLOCK FALSE
INVARIANT FreshAnswer
