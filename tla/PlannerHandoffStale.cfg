SPECIFICATION Spec
CONSTANT MaxPackets = 9
INVARIANTS
  FailureIsCurrent
CHECK_DEADLOCK FALSE
