SPECIFICATION Spec
CONSTANT MaxPackets = 9
CHECK_DEADLOCK FALSE
INVARIANTS
  DeferredHasOwner
  FailClosed
PROPERTIES
  DueIsResolved
  DeferredRecovers
