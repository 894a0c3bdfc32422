SPECIFICATION Spec
CONSTANT MaxPackets = 9
INVARIANTS
  DeliveredOrFailed
CHECK_DEADLOCK FALSE
