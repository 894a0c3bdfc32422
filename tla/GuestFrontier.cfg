SPECIFICATION Spec
CONSTANTS
  Sets <- MCSets
  Slots <- MCSlots
  SetOf <- MCSetOf
  Calls <- MCCalls
  Shapes <- MCShapes
  Buffers = {x, y}
  Cmds <- MCCmds
  Threads = {t1, t2}
  None = None
  MaxUnits = 1
  MaxRecords = 2
  LastId = 4
  MaxFaults = 1
CONSTRAINT OneMishap
SYMMETRY MCSymmetry
CHECK_DEADLOCK FALSE
INVARIANTS
  RunsOnLatest
  NothingLost
  FailsOnlyOnFault
