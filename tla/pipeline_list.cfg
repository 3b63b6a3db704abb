SPECIFICATION Spec
CONSTANTS
  MaxProcs = 4
  Positions = {0, 1}
  MaxOps = 6
  MaxSlots = 2
INVARIANTS  NobodySkipped
CHECK_DEADLOCK FALSE
