SPECIFICATION Spec
CONSTANTS
  NP = 4
  MaxCycles = 3
  BootInTime = TRUE
  InStep = TRUE
INVARIANT SlotsFollowTimer
CHECK_DEADLOCK FALSE
