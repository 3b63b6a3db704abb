CONSTANTS
  NP = 2
  NM = 1
  Configurations <- Uniform
  MaxSlot = 3
  Threads = {0, 1, 2}
  MaxRounds = 3
SPECIFICATION FairSpec
INVARIANTS
  NobodyPassesEarly
  Lockstep
PROPERTIES
  SlotsGoOn
  PipelinesCatchUp
CHECK_DEADLOCK FALSE
