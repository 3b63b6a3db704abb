SPECIFICATION FairSpec
CONSTANTS
  NMod = 2
  Scenarios <- All4
INVARIANTS
  
  ManagerAgrees
PROPERTIES
  CommandsEnd
  FaultEndsWaveform
CHECK_DEADLOCK FALSE
