CONSTANTS
  N = 2
  Delays <- AllDelays
  MaxSent = 3
  MaxTime = 3
SPECIFICATION FairSpec
INVARIANTS
  SlotExclusive
PROPERTIES
  ImplementsFifo
  EveryPacketArrives
CHECK_DEADLOCK FALSE
