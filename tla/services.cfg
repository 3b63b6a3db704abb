SPECIFICATION Spec
CONSTANTS
  NP = 2
  Settings <- LogSettings
  Lengths = {2, 3}
  Loggers = {0}
  MaxRecords = 2
  MaxFaults = 1
INVARIANTS
  
  ReportsAreTrue
PROPERTIES
  FaultIsReported
  
CHECK_DEADLOCK FALSE
