SPECIFICATION Spec
CONSTANT
  Configurations <- Settings
INVARIANTS
  
  DecoderRecovers
  DamageIsCaught
CHECK_DEADLOCK FALSE
