SPECIFICATION Spec
CONSTANT
  Configurations <- Window
INVARIANT
  DecoderRecovers
CHECK_DEADLOCK FALSE
