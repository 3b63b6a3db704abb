SPECIFICATION FairSpec
CONSTANTS
  NMod = 2
  Scenarios <- Calm
PROPERTIES RunIsObeyed
CHECK_DEADLOCK FALSE
