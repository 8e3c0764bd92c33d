CONSTANTS
  Slots = 1
  MaxLaunch = 1
  StrayLooper = FALSE
  AlarmAt <- Nowhere
  InterruptAt <- Nowhere
SPECIFICATION FairSpec
PROPERTY LowerLevelsAreServed
