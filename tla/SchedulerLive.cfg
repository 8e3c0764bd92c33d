CONSTANTS
  Slots = 3
  MaxLaunch = 3
  StrayLooper = FALSE
  AlarmAt <- Nowhere
  InterruptAt <- Nowhere
SPECIFICATION FairSpec
PROPERTIES
  AwaitIsAnswered
  LevelZeroIsServed
  BlockedWake
