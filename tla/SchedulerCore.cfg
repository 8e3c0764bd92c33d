CONSTANTS
  Slots = 2
  MaxLaunch = 3
  StrayLooper = FALSE
  AlarmAt <- Anywhere
  InterruptAt <- Anywhere
SPECIFICATION FairSpec
INVARIANTS
  TypeOK
  FlagsFitPlace
  OneQuantumOut
PROPERTY ImplementsProcessStates
