CONSTANTS
  Slots = 2
  Memory = 1
  Page <- OnePage
  MaxLaunch = 3
  MinRequests = 1
  AlarmAt <- SafePoints
  OssInterrupt = TRUE
  UserInterrupt = TRUE
SPECIFICATION FairSpec
INVARIANTS
  OneTurnEach
PROPERTY ConnectedUsersExit
