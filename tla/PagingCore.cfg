CONSTANTS
  Slots = 2
  Memory = 1
  Page <- TwoPages
  MaxLaunch = 3
  MinRequests = 1
  AlarmAt <- SafePoints
  OssInterrupt = FALSE
  UserInterrupt = FALSE
SPECIFICATION FairSpec
INVARIANTS
  SlotIsSenders
  CountMatches
  ReapFindsChild
  CleanExit
PROPERTIES
  ImplementsFrameTable
  RequestsAnswered
  OssFinishes
  ImplementsSessions
