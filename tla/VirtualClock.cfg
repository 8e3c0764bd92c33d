CONSTANTS
  Second = 5
  Step = {3}
  Delay = {1}
  InitChildren = 2
  MaxChildren = 4
  MayFail = TRUE
  SignalAt <- Anywhere
SPECIFICATION FairSpec
INVARIANTS LeaverInSlot WaitIsBounded ListedOrCollected
PROPERTY MasterFinishes
