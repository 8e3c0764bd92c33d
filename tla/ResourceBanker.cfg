CONSTANTS
  Slots = 2
  NumResources = 2
  Total <- OneUnit
  Sharable <- None
  MaxClaim = 1
  MaxLaunch = 2
  HeldLimit = 1
  Verbose = FALSE
  AlarmAt <- None
  InterruptAt <- None
SPECIFICATION Spec
PROPERTY TestsWhatIsAvailable
