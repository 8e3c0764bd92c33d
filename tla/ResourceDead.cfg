CONSTANTS
  Slots = 3
  NumResources = 1
  Total <- OneUnit
  Sharable <- None
  MaxClaim = 1
  MaxLaunch = 3
  HeldLimit = 1
  Verbose = TRUE
  AlarmAt <- None
  InterruptAt <- None
SPECIFICATION Spec
INVARIANT SlotIsLive
CONSTRAINT undisturbed
