CONSTANTS
  Slots = 2
  NumResources = 2
  Total <- OneUnit
  Sharable <- None
  MaxClaim = 1
  MaxLaunch = 3
  HeldLimit = 1
  Verbose = TRUE
  AlarmAt <- WhileLaunching
  InterruptAt <- MidLaunchOrScan
SPECIFICATION Spec
INVARIANTS
  TypeOK
  RequestsDecided
  WithinClaims
  CountMatches
  OwnSlots
  OnlyStartingEscape
PROPERTY ImplementsLedger
CONSTRAINT FewRaces
