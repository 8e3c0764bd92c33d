CONSTANTS
  Slots = 2
  Memory = 3
  Page <- MCPage
  Pid <- MCPid
SPECIFICATION Spec
INVARIANTS
  TypeOK
  MappedPagesAreHeld
  HeldPagesAreMapped
  OccupiedFramesAreQueued
  FreeSlotsMapNothing
PROPERTY OnlyOwnFramesAreFreed
