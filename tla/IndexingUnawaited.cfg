SPECIFICATION Spec
CONSTANTS
  Null = Null
  DefaultStatus = 1
  DefaultChunk = 2
  MaxBlock = 4
  MaxPending = 1
  MaxFaults = 0
  Busy <- MCBusy
INVARIANT ChunkResolvedBeforeCheckpoint
