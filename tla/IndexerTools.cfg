SPECIFICATION ToolsFairSpec
CONSTANTS
  Null = Null
  MaxBlock = 3
  MaxPending = 1
  Busy <- MCBusy

  DefaultStatus = 1
  DefaultChunk = 2
  MaxFaults = 0
  PostedStatus = {0, 1}
  PostedChunk = {0, 1, 3}
  PostedBlock = {0, 2}
  MaxPosts = 2
INVARIANT SkippedOnlyByOperator
 
