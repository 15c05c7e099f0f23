SPECIFICATION FairSpec
CONSTANTS
  Null = Null
  DefaultStatus = 1
  DefaultChunk = 2
  MaxBlock = 4
  MaxPending = 1
  MaxFaults = 1
  Busy <- MCBusy
PROPERTIES CatchesUp FaultFreeScanCompletes
