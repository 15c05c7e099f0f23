SPECIFICATION Spec
CONSTANTS
  Null = Null
  DefaultStatus = 1
  DefaultChunk = 3
  MaxBlock = 4
  MaxPending = 2
  MaxFaults = 1
  Busy <- MCBusy
INVARIANTS TypeOK NoBlockSkipped NoLossWithoutFault CheckpointFresh
PROPERTIES ScansImplementCursor
