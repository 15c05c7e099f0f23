SPECIFICATION FairSpec
CONSTANTS
  t1 = t1
  t2 = t2
  t3 = t3
  w1 = w1
  w2 = w2
  a0 = a0
  a1 = a1
  a2 = a2
  a3 = a3
  Null = Null
  Tx <- MCTx
  Worker <- MCWorker
  Address <- MCAddress
  Sender <- MCSender
  Target <- MCTarget
  Decoded <- MCDecoded
  Depth <- MCDepth
  SetsData <- MCSetsData
  Refused <- MCRefused
  MaxFaults = 2
INVARIANTS TypeOK WrappedOnce SendersKnown RowMeansComplete
PROPERTIES LaunchedCompletes TablesImplementExpansion
