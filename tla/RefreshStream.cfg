SPECIFICATION FairSpec
CONSTANTS
  a1 = a1
  a2 = a2
  p1 = p1
  p2 = p2
  Null = Null
  Asset <- MCAsset
  Producer <- MCProducer
  ChunkSize = 2
  Day = 2
  MaxMessages = 3
  MaxFaults = 2
INVARIANTS TypeOK LockIsBacked
PROPERTIES DeliversInOrder MessagesProcessed LockEndsWithoutFault
