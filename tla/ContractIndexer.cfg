SPECIFICATION FairSpec
CONSTANTS
  a = a
  i1 = i1
  i2 = i2
  k1 = k1
  k2 = k2
  EOA = EOA
  Null = Null
  Unknown = Unknown
  Address = {a}
  Interface = {i1, i2}
  Copy = {k1, k2}
  Codes <- MCCodes
  NoCode = NoCode
  Unlisted = {EOA}
  Interval = 1
  MaxTime = 3
  MaxFaults = 1
INVARIANTS
  TypeOK
  StaleOnlyWithinInterval
  StoredIsRequested
PROPERTIES DiscoveredIsStored
CHECK_DEADLOCK FALSE
