SPECIFICATION FairSpec
CONSTANTS
  c1 = c1
  c2 = c2
  c3 = c3
  Call <- MCCall
INVARIANTS NoOverlap OpenRaceIsBacked
PROPERTY ServesInCallOrder
