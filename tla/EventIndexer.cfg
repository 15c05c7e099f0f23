SPECIFICATION Spec
CONSTANTS
  c = c
  ann = ann
  bob = bob
  t1 = t1
  t2 = t2
  w1 = w1
  w2 = w2
  j1 = j1
  j2 = j2
  Worker = {w1, w2}
  Job = {j1, j2}
  Address = {c}
  Holder = {ann, bob}
  TokenId = {t1, t2}
  EmptyId = {t2}
  Null = Null
  Chains <- MCChains
  MaxLaunches = 2
  MaxFaults = 1
INVARIANTS
  TypeOK
  RowMeansStored
  StaleBalanceOnlyByOverlap
  WrongOwnerOnlyByDisorder
  ChangesReachTheirTokens
PROPERTIES AppliedOnce
SYMMETRY Perms
CHECK_DEADLOCK FALSE
