SPECIFICATION Spec
CONSTANTS
  e = e
  x = x
  m1 = m1
  m2 = m2
  u1 = u1
  u2 = u2
  Null = Null
  Row = {e, x}
  Method = {m1, m2}
  Upload = {u1, u2}
  MethodOf <- MCMethodOf
  IsEvent <- MCIsEvent
  Uploads <- MCUploads
  Arity <- MCArity
  MaxTime = 2
  MaxFaults = 0
INVARIANT UploadsPersist
CHECK_DEADLOCK FALSE
