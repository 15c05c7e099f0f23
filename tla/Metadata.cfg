SPECIFICATION Spec
CONSTANTS
  a = a
  t = t
  s1 = s1
  s2 = s2
  Null = Null
  Address = {a}
  Token = {t}
  Standards = {"LSP0", "LSP7", "LSP8", "ERC20", "other"}
  Profiled = {"LSP0", "LSP7"}
  Task = {s1, s2}
  Parts <- MCParts
  Changing <- MCChanging
  MaxVersion = 2
  MaxFaults = 1
INVARIANTS
  TypeOK
  PartsAgree
  
SYMMETRY Perms
CHECK_DEADLOCK FALSE
