SPECIFICATION Spec
CONSTANTS
  None = None
  NoRecords = NoRecords
  s = s
  d = d
  dport = dport
  ip = ip
  junk = junk
  t = t
  Proc = {p1, p2}
  Addr <- MCAddr
  Form <- MCForm
  Bare <- MCBare
  Asked = {s, dport}
  Target = {t}
  Response <- MCResponse
  ValidTtl = 3
  AbsentTtl = 1
  FailedTtl = 0
  MinTtl = 1
  MaxTtl = 3
  MaxLag = 1
  MaxTime = 3
  MaxChanges = 1
SYMMETRY MCSymmetry
INVARIANTS
  TypeOK
  UsableIsJustified
PROPERTIES
  ProbesAreSpaced
