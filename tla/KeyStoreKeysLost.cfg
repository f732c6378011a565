SPECIFICATION FaultySpec
CONSTANTS
  Direct = Direct
  NoRow = NoRow
  None = None
  early = early
  later = later
  other = other
  k1 = k1
  k2 = k2
  KeyID = {k1, k2}
  Notary = {n1}
  SignedBy <- MCSignedBy
  ValidUntil <- MCValidUntil
  Proc = {p1, p2}
  Answer = {early, later, other}
  MaxFaults = 1
  KeysIn <- MCKeysIn
SYMMETRY MCSymmetry
INVARIANTS
  KeysAreNotLost
