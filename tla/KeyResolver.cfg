SPECIFICATION Spec
CONSTANTS
  NoRow = NoRow
  Idle = Idle
  Direct = Direct
  Sweeper = sweeper
  n1 = n1
  n2 = n2
  Ladder <- MCLadder
  TransientBackoff = 1
  TransientLimit = 1
  Lifespan = 2
  Cooldown = 3
  PruneAt = 2
  Proc = {p1, p2}
  Server = {s, n1}
  Asked = {s}
  Notaries <- OneNotary
  Ahead <- PastToo
  Lifetimes = {2}
  Offers = {1, 4}
  Batch = 0
  MaxLag = 1
  FailUntil = 9
  MaxTime = 3
  MaxFaults = 1
SYMMETRY MCSymmetry
INVARIANTS
  TypeOK
PROPERTIES
  WalksAreSpaced
  HeldIsNotLost
