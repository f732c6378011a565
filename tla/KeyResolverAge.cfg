SPECIFICATION Spec
CONSTANTS
  NoRow = NoRow
  Idle = Idle
  Direct = Direct
  Sweeper = sweeper
  n1 = n1
  n2 = n2
  Ladder <- MCLadder
  TransientBackoff = 1
  TransientLimit = 1
  Lifespan = 2
  Cooldown = 2
  PruneAt = 2
  Proc = {p1}
  Server = {s}
  Asked = {s}
  Notaries <- NoNotary
  Ahead = {0}
  Lifetimes = {9}
  Offers = {}
  Batch = 0
  MaxLag = 1
  FailUntil = 9
  MaxTime = 6
  MaxFaults = 0
PROPERTIES FreshIsYoung
