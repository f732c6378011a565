SPECIFICATION FairSpec
CONSTANTS
  NoRow = NoRow
  Idle = Idle
  Direct = Direct
  Sweeper = sweeper
  n1 = n1
  n2 = n2
  Ladder <- MCLadder
  TransientBackoff = 1
  TransientLimit = 1
  Lifespan = 2
  Cooldown = 2
  PruneAt = 1
  Proc = {p1}
  Server = {s, n1, n2}
  Asked = {s, n1}
  Notaries <- TwoNotaries
  Ahead = {1}
  Lifetimes = {2}
  Offers = {1, 3, 4}
  Batch = 0
  MaxLag = 1
  FailUntil = 9
  MaxTime = 3
  MaxFaults = 0
INVARIANTS
  NotaryRowsAreSwept
PROPERTIES
  RepliesMatchReservoir
  BestOfWalk
  Answered
  CallsWindDown
  WalksAreSpaced
