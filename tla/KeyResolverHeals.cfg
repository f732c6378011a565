SPECIFICATION FairSpec
CONSTANTS
  NoRow = NoRow
  Idle = Idle
  Direct = Direct
  Sweeper = sweeper
  n1 = n1
  n2 = n2
  Ladder <- MCLadder
  TransientBackoff = 1
  TransientLimit = 1
  Lifespan = 2
  Cooldown = 2
  PruneAt = 2
  Proc = {p1}
  Server = {s, n1}
  Asked = {s}
  Notaries <- OneNotary
  Ahead = {0}
  Lifetimes <- ExpiredToo
  Offers = {3}
  Batch = 1
  MaxLag = 1
  FailUntil = 2
  MaxTime = 4
  MaxFaults = 1
INVARIANTS
  ScheduleIsSound
PROPERTIES
  KeepsHoldings
  SweepHeals
