SPECIFICATION FairSpec
CONSTANTS
  Blank = Blank
  None = None
  Self = Self
  a = a
  b = b
  Proc = {p1, p2}
  KeyID = {k1, k2}
  Statements <- MCStatements
  Lists <- MCLists
  MaxCrashes = 2
INVARIANTS
  TypeOK
  MigrationsAreExclusive
  RecordedIsComplete
  OnlyCrashesTear
  UpIsReady
  OneKeyEach
  NotariesAreOthers
PROPERTIES
  AllComeUp
CHECK_DEADLOCK FALSE
