SPECIFICATION FairSpec
CONSTANTS
  None = None
  Nothing = Nothing
  Error = Error
  a = a
  r1 = r1
  r2 = r2
  b = b
  Request = {r1, r2}
  Server = {a, b}
  Stored <- MCStored
  Body <- MCBody
  Slots = 1
  Now = 2
  Longest = 3
  Offers <- MCOffers
  Reached <- MCReached
  MaxFaults = 1
  MaxTurns = 1
INVARIANTS
  TypeOK
  NothingRunsOn
  OthersAreUnharmed
  EveryCriterionIsMet
  SomeoneMoves
PROPERTIES
  BatchesEnd
  RefusalsEnd
  BatchPromise
