---------------------------- MODULE WalkSchedule ----------------------------
(***************************************************************************)
(* walkSchedule (src/keys/notaryWalks.go): when the last notary walk for   *)
(* each server began.  A schedule is the map walkSchedule.last.            *)
(***************************************************************************)
EXTENDS Integers, FiniteSets

CONSTANTS
  Cooldown,  \* notaryWalkCooldown
  PruneAt    \* walkSchedulePruneAt

ASSUME ScheduleAssumption == Cooldown \in Nat /\ PruneAt \in Nat

NoWalks == [s \in {} |-> 0]

(* Mutant: an entry is only a mark that a walk began.                      *)
MayWalkOnce(last, s, now) == s \in DOMAIN last => now > last[s]

MayWalk(last, s, now) == s \in DOMAIN last => now >= last[s] + Cooldown

(* Mutant: a map at its limit is emptied.                                  *)
KeptNone(last, now) ==
  IF Cardinality(DOMAIN last) < PruneAt THEN DOMAIN last ELSE {}

(* The servers whose entries take leaves in the map.                       *)
Kept(last, now) ==
  {s \in DOMAIN last : \/ Cardinality(DOMAIN last) < PruneAt
                       \/ now < last[s] + Cooldown}

(* What take leaves when it returns true; when it returns false it leaves  *)
(* the map alone.                                                          *)
Taken(last, s, now) ==
  [x \in Kept(last, now) \cup {s} |-> IF x = s THEN now ELSE last[x]]
=============================================================================
