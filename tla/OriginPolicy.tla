---------------------------- MODULE OriginPolicy ----------------------------
(***************************************************************************)
(* The decisions of src/keys/notary.go that read no state but a record and *)
(* a time: is a held record fresh, may the origin be probed, how long is   *)
(* the standoff after a failed probe, does a held record satisfy a request.*)
(* A record is a remote_servers row and whether remote_keys has keys for   *)
(* it; times are util.NowMillis() in some unit.                            *)
(***************************************************************************)
EXTENDS Integers, Sequences

CONSTANTS
  Ladder,            \* originBackoffLadder
  TransientBackoff,  \* transientOriginBackoff
  TransientLimit,    \* transientOriginFailureLimit
  Lifespan,          \* remoteKeyLifespanMs
  NoRow              \* no remote_servers row: the nil record

ASSUME PolicyAssumption ==
  /\ Ladder \in Seq(Nat \ {0})
  /\ Ladder # <<>>
  /\ \A i, j \in DOMAIN Ladder : i <= j => Ladder[i] <= Ladder[j]
  /\ TransientBackoff \in Nat \ {0}
  /\ TransientBackoff <= Ladder[1]
  /\ TransientLimit \in Nat
  /\ Lifespan \in Nat

TopRung == Ladder[Len(Ladder)]

OriginBackoff(failures, transient) ==
  IF transient /\ failures <= TransientLimit THEN TransientBackoff
  ELSE IF failures < 1 THEN Ladder[1]
  ELSE IF failures > Len(Ladder) THEN TopRung
  ELSE Ladder[failures]

(* Go's division truncates; on times, which are not negative, that is \div.*)
IsFresh(r, min, now) ==
  /\ r # NoRow
  /\ r.valid >= min
  /\ (r.updated + r.valid) \div 2 >= now
  /\ now <= r.updated + Lifespan

ShouldProbe(r, now) == r = NoRow \/ now >= r.next

HasKeys(r) == r # NoRow /\ r.keys

HeldSatisfies(r, min) == HasKeys(r) /\ r.valid >= min
=============================================================================
