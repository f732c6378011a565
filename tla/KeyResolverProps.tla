-------------------------- MODULE KeyResolverProps --------------------------
(***************************************************************************)
(* What queryRemoteKeys, the notary walk and the origin sweep promise.     *)
(***************************************************************************)
EXTENDS KeyResolver

(* The types of the variables.                                             *)
TypeOK ==
  /\ clock \in Nat /\ faults \in 0..MaxFaults
  /\ row \in [Server -> Row \cup {NoRow}]
  /\ DOMAIN last \subseteq Server /\ \A s \in DOMAIN last : last[s] \in Nat
  /\ frame \in [Goroutine -> Frame \cup {Idle}]
  /\ caller \in [Goroutine -> Frame \cup {Idle}]
  /\ reply \in [Proc -> Reply \cup {Idle}]
  /\ queue \in Seq(Server)
  /\ stored \in [Server -> Nat]
  /\ walked \in [Server -> Nat \cup {Idle}]
  /\ torn \in [Server -> Nat]

(* The sweep looks for next_origin_attempt_ts > 0 (db/queries.go:67-75)    *)
(* and the ladder climbs by origin_failures: however stores and failure    *)
(* notes of several goroutines fall, the two columns agree, no standoff    *)
(* outlasts the ladder's top rung, and a record without keys is on the     *)
(* sweep's list unless a store of it was cut short (notary.go:427-489)     *)
(* since it was last stored whole.                                         *)
ScheduleIsSound ==
  \A s \in Server : row[s] # NoRow =>
    /\ row[s].next > 0 <=> row[s].failures > 0
    /\ ~row[s].keys => row[s].next > 0 \/ (torn[s] > 0 /\ stored[s] <= torn[s])
    /\ row[s].next <= clock + TopRung

(* A record with keys that a request has read is not lost to it, whatever  *)
(* the origin, the notaries and other requests do meanwhile: the reply has *)
(* keys.  Only a store of the same server that is cut short after the      *)
(* request has read it can take them away: the next notary with nothing    *)
(* longer-valid then returns what that store left (notary.go:409-411).     *)
Replies(p) == frame[p] # Idle /\ frame[p].reason = "request" /\ reply'[p] # Idle

HeldIsNotLost ==
  [][\A p \in Proc : LET f == frame[p] IN
       Replies(p) /\ HasKeys(f.held) /\ torn[f.server] < f.now =>
         HasKeys(reply'[p].record)]_vars

(* The caller of a walk that some notary answered gets keys valid for at   *)
(* least as long as every copy offered during it (walkNotaries: "the       *)
(* caller still gets the best copy anyone had").  A store that was cut     *)
(* short under the walk, or had left the record it read without keys, is   *)
(* the exception: no copy of the same validity replaces what it left.      *)
Intact(f) ==
  /\ torn[f.server] < f.now
  /\ f.held # NoRow /\ ~f.held.keys => f.held.valid = 0

BestOfWalk ==
  [][\A p \in Proc : LET f == frame[p] IN
       Replies(p) /\ f.offered > 0 /\ Intact(f) =>
         /\ HasKeys(reply'[p].record)
         /\ reply'[p].record.valid >= f.offered]_vars

(* Between restarts two walks for one server begin at least a cooldown     *)
(* less one probe's duration apart, whichever requests take them and       *)
(* whatever pruning forgets.  The full cooldown of README.md:41-42 would   *)
(* be too much: take records the time before the probe.                    *)
BeginsWalk(g) ==
  /\ At(g, "fallback") /\ frame[g].reason = "request"
  /\ frame'[g] # Idle /\ frame'[g].pc = "walk"

WalksAreSpaced ==
  [][\A g \in Goroutine : BeginsWalk(g) /\ walked[frame[g].server] # Idle =>
       clock >= walked[frame[g].server] + Cooldown - MaxLag]_vars

(* A request with no other goroutine at work replies with the copy that    *)
(* the reservoir holds when it replies (notary.go:206-208, "the best copy  *)
(* now held"), and with one no shorter-valid than it found unless the      *)
(* origin answered.                                                        *)
RepliesMatchReservoir ==
  [][\A p \in Proc : Replies(p) /\ HasKeys(reply'[p].record) =>
       LET r == reply'[p].record IN
       /\ [r EXCEPT !.updated = 0, !.failures = 0, !.next = 0] =
          [row'[frame[p].server] EXCEPT !.updated = 0, !.failures = 0, !.next = 0]
       /\ r.via # Direct /\ frame[p].held # NoRow => r.valid >= frame[p].held.valid]_vars

(* orm.go:145-147: the sweep's candidates "are exactly the servers         *)
(* currently being answered from a notary copy or from nothing at all": a  *)
(* notary's copy is on the sweep's schedule.                               *)
NotaryRowsAreSwept ==
  \A s \in Server : row[s] # NoRow /\ row[s].via # Direct => row[s].next > 0

(* Each step of a call brings its goroutine nearer to the end, though a    *)
(* walk calls queryRemoteKeys again for every notary: five steps for each  *)
(* notary that is left, three of them in the call for its keys             *)
(* (notaryFallback.go:106), and a few of the request's own.                *)
Rounds(l) == 5 * Len(l)

Before(f) == IF f.reason = "request" THEN Rounds(Notaries) + 2 ELSE 1

StepsLeft(f) ==
  CASE f.pc = "load" -> Before(f) + 2
    [] f.pc = "probe" -> Before(f) + 1
    [] f.pc = "fallback" -> Before(f)
    [] f.pc = "walk" -> Rounds(f.left) + 1
    [] f.pc = "ask" -> Rounds(f.left) - 3

OwnSteps(g) == IF frame[g] = Idle THEN 0 ELSE StepsLeft(frame[g])

(* A walk that waits for a notary's keys has still to ask that notary.     *)
CallersSteps(g) == IF caller[g] = Idle THEN 0 ELSE Rounds(caller[g].left) - 3

ToCome(g) == OwnSteps(g) + CallersSteps(g)

CallsWindDown ==
  [][\A g \in Goroutine :
       \/ frame[g] = Idle \/ UNCHANGED <<frame[g], caller[g]>>
       \/ ToCome(g)' \in 0..(ToCome(g) - 1)]_vars

(* What requests reply is never older than the request: over all servers,  *)
(* calls that load, probe, walk and store in any order keep the promise of *)
(* Holdings.  Of the calls that a request is in, its own and the one for a *)
(* notary's keys, the outer one is the request's; the copy in its hand is  *)
(* the walk's best, or else the one it read (notary.go:186-208).           *)
CopyOf(r) ==
  IF r = NoRow THEN NoRow ELSE [valid |-> r.valid, via |-> r.via, keys |-> r.keys]

Holds(s, r) == IF r = NoRow THEN Idle ELSE [server |-> s, copy |-> CopyOf(r)]

OwnCall(p) == IF caller[p] = Idle THEN frame[p] ELSE caller[p]

InHand(f, r) ==
  IF f # Idle THEN Holds(f.server, IF f.best = NoRow THEN f.held ELSE f.best)
  ELSE IF r # Idle /\ HasKeys(r.record) THEN Holds(r.server, r.record)
  ELSE Idle

copyBar == [s \in Server |-> CopyOf(row[s])]
handBar == [p \in Proc |-> InHand(OwnCall(p), reply[p])]

Holding == INSTANCE Holdings WITH
  copy <- copyBar, hand <- handBar, Unknown <- NoRow, None <- Idle,
  mishaps <- faults, MaxMishaps <- MaxFaults

(* NoRow and Idle name the absence of a copy.                              *)
ASSUME CopyAssumption ==
  /\ NoRow \notin Holding!Copy
  /\ Idle \notin [server : Server, copy : Holding!Copy]

KeepsHoldings == Holding!HSpec

(* An origin that has failed and from some time on answers every probe is  *)
(* found healthy again although nobody asks for it (originSweeper.go).     *)
SweepHeals ==
  \A s \in Server :
    row[s] # NoRow /\ row[s].next > 0 ~> row[s] # NoRow /\ row[s].next = 0

(* Every request is answered, through any number of failing notaries.      *)
Answered == \A p \in Proc : frame[p] # Idle ~> frame[p] = Idle

-----------------------------------------------------------------------------
(* Statements of the sources that do not hold.                             *)

(* notary.go:42-44: remoteKeyLifespanMs "is the maximum age of a cached    *)
(* record we will answer from without probing the origin".                 *)
FreshIsYoung ==
  [][\A p \in Proc : Replies(p) /\ reply'[p].outcome = "fresh" =>
       clock <= stored[frame[p].server] + Lifespan]_vars
=============================================================================
