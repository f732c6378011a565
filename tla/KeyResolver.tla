---------------------------- MODULE KeyResolver -----------------------------
(***************************************************************************)
(* queryRemoteKeys (src/keys/notary.go) as requests run it side by side,   *)
(* with the notary walk it falls back to (src/keys/notaryFallback.go), the *)
(* walk schedule (src/keys/notaryWalks.go) and the background sweep of     *)
(* origins that failed (src/keys/originSweeper.go).                        *)
(*                                                                         *)
(* A store that succeeds, a load and a failure note are each one step      *)
(* here; KeyStore takes them apart and KeyStoreRefinement justifies it:    *)
(* behind the lock a reader sees whole records.  A store that a database   *)
(* error or a restart cuts short is one step too, which leaves any row     *)
(* that its statements may leave.  What is kept of a record is what the    *)
(* decisions read: its times, its provenance and whether it has keys.      *)
(***************************************************************************)
EXTENDS OriginPolicy, WalkSchedule

CONSTANTS
  Proc,       \* request goroutines
  Sweeper,    \* the goroutine of StartOriginSweeper
  Server,     \* server names, the notaries' included
  Notaries,   \* TrustedNotaries
  Asked,      \* the servers that requests ask for
  Ahead,      \* how far past now a request's minimum_valid_until_ts lies
  Lifetimes,  \* how far past now an origin's valid_until_ts lies
  Offers,     \* the valid_until_ts of the copies notaries hold
  Batch,      \* originSweepBatch
  Direct,     \* obtained_via_notary = NULL
  Idle,       \* no frame
  MaxLag,     \* bound on the time from a load to the end of the probe
  FailUntil,  \* every probe that ends from this time on succeeds
  MaxTime,    \* bound on the clock
  MaxFaults   \* bound on failing statements, corruptions and restarts

Goroutine == Proc \cup {Sweeper}
Notary == {Notaries[i] : i \in DOMAIN Notaries}

ASSUME ResolverAssumption ==
  /\ Sweeper \notin Proc
  /\ IsFiniteSet(Server)
  /\ Notaries \in Seq(Server)
  /\ Asked \subseteq Server
  /\ Ahead \subseteq Int /\ Lifetimes \subseteq Int
  /\ Offers \subseteq Nat \ {0}
  /\ Direct \notin Server
  /\ {Batch, MaxLag, FailUntil, MaxTime, MaxFaults} \subseteq Nat

Row == [updated : Nat, valid : Nat, via : Server \cup {Direct},
        keys : BOOLEAN, failures : Nat, next : Nat]

(* A call of queryRemoteKeys in progress, or the sweeper's of probeOrigin: *)
(* its arguments and its local variables.  allowNotaryFallback is          *)
(* reason = "request".                                                     *)
Frame == [server : Server, reason : {"request", "notary", "sweep"},
          min : Nat, pc : {"load", "probe", "fallback", "walk", "ask"},
          now : Nat, held : Row \cup {NoRow}, probed : BOOLEAN,
          left : Seq(Server), best : Row \cup {NoRow}, offered : Nat]

Outcome == {"fresh", "origin", "notary", "held", "stale", "empty", "error"}
Reply == [server : Server, outcome : Outcome, record : Row \cup {NoRow}]

ASSUME NamesAssumption ==
  NoRow \notin Row /\ Idle \notin Frame \cup Reply \cup Nat

VARIABLES
  clock,   \* util.NowMillis()
  row,     \* remote_servers, with whether remote_keys has keys for the row
  last,    \* notaryWalks.last
  frame,   \* the innermost call each goroutine is in
  caller,  \* the call that waits for a notary's own keys
  reply,   \* what each request's queryRemoteKeys returned
  queue,   \* the candidates the sweep has still to visit
  faults,  \* faults so far
  stored,  \* history: when each record was last stored
  walked,  \* history: when the last walk for each server began
  torn     \* history: when a store of each record was last cut short

calls == <<frame, caller, reply>>
history == <<stored, walked, torn>>
vars == <<clock, row, last, calls, queue, faults, history>>

Init ==
  /\ clock = 1
  /\ row = [s \in Server |-> NoRow]
  /\ last = NoWalks
  /\ frame = [g \in Goroutine |-> Idle]
  /\ caller = [g \in Goroutine |-> Idle]
  /\ reply = [p \in Proc |-> Idle]
  /\ queue = <<>>
  /\ faults = 0
  /\ stored = [s \in Server |-> 0]
  /\ walked = [s \in Server |-> Idle]
  /\ torn = [s \in Server |-> 0]

-----------------------------------------------------------------------------

Call(s, reason, min) ==
  [server |-> s, reason |-> reason, min |-> min, pc |-> "load",
   now |-> 0, held |-> NoRow, probed |-> FALSE, left |-> <<>>,
   best |-> NoRow, offered |-> 0]

(* Mutant: the loop stays at the notary that failed.                       *)
OnwardStuck(f) == [f EXCEPT !.pc = "walk"]

(* The walk leaves the notary it was at, having learned nothing of it.     *)
Onward(f) == [f EXCEPT !.pc = "walk", !.left = Tail(@)]

(* queryOneNotary with the notary's own keys in hand: it asks only if      *)
(* there are any.                                                          *)
Anchored(f, r) ==
  IF HasKeys(r) THEN [f EXCEPT !.pc = "ask"] ELSE Onward(f)

(* The call returns r: to the walk that wanted a notary's keys, to the     *)
(* request, or to the sweep, which only counts it.                         *)
Return(g, outcome, r) ==
  /\ frame' = [frame EXCEPT ![g] = IF caller[g] = Idle THEN Idle
                                   ELSE Anchored(caller[g], r)]
  /\ caller' = [caller EXCEPT ![g] = Idle]
  /\ reply' = IF frame[g].reason = "request"
              THEN [reply EXCEPT ![g] = [server |-> frame[g].server,
                                         outcome |-> outcome, record |-> r]]
              ELSE reply

Continue(g, f) ==
  /\ frame' = [frame EXCEPT ![g] = f]
  /\ UNCHANGED <<caller, reply>>

At(g, pc) == frame[g] # Idle /\ frame[g].pc = pc

(* The times of day that lie so far from now, past ones included.          *)
FromNow(distances) == {clock + d : d \in distances} \cap Nat

(* A client asks for a server's keys.  QueryKeysSingle and QueryKeysBatch  *)
(* pass whatever minimum_valid_until_ts the client names, or else now or   *)
(* 0; VerifyAuthHeader passes 0.  A negative one accepts what 0 accepts.   *)
Request(p) ==
  /\ frame[p] = Idle
  /\ \E s \in Asked : \E min \in {0} \cup FromNow(Ahead) :
       frame' = [frame EXCEPT ![p] = Call(s, "request", min)]
  /\ reply' = [reply EXCEPT ![p] = Idle]
  /\ UNCHANGED <<clock, row, last, caller, queue, faults, history>>

(* loadHeld, then the two questions that need only the record and now.     *)
Load(p) ==
  /\ At(p, "load")
  /\ LET f == frame[p]
         r == row[f.server]
         due == ShouldProbe(r, clock)
     IN  IF IsFresh(r, f.min, clock)
         THEN Return(p, "fresh", r)
         ELSE Continue(p, [f EXCEPT !.now = clock, !.held = r, !.probed = due,
                                    !.pc = IF due THEN "probe" ELSE "fallback"])
  /\ UNCHANGED <<clock, row, last, queue, faults, history>>

(* The count a failed probe notes, from the record read before it.         *)
Failures(r) == IF r = NoRow THEN 1 ELSE r.failures + 1

(* storeRemoteKeys, which first writes the answer's fields beside whatever *)
(* schedule of origin probes the row has, and in the end has its keys.     *)
Upserted(r, via, valid) ==
  IF r = NoRow
  THEN [updated |-> clock, valid |-> valid, via |-> via, keys |-> FALSE,
        failures |-> 0, next |-> 0]
  ELSE [r EXCEPT !.updated = clock, !.valid = valid, !.via = via]

Replaced(r, via, valid) == [Upserted(r, via, valid) EXCEPT !.keys = TRUE]

(* An answer of the origin itself also clears the schedule                 *)
(* (ResetOriginProbe).                                                     *)
Fetched(valid) ==
  [updated |-> clock, valid |-> valid, via |-> Direct, keys |-> TRUE,
   failures |-> 0, next |-> 0]

(* The rows a store may leave once it has written the fields: with the     *)
(* keys of before, none, some of the answer's or all of them, the schedule *)
(* cleared or not yet.                                                     *)
CutRows(r, via, valid) ==
  LET u == Upserted(r, via, valid)
      cleared == IF via = Direct THEN {[u EXCEPT !.failures = 0, !.next = 0]}
                 ELSE {}
  IN  {[w EXCEPT !.keys = k] : w \in {u} \cup cleared, k \in BOOLEAN}

(* The origin's answer is verified and storeRemoteKeys(.., "") runs.       *)
(* Validate asks nothing of valid_until_ts: the answer may have expired.   *)
(* A ResetOriginProbe that fails is only logged.                           *)
OriginAnswers(g) ==
  /\ At(g, "probe")
  /\ LET s == frame[g].server
     IN  \E valid \in FromNow(Lifetimes) :
           /\ \/ row' = [row EXCEPT ![s] = Fetched(valid)] /\ UNCHANGED faults
              \/ /\ faults < MaxFaults /\ faults' = faults + 1
                 /\ row' = [row EXCEPT ![s] = Replaced(@, Direct, valid)]
           /\ stored' = [stored EXCEPT ![s] = clock]
           /\ Return(g, "origin", row'[s])
  /\ UNCHANGED <<clock, last, queue, walked, torn>>

(* Mutants: the insert leaves valid_until_ts NULL, or leaves              *)
(* next_origin_attempt_ts at its default.                                  *)
NotedNull(r, now, failures, next) ==
  IF r = NoRow
  THEN [updated |-> now, valid |-> NoRow, via |-> Direct, keys |-> FALSE,
        failures |-> failures, next |-> next]
  ELSE [r EXCEPT !.updated = now, !.failures = failures, !.next = next]

NotedUnscheduled(r, now, failures, next) ==
  IF r = NoRow
  THEN [updated |-> now, valid |-> 0, via |-> Direct, keys |-> FALSE,
        failures |-> failures, next |-> 0]
  ELSE [r EXCEPT !.updated = now, !.failures = failures, !.next = next]

(* NoteOriginFailure with the failure count that the load read.            *)
Noted(r, now, failures, next) ==
  IF r = NoRow
  THEN [updated |-> now, valid |-> 0, via |-> Direct, keys |-> FALSE,
        failures |-> failures, next |-> next]
  ELSE [r EXCEPT !.updated = now, !.failures = failures, !.next = next]

(* After probeOrigin's error: a request falls back, a sweep goes on.       *)
GiveUp(g) ==
  IF frame[g].reason = "sweep" THEN Return(g, "error", NoRow)
  ELSE Continue(g, [frame[g] EXCEPT !.pc = "fallback"])

(* The probe fails before its store has written anything.                  *)
OriginFails(g) ==
  /\ At(g, "probe") /\ clock < FailUntil
  /\ LET f == frame[g]
         n == Failures(f.held)
     IN  \E transient \in BOOLEAN :
           row' = [row EXCEPT ![f.server] =
                     Noted(@, f.now, n, f.now + OriginBackoff(n, transient))]
  /\ GiveUp(g)
  /\ UNCHANGED <<clock, last, queue, faults, history>>

(* A NoteOriginFailure that fails is only logged.                          *)
OriginFailsUnnoted(g) ==
  /\ At(g, "probe") /\ clock < FailUntil /\ faults < MaxFaults
  /\ faults' = faults + 1
  /\ GiveUp(g)
  /\ UNCHANGED <<clock, row, last, queue, history>>

-----------------------------------------------------------------------------

(* queryRemoteKeys past its fallbacks: best is the walk's result.          *)
EmptyRecord(f) ==
  [updated |-> f.now, valid |-> f.now, via |-> Direct, keys |-> FALSE,
   failures |-> 0, next |-> 0]

(* Mutant: all failed, and the copy held is forgotten.                     *)
ConcludeEmpty(g, best) ==
  LET f == frame[g]
      held == IF best = NoRow THEN f.held ELSE best
  IN  \/ HeldSatisfies(best, f.min) /\ Return(g, "notary", best)
      \/ /\ ~HeldSatisfies(best, f.min)
         /\ \/ ~f.probed /\ Return(g, "held", held)
            \/ f.probed /\ Return(g, "empty", EmptyRecord(f))

Conclude(g, best) ==
  LET f == frame[g]
      held == IF best = NoRow THEN f.held ELSE best
  IN  \/ HeldSatisfies(best, f.min) /\ Return(g, "notary", best)
      \/ /\ ~HeldSatisfies(best, f.min)
         /\ \/ ~f.probed /\ Return(g, "held", held)
            \/ f.probed /\ HasKeys(held) /\ Return(g, "stale", held)
            \/ /\ f.probed /\ ~HasKeys(held)
               /\ Return(g, "empty", EmptyRecord(f))

WantsWalk(f) == f.reason = "request" /\ ~HeldSatisfies(f.held, f.min)

NoWalk(g) ==
  /\ At(g, "fallback")
  /\ ~(WantsWalk(frame[g]) /\ MayWalk(last, frame[g].server, frame[g].now))
  /\ Conclude(g, NoRow)
  /\ UNCHANGED <<clock, row, last, queue, faults, history>>

(* notaryWalks.take succeeds.                                              *)
TakeWalk(g) ==
  /\ At(g, "fallback")
  /\ LET f == frame[g]
     IN  /\ WantsWalk(f) /\ MayWalk(last, f.server, f.now)
         /\ last' = Taken(last, f.server, f.now)
         /\ walked' = [walked EXCEPT ![f.server] = clock]
         /\ Continue(g, [f EXCEPT !.pc = "walk", !.left = Notaries])
  /\ UNCHANGED <<clock, row, queue, faults, stored, torn>>

(* A notary is not asked about itself.  parseNotaries has left this server *)
(* and duplicates out of the list.                                         *)
SkipItself(g) ==
  /\ At(g, "walk") /\ frame[g].left # <<>>
  /\ Head(frame[g].left) = frame[g].server
  /\ Continue(g, Onward(frame[g]))
  /\ UNCHANGED <<clock, row, last, queue, faults, history>>

(* queryOneNotary first resolves the notary's own keys, valid until now,   *)
(* with no fallback.                                                       *)
NextNotary(g) ==
  /\ At(g, "walk") /\ frame[g].left # <<>>
  /\ Head(frame[g].left) # frame[g].server
  /\ caller' = [caller EXCEPT ![g] = frame[g]]
  /\ frame' = [frame EXCEPT ![g] = Call(Head(frame[g].left), "notary", clock)]
  /\ UNCHANGED <<clock, row, last, reply, queue, faults, history>>

(* Mutant: the upsert also clears the schedule of origin probes.           *)
UpgradedResets(r, notary, valid) ==
  IF r # NoRow /\ valid <= r.valid THEN r
  ELSE [Replaced(r, notary, valid) EXCEPT !.failures = 0, !.next = 0]

(* Mutant: every answer replaces the stored one.                           *)
UpgradedAlways(r, notary, valid) == Replaced(r, notary, valid)

(* storeRemoteKeys(.., notary): the record now held.  Only a copy valid    *)
(* for longer than the stored one replaces it, and it leaves the schedule  *)
(* of origin probes alone.                                                 *)
Upgraded(r, notary, valid) ==
  IF r # NoRow /\ valid <= r.valid THEN r ELSE Replaced(r, notary, valid)

(* Mutant: the first answer stays the best.                                *)
BetterFirst(best, r) == IF best = NoRow THEN r ELSE best

(* walkNotaries on an answer: the longest-valid one is kept, and one that  *)
(* satisfies the request ends the walk.                                    *)
Better(best, r) == IF best = NoRow \/ r.valid > best.valid THEN r ELSE best

(* Mutant: only an answer that satisfies the request is kept.              *)
HeardSatisfying(f, r) ==
  IF HeldSatisfies(r, f.min)
  THEN [f EXCEPT !.pc = "walk", !.left = <<>>, !.best = r]
  ELSE Onward(f)

Heard(f, r) ==
  IF HeldSatisfies(r, f.min)
  THEN [f EXCEPT !.pc = "walk", !.left = <<>>, !.best = r]
  ELSE [Onward(f) EXCEPT !.best = Better(@, r)]

(* A rule whose SELECT fails is skipped: the answer replaces whatever is   *)
(* held (notary.go:408).                                                   *)
NotaryStores(s, notary, valid) ==
  \/ row' = [row EXCEPT ![s] = Upgraded(@, notary, valid)] /\ UNCHANGED faults
  \/ /\ faults < MaxFaults /\ faults' = faults + 1
     /\ row' = [row EXCEPT ![s] = Replaced(@, notary, valid)]

NotaryAnswers(g) ==
  /\ At(g, "ask")
  /\ LET f == frame[g]
         s == f.server
     IN  \E valid \in Offers :
           /\ NotaryStores(s, Head(f.left), valid)
           /\ stored' = IF row'[s] = row[s] THEN stored
                        ELSE [stored EXCEPT ![s] = clock]
           /\ Continue(g, [Heard(f, row'[s]) EXCEPT
                             !.offered = IF valid > @ THEN valid ELSE @])
  /\ UNCHANGED <<clock, last, queue, walked, torn>>

(* Any error of queryOneNotary once it has the notary's keys, up to the    *)
(* first write of its store.                                               *)
NotaryFails(g) ==
  /\ At(g, "ask")
  /\ Continue(g, Onward(frame[g]))
  /\ UNCHANGED <<clock, row, last, queue, faults, history>>

WalkEnds(g) ==
  /\ At(g, "walk") /\ frame[g].left = <<>>
  /\ Conclude(g, frame[g].best)
  /\ UNCHANGED <<clock, row, last, queue, faults, history>>

-----------------------------------------------------------------------------

(* Mutant: only servers without keys are due.                              *)
DueKeyless == {s \in Server : row[s] # NoRow /\ ~row[s].keys
                             /\ row[s].next > 0 /\ row[s].next <= clock}

(* sweepOriginsOnce: the due servers, oldest due first, at most Batch.     *)
Due == {s \in Server : row[s] # NoRow /\ row[s].next > 0 /\ row[s].next <= clock}

Listings(due) ==
  LET size == IF Cardinality(due) < Batch THEN Cardinality(due) ELSE Batch
  IN  {q \in [1..size -> due] :
         /\ \A i, j \in 1..size : i < j => /\ q[i] # q[j]
                                         /\ row[q[i]].next <= row[q[j]].next
         /\ \A s \in due : (\A i \in 1..size : q[i] # s) =>
              \A i \in 1..size : row[q[i]].next <= row[s].next}

ListDue ==
  /\ frame[Sweeper] = Idle /\ queue = <<>>
  /\ queue' \in Listings(Due)
  /\ queue' # <<>>
  /\ UNCHANGED <<clock, row, last, calls, faults, history>>

(* One turn of the sweep's loop, up to the probe.                          *)
Visit ==
  /\ frame[Sweeper] = Idle /\ queue # <<>>
  /\ queue' = Tail(queue)
  /\ LET s == Head(queue)
         r == row[s]
     IN  \/ /\ ShouldProbe(r, clock)
            /\ Continue(Sweeper, [Call(s, "sweep", 0) EXCEPT
                                    !.pc = "probe", !.now = clock,
                                    !.held = r, !.probed = TRUE])
         \/ ~ShouldProbe(r, clock) /\ UNCHANGED calls
  /\ UNCHANGED <<clock, row, last, faults, history>>

-----------------------------------------------------------------------------
(* Faults.                                                                 *)

OriginCut(f) ==
  UNION {CutRows(row[f.server], Direct, valid) : valid \in FromNow(Lifetimes)}

NotaryCut(f) ==
  UNION {CutRows(row[f.server], Head(f.left), valid) : valid \in Offers}

(* A statement of an origin's store fails after the upsert.  The error is  *)
(* a failed probe like any other, and never a transient one; its note may  *)
(* fail with it.  An answer that repeats a key stops its store in the same *)
(* way (KeyStore), so it counts as a fault.                                *)
OriginStoreFails(g) ==
  /\ At(g, "probe") /\ clock < FailUntil /\ faults < MaxFaults
  /\ LET f == frame[g]
         s == f.server
         n == Failures(f.held)
     IN  /\ \E r \in OriginCut(f) :
              row' \in {[row EXCEPT ![s] = r],
                        [row EXCEPT ![s] =
                           Noted(r, f.now, n, f.now + OriginBackoff(n, FALSE))]}
         /\ torn' = [torn EXCEPT ![s] = clock]
  /\ GiveUp(g)
  /\ faults' = faults + 1
  /\ UNCHANGED <<clock, last, queue, stored, walked>>

(* The same of a notary's store, whose error the walk passes over.         *)
NotaryStoreFails(g) ==
  /\ At(g, "ask") /\ faults < MaxFaults
  /\ LET f == frame[g]
         s == f.server
     IN  /\ \E r \in NotaryCut(f) : row' = [row EXCEPT ![s] = r]
         /\ torn' = [torn EXCEPT ![s] = clock]
         /\ Continue(g, Onward(f))
  /\ faults' = faults + 1
  /\ UNCHANGED <<clock, last, queue, stored, walked>>

VisitFails ==
  /\ frame[Sweeper] = Idle /\ queue # <<>> /\ faults < MaxFaults
  /\ queue' = Tail(queue)
  /\ faults' = faults + 1
  /\ UNCHANGED <<clock, row, last, calls, history>>

LoadFails(p) ==
  /\ At(p, "load") /\ faults < MaxFaults
  /\ faults' = faults + 1
  /\ Return(p, "error", NoRow)
  /\ UNCHANGED <<clock, row, last, queue, history>>

(* The reply's keys and signatures do not verify together, so              *)
(* findAndPrepareKeys calls InvalidateHeld.  KeyStore shows how that comes *)
(* about.                                                                  *)
Invalidate(p) ==
  /\ faults < MaxFaults
  /\ reply[p] # Idle /\ HasKeys(reply[p].record)
  /\ LET s == reply[p].server
     IN  /\ row[s] # NoRow
         /\ row' = [row EXCEPT ![s].valid = 0, ![s].updated = 0]
  /\ reply' = [reply EXCEPT ![p] = Idle]
  /\ faults' = faults + 1
  /\ UNCHANGED <<clock, last, frame, caller, queue, history>>

(* The rows that a crash may leave of a server: the one there is, or what  *)
(* one of the stores that goroutines are in leaves when it is cut short.   *)
Remains(s) ==
  LET at(pc) == {g \in Goroutine : At(g, pc) /\ frame[g].server = s}
  IN  {row[s]} \cup (UNION {OriginCut(frame[g]) : g \in at("probe")})
               \cup (UNION {NotaryCut(frame[g]) : g \in at("ask")})

Restart ==
  /\ faults < MaxFaults
  /\ faults' = faults + 1
  /\ last' = NoWalks
  /\ frame' = [g \in Goroutine |-> Idle]
  /\ caller' = [g \in Goroutine |-> Idle]
  /\ reply' = [p \in Proc |-> Idle]
  /\ queue' = <<>>
  /\ walked' = [s \in Server |-> Idle]
  /\ row' \in {r \in [Server -> UNION {Remains(s) : s \in Server}] :
               \A s \in Server : r[s] \in Remains(s)}
  /\ torn' = [s \in Server |-> IF row'[s] = row[s] THEN torn[s] ELSE clock]
  /\ UNCHANGED <<clock, stored>>

(* Discovery, connection and answer all have timeouts, so the time between *)
(* a load and what follows its probe is bounded.                           *)
Tick ==
  /\ clock < MaxTime
  /\ \A g \in Goroutine : At(g, "probe") \/ At(g, "fallback") =>
       clock - frame[g].now < MaxLag
  /\ clock' = clock + 1
  /\ UNCHANGED <<row, last, calls, queue, faults, history>>

Step(g) ==
  \/ OriginAnswers(g) \/ OriginFails(g)
  \/ NoWalk(g) \/ TakeWalk(g) \/ SkipItself(g) \/ NextNotary(g)
  \/ NotaryAnswers(g) \/ NotaryFails(g) \/ WalkEnds(g)

Next ==
  \/ \E p \in Proc : Request(p) \/ Load(p) \/ LoadFails(p) \/ Invalidate(p)
  \/ \E g \in Goroutine : \/ Step(g) \/ OriginFailsUnnoted(g)
                          \/ OriginStoreFails(g) \/ NotaryStoreFails(g)
  \/ ListDue \/ Visit \/ VisitFails \/ Restart \/ Tick

Spec == Init /\ [][Next]_vars

(* Goroutines run, every network call ends by its timeout, the sweep ticks *)
(* and time passes.  Nobody has to ask for anything.                       *)
Fairness ==
  /\ \A p \in Proc : WF_vars(Load(p) \/ Step(p))
  /\ WF_vars(ListDue \/ Visit \/ Step(Sweeper))
  /\ WF_vars(Tick)

FairSpec == Spec /\ Fairness
=============================================================================
