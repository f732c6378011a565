------------------------- MODULE KeyResolverProofs --------------------------
(***************************************************************************)
(* Proofs about KeyResolver, for every set of goroutines and servers, every*)
(* list of notaries, ladder and cooldown, and any number of faults.        *)
(***************************************************************************)
EXTENDS KeyResolverProps, FiniteSetTheorems, SequenceTheorems, TLAPS

USE PolicyAssumption, ScheduleAssumption, ResolverAssumption, NamesAssumption

(* A standoff lasts at least one unit and at most the ladder's top rung,   *)
(* whatever the failure count.                                             *)
LEMMA BackoffBounds ==
  ASSUME NEW n \in Nat, NEW transient \in BOOLEAN
  PROVE  /\ OriginBackoff(n, transient) \in Nat \ {0}
         /\ TopRung \in Nat
         /\ OriginBackoff(n, transient) <= TopRung
<1>1. Len(Ladder) \in Nat \ {0} /\ DOMAIN Ladder = 1..Len(Ladder)
  OBVIOUS
<1>2. \A i \in 1..Len(Ladder) : /\ Ladder[i] \in Nat \ {0}
                                /\ Ladder[i] <= Ladder[Len(Ladder)]
  BY <1>1
<1>3. Ladder[1] \in Nat \ {0} /\ Ladder[1] <= TopRung /\ TopRung \in Nat \ {0}
  BY <1>1, <1>2 DEF TopRung
<1>4. CASE transient /\ n <= TransientLimit
  BY <1>3, <1>4 DEF OriginBackoff
<1>5. CASE ~(transient /\ n <= TransientLimit) /\ n < 1
  BY <1>3, <1>5 DEF OriginBackoff
<1>6. CASE ~(transient /\ n <= TransientLimit) /\ n > Len(Ladder)
  BY <1>1, <1>3, <1>6 DEF OriginBackoff
<1>7. CASE ~(transient /\ n <= TransientLimit) /\ n \in 1..Len(Ladder)
  BY <1>1, <1>2, <1>3, <1>7 DEF OriginBackoff, TopRung
<1> QED
  BY <1>1, <1>4, <1>5, <1>6, <1>7

(* What the stores, the failure notes and the concluding reply write are   *)
(* records.                                                                *)
LEMMA FetchedType ==
  ASSUME clock \in Nat, NEW valid \in Nat
  PROVE  Fetched(valid) \in Row
BY DEF Fetched, Row

(* A store touches the schedule only to clear it.                          *)
SameOrNoSchedule(c, r) ==
  \/ c.failures = 0 /\ c.next = 0
  \/ r # NoRow /\ c.failures = r.failures /\ c.next = r.next

LEMMA ReplacedType ==
  ASSUME clock \in Nat, NEW r \in Row \cup {NoRow},
         NEW via \in Server \cup {Direct}, NEW valid \in Nat
  PROVE  LET c == Replaced(r, via, valid)
         IN  /\ c \in Row /\ c.updated = clock /\ c.valid = valid /\ c.via = via
             /\ c.keys /\ SameOrNoSchedule(c, r)
             /\ r # NoRow => c.failures = r.failures /\ c.next = r.next
<1>0. PICK c : c = Replaced(r, via, valid)
  OBVIOUS
<1>1. PICK u : u = Upserted(r, via, valid)
  OBVIOUS
<1>2. /\ u \in Row /\ u.updated = clock /\ u.valid = valid /\ u.via = via
      /\ r = NoRow => u.failures = 0 /\ u.next = 0
      /\ r # NoRow => u.failures = r.failures /\ u.next = r.next
  BY <1>1 DEF Upserted, Row
<1>3. c = [u EXCEPT !.keys = TRUE]
  BY <1>0, <1>1 DEF Replaced
<1>4. c \in Row /\ c.keys /\ c.updated = u.updated /\ c.valid = u.valid
      /\ c.via = u.via /\ c.failures = u.failures /\ c.next = u.next
  BY <1>2, <1>3 DEF Row
<1>5. SameOrNoSchedule(c, r)
  BY <1>2, <1>4 DEF SameOrNoSchedule
<1> QED
  BY <1>0, <1>2, <1>4, <1>5

LEMMA CutType ==
  ASSUME clock \in Nat, NEW r \in Row \cup {NoRow},
         NEW via \in Server \cup {Direct}, NEW valid \in Nat,
         NEW c \in CutRows(r, via, valid)
  PROVE  /\ c \in Row /\ c.valid = valid /\ c.via = via
         /\ SameOrNoSchedule(c, r)
         /\ via # Direct /\ r # NoRow => c.next = r.next
<1>1. PICK u : u = Upserted(r, via, valid)
  OBVIOUS
<1>2. PICK v : v = [u EXCEPT !.failures = 0, !.next = 0]
  OBVIOUS
<1>3. /\ u \in Row /\ u.valid = valid /\ u.via = via
      /\ r = NoRow => u.failures = 0 /\ u.next = 0
      /\ r # NoRow => u.failures = r.failures /\ u.next = r.next
  BY <1>1 DEF Upserted, Row
<1>4. v \in Row /\ v.valid = valid /\ v.via = via /\ v.failures = 0 /\ v.next = 0
  BY <1>2, <1>3 DEF Row
<1>5. PICK w \in {u, v}, k \in BOOLEAN :
        c = [w EXCEPT !.keys = k] /\ (via # Direct => w = u)
  <2>1. CutRows(r, via, valid) =
          {[w EXCEPT !.keys = k] :
             w \in {u} \cup IF via = Direct THEN {v} ELSE {}, k \in BOOLEAN}
    BY <1>1, <1>2 DEF CutRows
  <2> QED
    BY <2>1
<1>6. /\ w \in Row /\ w.valid = valid /\ w.via = via
      /\ SameOrNoSchedule(w, r)
  BY <1>3, <1>4, <1>5 DEF SameOrNoSchedule
<1>8. via # Direct /\ r # NoRow => w.next = r.next
  BY <1>3, <1>5
<1>7. c \in Row /\ c.valid = w.valid /\ c.via = w.via
      /\ c.failures = w.failures /\ c.next = w.next
  BY <1>5, <1>6 DEF Row
<1> QED
  BY <1>6, <1>7, <1>8 DEF SameOrNoSchedule

LEMMA NotedType ==
  ASSUME NEW r \in Row \cup {NoRow}, NEW now \in Nat, NEW n \in Nat,
         NEW next \in Nat
  PROVE  Noted(r, now, n, next) \in Row
BY DEF Noted, Row

LEMMA UpgradedType ==
  ASSUME clock \in Nat, NEW r \in Row \cup {NoRow}, NEW notary \in Server,
         NEW valid \in Offers
  PROVE  Upgraded(r, notary, valid) \in Row
BY ReplacedType DEF Upgraded

LEMMA FailuresType ==
  ASSUME NEW r \in Row \cup {NoRow}
  PROVE  Failures(r) \in Nat \ {0}
<1> HIDE PolicyAssumption, ScheduleAssumption, ResolverAssumption, NamesAssumption
<1>1. r # NoRow => r.failures \in Nat
  BY DEF Row
<1> QED
  BY <1>1 DEF Failures

LEMMA EmptyType ==
  ASSUME NEW f \in Frame
  PROVE  EmptyRecord(f) \in Row
BY DEF EmptyRecord, Row, Frame

LEMMA CallType ==
  ASSUME NEW s \in Server, NEW reason \in {"request", "notary", "sweep"},
         NEW min \in Nat
  PROVE  Call(s, reason, min) \in Frame
BY DEF Call, Frame

(* A listing is a sequence of due servers.                                 *)
LEMMA ListingType ==
  ASSUME TypeOK, NEW q \in Listings(Due)
  PROVE  q \in Seq(Server)
<1>1. Due \subseteq Server /\ IsFiniteSet(Due)
  BY FS_Subset DEF Due
<1>2. Cardinality(Due) \in Nat
  BY <1>1, FS_CardinalityType
<1>3. PICK size \in Nat : q \in [1..size -> Due]
  BY <1>2 DEF Listings
<1> QED
  BY <1>1, <1>3
-----------------------------------------------------------------------------
(* A call that asks a notary, or waits for a notary's keys, is at one.     *)
WalkingInv ==
  \A g \in Goroutine : /\ At(g, "ask") => frame[g].left # <<>>
                       /\ caller[g] # Idle => caller[g].left # <<>>

TInv == TypeOK /\ WalkingInv

CallsOK ==
  /\ frame \in [Goroutine -> Frame \cup {Idle}]
  /\ caller \in [Goroutine -> Frame \cup {Idle}]
  /\ reply \in [Proc -> Reply \cup {Idle}]
  /\ WalkingInv

(* A call that turns to the notaries, and one whose walk begins.           *)
LEMMA FallbackType ==
  ASSUME NEW f \in Frame
  PROVE  /\ [f EXCEPT !.pc = "fallback"] \in Frame
         /\ [f EXCEPT !.pc = "fallback"].now = f.now
         /\ [f EXCEPT !.pc = "fallback"].reason = f.reason
BY DEF Frame

LEMMA WalkType ==
  ASSUME NEW f \in Frame
  PROVE  /\ [f EXCEPT !.pc = "walk", !.left = Notaries] \in Frame
         /\ [f EXCEPT !.pc = "walk", !.left = Notaries].pc = "walk"
         /\ [f EXCEPT !.pc = "walk", !.left = Notaries].now = f.now
         /\ [f EXCEPT !.pc = "walk", !.left = Notaries].reason = f.reason
<1>1. Notaries \in Seq(Server)
  BY ResolverAssumption
<1> QED
  BY <1>1 DEF Frame

LEMMA OnwardType ==
  ASSUME NEW f \in Frame, f.left # <<>>
  PROVE  Onward(f) \in Frame /\ Onward(f).pc = "walk"
<1>1. Tail(f.left) \in Seq(Server)
  BY HeadTailProperties DEF Frame
<1> QED
  BY <1>1 DEF Onward, Frame

LEMMA ReturnType ==
  ASSUME TInv, NEW g \in Goroutine, frame[g] # Idle,
         NEW outcome \in Outcome, NEW r \in Row \cup {NoRow},
         Return(g, outcome, r)
  PROVE  CallsOK'
<1>1. caller[g] # Idle => /\ Anchored(caller[g], r) \in Frame
                          /\ Anchored(caller[g], r).pc = "ask" =>
                               Anchored(caller[g], r).left # <<>>
  <2> SUFFICES ASSUME caller[g] # Idle
               PROVE /\ Anchored(caller[g], r) \in Frame
                     /\ Anchored(caller[g], r).pc = "ask" =>
                          Anchored(caller[g], r).left # <<>>
    OBVIOUS
  <2>1. caller[g] \in Frame /\ caller[g].left # <<>>
    BY DEF TInv, TypeOK, WalkingInv
  <2>2. CASE HasKeys(r)
    BY <2>1, <2>2 DEF Anchored, Frame
  <2>3. CASE ~HasKeys(r)
    BY <2>1, <2>3, OnwardType DEF Anchored
  <2> QED
    BY <2>2, <2>3
<1>2. frame' \in [Goroutine -> Frame \cup {Idle}]
  BY <1>1 DEF Return, TInv, TypeOK
<1>3. caller' \in [Goroutine -> Frame \cup {Idle}]
  BY DEF Return, TInv, TypeOK
<1>4. reply' \in [Proc -> Reply \cup {Idle}]
  <2>1. frame[g] \in Frame
    BY DEF TInv, TypeOK
  <2>2. [server |-> frame[g].server, outcome |-> outcome, record |-> r] \in Reply
    BY <2>1 DEF Frame, Reply
  <2> QED
    BY <2>2 DEF Return, TInv, TypeOK
<1>5. WalkingInv'
  BY <1>1 DEF Return, TInv, TypeOK, WalkingInv, At
<1> QED
  BY <1>2, <1>3, <1>4, <1>5 DEF CallsOK

LEMMA ContinueType ==
  ASSUME TInv, NEW g \in Goroutine, NEW f \in Frame,
         f.pc = "ask" => f.left # <<>>, Continue(g, f)
  PROVE  CallsOK'
BY DEF Continue, TInv, TypeOK, CallsOK, WalkingInv, At

LEMMA ConcludeType ==
  ASSUME TInv, NEW g \in Goroutine, frame[g] # Idle,
         NEW best \in Row \cup {NoRow}, Conclude(g, best)
  PROVE  CallsOK'
<1>1. frame[g] \in Frame
  BY DEF TInv, TypeOK
<1>2. frame[g].held \in Row \cup {NoRow} /\ EmptyRecord(frame[g]) \in Row
  BY <1>1, EmptyType DEF Frame
<1>3. PICK outcome \in Outcome, r \in Row \cup {NoRow} : Return(g, outcome, r)
  BY <1>2 DEF Conclude, Outcome
<1> QED
  BY <1>3, ReturnType

LEMMA GiveUpType ==
  ASSUME TInv, NEW g \in Goroutine, At(g, "probe"), GiveUp(g)
  PROVE  CallsOK'
<1>1. frame[g] \in Frame /\ frame[g] # Idle
  BY DEF TInv, TypeOK, At
<1>2. CASE frame[g].reason = "sweep"
  BY <1>1, <1>2, ReturnType DEF GiveUp, Outcome
<1>3. CASE frame[g].reason # "sweep"
  BY <1>1, <1>3, ContinueType DEF GiveUp, Frame
<1> QED
  BY <1>2, <1>3

LEMMA HeardType ==
  ASSUME NEW f \in Frame, f.left # <<>>, NEW r \in Row, NEW offered \in Nat
  PROVE  /\ [Heard(f, r) EXCEPT !.offered = offered] \in Frame
         /\ [Heard(f, r) EXCEPT !.offered = offered].pc = "walk"
<1>1. Better(f.best, r) \in Row
  BY DEF Better, Frame
<1>2. CASE HeldSatisfies(r, f.min)
  <2>1. Heard(f, r) = [f EXCEPT !.pc = "walk", !.left = <<>>, !.best = r]
    BY <1>2 DEF Heard
  <2>2. <<>> \in Seq(Server)
    OBVIOUS
  <2>3. Heard(f, r) \in Frame /\ Heard(f, r).pc = "walk"
    BY <2>1, <2>2 DEF Frame
  <2> QED
    BY <2>3 DEF Frame
<1>3. CASE ~HeldSatisfies(r, f.min)
  <2>1. Onward(f) \in Frame /\ Onward(f).pc = "walk" /\ Onward(f).best = f.best
    BY OnwardType DEF Onward, Frame
  <2> QED
    BY <1>1, <1>3, <2>1 DEF Heard, Frame
<1> QED
  BY <1>2, <1>3

LEMMA TakenType ==
  ASSUME DOMAIN last \subseteq Server, \A s \in DOMAIN last : last[s] \in Nat,
         NEW s \in Server, NEW now \in Nat
  PROVE  /\ DOMAIN Taken(last, s, now) \subseteq Server
         /\ \A x \in DOMAIN Taken(last, s, now) : Taken(last, s, now)[x] \in Nat
BY DEF Taken, Kept

-----------------------------------------------------------------------------

(* A fault takes one from the faults that are left.                        *)
LEMMA FaultCounts ==
  ASSUME TypeOK, faults < MaxFaults, faults' = faults + 1
  PROVE  faults' \in 0..MaxFaults
<1>1. faults \in 0..MaxFaults
  BY DEF TypeOK
<1> QED
  BY <1>1, ResolverAssumption

(* What a store and a store that is cut short do to the rows.              *)
LEMMA NotaryStoresRow ==
  ASSUME TypeOK, NEW s \in Server, NEW n \in Server, NEW valid \in Offers,
         NotaryStores(s, n, valid)
  PROVE  \E r \in Row :
           /\ row' = [row EXCEPT ![s] = r] /\ faults' \in 0..MaxFaults
           /\ r.valid >= valid
           /\ \/ r = row[s]
              \/ /\ r = Replaced(row[s], n, valid)
                 /\ r.keys /\ r.valid = valid /\ r.via = n
                 /\ SameOrNoSchedule(r, row[s])
           /\ UNCHANGED faults => r = Upgraded(row[s], n, valid)
<1>1. /\ row[s] \in Row \cup {NoRow} /\ clock \in Nat /\ valid \in Nat
      /\ faults \in 0..MaxFaults
  BY DEF TypeOK
<1>2. PICK r : r = Replaced(row[s], n, valid)
  OBVIOUS
<1>3. /\ r \in Row /\ r.keys /\ r.valid = valid /\ r.via = n
      /\ SameOrNoSchedule(r, row[s])
  <2>1. n \in Server \cup {Direct}
    OBVIOUS
  <2> HIDE PolicyAssumption, ScheduleAssumption, ResolverAssumption, NamesAssumption
  <2> QED
    BY <1>1, <1>2, <2>1, ReplacedType
<1>4. CASE /\ row' = [row EXCEPT ![s] = Upgraded(row[s], n, valid)]
           /\ UNCHANGED faults
  <2>1. PICK u : u = Upgraded(row[s], n, valid)
    OBVIOUS
  <2>2. u = r \/ (u = row[s] /\ row[s] # NoRow /\ valid <= row[s].valid)
    BY <1>2, <2>1 DEF Upgraded
  <2>3. u \in Row
    BY <1>1, <1>3, <2>2
  <2>4. row' = [row EXCEPT ![s] = u] /\ faults' \in 0..MaxFaults
    BY <1>1, <1>4, <2>1
  <2>5. \/ u = row[s]
        \/ /\ u = Replaced(row[s], n, valid)
           /\ u.keys /\ u.valid = valid /\ u.via = n
           /\ SameOrNoSchedule(u, row[s])
    BY <1>2, <1>3, <2>2
  <2>6. u.valid >= valid
    <3>1. CASE u = r
      BY <1>1, <1>3, <3>1
    <3>2. CASE u = row[s] /\ valid <= row[s].valid
      BY <1>1, <2>3, <3>2 DEF Row
    <3> QED
      BY <2>2, <3>1, <3>2
  <2> WITNESS u \in Row
  <2> QED
    BY <2>1, <2>4, <2>5, <2>6
<1>5. CASE /\ faults < MaxFaults /\ faults' = faults + 1
           /\ row' = [row EXCEPT ![s] = Replaced(row[s], n, valid)]
  <2>1. faults' \in 0..MaxFaults
    BY <1>5, FaultCounts
  <2>2. faults' # faults
    BY <1>1, <1>5
  <2>3. r.valid >= valid
    BY <1>1, <1>3
  <2>4. row' = [row EXCEPT ![s] = r]
    BY <1>2, <1>5
  <2> HIDE PolicyAssumption, ScheduleAssumption, ResolverAssumption, NamesAssumption
  <2> QED
    BY <1>2, <1>3, <2>1, <2>2, <2>3, <2>4
<1> QED
  BY <1>4, <1>5 DEF NotaryStores

LEMMA OriginCutRow ==
  ASSUME TypeOK, NEW f \in Frame, NEW r \in OriginCut(f)
  PROVE  r \in Row /\ r.via = Direct /\ SameOrNoSchedule(r, row[f.server])
<1>1. PICK valid \in FromNow(Lifetimes) : r \in CutRows(row[f.server], Direct, valid)
  BY DEF OriginCut
<1>2. valid \in Nat /\ row[f.server] \in Row \cup {NoRow} /\ clock \in Nat
  BY DEF FromNow, TypeOK, Frame
<1>3. PICK old, via : /\ old = row[f.server] /\ old \in Row \cup {NoRow}
                      /\ via = Direct /\ via \in Server \cup {Direct}
  BY <1>2
<1>4. r \in CutRows(old, via, valid)
  BY <1>1, <1>3
<1>5. r \in Row /\ r.via = via /\ SameOrNoSchedule(r, old)
  <2> HIDE PolicyAssumption, ScheduleAssumption, ResolverAssumption, NamesAssumption
  <2> QED
    BY <1>2, <1>3, <1>4, CutType
<1> QED
  BY <1>3, <1>5

LEMMA NotaryCutRow ==
  ASSUME TypeOK, NEW f \in Frame, f.left # <<>>, NEW r \in NotaryCut(f)
  PROVE  /\ r \in Row /\ r.via \in Server /\ SameOrNoSchedule(r, row[f.server])
         /\ row[f.server] # NoRow => r.next = row[f.server].next
<1>1. PICK valid \in Offers : r \in CutRows(row[f.server], Head(f.left), valid)
  BY DEF NotaryCut
<1>2. valid \in Nat /\ row[f.server] \in Row \cup {NoRow} /\ clock \in Nat
  BY DEF TypeOK, Frame
<1>3. Head(f.left) \in Server /\ Head(f.left) # Direct
  BY HeadTailProperties DEF Frame
<1>4. PICK n : n = Head(f.left) /\ n \in Server \cup {Direct} /\ n # Direct
  BY <1>3
<1>5. PICK old : old = row[f.server] /\ old \in Row \cup {NoRow}
  BY <1>2
<1>6. r \in CutRows(old, n, valid)
  BY <1>1, <1>4, <1>5
<1>7. /\ r \in Row /\ r.via = n /\ SameOrNoSchedule(r, old)
      /\ old # NoRow => r.next = old.next
  <2> HIDE PolicyAssumption, ScheduleAssumption, ResolverAssumption, NamesAssumption
  <2> QED
    BY <1>2, <1>4, <1>5, <1>6, CutType
<1> QED
  BY <1>3, <1>4, <1>5, <1>7

(* The failed probe's note lies over what its store left.                  *)
LEMMA OriginStoreFailsRow ==
  ASSUME TInv, NEW g \in Goroutine, OriginStoreFails(g)
  PROVE  LET f == frame[g]
             n == Failures(f.held)
         IN  \E r \in Row :
               /\ row' = [row EXCEPT ![f.server] = r] /\ r.via = Direct
               /\ \/ SameOrNoSchedule(r, row[f.server])
                  \/ /\ r.failures = n
                     /\ r.next = f.now + OriginBackoff(n, FALSE)
<1> DEFINE f == frame[g]
           n == Failures(f.held)
           next == f.now + OriginBackoff(n, FALSE)
<1>1. f \in Frame /\ f.now \in Nat /\ f.held \in Row \cup {NoRow}
  BY DEF OriginStoreFails, At, TInv, TypeOK, Frame
<1>2. n \in Nat
  BY <1>1, FailuresType
<1>3. next \in Nat
  <2>1. PICK backoff \in Nat : backoff = OriginBackoff(n, FALSE)
    <3> HIDE DEF n
    <3>1. OriginBackoff(n, FALSE) \in Nat
      BY <1>2, BackoffBounds
    <3> QED
      BY <3>1
  <2>2. f.now + backoff \in Nat
    <3> HIDE DEF f
    <3> HIDE PolicyAssumption, ScheduleAssumption, ResolverAssumption, NamesAssumption
    <3> QED
      BY <1>1
  <2> QED
    BY <2>1, <2>2, Zenon
<1>4. PICK r \in OriginCut(f) :
        row' \in {[row EXCEPT ![f.server] = r],
                  [row EXCEPT ![f.server] = Noted(r, f.now, n, next)]}
  BY DEF OriginStoreFails
<1>5. r \in Row /\ r.via = Direct /\ SameOrNoSchedule(r, row[f.server])
  BY <1>1, OriginCutRow DEF TInv
<1>6. PICK w : w = Noted(r, f.now, n, next)
  OBVIOUS
<1>7. w \in Row /\ w.via = Direct /\ w.failures = n /\ w.next = next
  <2> HIDE DEF f, n, next
  <2>1. f.now \in Nat /\ r # NoRow
    BY <1>1, <1>5
  <2> QED
    BY <1>2, <1>3, <1>5, <1>6, <2>1 DEF Noted, Row
<1> HIDE DEF f, n, next
<1>8. \E c \in Row :
        /\ row' = [row EXCEPT ![f.server] = c] /\ c.via = Direct
        /\ \/ SameOrNoSchedule(c, row[f.server])
           \/ c.failures = n /\ c.next = next
  <2>1. CASE row' = [row EXCEPT ![f.server] = r]
    BY <1>5, <2>1
  <2>2. CASE row' = [row EXCEPT ![f.server] = w]
    BY <1>7, <2>2
  <2> QED
    BY <1>4, <1>6, <2>1, <2>2
<1> QED
  BY <1>8 DEF f, n, next

LEMMA NotaryStoreFailsRow ==
  ASSUME TInv, NEW g \in Goroutine, NotaryStoreFails(g)
  PROVE  \E r \in Row : /\ row' = [row EXCEPT ![frame[g].server] = r]
                        /\ r.via \in Server
                        /\ SameOrNoSchedule(r, row[frame[g].server])
<1>1. frame[g] \in Frame /\ frame[g].left # <<>>
  BY DEF NotaryStoreFails, At, TInv, TypeOK, WalkingInv
<1> QED
  BY <1>1, NotaryCutRow DEF NotaryStoreFails, TInv

(* What a crash leaves of a server's row is what there was or what a store *)
(* that it cuts short leaves.                                              *)
LEMMA RemainsRow ==
  ASSUME NEW s \in Server, NEW r \in Remains(s)
  PROVE  \/ r = row[s]
         \/ \E g \in Goroutine :
              /\ frame[g].server = s
              /\ \/ At(g, "probe") /\ r \in OriginCut(frame[g])
                 \/ At(g, "ask") /\ r \in NotaryCut(frame[g])
<1> DEFINE at(pc) == {g \in Goroutine : At(g, pc) /\ frame[g].server = s}
<1>1. \/ r = row[s]
      \/ r \in UNION {OriginCut(frame[g]) : g \in at("probe")}
      \/ r \in UNION {NotaryCut(frame[g]) : g \in at("ask")}
  BY DEF Remains
<1> QED
  BY <1>1

LEMMA RestartRow ==
  ASSUME TInv, Restart
  PROVE  /\ row' \in [Server -> Row \cup {NoRow}]
         /\ \A s \in Server :
              \/ row'[s] = row[s]
              \/ row'[s] \in Row /\ SameOrNoSchedule(row'[s], row[s])
<1> HIDE PolicyAssumption, ScheduleAssumption, ResolverAssumption, NamesAssumption
<1>1. /\ row' \in [Server -> UNION {Remains(s) : s \in Server}]
      /\ \A s \in Server : row'[s] \in Remains(s)
  BY DEF Restart
<1>2. ASSUME NEW s \in Server, NEW r \in Remains(s)
      PROVE  r = row[s] \/ (r \in Row /\ SameOrNoSchedule(r, row[s]))
  <2>1. ASSUME NEW g \in Goroutine, At(g, "probe"), frame[g].server = s,
               r \in OriginCut(frame[g])
        PROVE  r \in Row /\ SameOrNoSchedule(r, row[s])
    <3>1. frame[g] \in Frame
      BY <2>1 DEF At, TInv, TypeOK
    <3> QED
      BY <2>1, <3>1, OriginCutRow DEF TInv
  <2>2. ASSUME NEW g \in Goroutine, At(g, "ask"), frame[g].server = s,
               r \in NotaryCut(frame[g])
        PROVE  r \in Row /\ SameOrNoSchedule(r, row[s])
    <3>1. frame[g] \in Frame /\ frame[g].left # <<>>
      BY <2>2 DEF At, TInv, TypeOK, WalkingInv
    <3> QED
      BY <2>2, <3>1, NotaryCutRow DEF TInv
  <2> QED
    BY <2>1, <2>2, RemainsRow
<1>3. \A s \in Server : row[s] \in Row \cup {NoRow}
  BY DEF TInv, TypeOK
<1>4. \A s \in Server :
        \/ row'[s] = row[s]
        \/ row'[s] \in Row /\ SameOrNoSchedule(row'[s], row[s])
  BY <1>1, <1>2
<1>5. \A s \in Server : row'[s] \in Row \cup {NoRow}
  BY <1>3, <1>4
<1> QED
  BY <1>1, <1>4, <1>5

-----------------------------------------------------------------------------
LEMMA InitTInv == Init => TInv
BY DEF Init, TInv, TypeOK, WalkingInv, At, NoWalks

LEMMA NextTInv == TInv /\ [Next]_vars => TInv'
<1> SUFFICES ASSUME TInv, [Next]_vars PROVE TInv'
  OBVIOUS
<1> USE DEF calls, history
<1>t. TypeOK /\ WalkingInv
  BY DEF TInv
<1>f. \A g \in Goroutine : frame[g] # Idle => frame[g] \in Frame
  BY <1>t DEF TypeOK
<1>g. Proc \subseteq Goroutine /\ Sweeper \in Goroutine
  BY DEF Goroutine
<1>1. ASSUME NEW p \in Proc, Request(p) PROVE TInv'
  <2>1. PICK s \in Asked, min \in {0} \cup FromNow(Ahead) :
          frame' = [frame EXCEPT ![p] = Call(s, "request", min)]
    BY <1>1 DEF Request
  <2>2. Call(s, "request", min) \in Frame
    <3>1. min \in Nat
      BY DEF FromNow
    <3> QED
      BY <3>1, CallType
  <2>3. Call(s, "request", min).pc = "load"
    BY DEF Call
  <2> QED
    BY <1>t, <1>1, <2>1, <2>2, <2>3 DEF Request, TInv, TypeOK, WalkingInv, At
<1>2. ASSUME NEW p \in Proc, Load(p) PROVE TInv'
  <2>1. frame[p] \in Frame /\ frame[p] # Idle /\ row[frame[p].server] \in Row \cup {NoRow}
    BY <1>t, <1>f, <1>g, <1>2 DEF Load, At, Frame, TypeOK
  <2>2. CASE Return(p, "fresh", row[frame[p].server])
    <3>1. CallsOK'
      BY <1>g, <2>1, <2>2, ReturnType DEF Outcome
    <3> QED
      BY <1>t, <1>2, <3>1 DEF Load, CallsOK, TInv, TypeOK
  <2>3. CASE ~Return(p, "fresh", row[frame[p].server])
    <3> DEFINE due == ShouldProbe(row[frame[p].server], clock)
               f == [frame[p] EXCEPT !.now = clock, !.held = row[frame[p].server],
                       !.probed = due, !.pc = IF due THEN "probe" ELSE "fallback"]
    <3>1. Continue(p, f)
      BY <1>2, <2>3 DEF Load
    <3>2. due \in BOOLEAN
      BY DEF ShouldProbe
    <3>3. f \in Frame /\ f.pc # "ask"
      BY <1>t, <2>1, <3>2 DEF Frame, TypeOK
    <3>4. CallsOK'
      BY <1>g, <3>1, <3>3, ContinueType
    <3> QED
      BY <1>t, <1>2, <3>4 DEF Load, CallsOK, TInv, TypeOK
  <2> QED
    BY <2>2, <2>3
<1>3. ASSUME NEW g \in Goroutine, OriginAnswers(g) PROVE TInv'
  <2> DEFINE s == frame[g].server
  <2>1. frame[g] \in Frame /\ frame[g] # Idle /\ s \in Server
    BY <1>f, <1>3 DEF OriginAnswers, At, Frame
  <2>2. PICK valid \in FromNow(Lifetimes) :
          /\ \/ row' = [row EXCEPT ![s] = Fetched(valid)] /\ UNCHANGED faults
             \/ /\ faults < MaxFaults /\ faults' = faults + 1
                /\ row' = [row EXCEPT ![s] = Replaced(row[s], Direct, valid)]
          /\ stored' = [stored EXCEPT ![s] = clock]
          /\ Return(g, "origin", row'[s])
    BY <1>3 DEF OriginAnswers
  <2>3. /\ valid \in Nat /\ Direct \in Server \cup {Direct}
        /\ row[s] \in Row \cup {NoRow} /\ clock \in Nat
    BY <1>t, <2>1 DEF FromNow, TypeOK
  <2>4. Fetched(valid) \in Row /\ Replaced(row[s], Direct, valid) \in Row
    BY <2>3, FetchedType, ReplacedType, Zenon
  <2>5. row' \in [Server -> Row \cup {NoRow}] /\ row'[s] \in Row
    <3>1. PICK r \in Row : row' = [row EXCEPT ![s] = r]
      BY <2>2, <2>4
    <3> QED
      BY <1>t, <2>1, <3>1 DEF TypeOK
  <2>6. faults' \in 0..MaxFaults
    <3>1. CASE UNCHANGED faults
      BY <1>t, <3>1 DEF TypeOK
    <3>2. CASE faults < MaxFaults /\ faults' = faults + 1
      BY <1>t, <3>2 DEF TypeOK
    <3> QED
      BY <2>2, <3>1, <3>2
  <2>7. CallsOK'
    BY <2>1, <2>2, <2>5, ReturnType DEF Outcome
  <2> QED
    BY <1>t, <1>3, <2>1, <2>2, <2>5, <2>6, <2>7
       DEF OriginAnswers, CallsOK, TInv, TypeOK
<1>4. ASSUME NEW g \in Goroutine, OriginFails(g) PROVE TInv'
  <2> DEFINE f == frame[g]
  <2>1. f \in Frame /\ f.server \in Server /\ f.now \in Nat
        /\ f.held \in Row \cup {NoRow}
    BY <1>f, <1>4 DEF OriginFails, At, Frame
  <2>2. Failures(f.held) \in Nat
    BY <2>1, FailuresType
  <2>3. PICK transient \in BOOLEAN :
          row' = [row EXCEPT ![f.server] =
                    Noted(@, f.now, Failures(f.held),
                          f.now + OriginBackoff(Failures(f.held), transient))]
    BY <1>4 DEF OriginFails
  <2>4. f.now + OriginBackoff(Failures(f.held), transient) \in Nat
    <3>1. OriginBackoff(Failures(f.held), transient) \in Nat
      BY <2>2, BackoffBounds
    <3> QED
      BY <2>1, <3>1
  <2>5. Noted(row[f.server], f.now, Failures(f.held),
              f.now + OriginBackoff(Failures(f.held), transient)) \in Row
    BY <1>t, <2>1, <2>2, <2>4, NotedType DEF TypeOK
  <2>6. CallsOK'
    BY <1>4, GiveUpType DEF OriginFails
  <2> QED
    BY <1>t, <1>4, <2>1, <2>3, <2>5, <2>6 DEF OriginFails, CallsOK, TInv, TypeOK
<1>5. ASSUME NEW g \in Goroutine, OriginFailsUnnoted(g) PROVE TInv'
  <2>1. CallsOK'
    BY <1>5, GiveUpType DEF OriginFailsUnnoted
  <2>2. UNCHANGED <<clock, row, last, queue, history>>
    BY <1>5 DEF OriginFailsUnnoted
  <2>3. faults' \in 0..MaxFaults
    BY <1>t, <1>5, FaultCounts DEF OriginFailsUnnoted
  <2> QED
    BY <1>t, <2>1, <2>2, <2>3 DEF CallsOK, TInv, TypeOK
<1>6. ASSUME NEW g \in Goroutine, NoWalk(g) PROVE TInv'
  <2>1. CallsOK'
    BY <1>6, ConcludeType DEF NoWalk, At
  <2> QED
    BY <1>t, <1>6, <2>1 DEF NoWalk, CallsOK, TInv, TypeOK
<1>7. ASSUME NEW g \in Goroutine, TakeWalk(g) PROVE TInv'
  <2> DEFINE f == frame[g]
  <2>1. f \in Frame /\ f.server \in Server /\ f.now \in Nat
    BY <1>f, <1>7 DEF TakeWalk, At, Frame
  <2>2. [f EXCEPT !.pc = "walk", !.left = Notaries] \in Frame
    BY <2>1 DEF Frame
  <2>3. [f EXCEPT !.pc = "walk", !.left = Notaries].pc = "walk"
    BY <2>1 DEF Frame
  <2>4. CallsOK'
    BY <1>7, <2>2, <2>3, ContinueType DEF TakeWalk
  <2>5. /\ DOMAIN last' \subseteq Server
        /\ \A x \in DOMAIN last' : last'[x] \in Nat
    BY <1>t, <1>7, <2>1, TakenType DEF TakeWalk, TypeOK
  <2> QED
    BY <1>t, <1>7, <2>1, <2>4, <2>5 DEF TakeWalk, CallsOK, TInv, TypeOK
<1>8. ASSUME NEW g \in Goroutine, SkipItself(g) PROVE TInv'
  <2>1. Onward(frame[g]) \in Frame /\ Onward(frame[g]).pc = "walk"
    BY <1>f, <1>8, OnwardType DEF SkipItself, At
  <2>2. CallsOK'
    BY <1>8, <2>1, ContinueType DEF SkipItself
  <2> QED
    BY <1>t, <1>8, <2>2 DEF SkipItself, CallsOK, TInv, TypeOK
<1>9. ASSUME NEW g \in Goroutine, NextNotary(g) PROVE TInv'
  <2>1. frame[g] \in Frame /\ frame[g].left # <<>> /\ frame[g].left \in Seq(Server)
    BY <1>f, <1>9 DEF NextNotary, At, Frame
  <2>2. Head(frame[g].left) \in Server
    BY <2>1, HeadTailProperties
  <2>3. Call(Head(frame[g].left), "notary", clock) \in Frame
    BY <1>t, <2>2, CallType DEF TypeOK
  <2>4. Call(Head(frame[g].left), "notary", clock).pc = "load"
    BY DEF Call
  <2> QED
    BY <1>t, <1>9, <2>1, <2>3, <2>4 DEF NextNotary, TInv, TypeOK, WalkingInv, At
<1>10. ASSUME NEW g \in Goroutine, NotaryAnswers(g) PROVE TInv'
  <2> DEFINE f == frame[g]
             n == Head(f.left)
  <2>1. f \in Frame /\ f.server \in Server /\ f.left # <<>>
        /\ f.left \in Seq(Server) /\ f.offered \in Nat
    BY <1>t, <1>f, <1>10 DEF NotaryAnswers, At, Frame, WalkingInv
  <2>2. n \in Server
    BY <2>1, HeadTailProperties
  <2>3. PICK valid \in Offers :
          /\ NotaryStores(f.server, n, valid)
          /\ stored' = IF row'[f.server] = row[f.server] THEN stored
                       ELSE [stored EXCEPT ![f.server] = clock]
          /\ Continue(g, [Heard(f, row'[f.server]) EXCEPT
                           !.offered = IF valid > @ THEN valid ELSE @])
    BY <1>10 DEF NotaryAnswers
  <2>4. PICK r \in Row : row' = [row EXCEPT ![f.server] = r]
                        /\ faults' \in 0..MaxFaults
    BY <1>t, <2>1, <2>2, <2>3, NotaryStoresRow
  <2>5. row' \in [Server -> Row \cup {NoRow}] /\ row'[f.server] \in Row
    BY <1>t, <2>1, <2>4 DEF TypeOK
  <2>6. Heard(f, row'[f.server]).offered = f.offered
    BY <2>1 DEF Heard, Onward, Frame
  <2>7. (IF valid > f.offered THEN valid ELSE f.offered) \in Nat
    BY <2>1
  <2>8. CallsOK'
    BY <2>1, <2>3, <2>5, <2>6, <2>7, HeardType, ContinueType
  <2> QED
    BY <1>t, <1>10, <2>1, <2>3, <2>4, <2>5, <2>8
       DEF NotaryAnswers, CallsOK, TInv, TypeOK
<1>11. ASSUME NEW g \in Goroutine, NotaryFails(g) PROVE TInv'
  <2>1. Onward(frame[g]) \in Frame /\ Onward(frame[g]).pc = "walk"
    BY <1>t, <1>f, <1>11, OnwardType DEF NotaryFails, At, WalkingInv
  <2>2. CallsOK'
    BY <1>11, <2>1, ContinueType DEF NotaryFails
  <2> QED
    BY <1>t, <1>11, <2>2 DEF NotaryFails, CallsOK, TInv, TypeOK
<1>12. ASSUME NEW g \in Goroutine, WalkEnds(g) PROVE TInv'
  <2>1. frame[g].best \in Row \cup {NoRow} /\ frame[g] # Idle
    BY <1>f, <1>12 DEF WalkEnds, At, Frame
  <2>2. CallsOK'
    BY <1>12, <2>1, ConcludeType DEF WalkEnds
  <2> QED
    BY <1>t, <1>12, <2>2 DEF WalkEnds, CallsOK, TInv, TypeOK
<1>13. CASE ListDue
  BY <1>t, <1>13, ListingType DEF ListDue, TInv, TypeOK, WalkingInv, At
<1>14. CASE Visit
  <2>1. Head(queue) \in Server /\ queue' \in Seq(Server)
    BY <1>t, <1>14, HeadTailProperties DEF Visit, TypeOK
  <2> DEFINE s == Head(queue)
             f == [Call(s, "sweep", 0) EXCEPT !.pc = "probe", !.now = clock,
                     !.held = row[s], !.probed = TRUE]
  <2>2. f \in Frame /\ f.pc # "ask"
    <3>1. Call(s, "sweep", 0) \in Frame
      BY <2>1, CallType
    <3> QED
      BY <1>t, <2>1, <3>1 DEF TypeOK, Frame
  <2>3. CASE Continue(Sweeper, f)
    <3>1. CallsOK'
      BY <1>g, <2>2, <2>3, ContinueType
    <3> QED
      BY <1>t, <1>14, <2>1, <3>1 DEF Visit, CallsOK, TInv, TypeOK
  <2>4. CASE UNCHANGED calls
    BY <1>t, <1>14, <2>1, <2>4 DEF Visit, TInv, TypeOK, WalkingInv, At
  <2> QED
    BY <1>14, <2>3, <2>4 DEF Visit
<1>15. CASE VisitFails
  <2>1. queue' \in Seq(Server)
    BY <1>t, <1>15, HeadTailProperties DEF VisitFails, TypeOK
  <2>2. UNCHANGED <<clock, row, last, calls, history>>
    BY <1>15 DEF VisitFails
  <2>3. faults' \in 0..MaxFaults
    BY <1>t, <1>15, FaultCounts DEF VisitFails
  <2> QED
    BY <1>t, <2>1, <2>2, <2>3 DEF TInv, TypeOK, WalkingInv, At
<1>16. ASSUME NEW p \in Proc, LoadFails(p) PROVE TInv'
  <2>1. CallsOK'
    BY <1>g, <1>16, ReturnType DEF LoadFails, At, Outcome
  <2>2. UNCHANGED <<clock, row, last, queue, history>>
    BY <1>16 DEF LoadFails
  <2>3. faults' \in 0..MaxFaults
    BY <1>t, <1>16, FaultCounts DEF LoadFails
  <2> QED
    BY <1>t, <2>1, <2>2, <2>3 DEF CallsOK, TInv, TypeOK
<1>17. ASSUME NEW p \in Proc, Invalidate(p) PROVE TInv'
  <2>1. reply[p] \in Reply /\ reply[p].server \in Server
    BY <1>t, <1>17 DEF Invalidate, TypeOK, Reply
  <2>2. row' \in [Server -> Row \cup {NoRow}]
    <3>1. row[reply[p].server] \in Row
      BY <1>t, <1>17, <2>1 DEF Invalidate, TypeOK
    <3>2. [row[reply[p].server] EXCEPT !.valid = 0, !.updated = 0] \in Row
      BY <3>1 DEF Row
    <3> QED
      BY <1>t, <1>17, <2>1, <3>2 DEF Invalidate, TypeOK
  <2>3. reply' \in [Proc -> Reply \cup {Idle}] /\ faults' \in 0..MaxFaults
    <3>1. reply' = [reply EXCEPT ![p] = Idle] /\ faults' = faults + 1
          /\ faults < MaxFaults
      BY <1>17 DEF Invalidate
    <3>2. reply \in [Proc -> Reply \cup {Idle}] /\ faults \in 0..MaxFaults
      BY <1>t DEF TypeOK
    <3> QED
      BY <3>1, <3>2
  <2> QED
    BY <1>t, <1>17, <2>2, <2>3 DEF Invalidate, TInv, TypeOK, WalkingInv, At
<1>18. CASE Restart
  <2>1. row' \in [Server -> Row \cup {NoRow}]
    BY <1>18, RestartRow
  <2>2. torn' \in [Server -> Nat]
    BY <1>t, <1>18 DEF Restart, TypeOK
  <2>3. faults' \in 0..MaxFaults
    BY <1>t, <1>18, FaultCounts DEF Restart
  <2>4. /\ UNCHANGED <<clock, stored>> /\ last' = NoWalks /\ queue' = <<>>
        /\ frame' = [g \in Goroutine |-> Idle]
        /\ caller' = [g \in Goroutine |-> Idle]
        /\ reply' = [p \in Proc |-> Idle]
        /\ walked' = [s \in Server |-> Idle]
    BY <1>18 DEF Restart
  <2> QED
    BY <1>t, <2>1, <2>2, <2>3, <2>4 DEF TInv, TypeOK, WalkingInv, At, NoWalks
<1>19. CASE Tick
  <2>1. clock' \in Nat
    BY <1>t, <1>19 DEF Tick, TypeOK
  <2>2. UNCHANGED <<row, last, calls, queue, faults, history>>
    BY <1>19 DEF Tick
  <2> QED
    BY <1>t, <2>1, <2>2 DEF TInv, TypeOK, WalkingInv, At
<1>20. CASE UNCHANGED vars
  BY <1>t, <1>20 DEF vars, TInv, TypeOK, WalkingInv, At
<1>21. ASSUME NEW g \in Goroutine, OriginStoreFails(g) PROVE TInv'
  <2>1. PICK r \in Row : row' = [row EXCEPT ![frame[g].server] = r]
    BY <1>21, OriginStoreFailsRow
  <2>2. CallsOK'
    BY <1>21, GiveUpType DEF OriginStoreFails
  <2>3. faults' \in 0..MaxFaults
    BY <1>t, <1>21, FaultCounts DEF OriginStoreFails
  <2>4. /\ torn' = [torn EXCEPT ![frame[g].server] = clock]
        /\ UNCHANGED <<clock, last, queue, stored, walked>>
    BY <1>21 DEF OriginStoreFails
  <2> QED
    BY <1>t, <2>1, <2>2, <2>3, <2>4 DEF CallsOK, TInv, TypeOK
<1>22. ASSUME NEW g \in Goroutine, NotaryStoreFails(g) PROVE TInv'
  <2>1. PICK r \in Row : row' = [row EXCEPT ![frame[g].server] = r]
    BY <1>22, NotaryStoreFailsRow
  <2>2. Onward(frame[g]) \in Frame /\ Onward(frame[g]).pc = "walk"
    BY <1>t, <1>f, <1>22, OnwardType DEF NotaryStoreFails, At, WalkingInv
  <2>3. CallsOK'
    BY <1>22, <2>2, ContinueType DEF NotaryStoreFails
  <2>4. faults' \in 0..MaxFaults
    BY <1>t, <1>22, FaultCounts DEF NotaryStoreFails
  <2>5. /\ torn' = [torn EXCEPT ![frame[g].server] = clock]
        /\ UNCHANGED <<clock, last, queue, stored, walked>>
    BY <1>22 DEF NotaryStoreFails
  <2> QED
    BY <1>t, <2>1, <2>3, <2>4, <2>5 DEF CallsOK, TInv, TypeOK
<1> QED
  BY <1>1, <1>2, <1>3, <1>4, <1>5, <1>6, <1>7, <1>8, <1>9, <1>10, <1>11,
     <1>12, <1>13, <1>14, <1>15, <1>16, <1>17, <1>18, <1>19, <1>20, <1>21,
     <1>22 DEF Next, Step

(* Spec keeps types, through database errors, invalidations and restarts.  *)
THEOREM TypeCorrect == Spec => []TypeOK
<1>1. Spec => []TInv
  BY InitTInv, NextTInv, PTL DEF Spec
<1>2. TInv => TypeOK
  BY DEF TInv
<1> QED
  BY <1>1, <1>2, PTL
-----------------------------------------------------------------------------
(* A call's now is past, and recent until its probe is dealt with.         *)
ClockInv ==
  \A g \in Goroutine :
    /\ frame[g] # Idle => frame[g].now <= clock
    /\ caller[g] # Idle => caller[g].now <= clock
    /\ At(g, "probe") \/ At(g, "fallback") => clock <= frame[g].now + MaxLag

(* No store lies ahead.                                                    *)
TimesInv ==
  clock > 0 /\ \A s \in Server : stored[s] <= clock /\ torn[s] <= clock

SInv == TInv /\ ClockInv /\ TimesInv /\ ScheduleIsSound

LEMMA ReturnClock ==
  ASSUME TInv, ClockInv, NEW g \in Goroutine, NEW outcome, NEW r,
         Return(g, outcome, r), clock' = clock
  PROVE  ClockInv'
<1>1. caller[g] # Idle => /\ Anchored(caller[g], r).now = caller[g].now
                          /\ Anchored(caller[g], r).pc \in {"ask", "walk"}
  BY DEF Anchored, Onward, TInv, TypeOK, Frame
<1> QED
  BY <1>1 DEF Return, ClockInv, TInv, TypeOK, At

LEMMA ContinueClock ==
  ASSUME TInv, ClockInv, NEW g \in Goroutine, NEW f \in Frame,
         Continue(g, f), clock' = clock, f.now <= clock,
         f.pc \in {"probe", "fallback"} => clock <= f.now + MaxLag
  PROVE  ClockInv'
BY DEF Continue, ClockInv, TInv, TypeOK, At

LEMMA ConcludeClock ==
  ASSUME TInv, ClockInv, NEW g \in Goroutine, NEW best, Conclude(g, best),
         clock' = clock
  PROVE  ClockInv'
BY ReturnClock DEF Conclude

LEMMA GiveUpClock ==
  ASSUME TInv, ClockInv, NEW g \in Goroutine, At(g, "probe"), GiveUp(g),
         clock' = clock
  PROVE  ClockInv'
<1>1. frame[g] \in Frame
  BY DEF TInv, TypeOK, At
<1> DEFINE f == [frame[g] EXCEPT !.pc = "fallback"]
<1>2. f \in Frame /\ f.now = frame[g].now
  BY <1>1 DEF Frame
<1>3. frame[g].now <= clock /\ clock <= frame[g].now + MaxLag
  BY DEF ClockInv, At
<1>4. CASE frame[g].reason = "sweep"
  BY <1>4, ReturnClock DEF GiveUp
<1>5. CASE frame[g].reason # "sweep"
  BY <1>2, <1>3, <1>5, ContinueClock DEF GiveUp
<1> QED
  BY <1>4, <1>5

LEMMA NextClockInv == TInv /\ ClockInv /\ [Next]_vars => ClockInv'
<1> SUFFICES ASSUME TInv, ClockInv, [Next]_vars PROVE ClockInv'
  OBVIOUS
<1> USE DEF calls, history
<1>t. TypeOK /\ WalkingInv /\ clock \in Nat
  BY DEF TInv, TypeOK
<1>f. \A g \in Goroutine : frame[g] # Idle =>
        frame[g] \in Frame /\ frame[g].now \in Nat /\ frame[g].now <= clock
  BY <1>t DEF TypeOK, ClockInv, Frame
<1>g. Proc \subseteq Goroutine /\ Sweeper \in Goroutine
  BY DEF Goroutine
<1>1. ASSUME NEW p \in Proc, Request(p) PROVE ClockInv'
  <2>1. PICK s \in Asked, min \in {0} \cup FromNow(Ahead) :
          frame' = [frame EXCEPT ![p] = Call(s, "request", min)]
    BY <1>1 DEF Request
  <2>2. Call(s, "request", min).now = 0 /\ Call(s, "request", min).pc = "load"
    BY DEF Call
  <2>3. p \in Goroutine /\ UNCHANGED <<clock, caller>>
    BY <1>g, <1>1 DEF Request
  <2> DEFINE f == Call(s, "request", min)
  <2>4. f.now <= clock /\ f.pc \notin {"probe", "fallback"}
    BY <1>t, <2>2
  <2> HIDE DEF f
  <2>5. \A g \in Goroutine : frame'[g] = IF g = p THEN f ELSE frame[g]
    BY <1>t, <2>1 DEF TypeOK, f
  <2> QED
    BY <2>3, <2>4, <2>5 DEF ClockInv, At
<1>2. ASSUME NEW p \in Proc, Load(p) PROVE ClockInv'
  <2>1. frame[p] \in Frame /\ row[frame[p].server] \in Row \cup {NoRow}
    BY <1>t, <1>f, <1>g, <1>2 DEF Load, At, Frame, TypeOK
  <2>2. CASE Return(p, "fresh", row[frame[p].server])
    BY <1>g, <1>2, <2>2, ReturnClock DEF Load
  <2>3. CASE ~Return(p, "fresh", row[frame[p].server])
    <3> DEFINE due == ShouldProbe(row[frame[p].server], clock)
               f == [frame[p] EXCEPT !.now = clock, !.held = row[frame[p].server],
                       !.probed = due, !.pc = IF due THEN "probe" ELSE "fallback"]
    <3>1. Continue(p, f) /\ clock' = clock
      BY <1>2, <2>3 DEF Load
    <3>2. due \in BOOLEAN
      BY DEF ShouldProbe
    <3>3. f \in Frame /\ f.now = clock
      BY <1>t, <2>1, <3>2 DEF Frame
    <3>4. f.now <= clock /\ clock <= f.now + MaxLag
      BY <1>t, <3>3
    <3> HIDE DEF f
    <3> QED
      BY <1>g, <3>1, <3>3, <3>4, ContinueClock
  <2> QED
    BY <2>2, <2>3
<1>3. ASSUME NEW g \in Goroutine, OriginAnswers(g) PROVE ClockInv'
  BY <1>3, ReturnClock DEF OriginAnswers
<1>4. ASSUME NEW g \in Goroutine,
             OriginFails(g) \/ OriginFailsUnnoted(g) \/ OriginStoreFails(g)
      PROVE ClockInv'
  BY <1>4, GiveUpClock DEF OriginFails, OriginFailsUnnoted, OriginStoreFails
<1>5. ASSUME NEW g \in Goroutine, NoWalk(g) \/ WalkEnds(g) PROVE ClockInv'
  BY <1>5, ConcludeClock DEF NoWalk, WalkEnds
<1>6. ASSUME NEW g \in Goroutine, TakeWalk(g) PROVE ClockInv'
  <2> DEFINE f == [frame[g] EXCEPT !.pc = "walk", !.left = Notaries]
  <2>1. f \in Frame /\ f.pc = "walk" /\ f.now <= clock
    <3>1. frame[g] \in Frame /\ frame[g].now <= clock
      BY <1>f, <1>6 DEF TakeWalk, At
    <3> QED
      BY <3>1, WalkType
  <2> QED
    BY <1>6, <2>1, ContinueClock DEF TakeWalk
<1>7. ASSUME NEW g \in Goroutine,
             SkipItself(g) \/ NotaryFails(g) \/ NotaryStoreFails(g)
      PROVE ClockInv'
  <2>1. frame[g] \in Frame /\ frame[g].left # <<>> /\ frame[g].now <= clock
    BY <1>t, <1>f, <1>7
       DEF SkipItself, NotaryFails, NotaryStoreFails, At, WalkingInv
  <2>2. Onward(frame[g]) \in Frame /\ Onward(frame[g]).pc = "walk"
        /\ Onward(frame[g]).now = frame[g].now
    BY <2>1, OnwardType DEF Onward, Frame
  <2> QED
    BY <1>7, <2>1, <2>2, ContinueClock
       DEF SkipItself, NotaryFails, NotaryStoreFails
<1>8. ASSUME NEW g \in Goroutine, NextNotary(g) PROVE ClockInv'
  <2> DEFINE c == Call(Head(frame[g].left), "notary", clock)
  <2>1. c.now = 0 /\ c.pc = "load"
    BY DEF Call
  <2>2. frame[g].now <= clock
    BY <1>f, <1>8 DEF NextNotary, At
  <2> QED
    BY <1>t, <1>8, <2>1, <2>2 DEF NextNotary, ClockInv, TypeOK, At
<1>9. ASSUME NEW g \in Goroutine, NotaryAnswers(g) PROVE ClockInv'
  <2> DEFINE f == frame[g]
  <2>1. f \in Frame /\ f.left # <<>> /\ f.now <= clock
    BY <1>t, <1>f, <1>9 DEF NotaryAnswers, At, WalkingInv
  <2>2. PICK r, offered :
          Continue(g, [Heard(f, r) EXCEPT !.offered = offered])
    BY <1>9 DEF NotaryAnswers
  <2>3. /\ [Heard(f, r) EXCEPT !.offered = offered].now = f.now
        /\ [Heard(f, r) EXCEPT !.offered = offered].pc = "walk"
    BY <2>1 DEF Heard, Onward, Frame
  <2> QED
    BY <1>t, <1>9, <2>1, <2>2, <2>3
       DEF NotaryAnswers, Continue, ClockInv, TypeOK, At
<1>10. CASE ListDue \/ VisitFails
  BY <1>10 DEF ListDue, VisitFails, ClockInv, At
<1>11. CASE Visit
  <2> DEFINE s == Head(queue)
             f == [Call(s, "sweep", 0) EXCEPT !.pc = "probe", !.now = clock,
                     !.held = row[s], !.probed = TRUE]
  <2>1. f.now = clock
    BY DEF Call
  <2>2. CASE Continue(Sweeper, f)
    <3>1. /\ frame' = [frame EXCEPT ![Sweeper] = f] /\ caller' = caller
          /\ clock' = clock
      BY <1>11, <2>2 DEF Visit, Continue
    <3>2. f.now <= clock /\ clock <= f.now + MaxLag
      BY <1>t, <2>1
    <3> HIDE DEF f
    <3>3. \A g \in Goroutine :
            frame'[g] = IF g = Sweeper THEN f ELSE frame[g]
      BY <1>t, <3>1 DEF TypeOK
    <3> QED
      BY <3>1, <3>2, <3>3 DEF ClockInv, At
  <2>3. CASE UNCHANGED calls
    BY <1>11, <2>3 DEF Visit, ClockInv, At
  <2> QED
    BY <1>11, <2>2, <2>3 DEF Visit
<1>12. ASSUME NEW p \in Proc, LoadFails(p) PROVE ClockInv'
  BY <1>g, <1>12, ReturnClock DEF LoadFails
<1>13. ASSUME NEW p \in Proc, Invalidate(p) PROVE ClockInv'
  BY <1>13 DEF Invalidate, ClockInv, At
<1>14. CASE Restart
  BY <1>14 DEF Restart, ClockInv, At
<1>15. CASE Tick
  <2>1. \A g \in Goroutine : At(g, "probe") \/ At(g, "fallback") =>
          clock' <= frame[g].now + MaxLag
    <3> SUFFICES ASSUME NEW g \in Goroutine, At(g, "probe") \/ At(g, "fallback")
                 PROVE  clock' <= frame[g].now + MaxLag
      OBVIOUS
    <3>1. clock - frame[g].now < MaxLag /\ clock' = clock + 1
      BY <1>15 DEF Tick
    <3>2. frame[g].now \in Nat
      BY <1>f DEF At
    <3> DEFINE now == frame[g].now
    <3> HIDE DEF now
    <3>3. clock - now < MaxLag /\ now \in Nat
      BY <3>1, <3>2 DEF now
    <3>4. clock' <= now + MaxLag
      BY <1>t, <3>1, <3>3
    <3> QED
      BY <3>4 DEF now
  <2>2. \A g \in Goroutine : caller[g] # Idle => caller[g].now \in Nat
    BY <1>t DEF TypeOK, Frame
  <2> QED
    <3>1. clock' = clock + 1 /\ UNCHANGED <<frame, caller>>
      BY <1>15 DEF Tick
    <3>2. ASSUME NEW g \in Goroutine
          PROVE  /\ frame[g] # Idle => frame[g].now <= clock + 1
                 /\ caller[g] # Idle => caller[g].now <= clock + 1
      BY <1>t, <1>f, <2>2 DEF ClockInv
    <3> QED
      BY <2>1, <3>1, <3>2 DEF ClockInv, At
<1>16. CASE UNCHANGED vars
  BY <1>16 DEF vars, ClockInv, At
<1> QED
  BY <1>1, <1>2, <1>3, <1>4, <1>5, <1>6, <1>7, <1>8, <1>9, <1>10, <1>11,
     <1>12, <1>13, <1>14, <1>15, <1>16 DEF Next, Step

-----------------------------------------------------------------------------
(* What the history tells has happened.                                    *)
LEMMA NextTimesInv == TInv /\ TimesInv /\ [Next]_vars => TimesInv'
<1> SUFFICES ASSUME TInv, TimesInv, [Next]_vars PROVE TimesInv'
  OBVIOUS
<1> USE DEF calls, history
<1>t. /\ clock \in Nat /\ stored \in [Server -> Nat] /\ torn \in [Server -> Nat]
  BY DEF TInv, TypeOK
<1>1. ASSUME clock' \in {clock, clock + 1},
             \A s \in Server : /\ stored'[s] \in {stored[s], clock}
                               /\ torn'[s] \in {torn[s], clock}
      PROVE  TimesInv'
  <2>1. clock' \in Nat /\ clock' >= clock /\ clock > 0
    BY <1>t, <1>1 DEF TimesInv
  <2>2. ASSUME NEW s \in Server PROVE stored'[s] <= clock' /\ torn'[s] <= clock'
    <3>1. stored[s] \in Nat /\ torn[s] \in Nat /\ stored[s] <= clock /\ torn[s] <= clock
      BY <1>t DEF TimesInv
    <3>2. stored'[s] \in {stored[s], clock} /\ torn'[s] \in {torn[s], clock}
      BY <1>1
    <3> QED
      BY <1>t, <2>1, <3>1, <3>2
  <2> QED
    BY <1>t, <2>1, <2>2 DEF TimesInv
<1>2. ASSUME UNCHANGED <<stored, torn>>, clock' \in {clock, clock + 1}
      PROVE  TimesInv'
  BY <1>1, <1>2
<1>3. ASSUME NEW g \in Goroutine,
             OriginAnswers(g) \/ NotaryAnswers(g)
      PROVE  TimesInv'
  <2>1. /\ clock' = clock /\ torn' = torn
        /\ stored' \in {stored, [stored EXCEPT ![frame[g].server] = clock]}
    BY <1>3 DEF OriginAnswers, NotaryAnswers
  <2> QED
    BY <1>t, <1>1, <2>1
<1>4. ASSUME NEW g \in Goroutine,
             OriginStoreFails(g) \/ NotaryStoreFails(g)
      PROVE  TimesInv'
  <2>1. /\ clock' = clock /\ stored' = stored
        /\ torn' = [torn EXCEPT ![frame[g].server] = clock]
    BY <1>4 DEF OriginStoreFails, NotaryStoreFails
  <2> QED
    BY <1>t, <1>1, <2>1
<1>5. CASE Restart
  BY <1>1, <1>5 DEF Restart
<1>6. ASSUME NEW p \in Proc,
             Request(p) \/ Load(p) \/ LoadFails(p) \/ Invalidate(p)
      PROVE  TimesInv'
  BY <1>2, <1>6 DEF Request, Load, LoadFails, Invalidate
<1>7. ASSUME NEW g \in Goroutine,
             \/ OriginFails(g) \/ OriginFailsUnnoted(g) \/ NoWalk(g) \/ TakeWalk(g)
             \/ SkipItself(g) \/ NextNotary(g) \/ NotaryFails(g) \/ WalkEnds(g)
      PROVE  TimesInv'
  BY <1>2, <1>7 DEF OriginFails, OriginFailsUnnoted, NoWalk, TakeWalk,
                    SkipItself, NextNotary, NotaryFails, WalkEnds
<1>8. CASE ListDue \/ Visit \/ VisitFails \/ Tick \/ UNCHANGED vars
  BY <1>2, <1>8 DEF ListDue, Visit, VisitFails, Tick, vars
<1> QED
  BY <1>3, <1>4, <1>5, <1>6, <1>7, <1>8 DEF Next, Step

-----------------------------------------------------------------------------
(* The schedule columns.  They change in stores and in failure notes only. *)
LEMMA NextScheduleInv ==
  SInv /\ [Next]_vars => ScheduleIsSound'
<1> SUFFICES ASSUME SInv, [Next]_vars PROVE ScheduleIsSound'
  OBVIOUS
<1> USE DEF calls, history
<1>t. /\ TypeOK /\ WalkingInv /\ ClockInv /\ TimesInv /\ ScheduleIsSound
      /\ clock \in Nat
  BY DEF SInv, TInv, TypeOK
<1>r. \A s \in Server : row[s] # NoRow => row[s] \in Row
  BY <1>t DEF TypeOK
<1>b. TopRung \in Nat
  BY BackoffBounds
<1>c. \A s \in Server : row[s] # NoRow =>
        /\ row[s].next > 0 <=> row[s].failures > 0
        /\ row[s].next <= clock + TopRung
        /\ row[s].next \in Nat /\ row[s].failures \in Nat
  BY <1>t, <1>r DEF ScheduleIsSound, Row
<1>1. ASSUME clock' = clock, UNCHANGED <<row, stored, torn>>
      PROVE  ScheduleIsSound'
  BY <1>t, <1>1 DEF ScheduleIsSound
<1>2. ASSUME clock' = clock, NEW x \in Server, NEW r \in Row,
             row' = [row EXCEPT ![x] = r],
             \A s \in Server : s # x => /\ stored'[s] = stored[s]
                                        /\ torn'[s] = torn[s],
             r.next > 0 <=> r.failures > 0,
             ~r.keys => r.next > 0 \/ (torn'[x] > 0 /\ stored'[x] <= torn'[x]),
             r.next <= clock + TopRung
      PROVE  ScheduleIsSound'
  BY <1>t, <1>2 DEF ScheduleIsSound, TypeOK
<1>3. ASSUME NEW x \in Server, NEW r, SameOrNoSchedule(r, row[x])
      PROVE  /\ r.next > 0 <=> r.failures > 0
             /\ r.next <= clock + TopRung
  <2>1. CASE r.failures = 0 /\ r.next = 0
    BY <1>t, <1>b, <2>1
  <2>2. CASE row[x] # NoRow /\ r.failures = row[x].failures /\ r.next = row[x].next
    BY <1>c, <2>2
  <2> QED
    BY <1>3, <2>1, <2>2 DEF SameOrNoSchedule
<1>4. ASSUME NEW x \in Server, NEW r \in Row, row' = [row EXCEPT ![x] = r],
             SameOrNoSchedule(r, row[x]), r.keys, clock' = clock,
             stored' = [stored EXCEPT ![x] = clock], torn' = torn
      PROVE  ScheduleIsSound'
  <2>1. \A s \in Server : s # x => stored'[s] = stored[s] /\ torn'[s] = torn[s]
    BY <1>t, <1>4 DEF TypeOK
  <2>2. /\ r.next > 0 <=> r.failures > 0
        /\ r.next <= clock + TopRung
    BY <1>3, <1>4
  <2> QED
    BY <1>2, <1>4, <2>1, <2>2
<1>5. ASSUME NEW g \in Goroutine, OriginAnswers(g) PROVE ScheduleIsSound'
  <2> DEFINE s == frame[g].server
  <2>1. s \in Server /\ row[s] \in Row \cup {NoRow}
    BY <1>t, <1>5 DEF OriginAnswers, At, TypeOK, Frame
  <2>2. PICK valid \in FromNow(Lifetimes) :
          \/ row' = [row EXCEPT ![s] = Fetched(valid)]
          \/ row' = [row EXCEPT ![s] = Replaced(row[s], Direct, valid)]
    BY <1>5 DEF OriginAnswers
  <2>3. valid \in Nat /\ Direct \in Server \cup {Direct}
    BY DEF FromNow
  <2>4. /\ Fetched(valid) \in Row /\ Fetched(valid).keys
        /\ SameOrNoSchedule(Fetched(valid), row[s])
    BY <1>t, <2>3, FetchedType DEF Fetched, SameOrNoSchedule
  <2>5. /\ Replaced(row[s], Direct, valid) \in Row
        /\ Replaced(row[s], Direct, valid).keys
        /\ SameOrNoSchedule(Replaced(row[s], Direct, valid), row[s])
    BY <1>t, <2>1, <2>3, ReplacedType, Zenon
  <2>6. /\ stored' = [stored EXCEPT ![s] = clock]
        /\ torn' = torn /\ clock' = clock
    BY <1>5 DEF OriginAnswers
  <2>7. PICK r \in Row : /\ row' = [row EXCEPT ![s] = r] /\ r.keys
                         /\ SameOrNoSchedule(r, row[s])
    BY <2>2, <2>4, <2>5
  <2> HIDE DEF s
  <2> QED
    BY <1>4, <2>1, <2>6, <2>7
<1>6. ASSUME NEW x \in Server, NEW now \in Nat, now <= clock,
             NEW n \in Nat \ {0}, NEW transient \in BOOLEAN, NEW r,
             r.failures = n, r.next = now + OriginBackoff(n, transient)
      PROVE  /\ r.next > 0 <=> r.failures > 0
             /\ r.next > 0 /\ r.next <= clock + TopRung
  <2>1. PICK backoff : backoff = OriginBackoff(n, transient)
    OBVIOUS
  <2>2. backoff \in Nat \ {0} /\ backoff <= TopRung
    BY <2>1, BackoffBounds
  <2>3. r.next = now + backoff
    BY <1>6, <2>1
  <2>4. r.next > 0 /\ r.next <= clock + TopRung
    BY <1>t, <1>b, <1>6, <2>2, <2>3
  <2>5. r.failures > 0
    BY <1>6
  <2> QED
    BY <2>4, <2>5
<1>7. ASSUME NEW g \in Goroutine, OriginFails(g) PROVE ScheduleIsSound'
  <2> DEFINE f == frame[g]
             n == Failures(f.held)
  <2>1. /\ f.server \in Server /\ f.now \in Nat /\ f.now <= clock
        /\ f.held \in Row \cup {NoRow}
    BY <1>t, <1>7 DEF OriginFails, At, TypeOK, Frame, ClockInv
  <2>2. PICK transient \in BOOLEAN :
          row' = [row EXCEPT ![f.server] =
                    Noted(@, f.now, n, f.now + OriginBackoff(n, transient))]
    BY <1>7 DEF OriginFails
  <2>3. n \in Nat \ {0}
    BY <2>1, FailuresType
  <2>4. OriginBackoff(n, transient) \in Nat
    BY <2>3, BackoffBounds
  <2> DEFINE next == f.now + OriginBackoff(n, transient)
             r == Noted(row[f.server], f.now, n, next)
  <2>5. next \in Nat
    BY <2>1, <2>4
  <2>6. r \in Row
    BY <1>t, <2>1, <2>3, <2>5, NotedType DEF TypeOK
  <2>7. r.next = next /\ r.failures = n
    BY <1>r, <2>1 DEF Noted, Row
  <2>8. /\ row' = [row EXCEPT ![f.server] = r] /\ clock' = clock
        /\ stored' = stored /\ torn' = torn
    BY <1>7, <2>2 DEF OriginFails
  <2> HIDE DEF r, n, f
  <2>9. /\ r.next > 0 <=> r.failures > 0
        /\ r.next > 0 /\ r.next <= clock + TopRung
    BY <1>6, <2>1, <2>3, <2>7
  <2> QED
    BY <1>2, <2>1, <2>6, <2>8, <2>9
<1>8. ASSUME NEW g \in Goroutine, NotaryAnswers(g) PROVE ScheduleIsSound'
  <2> DEFINE f == frame[g]
             s == f.server
  <2>0. f \in Frame /\ f.left # <<>>
    BY <1>t, <1>8 DEF NotaryAnswers, At, TypeOK, WalkingInv
  <2>1. s \in Server /\ Head(f.left) \in Server
    BY <2>0, HeadTailProperties DEF Frame
  <2>2. PICK valid \in Offers : NotaryStores(s, Head(f.left), valid)
    BY <1>8 DEF NotaryAnswers
  <2>3. PICK r \in Row : /\ row' = [row EXCEPT ![s] = r]
                         /\ r = row[s] \/ (r.keys /\ SameOrNoSchedule(r, row[s]))
    <3> HIDE DEF f, s
    <3> HIDE PolicyAssumption, ScheduleAssumption, ResolverAssumption, NamesAssumption
    <3> QED
      BY <1>t, <2>1, <2>2, NotaryStoresRow
  <2>4. /\ clock' = clock /\ torn' = torn
        /\ stored' = IF row'[s] = row[s] THEN stored
                     ELSE [stored EXCEPT ![s] = clock]
    BY <1>8 DEF NotaryAnswers
  <2> HIDE DEF f, s
  <2>5. CASE r = row[s]
    <3>1. row' = row /\ stored' = stored
      BY <1>t, <2>1, <2>3, <2>4, <2>5 DEF TypeOK
    <3> QED
      BY <1>1, <2>4, <3>1
  <2>6. CASE r # row[s]
    <3>1. row'[s] = r
      BY <1>t, <2>1, <2>3 DEF TypeOK
    <3>2. stored' = [stored EXCEPT ![s] = clock]
      BY <2>4, <2>6, <3>1
    <3> QED
      BY <1>4, <2>1, <2>3, <2>4, <2>6, <3>2
  <2> QED
    BY <2>5, <2>6
<1>9. ASSUME NEW p \in Proc, Invalidate(p) PROVE ScheduleIsSound'
  <2> DEFINE s == reply[p].server
             r == [row[s] EXCEPT !.valid = 0, !.updated = 0]
  <2>1. s \in Server /\ row[s] # NoRow
    BY <1>t, <1>9 DEF Invalidate, TypeOK, Reply
  <2>2. /\ r \in Row /\ r.next = row[s].next
        /\ r.failures = row[s].failures /\ r.keys = row[s].keys
    <3>1. row[s] \in Row
      BY <1>r, <2>1
    <3> QED
      BY <3>1 DEF Row
  <2>3. /\ row' = [row EXCEPT ![s] = r] /\ clock' = clock
        /\ stored' = stored /\ torn' = torn
    BY <1>r, <1>9, <2>1 DEF Invalidate, Row
  <2>4. /\ row[s].next > 0 <=> row[s].failures > 0
        /\ ~row[s].keys => \/ row[s].next > 0
                           \/ torn[s] > 0 /\ stored[s] <= torn[s]
        /\ row[s].next <= clock + TopRung
    BY <1>t, <2>1 DEF ScheduleIsSound
  <2> HIDE DEF r, s
  <2> QED
    BY <1>2, <2>1, <2>2, <2>3, <2>4
<1>10. ASSUME NEW x \in Server, NEW r \in Row, row' = [row EXCEPT ![x] = r],
              /\ r.next > 0 <=> r.failures > 0
              /\ r.next <= clock + TopRung,
              clock' = clock, stored' = stored,
              torn' = [torn EXCEPT ![x] = clock]
       PROVE  ScheduleIsSound'
  <2>1. \A s \in Server : s # x => stored'[s] = stored[s] /\ torn'[s] = torn[s]
    BY <1>t, <1>10 DEF TypeOK
  <2>2. torn'[x] > 0 /\ stored'[x] <= torn'[x]
    BY <1>t, <1>10 DEF TypeOK, TimesInv
  <2> QED
    BY <1>2, <1>10, <2>1, <2>2
<1>11. ASSUME NEW g \in Goroutine, OriginStoreFails(g) PROVE ScheduleIsSound'
  <2> DEFINE f == frame[g]
             n == Failures(f.held)
  <2>1. /\ f.server \in Server /\ f.now \in Nat /\ f.now <= clock
        /\ f.held \in Row \cup {NoRow}
    BY <1>t, <1>11 DEF OriginStoreFails, At, TypeOK, Frame, ClockInv
  <2>2. PICK r \in Row :
          /\ row' = [row EXCEPT ![f.server] = r]
          /\ \/ SameOrNoSchedule(r, row[f.server])
             \/ /\ r.failures = n
                /\ r.next = f.now + OriginBackoff(n, FALSE)
    BY <1>11, OriginStoreFailsRow DEF SInv
  <2>3. n \in Nat \ {0}
    BY <2>1, FailuresType
  <2>4. /\ clock' = clock /\ stored' = stored
        /\ torn' = [torn EXCEPT ![f.server] = clock]
    BY <1>11 DEF OriginStoreFails
  <2> HIDE DEF f, n
  <2>5. /\ r.next > 0 <=> r.failures > 0
        /\ r.next <= clock + TopRung
    <3>1. CASE SameOrNoSchedule(r, row[f.server])
      BY <1>3, <2>1, <3>1
    <3>2. CASE r.failures = n /\ r.next = f.now + OriginBackoff(n, FALSE)
      BY <1>6, <2>1, <2>3, <3>2
    <3> QED
      BY <2>2, <3>1, <3>2
  <2> QED
    BY <1>10, <2>1, <2>2, <2>4, <2>5
<1>12. ASSUME NEW g \in Goroutine, NotaryStoreFails(g) PROVE ScheduleIsSound'
  <2> DEFINE s == frame[g].server
  <2>1. s \in Server
    BY <1>t, <1>12 DEF NotaryStoreFails, At, TypeOK, Frame
  <2>2. PICK r \in Row :
          row' = [row EXCEPT ![s] = r] /\ SameOrNoSchedule(r, row[s])
    BY <1>12, NotaryStoreFailsRow DEF SInv
  <2>3. /\ clock' = clock /\ stored' = stored /\ torn' = [torn EXCEPT ![s] = clock]
    BY <1>12 DEF NotaryStoreFails
  <2> HIDE DEF s
  <2>4. /\ r.next > 0 <=> r.failures > 0
        /\ r.next <= clock + TopRung
    BY <1>3, <2>1, <2>2
  <2> QED
    BY <1>10, <2>1, <2>2, <2>3, <2>4
<1>13. CASE Restart
  <2>1. /\ clock' = clock /\ stored' = stored
        /\ \A s \in Server :
             torn'[s] = IF row'[s] = row[s] THEN torn[s] ELSE clock
    BY <1>13 DEF Restart
  <2> SUFFICES ASSUME NEW s \in Server, row'[s] # NoRow
               PROVE  /\ row'[s].next > 0 <=> row'[s].failures > 0
                      /\ ~row'[s].keys => \/ row'[s].next > 0
                                          \/ torn'[s] > 0 /\ stored'[s] <= torn'[s]
                      /\ row'[s].next <= clock' + TopRung
    BY DEF ScheduleIsSound
  <2>2. CASE row'[s] = row[s]
    BY <1>t, <2>1, <2>2 DEF ScheduleIsSound
  <2>3. CASE row'[s] # row[s]
    <3>1. SameOrNoSchedule(row'[s], row[s])
      BY <1>13, <2>3, RestartRow DEF SInv
    <3>2. /\ row'[s].next > 0 <=> row'[s].failures > 0
          /\ row'[s].next <= clock + TopRung
      BY <1>3, <3>1
    <3>3. torn'[s] > 0 /\ stored'[s] <= torn'[s]
      BY <1>t, <2>1, <2>3 DEF TimesInv
    <3> QED
      BY <2>1, <3>2, <3>3
  <2> QED
    BY <2>2, <2>3
<1>14. CASE Tick
  <2>1. clock' = clock + 1 /\ row' = row /\ stored' = stored /\ torn' = torn
    BY <1>14 DEF Tick
  <2> SUFFICES ASSUME NEW s \in Server, row[s] # NoRow
               PROVE  /\ row[s].next > 0 <=> row[s].failures > 0
                      /\ ~row[s].keys => \/ row[s].next > 0
                                         \/ torn[s] > 0 /\ stored[s] <= torn[s]
                      /\ row[s].next <= clock' + TopRung
    BY <2>1 DEF ScheduleIsSound
  <2>2. row[s].next <= clock' + TopRung
    BY <1>t, <1>b, <1>c, <2>1
  <2> QED
    BY <1>t, <2>2 DEF ScheduleIsSound
<1>15. ASSUME NEW p \in Proc, Request(p) \/ Load(p) \/ LoadFails(p)
       PROVE ScheduleIsSound'
  BY <1>1, <1>15 DEF Request, Load, LoadFails
<1>16. ASSUME NEW g \in Goroutine,
              \/ OriginFailsUnnoted(g) \/ NoWalk(g) \/ TakeWalk(g)
              \/ SkipItself(g) \/ NextNotary(g) \/ NotaryFails(g) \/ WalkEnds(g)
       PROVE ScheduleIsSound'
  BY <1>1, <1>16 DEF OriginFailsUnnoted, NoWalk, TakeWalk, SkipItself,
                     NextNotary, NotaryFails, WalkEnds
<1>17. CASE ListDue \/ Visit \/ VisitFails \/ UNCHANGED vars
  BY <1>1, <1>17 DEF ListDue, Visit, VisitFails, vars
<1> QED
  BY <1>5, <1>7, <1>8, <1>9, <1>11, <1>12, <1>13, <1>14, <1>15, <1>16, <1>17
     DEF Next, Step

LEMMA InitSInv == Init => SInv
<1> SUFFICES ASSUME Init PROVE SInv
  OBVIOUS
<1> QED
  BY InitTInv DEF Init, SInv, ClockInv, TimesInv, At, ScheduleIsSound

LEMMA NextSInv == SInv /\ [Next]_vars => SInv'
BY NextTInv, NextClockInv, NextTimesInv, NextScheduleInv DEF SInv

(* Through faults too, stores that are cut short among them: the failure   *)
(* count and the standoff agree, no standoff outlasts the top rung, and a  *)
(* record without keys is on the sweep's list unless a store was cut short.*)
THEOREM ScheduleSound == Spec => []ScheduleIsSound
<1>1. Spec => []SInv
  BY InitSInv, NextSInv, PTL DEF Spec
<1>2. SInv => ScheduleIsSound
  BY DEF SInv
<1> QED
  BY <1>1, <1>2, PTL

-----------------------------------------------------------------------------
(* Notary walks for one server keep their distance, for any number of      *)
(* requests that take them and whatever pruning forgets.                   *)

(* Only a resolution of a notary's keys has a call that waits for it.      *)
CallerInv ==
  \A g \in Goroutine : caller[g] # Idle =>
    frame[g] # Idle /\ frame[g].reason = "notary"

(* The schedule remembers a time at most one probe before the walk began,  *)
(* and what it has forgotten has cooled down.                              *)
WalkInv ==
  \A s \in Server : walked[s] # Idle =>
    /\ s \in DOMAIN last => walked[s] <= last[s] + MaxLag
    /\ s \notin DOMAIN last => walked[s] + Cooldown <= clock + MaxLag

LEMMA NextCallerInv == TInv /\ CallerInv /\ [Next]_vars => CallerInv'
<1> SUFFICES ASSUME TInv, CallerInv, [Next]_vars PROVE CallerInv'
  OBVIOUS
<1> USE DEF calls
<1>t. TypeOK /\ WalkingInv
  BY DEF TInv
<1>f. \A g \in Goroutine : frame[g] # Idle => frame[g] \in Frame
  BY <1>t DEF TypeOK
<1>1. ASSUME NEW g \in Goroutine, NEW outcome, NEW r, Return(g, outcome, r)
      PROVE  CallerInv'
  BY <1>t, <1>1 DEF Return, CallerInv, TypeOK
<1>2. ASSUME NEW g \in Goroutine, NEW f \in Frame, Continue(g, f),
             frame[g] # Idle => f.reason = frame[g].reason
      PROVE  CallerInv'
  BY <1>t, <1>2 DEF Continue, CallerInv, TypeOK
<1>3. ASSUME UNCHANGED <<frame, caller>> PROVE CallerInv'
  BY <1>3 DEF CallerInv
<1>4. ASSUME NEW g \in Goroutine, NEW best, Conclude(g, best) PROVE CallerInv'
  BY <1>1, <1>4 DEF Conclude
<1>5. ASSUME NEW g \in Goroutine, At(g, "probe"), GiveUp(g) PROVE CallerInv'
  <2>1. [frame[g] EXCEPT !.pc = "fallback"] \in Frame
        /\ [frame[g] EXCEPT !.pc = "fallback"].reason = frame[g].reason
    BY <1>f, <1>5, FallbackType DEF At
  <2> QED
    BY <1>1, <1>2, <1>5, <2>1 DEF GiveUp
<1>6. ASSUME NEW p \in Proc, Request(p) PROVE CallerInv'
  BY <1>t, <1>6 DEF Request, CallerInv, TypeOK, Goroutine
<1>7. ASSUME NEW p \in Proc, Load(p) PROVE CallerInv'
  <2> DEFINE due == ShouldProbe(row[frame[p].server], clock)
             f == [frame[p] EXCEPT !.now = clock, !.held = row[frame[p].server],
                     !.probed = due, !.pc = IF due THEN "probe" ELSE "fallback"]
  <2>1. p \in Goroutine
    BY DEF Goroutine
  <2>2. due \in BOOLEAN
    BY DEF ShouldProbe
  <2>3. frame[p] \in Frame /\ row[frame[p].server] \in Row \cup {NoRow}
    BY <1>t, <1>f, <1>7, <2>1 DEF Load, At, TypeOK, Frame
  <2> HIDE DEF due
  <2>4. f \in Frame /\ f.reason = frame[p].reason
    BY <1>t, <2>2, <2>3 DEF Frame, TypeOK
  <2>5. (\E r : Return(p, "fresh", r)) \/ Continue(p, f)
    BY <1>7 DEF Load, due
  <2> QED
    BY <1>1, <1>2, <2>1, <2>4, <2>5
<1>8. ASSUME NEW g \in Goroutine,
             \/ OriginAnswers(g) \/ OriginFails(g) \/ OriginFailsUnnoted(g)
             \/ OriginStoreFails(g) \/ NoWalk(g) \/ WalkEnds(g)
      PROVE  CallerInv'
  BY <1>1, <1>4, <1>5, <1>8
     DEF OriginAnswers, OriginFails, OriginFailsUnnoted, OriginStoreFails,
         NoWalk, WalkEnds
<1>9. ASSUME NEW g \in Goroutine, TakeWalk(g) PROVE CallerInv'
  <2> DEFINE f == [frame[g] EXCEPT !.pc = "walk", !.left = Notaries]
  <2>1. f \in Frame /\ f.reason = frame[g].reason /\ Continue(g, f)
    BY <1>f, <1>9, WalkType DEF TakeWalk, At
  <2> QED
    BY <1>2, <2>1
<1>10. ASSUME NEW g \in Goroutine,
              SkipItself(g) \/ NotaryFails(g) \/ NotaryStoreFails(g)
       PROVE  CallerInv'
  <2>1. frame[g] \in Frame /\ frame[g].left # <<>>
    BY <1>t, <1>f, <1>10
       DEF SkipItself, NotaryFails, NotaryStoreFails, At, WalkingInv
  <2>2. Onward(frame[g]) \in Frame /\ Onward(frame[g]).reason = frame[g].reason
    BY <2>1, OnwardType DEF Onward, Frame
  <2> QED
    BY <1>2, <1>10, <2>2 DEF SkipItself, NotaryFails, NotaryStoreFails
<1>11. ASSUME NEW g \in Goroutine, NextNotary(g) PROVE CallerInv'
  <2>1. Call(Head(frame[g].left), "notary", clock).reason = "notary"
        /\ Call(Head(frame[g].left), "notary", clock) # Idle
    <3>1. Head(frame[g].left) \in Server
      BY <1>f, <1>11, HeadTailProperties DEF NextNotary, At, Frame
    <3>2. clock \in Nat
      BY <1>t DEF TypeOK
    <3>3. Call(Head(frame[g].left), "notary", clock) \in Frame
      BY <3>1, <3>2, CallType
    <3>4. Call(Head(frame[g].left), "notary", clock).reason = "notary"
      BY DEF Call
    <3> QED
      BY <3>3, <3>4
  <2>2. frame[g] # Idle /\ caller' = [caller EXCEPT ![g] = frame[g]]
        /\ frame' = [frame EXCEPT ![g] = Call(Head(frame[g].left), "notary", clock)]
    BY <1>11 DEF NextNotary, At
  <2>3. \A h \in Goroutine : h # g =>
          frame'[h] = frame[h] /\ caller'[h] = caller[h]
    BY <1>t, <2>2 DEF TypeOK
  <2>4. frame'[g] = Call(Head(frame[g].left), "notary", clock)
    BY <1>t, <2>2 DEF TypeOK
  <2> QED
    BY <2>1, <2>3, <2>4 DEF CallerInv
<1>12. ASSUME NEW g \in Goroutine, NotaryAnswers(g) PROVE CallerInv'
  <2> DEFINE f == frame[g]
             r == row'[f.server]
  <2>1. f \in Frame /\ f.left # <<>> /\ f.server \in Server
    BY <1>t, <1>f, <1>12 DEF NotaryAnswers, At, WalkingInv, Frame
  <2>2. PICK valid \in Offers :
          /\ NotaryStores(f.server, Head(f.left), valid)
          /\ Continue(g, [Heard(f, r) EXCEPT
                           !.offered = IF valid > @ THEN valid ELSE @])
    BY <1>12 DEF NotaryAnswers
  <2> DEFINE offered == IF valid > Heard(f, r).offered THEN valid
                        ELSE Heard(f, r).offered
             h == [Heard(f, r) EXCEPT !.offered = offered]
  <2>3. r \in Row
    <3>1. Head(f.left) \in Server
      BY <2>1, HeadTailProperties DEF Frame
    <3>2. PICK stores \in Row : row' = [row EXCEPT ![f.server] = stores]
      BY <1>t, <2>1, <2>2, <3>1, NotaryStoresRow
    <3> QED
      BY <1>t, <2>1, <3>2 DEF TypeOK
  <2>4. h.reason = f.reason
    BY <2>1 DEF Heard, Onward, Frame
  <2>5. Heard(f, r).offered = f.offered
    BY <2>1 DEF Heard, Onward, Frame
  <2>6. offered \in Nat
    BY <2>1, <2>5 DEF Frame
  <2>7. h \in Frame
    BY <2>1, <2>3, <2>6, HeardType
  <2>8. Continue(g, h)
    BY <2>2
  <2> HIDE DEF h
  <2> QED
    BY <1>2, <2>4, <2>7, <2>8
<1>13. CASE Visit
  <2>1. Sweeper \in Goroutine /\ caller[Sweeper] = Idle
    BY <1>13 DEF Visit, CallerInv, Goroutine
  <2>2. caller' = caller /\ \A g \in Goroutine \ {Sweeper} : frame'[g] = frame[g]
    BY <1>t, <1>13 DEF Visit, Continue, TypeOK
  <2> QED
    BY <2>1, <2>2 DEF CallerInv
<1>14. ASSUME NEW p \in Proc, LoadFails(p) PROVE CallerInv'
  BY <1>1, <1>14 DEF LoadFails, Goroutine
<1>15. ASSUME NEW p \in Proc, Invalidate(p) PROVE CallerInv'
  BY <1>3, <1>15 DEF Invalidate
<1>16. CASE Restart
  BY <1>16 DEF Restart, CallerInv
<1>17. CASE ListDue \/ VisitFails \/ Tick \/ UNCHANGED vars
  BY <1>3, <1>17 DEF ListDue, VisitFails, Tick, vars
<1> QED
  BY <1>6, <1>7, <1>8, <1>9, <1>10, <1>11, <1>12, <1>13, <1>14, <1>15, <1>16,
     <1>17 DEF Next, Step

-----------------------------------------------------------------------------

(* The walk began at most lag after l, and n is past the cooldown of l.    *)
LEMMA Cooled ==
  ASSUME NEW walk \in Nat, NEW l \in Nat, NEW n \in Nat, NEW c \in Nat,
         walk <= l + MaxLag, l + Cooldown <= n, n <= c
  PROVE  walk + Cooldown <= c + MaxLag
OBVIOUS

LEMMA NextWalkInv == SInv /\ WalkInv /\ [Next]_vars => WalkInv'
<1> SUFFICES ASSUME SInv, WalkInv, [Next]_vars PROVE WalkInv'
  OBVIOUS
<1> USE DEF calls, history
<1>t. TypeOK /\ ClockInv
  BY DEF SInv, TInv
<1>1. ASSUME UNCHANGED <<clock, last, walked>> PROVE WalkInv'
  BY <1>1 DEF WalkInv
<1>2. ASSUME NEW g \in Goroutine, TakeWalk(g) PROVE WalkInv'
  <2> DEFINE x == frame[g].server
             now == frame[g].now
  <2>1. /\ x \in Server /\ now \in Nat
        /\ now <= clock /\ clock <= now + MaxLag
    BY <1>t, <1>2 DEF TakeWalk, At, TypeOK, ClockInv, Frame
  <2>2. /\ last' = Taken(last, x, now) /\ clock' = clock
        /\ walked' = [walked EXCEPT ![x] = clock]
    BY <1>2 DEF TakeWalk
  <2>3. DOMAIN last' = Kept(last, now) \cup {x} /\ last'[x] = now
        /\ \A s \in Kept(last, now) : s # x => last'[s] = last[s]
    BY <2>2 DEF Taken
  <2> SUFFICES ASSUME NEW s \in Server, walked'[s] # Idle
               PROVE  /\ s \in DOMAIN last' => walked'[s] <= last'[s] + MaxLag
                      /\ s \notin DOMAIN last' =>
                           walked'[s] + Cooldown <= clock' + MaxLag
    BY DEF WalkInv
  <2>4. CASE s = x
    BY <1>t, <2>1, <2>2, <2>3, <2>4 DEF TypeOK
  <2>5. ASSUME s # x PROVE walked'[s] = walked[s] /\ walked[s] \in Nat
    BY <1>t, <2>2, <2>5 DEF TypeOK
  <2>6. CASE s # x /\ s \in Kept(last, now)
    BY <1>t, <2>3, <2>5, <2>6 DEF WalkInv, Kept
  <2>7. CASE s # x /\ s \in DOMAIN last \ Kept(last, now)
    <3>1. last[s] \in Nat /\ last[s] + Cooldown <= now
      <4>1. last[s] \in Nat /\ ~(now < last[s] + Cooldown)
        BY <1>t, <2>7 DEF TypeOK, Kept
      <4> HIDE DEF now
      <4> QED
        BY <2>1, <4>1
    <3>2. walked[s] <= last[s] + MaxLag
      BY <2>5, <2>7 DEF WalkInv
    <3>3. walked[s] \in Nat /\ clock \in Nat
      BY <1>t, <2>5, <2>7 DEF TypeOK
    <3>4. walked[s] + Cooldown <= clock + MaxLag
      BY <2>1, <3>1, <3>2, <3>3, Cooled
    <3> QED
      BY <2>2, <2>3, <2>5, <2>7, <3>4
  <2>8. CASE s # x /\ s \notin DOMAIN last
    BY <2>2, <2>3, <2>5, <2>8 DEF WalkInv, Kept
  <2> QED
    BY <2>4, <2>6, <2>7, <2>8
<1>3. CASE Restart
  BY <1>3 DEF Restart, WalkInv
<1>4. CASE Tick
  <2>1. clock' = clock + 1 /\ UNCHANGED <<last, walked>>
    BY <1>4 DEF Tick
  <2>2. clock \in Nat /\ \A s \in Server : walked[s] # Idle => walked[s] \in Nat
    BY <1>t DEF TypeOK
  <2> SUFFICES ASSUME NEW s \in Server, walked[s] # Idle
               PROVE  /\ s \in DOMAIN last => walked[s] <= last[s] + MaxLag
                      /\ s \notin DOMAIN last =>
                           walked[s] + Cooldown <= clock + 1 + MaxLag
    BY <2>1 DEF WalkInv
  <2>3. /\ s \in DOMAIN last => walked[s] <= last[s] + MaxLag
        /\ s \notin DOMAIN last => walked[s] + Cooldown <= clock + MaxLag
    BY DEF WalkInv
  <2> QED
    BY <2>2, <2>3
<1>5. ASSUME NEW p \in Proc,
             Request(p) \/ Load(p) \/ LoadFails(p) \/ Invalidate(p)
      PROVE  WalkInv'
  BY <1>1, <1>5 DEF Request, Load, LoadFails, Invalidate
<1>6. ASSUME NEW g \in Goroutine,
             \/ OriginAnswers(g) \/ OriginFails(g) \/ OriginFailsUnnoted(g)
             \/ OriginStoreFails(g) \/ NoWalk(g) \/ SkipItself(g)
             \/ NextNotary(g) \/ NotaryAnswers(g) \/ NotaryFails(g)
             \/ NotaryStoreFails(g) \/ WalkEnds(g)
      PROVE  WalkInv'
  BY <1>1, <1>6
     DEF OriginAnswers, OriginFails, OriginFailsUnnoted, OriginStoreFails,
         NoWalk, SkipItself, NextNotary, NotaryAnswers, NotaryFails,
         NotaryStoreFails, WalkEnds
<1>7. CASE ListDue \/ Visit \/ VisitFails \/ UNCHANGED vars
  BY <1>1, <1>7 DEF ListDue, Visit, VisitFails, vars
<1> QED
  BY <1>2, <1>3, <1>4, <1>5, <1>6, <1>7 DEF Next, Step

-----------------------------------------------------------------------------

(* A request's call goes from its fallback into a walk by taking it.       *)
LEMMA OnlyTaken ==
  ASSUME TInv, CallerInv, Next, NEW g \in Goroutine, BeginsWalk(g)
  PROVE  TakeWalk(g)
<1> USE DEF calls
<1>t. TypeOK
  BY DEF TInv
<1>b. /\ frame[g] # Idle /\ frame[g].pc = "fallback" /\ caller[g] = Idle
      /\ frame'[g] # Idle /\ frame'[g].pc = "walk"
  BY DEF BeginsWalk, At, CallerInv
<1>1. ASSUME NEW h \in Goroutine, NEW outcome, NEW r, Return(h, outcome, r)
      PROVE  FALSE
  BY <1>t, <1>b, <1>1 DEF Return, TypeOK
<1>2. ASSUME NEW h \in Goroutine, NEW f, Continue(h, f), h # g PROVE FALSE
  BY <1>t, <1>b, <1>2 DEF Continue, TypeOK
<1>3. ASSUME NEW best, NEW h \in Goroutine, Conclude(h, best) PROVE FALSE
  BY <1>1, <1>3 DEF Conclude
<1>4. ASSUME frame' = frame PROVE FALSE
  BY <1>b, <1>4
<1>5. ASSUME NEW h \in Goroutine, At(h, "probe"), GiveUp(h) PROVE FALSE
  BY <1>1, <1>2, <1>5, <1>b DEF GiveUp, At
<1>6. ASSUME NEW p \in Proc, Request(p) PROVE FALSE
  BY <1>t, <1>b, <1>6 DEF Request, TypeOK, Goroutine
<1>7. ASSUME NEW p \in Proc, Load(p) PROVE FALSE
  <2>1. p \in Goroutine /\ p # g
    BY <1>b, <1>7 DEF Load, At, Goroutine
  <2> QED
    BY <1>1, <1>2, <1>7, <2>1 DEF Load
<1>8. ASSUME NEW h \in Goroutine,
             \/ OriginAnswers(h) \/ OriginFails(h) \/ OriginFailsUnnoted(h)
             \/ OriginStoreFails(h) \/ NoWalk(h) \/ WalkEnds(h)
      PROVE  FALSE
  BY <1>1, <1>3, <1>5, <1>8
     DEF OriginAnswers, OriginFails, OriginFailsUnnoted, OriginStoreFails,
         NoWalk, WalkEnds
<1>9. ASSUME NEW h \in Goroutine,
             \/ SkipItself(h) \/ NotaryAnswers(h) \/ NotaryFails(h)
             \/ NotaryStoreFails(h)
      PROVE  FALSE
  <2>1. h # g
    BY <1>b, <1>9
       DEF SkipItself, NotaryAnswers, NotaryFails, NotaryStoreFails, At
  <2> QED
    BY <1>2, <1>9, <2>1
       DEF SkipItself, NotaryAnswers, NotaryFails, NotaryStoreFails
<1>10. ASSUME NEW h \in Goroutine, NextNotary(h) PROVE FALSE
  BY <1>t, <1>b, <1>10 DEF NextNotary, At, TypeOK
<1>11. ASSUME NEW h \in Goroutine, TakeWalk(h) PROVE h = g
  BY <1>2, <1>11 DEF TakeWalk
<1>12. CASE Visit
  BY <1>t, <1>b, <1>12 DEF Visit, Continue, TypeOK
<1>13. ASSUME NEW p \in Proc, LoadFails(p) \/ Invalidate(p) PROVE FALSE
  BY <1>1, <1>4, <1>13 DEF LoadFails, Invalidate, Goroutine
<1>14. CASE ListDue \/ VisitFails \/ Tick
  BY <1>4, <1>14 DEF ListDue, VisitFails, Tick
<1>15. CASE Restart
  BY <1>b, <1>15 DEF Restart
<1> QED
  BY <1>6, <1>7, <1>8, <1>9, <1>10, <1>11, <1>12, <1>13, <1>14, <1>15
     DEF Next, Step

LEMMA WalkIsSpaced ==
  ASSUME SInv, WalkInv, NEW g \in Goroutine, TakeWalk(g),
         walked[frame[g].server] # Idle
  PROVE  clock >= walked[frame[g].server] + Cooldown - MaxLag
<1> DEFINE x == frame[g].server
           now == frame[g].now
<1>1. TypeOK /\ ClockInv /\ clock \in Nat
  BY DEF SInv, TInv, TypeOK
<1>2. x \in Server /\ now \in Nat /\ now <= clock
  BY <1>1 DEF TakeWalk, At, TypeOK, ClockInv, Frame
<1>3. walked[x] \in Nat
  BY <1>1, <1>2 DEF TypeOK
<1>4. CASE x \in DOMAIN last
  <2>1. last[x] \in Nat /\ now >= last[x] + Cooldown
    BY <1>1, <1>4 DEF TypeOK, TakeWalk, MayWalk
  <2>2. walked[x] <= last[x] + MaxLag
    BY <1>2, <1>4 DEF WalkInv
  <2> HIDE DEF x, now
  <2>3. walked[x] + Cooldown <= clock + MaxLag
    BY <1>1, <1>2, <1>3, <2>1, <2>2, Cooled
  <2>4. clock >= walked[x] + Cooldown - MaxLag
    BY <1>1, <1>3, <2>3
  <2> QED
    BY <2>4 DEF x
<1>5. CASE x \notin DOMAIN last
  <2>1. walked[x] + Cooldown <= clock + MaxLag
    BY <1>2, <1>5 DEF WalkInv
  <2> HIDE DEF x, now
  <2>2. clock >= walked[x] + Cooldown - MaxLag
    BY <1>1, <1>3, <2>1
  <2> QED
    BY <2>2 DEF x
<1> QED
  BY <1>4, <1>5

(* Between restarts two walks for one server begin at least a cooldown less*)
(* one probe's duration apart (notaryWalks.go), for any number of requests.*)
THEOREM WalksSpaced == Spec => WalksAreSpaced
<1> DEFINE Inv == SInv /\ CallerInv /\ WalkInv
<1>1. Init => Inv
  BY InitSInv DEF Init, CallerInv, WalkInv
<1>2. Inv /\ [Next]_vars => Inv'
  BY NextSInv, NextCallerInv, NextWalkInv DEF SInv
<1>3. Inv /\ [Next]_vars =>
        [\A g \in Goroutine : BeginsWalk(g) /\ walked[frame[g].server] # Idle =>
           clock >= walked[frame[g].server] + Cooldown - MaxLag]_vars
  BY OnlyTaken, WalkIsSpaced DEF SInv
<1> QED
  BY <1>1, <1>2, <1>3, PTL DEF Spec, WalksAreSpaced
-----------------------------------------------------------------------------
(* The steps of a call come to an end.                                     *)

LEMMA RoundsLeft ==
  ASSUME NEW l \in Seq(Server)
  PROVE  /\ Rounds(l) \in Nat
         /\ l # <<>> => Rounds(l) >= 5 /\ Rounds(Tail(l)) = Rounds(l) - 5
         /\ Rounds(<<>>) = 0
<1>1. Len(l) \in Nat /\ (l # <<>> => Len(l) # 0)
  BY EmptySeq, LenProperties
<1>2. PICK n \in Nat : n = Len(l) /\ (l # <<>> => n >= 1)
  BY <1>1
<1>3. l # <<>> => Len(Tail(l)) = n - 1
  BY <1>2, HeadTailProperties
<1>4. Len(<<>>) = 0
  BY EmptySeq
<1>5. Rounds(l) = 5 * n /\ (l # <<>> => Rounds(Tail(l)) = 5 * (n - 1))
  BY <1>2, <1>3 DEF Rounds
<1>6. 5 * n \in Nat /\ (n >= 1 => 5 * n >= 5 /\ 5 * (n - 1) = 5 * n - 5)
  OBVIOUS
<1> QED
  BY <1>2, <1>4, <1>5, <1>6 DEF Rounds

LEMMA BeforeType ==
  ASSUME NEW f
  PROVE  Before(f) \in Nat /\ Before(f) >= 1
<1>1. Rounds(Notaries) \in Nat
  BY ResolverAssumption, RoundsLeft
<1>2. PICK n \in Nat : n = Rounds(Notaries)
  BY <1>1
<1> QED
  BY <1>2 DEF Before

(* A call in progress has a step to come; one that asks has a notary left. *)
LEMMA StepsType ==
  ASSUME NEW f \in Frame, f.pc = "ask" => f.left # <<>>
  PROVE  StepsLeft(f) \in Nat /\ StepsLeft(f) >= 1
<1>1. Rounds(f.left) \in Nat /\ (f.pc = "ask" => Rounds(f.left) >= 5)
  BY RoundsLeft DEF Frame
<1>2. Before(f) \in Nat /\ Before(f) >= 1
  BY BeforeType
<1>3. PICK n \in Nat : n = Rounds(f.left)
  BY <1>1
<1>4. PICK b \in Nat : b = Before(f)
  BY <1>2
<1>5. CASE f.pc = "load"
  <2>1. StepsLeft(f) = b + 2
    BY <1>4, <1>5 DEF StepsLeft
  <2> QED
    BY <2>1
<1>6. CASE f.pc = "probe"
  <2>1. StepsLeft(f) = b + 1
    BY <1>4, <1>6 DEF StepsLeft
  <2> QED
    BY <2>1
<1>7. CASE f.pc = "fallback"
  <2>1. StepsLeft(f) = Before(f)
    BY <1>7 DEF StepsLeft
  <2> QED
    BY <1>2, <2>1
<1>8. CASE f.pc = "walk"
  <2>1. StepsLeft(f) = n + 1
    BY <1>3, <1>8 DEF StepsLeft
  <2> QED
    BY <2>1
<1>9. CASE f.pc = "ask"
  <2>1. n >= 5 /\ StepsLeft(f) = n - 3
    BY <1>1, <1>3, <1>9 DEF StepsLeft
  <2> QED
    BY <2>1
<1> QED
  BY <1>5, <1>6, <1>7, <1>8, <1>9 DEF Frame

LEMMA OnwardSteps ==
  ASSUME NEW f \in Frame, f.left # <<>>
  PROVE  StepsLeft(Onward(f)) = Rounds(f.left) - 4
<1>1. PICK n \in Nat : n = Rounds(f.left) /\ Rounds(Tail(f.left)) = n - 5
  BY RoundsLeft DEF Frame
<1>2. Onward(f).pc = "walk" /\ Onward(f).left = Tail(f.left)
  BY DEF Onward, Frame
<1>3. StepsLeft(Onward(f)) = (n - 5) + 1
  BY <1>1, <1>2 DEF StepsLeft
<1>4. (n - 5) + 1 = n - 4
  OBVIOUS
<1> QED
  BY <1>1, <1>3, <1>4

WindsDown(g) == ToCome(g)' \in 0..(ToCome(g) - 1)

LEMMA ToComeType ==
  ASSUME TInv, NEW g \in Goroutine, frame[g] # Idle
  PROVE  /\ OwnSteps(g) = StepsLeft(frame[g])
         /\ OwnSteps(g) \in Nat /\ OwnSteps(g) >= 1
         /\ CallersSteps(g) \in Nat
         /\ caller[g] # Idle =>
              /\ caller[g] \in Frame /\ caller[g].left # <<>>
              /\ Rounds(caller[g].left) \in Nat /\ Rounds(caller[g].left) >= 5
<1>1. frame[g] \in Frame /\ (frame[g].pc = "ask" => frame[g].left # <<>>)
  BY DEF TInv, TypeOK, WalkingInv, At
<1>2. OwnSteps(g) = StepsLeft(frame[g])
  BY DEF OwnSteps
<1>3. OwnSteps(g) \in Nat /\ OwnSteps(g) >= 1
  BY <1>1, <1>2, StepsType
<1>4. ASSUME caller[g] # Idle
      PROVE  /\ caller[g] \in Frame /\ caller[g].left # <<>>
             /\ Rounds(caller[g].left) \in Nat /\ Rounds(caller[g].left) >= 5
  <2>1. caller[g] \in Frame /\ caller[g].left # <<>>
    BY <1>4 DEF TInv, TypeOK, WalkingInv
  <2> QED
    BY <2>1, RoundsLeft DEF Frame
<1>5. CallersSteps(g) \in Nat
  <2>1. CASE caller[g] = Idle
    BY <2>1 DEF CallersSteps
  <2>2. CASE caller[g] # Idle
    <3>1. PICK n \in Nat : n = Rounds(caller[g].left) /\ n >= 5
      BY <1>4, <2>2
    <3>2. CallersSteps(g) = n - 3
      BY <2>2, <3>1 DEF CallersSteps
    <3> QED
      BY <3>1, <3>2
  <2> QED
    BY <2>1, <2>2
<1> QED
  BY <1>2, <1>3, <1>4, <1>5

(* Fewer steps of the call alone or of the two together.                   *)
LEMMA Fewer ==
  ASSUME NEW g, NEW a \in Nat, NEW b \in Nat, NEW c \in Nat, NEW d \in Nat,
         OwnSteps(g) = a, CallersSteps(g) = b,
         OwnSteps(g)' = c, CallersSteps(g)' = d, c + d < a + b
  PROVE  WindsDown(g)
<1>1. ToCome(g) = a + b /\ ToCome(g)' = c + d
  BY DEF ToCome
<1>2. c + d \in 0..((a + b) - 1)
  OBVIOUS
<1> QED
  BY <1>1, <1>2 DEF WindsDown

LEMMA OwnStepsNext ==
  ASSUME NEW g, NEW f, frame'[g] = f
  PROVE  OwnSteps(g)' = IF f = Idle THEN 0 ELSE StepsLeft(f)
BY DEF OwnSteps, StepsLeft, Before

LEMMA ReturnWindsDown ==
  ASSUME TInv, NEW g \in Goroutine, frame[g] # Idle, NEW outcome, NEW r,
         Return(g, outcome, r)
  PROVE  WindsDown(g)
<1>1. caller'[g] = Idle
      /\ frame'[g] = IF caller[g] = Idle THEN Idle ELSE Anchored(caller[g], r)
  BY DEF Return, TInv, TypeOK
<1>2. OwnSteps(g) \in Nat /\ OwnSteps(g) >= 1 /\ CallersSteps(g) \in Nat
  BY ToComeType
<1>3. CallersSteps(g)' = 0
  BY <1>1 DEF CallersSteps
<1>4. PICK a \in Nat, b \in Nat :
        a = OwnSteps(g) /\ b = CallersSteps(g) /\ a >= 1
  BY <1>2
<1>5. CASE caller[g] = Idle
  <2>1. OwnSteps(g)' = 0
    BY <1>1, <1>5 DEF OwnSteps
  <2>2. 0 + 0 < a + b
    BY <1>4
  <2> QED
    BY <1>3, <1>4, <2>1, <2>2, Fewer
<1>6. CASE caller[g] # Idle
  <2>1. PICK c : c = caller[g]
    OBVIOUS
  <2>2. PICK n \in Nat : n = Rounds(c.left) /\ n >= 5
    BY <1>6, <2>1, ToComeType
  <2>3. c \in Frame /\ c.left # <<>> /\ b = n - 3
    BY <1>4, <1>6, <2>1, <2>2, ToComeType DEF CallersSteps
  <2>4. PICK x : x = Anchored(c, r)
    OBVIOUS
  <2>5. StepsLeft(x) = n - 3 \/ StepsLeft(x) = n - 4
    <3>1. CASE HasKeys(r)
      <4>1. x.pc = "ask" /\ x.left = c.left
        BY <2>3, <2>4, <3>1 DEF Anchored, Frame
      <4> QED
        BY <2>2, <4>1 DEF StepsLeft
    <3>2. CASE ~HasKeys(r)
      <4>1. x = Onward(c)
        BY <2>4, <3>2 DEF Anchored
      <4> QED
        BY <2>2, <2>3, <4>1, OnwardSteps
    <3> QED
      BY <3>1, <3>2
  <2>6. PICK s \in Nat : s = StepsLeft(x) /\ s <= b
    BY <2>2, <2>3, <2>5
  <2>7. OwnSteps(g)' = IF x = Idle THEN 0 ELSE s
    <3>1. frame'[g] = x
      BY <1>1, <1>6, <2>1, <2>4
    <3> QED
      BY <2>6, <3>1, OwnStepsNext
  <2>8. PICK e \in Nat : OwnSteps(g)' = e /\ e <= b
    BY <2>6, <2>7
  <2>9. e + 0 < a + b
    BY <1>4, <2>8
  <2> QED
    BY <1>3, <1>4, <2>8, <2>9, Fewer
<1> QED
  BY <1>5, <1>6

LEMMA ContinueWindsDown ==
  ASSUME TInv, NEW g \in Goroutine, frame[g] # Idle, NEW f,
         StepsLeft(f) \in Nat, StepsLeft(f) < StepsLeft(frame[g]),
         Continue(g, f)
  PROVE  WindsDown(g)
<1>1. frame'[g] = f /\ caller'[g] = caller[g]
  BY DEF Continue, TInv, TypeOK
<1>2. CallersSteps(g)' = CallersSteps(g)
  BY <1>1 DEF CallersSteps
<1>3. OwnSteps(g)' = IF f = Idle THEN 0 ELSE StepsLeft(f)
  BY <1>1, OwnStepsNext
<1>4. PICK a \in Nat, b \in Nat :
        a = OwnSteps(g) /\ b = CallersSteps(g) /\ a = StepsLeft(frame[g])
  BY ToComeType
<1>5. PICK c \in Nat : c = OwnSteps(g)' /\ c < a
  <2>1. PICK s \in Nat : s = StepsLeft(f) /\ s < a
    BY <1>4
  <2> QED
    BY <1>3, <2>1
<1>6. c + b < a + b
  BY <1>4, <1>5
<1> QED
  BY <1>2, <1>4, <1>5, <1>6, Fewer

LEMMA ConcludeWindsDown ==
  ASSUME TInv, NEW g \in Goroutine, frame[g] # Idle, NEW best,
         Conclude(g, best)
  PROVE  WindsDown(g)
<1>1. PICK outcome, r : Return(g, outcome, r)
  BY DEF Conclude
<1> QED
  BY <1>1, ReturnWindsDown

LEMMA GiveUpWindsDown ==
  ASSUME TInv, NEW g \in Goroutine, At(g, "probe"), GiveUp(g)
  PROVE  WindsDown(g)
<1>1. frame[g] \in Frame /\ frame[g] # Idle /\ frame[g].pc = "probe"
  BY DEF TInv, TypeOK, At
<1>2. CASE frame[g].reason = "sweep"
  BY <1>1, <1>2, ReturnWindsDown DEF GiveUp
<1>3. CASE frame[g].reason # "sweep"
  <2>1. PICK f : f = [frame[g] EXCEPT !.pc = "fallback"]
    OBVIOUS
  <2>2. f.pc = "fallback" /\ f.reason = frame[g].reason
    BY <1>1, <2>1 DEF Frame
  <2>3. PICK b \in Nat : b = Before(f) /\ b = Before(frame[g])
    BY <2>2, BeforeType DEF Before
  <2>4. StepsLeft(f) = b /\ StepsLeft(frame[g]) = b + 1
    BY <1>1, <2>2, <2>3 DEF StepsLeft
  <2>5. StepsLeft(f) \in Nat /\ StepsLeft(f) < StepsLeft(frame[g])
    BY <2>4
  <2> QED
    BY <1>1, <1>3, <2>1, <2>5, ContinueWindsDown DEF GiveUp
<1> QED
  BY <1>2, <1>3

LEMMA LoadWindsDown ==
  ASSUME TInv, NEW p \in Proc, p \in Goroutine, Load(p) \/ LoadFails(p)
  PROVE  WindsDown(p)
<1>1. frame[p] \in Frame /\ frame[p] # Idle /\ frame[p].pc = "load"
  BY DEF TInv, TypeOK, At, Load, LoadFails
<1>2. CASE \E outcome, r : Return(p, outcome, r)
  BY <1>1, <1>2, ReturnWindsDown
<1>3. ASSUME NEW f, Continue(p, f), f.pc \in {"probe", "fallback"},
             f.reason = frame[p].reason
      PROVE  WindsDown(p)
  <2>1. PICK b \in Nat : b = Before(f) /\ b = Before(frame[p])
    BY <1>3, BeforeType DEF Before
  <2>2. StepsLeft(frame[p]) = b + 2
    BY <1>1, <2>1 DEF StepsLeft
  <2>3. f.pc = "probe" => StepsLeft(f) = b + 1
    BY <2>1 DEF StepsLeft
  <2>4. f.pc = "fallback" => StepsLeft(f) = b
    BY <2>1 DEF StepsLeft
  <2>5. StepsLeft(f) \in Nat /\ StepsLeft(f) < StepsLeft(frame[p])
    BY <1>3, <2>2, <2>3, <2>4
  <2> QED
    BY <1>1, <1>3, <2>5, ContinueWindsDown
<1>4. CASE LoadFails(p)
  BY <1>2, <1>4 DEF LoadFails
<1>5. CASE Load(p)
  <2>1. PICK due : due = ShouldProbe(row[frame[p].server], clock)
    OBVIOUS
  <2>2. PICK f : f = [frame[p] EXCEPT !.now = clock,
                        !.held = row[frame[p].server], !.probed = due,
                        !.pc = IF due THEN "probe" ELSE "fallback"]
    OBVIOUS
  <2>3. f.pc \in {"probe", "fallback"} /\ f.reason = frame[p].reason
    BY <1>1, <2>2 DEF Frame
  <2>4. Continue(p, f) \/ \E outcome, r : Return(p, outcome, r)
    BY <1>5, <2>1, <2>2 DEF Load
  <2> QED
    BY <1>2, <1>3, <2>3, <2>4
<1> QED
  BY <1>4, <1>5

(* The walk: it begins, leaves a notary, turns to the next or ends.        *)
LEMMA WalkWindsDown ==
  ASSUME TInv, NEW g \in Goroutine,
         \/ TakeWalk(g) \/ SkipItself(g) \/ NextNotary(g)
         \/ NotaryAnswers(g) \/ NotaryFails(g) \/ NotaryStoreFails(g)
  PROVE  WindsDown(g)
<1>1. frame[g] \in Frame /\ frame[g] # Idle
  BY DEF TInv, TypeOK, At, TakeWalk, SkipItself, NextNotary, NotaryAnswers,
     NotaryFails, NotaryStoreFails
<1>2. PICK n \in Nat :
        n = Rounds(frame[g].left) /\ (frame[g].left # <<>> => n >= 5)
  BY <1>1, RoundsLeft DEF Frame
<1>3. CASE TakeWalk(g)
  <2>1. PICK f : f = [frame[g] EXCEPT !.pc = "walk", !.left = Notaries]
    OBVIOUS
  <2>2. f.pc = "walk" /\ f.left = Notaries
    BY <1>1, <2>1 DEF Frame
  <2>3. frame[g].pc = "fallback" /\ frame[g].reason = "request"
        /\ Continue(g, f)
    BY <1>3, <2>1 DEF TakeWalk, At, WantsWalk
  <2>4. PICK b \in Nat : b = Rounds(Notaries)
    BY ResolverAssumption, RoundsLeft
  <2>5. StepsLeft(f) = b + 1 /\ StepsLeft(frame[g]) = b + 2
    BY <2>2, <2>3, <2>4 DEF StepsLeft, Before
  <2>6. b + 1 \in Nat /\ b + 1 < b + 2
    OBVIOUS
  <2>7. StepsLeft(f) \in Nat /\ StepsLeft(f) < StepsLeft(frame[g])
    BY <2>5, <2>6
  <2> QED
    BY <1>1, <2>3, <2>7, ContinueWindsDown
<1>4. CASE SkipItself(g) \/ NotaryFails(g) \/ NotaryStoreFails(g)
  <2>1. /\ frame[g].pc \in {"walk", "ask"} /\ frame[g].left # <<>>
        /\ Continue(g, Onward(frame[g]))
    BY <1>4 DEF SkipItself, NotaryFails, NotaryStoreFails, At, TInv, WalkingInv
  <2>2. PICK f : f = Onward(frame[g])
    OBVIOUS
  <2>3. StepsLeft(f) = n - 4 /\ n >= 5
    BY <1>1, <1>2, <2>1, <2>2, OnwardSteps
  <2>4. StepsLeft(frame[g]) = n + 1 \/ StepsLeft(frame[g]) = n - 3
    BY <1>2, <2>1 DEF StepsLeft
  <2>5. n >= 5 => n - 4 \in Nat /\ n - 4 < n + 1 /\ n - 4 < n - 3
    <3> HIDE PolicyAssumption, ScheduleAssumption, ResolverAssumption, NamesAssumption
    <3> QED  OBVIOUS
  <2>6. StepsLeft(f) \in Nat /\ StepsLeft(f) < StepsLeft(frame[g])
    <3>1. CASE StepsLeft(frame[g]) = n + 1
      BY <2>3, <2>5, <3>1
    <3>2. CASE StepsLeft(frame[g]) = n - 3
      BY <2>3, <2>5, <3>2
    <3> QED
      BY <2>4, <3>1, <3>2
  <2> QED
    BY <1>1, <2>1, <2>2, <2>6, ContinueWindsDown
<1>5. CASE NotaryAnswers(g)
  <2>1. frame[g].pc = "ask" /\ frame[g].left # <<>>
    BY <1>5 DEF NotaryAnswers, At, TInv, WalkingInv
  <2>2. PICK r, x : Continue(g, [Heard(frame[g], r) EXCEPT !.offered = x])
    BY <1>5 DEF NotaryAnswers
  <2>3. PICK f : f = [Heard(frame[g], r) EXCEPT !.offered = x]
    OBVIOUS
  <2>4. StepsLeft(f) \in Nat /\ StepsLeft(f) < StepsLeft(frame[g])
    <3>1. StepsLeft(frame[g]) = n - 3 /\ n >= 5
      BY <1>2, <2>1 DEF StepsLeft
    <3>2. CASE HeldSatisfies(r, frame[g].min)
      <4>1. f.pc = "walk" /\ f.left = <<>>
        BY <1>1, <2>3, <3>2 DEF Heard, Frame
      <4>2. StepsLeft(f) = 0 + 1
        BY <4>1, RoundsLeft, <1>1 DEF StepsLeft, Frame
      <4> QED
        BY <3>1, <4>2
    <3>3. CASE ~HeldSatisfies(r, frame[g].min)
      <4>1. Onward(frame[g]) \in Frame
        BY <1>1, <2>1, OnwardType
      <4>2. f.pc = Onward(frame[g]).pc /\ f.left = Onward(frame[g]).left
            /\ f.pc = "walk" /\ Onward(frame[g]).pc = "walk"
        BY <1>1, <2>3, <3>3 DEF Heard, Frame, Onward
      <4>3. StepsLeft(f) = StepsLeft(Onward(frame[g]))
        BY <4>2 DEF StepsLeft
      <4>4. StepsLeft(f) = n - 4
        BY <1>1, <1>2, <2>1, <4>3, OnwardSteps
      <4> QED
        BY <3>1, <4>4
    <3> QED
      BY <3>2, <3>3
  <2> QED
    BY <1>1, <2>2, <2>3, <2>4, ContinueWindsDown
<1>6. CASE NextNotary(g)
  <2>1. PICK f : /\ frame' = [frame EXCEPT ![g] = f]
                 /\ f.pc = "load" /\ f.reason = "notary"
    <3>1. PICK s, t : frame' = [frame EXCEPT ![g] = Call(s, "notary", t)]
      BY <1>6 DEF NextNotary
    <3>2. PICK f : f = Call(s, "notary", t)
      OBVIOUS
    <3>3. f.pc = "load" /\ f.reason = "notary"
      BY <3>2 DEF Call
    <3> QED
      BY <3>1, <3>2, <3>3
  <2>2. /\ frame[g].pc = "walk" /\ frame[g].left # <<>>
        /\ caller'[g] = frame[g] /\ frame'[g] = f
    BY <1>6, <2>1 DEF NextNotary, At, TInv, TypeOK
  <2>3. PICK a \in Nat, b \in Nat : a = OwnSteps(g) /\ b = CallersSteps(g)
    BY <1>1, ToComeType
  <2>4. a = n + 1 /\ n >= 5
    BY <1>1, <1>2, <2>2, <2>3, ToComeType DEF StepsLeft
  <2>5. CallersSteps(g)' = n - 3 /\ n - 3 \in Nat
    BY <1>1, <1>2, <2>2, <2>4 DEF CallersSteps, Rounds
  <2>6. PICK e \in Nat : e = OwnSteps(g)' /\ e <= 3
    <3>1. OwnSteps(g)' = IF f = Idle THEN 0 ELSE StepsLeft(f)
      BY <2>2, OwnStepsNext
    <3>2. StepsLeft(f) = 1 + 2
      BY <2>1 DEF StepsLeft, Before
    <3> QED
      BY <3>1, <3>2
  <2>7. e + (n - 3) < a + b
    BY <2>4, <2>6
  <2> QED
    BY <2>3, <2>5, <2>6, <2>7, Fewer
<1> QED
  BY <1>3, <1>4, <1>5, <1>6

(* However long the list of notaries, a call has a bounded number of steps *)
(* to take, and each it takes leaves it fewer: with goroutines scheduled   *)
(* and calls that time out every request is answered                       *)
(* (src/keys/notaryFallback.go:67-107).                                    *)
THEOREM CallsEnd == Spec => CallsWindDown
<1>. DEFINE Same(h) == UNCHANGED <<frame[h], caller[h]>>
<1>1. ASSUME TInv, [Next]_vars, NEW h \in Goroutine
      PROVE  frame[h] = Idle \/ Same(h) \/ WindsDown(h)
  <2>1. ASSUME NEW g \in Goroutine, NEW a, NEW b,
               frame' = [frame EXCEPT ![g] = a],
               caller' = [caller EXCEPT ![g] = b] \/ caller' = caller,
               frame[g] = Idle \/ WindsDown(g)
        PROVE  frame[h] = Idle \/ Same(h) \/ WindsDown(h)
    BY <1>1, <2>1 DEF TInv, TypeOK
  <2>2. ASSUME NEW g \in Goroutine, NEW outcome, NEW r, Return(g, outcome, r),
               frame[g] = Idle \/ WindsDown(g)
        PROVE  frame[h] = Idle \/ Same(h) \/ WindsDown(h)
    <3>1. PICK a : frame' = [frame EXCEPT ![g] = a]
      BY <2>2 DEF Return
    <3> QED
      BY <2>1, <2>2, <3>1 DEF Return
  <2>3. ASSUME NEW g \in Goroutine, NEW f, Continue(g, f),
               frame[g] = Idle \/ WindsDown(g)
        PROVE  frame[h] = Idle \/ Same(h) \/ WindsDown(h)
    BY <2>1, <2>3 DEF Continue
  <2>4. ASSUME NEW g \in Goroutine,
               \/ Step(g) \/ OriginFailsUnnoted(g)
               \/ OriginStoreFails(g) \/ NotaryStoreFails(g)
        PROVE  frame[h] = Idle \/ Same(h) \/ WindsDown(h)
    <3>1. frame[g] # Idle
      BY <2>4 DEF Step, OriginAnswers, OriginFails, OriginFailsUnnoted, NoWalk,
         TakeWalk, SkipItself, NextNotary, NotaryAnswers, NotaryFails,
         OriginStoreFails, NotaryStoreFails, WalkEnds, At
    <3>2. CASE OriginAnswers(g)
      BY <1>1, <2>2, <3>1, <3>2, ReturnWindsDown DEF OriginAnswers
    <3>3. CASE \/ OriginFails(g) \/ OriginFailsUnnoted(g)
               \/ OriginStoreFails(g)
      <4>1. At(g, "probe") /\ GiveUp(g)
        BY <3>3 DEF OriginFails, OriginFailsUnnoted, OriginStoreFails
      <4>2. WindsDown(g)
        BY <1>1, <4>1, GiveUpWindsDown
      <4> QED
        BY <2>2, <2>3, <4>1, <4>2 DEF GiveUp
    <3>4. CASE NoWalk(g) \/ WalkEnds(g)
      <4>1. PICK best : Conclude(g, best)
        BY <3>4 DEF NoWalk, WalkEnds
      <4>2. WindsDown(g)
        BY <1>1, <3>1, <4>1, ConcludeWindsDown
      <4> QED
        BY <2>2, <4>1, <4>2 DEF Conclude
    <3>5. CASE \/ TakeWalk(g) \/ SkipItself(g) \/ NextNotary(g)
               \/ NotaryAnswers(g) \/ NotaryFails(g) \/ NotaryStoreFails(g)
      <4>1. WindsDown(g)
        BY <1>1, <3>5, WalkWindsDown
      <4>2. CASE NextNotary(g)
        <5>1. PICK a, b : frame' = [frame EXCEPT ![g] = a]
                          /\ caller' = [caller EXCEPT ![g] = b]
          BY <4>2 DEF NextNotary
        <5> QED
          BY <2>1, <4>1, <5>1
      <4>3. CASE ~NextNotary(g)
        <5>1. PICK f : Continue(g, f)
          BY <3>5, <4>3 DEF TakeWalk, SkipItself, NotaryAnswers, NotaryFails,
                             NotaryStoreFails
        <5> QED
          BY <2>3, <4>1, <5>1
      <4> QED
        BY <4>2, <4>3
    <3> QED
      BY <2>4, <3>2, <3>3, <3>4, <3>5 DEF Step
  <2>5. ASSUME NEW p \in Proc, Load(p) \/ LoadFails(p)
        PROVE  frame[h] = Idle \/ Same(h) \/ WindsDown(h)
    <3>1. p \in Goroutine
      BY DEF Goroutine
    <3>2. WindsDown(p)
      BY <1>1, <2>5, <3>1, LoadWindsDown
    <3>3. \/ \E outcome, r : Return(p, outcome, r)
          \/ \E f : Continue(p, f)
      BY <2>5 DEF Load, LoadFails
    <3> QED
      BY <2>2, <2>3, <3>1, <3>2, <3>3
  <2>6. ASSUME NEW p \in Proc, Request(p)
        PROVE  frame[h] = Idle \/ Same(h) \/ WindsDown(h)
    <3>1. p \in Goroutine /\ frame[p] = Idle /\ caller' = caller
      BY <2>6 DEF Goroutine, Request
    <3>2. PICK a : frame' = [frame EXCEPT ![p] = a]
      BY <2>6 DEF Request
    <3> QED
      BY <2>1, <3>1, <3>2
  <2>7. ASSUME NEW p \in Proc, Invalidate(p)
        PROVE  Same(h)
    BY <2>7 DEF Invalidate
  <2>8. CASE ListDue \/ VisitFails \/ Tick \/ UNCHANGED vars
    BY <2>8 DEF ListDue, VisitFails, Tick, vars, calls
  <2>9. CASE Visit
    <3>1. Sweeper \in Goroutine /\ frame[Sweeper] = Idle
      BY <2>9 DEF Goroutine, Visit
    <3>2. UNCHANGED calls \/ \E f : Continue(Sweeper, f)
      BY <2>9 DEF Visit
    <3> QED
      BY <2>3, <3>1, <3>2 DEF calls
  <2>10. CASE Restart
    <3>1. frame'[h] = Idle /\ caller'[h] = Idle
      BY <2>10 DEF Restart
    <3>2. ASSUME frame[h] # Idle PROVE WindsDown(h)
      <4>1. PICK a \in Nat, b \in Nat :
              a = OwnSteps(h) /\ b = CallersSteps(h) /\ a >= 1
        BY <1>1, <3>2, ToComeType
      <4>2. OwnSteps(h)' = 0 /\ CallersSteps(h)' = 0
        BY <3>1 DEF OwnSteps, CallersSteps
      <4>3. 0 + 0 < a + b
        BY <4>1
      <4> QED
        BY <4>1, <4>2, <4>3, Fewer
    <3> QED
      BY <3>2
  <2> QED
    BY <1>1, <2>4, <2>5, <2>6, <2>7, <2>8, <2>9, <2>10 DEF Next
<1>2. TInv /\ [Next]_vars =>
        [\A g \in Goroutine :
           \/ frame[g] = Idle \/ UNCHANGED <<frame[g], caller[g]>>
           \/ ToCome(g)' \in 0..(ToCome(g) - 1)]_vars
  BY <1>1 DEF WindsDown
<1>3. TInv /\ [Next]_vars => TInv'
  BY NextTInv
<1> QED
  BY <1>2, <1>3, InitTInv, PTL DEF Spec, CallsWindDown
=============================================================================
