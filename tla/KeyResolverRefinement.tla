----------------------- MODULE KeyResolverRefinement ------------------------
(***************************************************************************)
(* The proof that the calls of KeyResolver, with every fault, implement    *)
(* the copies and hands of Holdings.                                       *)
(***************************************************************************)
EXTENDS HeldKeysProofs

USE PolicyAssumption, ScheduleAssumption, ResolverAssumption, NamesAssumption

LEMMA CopyType ==
  ASSUME NEW r \in Row
  PROVE  /\ CopyOf(r) \in Holding!Copy /\ CopyOf(r) # NoRow
         /\ CopyOf(r) = [valid |-> r.valid, via |-> r.via, keys |-> r.keys]
<1>1. CopyOf(r) = [valid |-> r.valid, via |-> r.via, keys |-> r.keys]
  BY DEF CopyOf
<1>2. CopyOf(r) \in Holding!Copy
  BY <1>1 DEF Row, Holding!Copy
<1> QED
  BY <1>1, <1>2, CopyAssumption

(* A row without a copy is no row.                                         *)
LEMMA NoCopy ==
  ASSUME NEW r \in Row \cup {NoRow}
  PROVE  CopyOf(r) = NoRow <=> r = NoRow
BY CopyType DEF CopyOf

(* What a request has in hand is what its outer call holds: the best copy  *)
(* of its walk, or the one it read.                                        *)
Best(f) == IF f.best = NoRow THEN f.held ELSE f.best

LEMMA CallInHand ==
  ASSUME NEW f \in Frame, NEW r
  PROVE  InHand(f, r) = Holds(f.server, Best(f))
BY DEF InHand, Best

(* The store's copies and the requests' hands do not change where rows and *)
(* calls do not.                                                           *)
LEMMA Stutters ==
  ASSUME UNCHANGED <<row, frame, caller, reply>>
  PROVE  UNCHANGED <<copyBar, handBar>>
BY DEF copyBar, handBar, OwnCall

LEMMA OneCopy ==
  ASSUME TypeOK, NEW s \in Server, NEW r, row' = [row EXCEPT ![s] = r]
  PROVE  copyBar' = [copyBar EXCEPT ![s] = CopyOf(r)]
<1>1. \A t \in Server : row'[t] = IF t = s THEN r ELSE row[t]
  BY DEF TypeOK
<1>2. \A t \in Server : CopyOf(row'[t]) = IF t = s THEN CopyOf(r)
                                          ELSE CopyOf(row[t])
  BY <1>1
<1> QED
  BY <1>2 DEF copyBar

(* A goroutine that is not a request has no hand, and the hand of one that *)
(* is follows from its outer call.                                         *)
LEMMA OneHand ==
  ASSUME TypeOK, NEW g \in Goroutine,
         \A h \in Goroutine : h # g => /\ frame'[h] = frame[h]
                                       /\ caller'[h] = caller[h],
         \A p \in Proc : p # g => reply'[p] = reply[p]
  PROVE  handBar' = IF g \in Proc
                    THEN [handBar EXCEPT ![g] = InHand(OwnCall(g), reply[g])']
                    ELSE handBar
<1>1. Proc \subseteq Goroutine
  BY DEF Goroutine
<1>2. \A p \in Proc : p # g => InHand(OwnCall(p), reply[p])'
                                = InHand(OwnCall(p), reply[p])
  BY <1>1 DEF OwnCall
<1> QED
  BY <1>2 DEF handBar

(* A call that returns: to the walk that waits for it, which leaves the    *)
(* request's hand alone, or to the request.                                *)
LEMMA ReturnHand ==
  ASSUME TInv, CallerInv, FramesInv, PlacesInv, NEW g \in Goroutine,
         frame[g] # Idle, NEW outcome \in Outcome, NEW r \in Row \cup {NoRow},
         Return(g, outcome, r)
  PROVE  \/ handBar' = handBar
         \/ /\ g \in Proc /\ caller[g] = Idle /\ frame[g].reason = "request"
            /\ handBar' = [handBar EXCEPT ![g] =
                             IF HasKeys(r) THEN Holds(frame[g].server, r)
                             ELSE Idle]
<1>t. TypeOK /\ WalkingInv /\ frame[g] \in Frame
  BY DEF TInv, TypeOK
<1>1. handBar' = IF g \in Proc
                 THEN [handBar EXCEPT ![g] = InHand(OwnCall(g), reply[g])']
                 ELSE handBar
  BY <1>t, OneHand DEF Return, TypeOK
<1>2. CASE caller[g] # Idle
  <2> DEFINE c == caller[g]
             a == Anchored(c, r)
  <2>1. c \in Frame /\ c.left # <<>>
    BY <1>t, <1>2 DEF WalkingInv, TypeOK
  <2>2. /\ a \in Frame /\ a.server = c.server
        /\ a.held = c.held /\ a.best = c.best
    BY <2>1, OnwardType DEF Anchored, Onward, Frame
  <2>3. a # Idle
    BY <2>2
  <2>4. frame'[g] = a /\ caller'[g] = Idle
    BY <1>t, <1>2 DEF Return, TypeOK
  <2>5. OwnCall(g) = c /\ OwnCall(g)' = a
    BY <1>2, <2>4 DEF OwnCall
  <2> HIDE DEF a
  <2>6. InHand(OwnCall(g), reply[g])' = InHand(a, reply'[g])
    BY <2>5
  <2>7. InHand(a, reply'[g]) = InHand(c, reply[g])
    BY <2>1, <2>2, CallInHand DEF Best
  <2> QED
    BY <1>1, <2>5, <2>6, <2>7 DEF handBar
<1>3. CASE caller[g] = Idle
  <2>1. ASSUME g \in Proc
        PROVE  /\ frame[g].reason = "request"
               /\ InHand(OwnCall(g), reply[g])' =
                    IF HasKeys(r) THEN Holds(frame[g].server, r) ELSE Idle
    <3>1. frame[g].reason = "request"
      BY <1>3, <2>1 DEF PlacesInv
    <3>2. /\ frame'[g] = Idle /\ caller'[g] = Idle
          /\ reply'[g] = [server |-> frame[g].server, outcome |-> outcome,
                          record |-> r]
      BY <1>t, <1>3, <2>1, <3>1 DEF Return, TypeOK
    <3>3. reply'[g] \in Reply
      BY <1>t, <3>2 DEF Frame, Reply
    <3>4. reply'[g] # Idle /\ reply'[g].record = r
          /\ reply'[g].server = frame[g].server
      BY <3>2, <3>3
    <3> QED
      BY <3>1, <3>2, <3>4 DEF OwnCall, InHand
  <2> QED
    BY <1>1, <1>3, <2>1
<1> QED
  BY <1>2, <1>3

(* A call that goes on, from load on, changes the request's hand by what   *)
(* it has in hand itself.                                                  *)
LEMMA ContinueHand ==
  ASSUME TInv, NEW g \in Goroutine, NEW f \in Frame, Continue(g, f)
  PROVE  handBar' = IF g \in Proc /\ caller[g] = Idle
                    THEN [handBar EXCEPT ![g] = Holds(f.server, Best(f))]
                    ELSE handBar
<1>1. TypeOK
  BY DEF TInv
<1>2. handBar' = IF g \in Proc
                 THEN [handBar EXCEPT ![g] = InHand(OwnCall(g), reply[g])']
                 ELSE handBar
  BY <1>1, OneHand DEF Continue, TypeOK
<1>3. frame'[g] = f /\ caller' = caller /\ reply' = reply
  BY <1>1 DEF Continue, TypeOK
<1>4. CASE caller[g] = Idle
  <2>1. InHand(OwnCall(g), reply[g])' = InHand(f, reply[g])
    BY <1>3, <1>4 DEF OwnCall
  <2> QED
    BY <1>2, <1>4, <2>1, CallInHand
<1>5. CASE caller[g] # Idle
  <2>1. InHand(OwnCall(g), reply[g])' = InHand(OwnCall(g), reply[g])
    BY <1>3, <1>5 DEF OwnCall
  <2> QED
    BY <1>2, <1>5, <2>1 DEF handBar
<1> QED
  BY <1>4, <1>5

(* In particular one that keeps what it has in hand.                       *)
LEMMA ContinueKeeps ==
  ASSUME TInv, NEW g \in Goroutine, frame[g] # Idle, NEW f \in Frame,
         Continue(g, f), f.server = frame[g].server, Best(f) = Best(frame[g])
  PROVE  handBar' = handBar
<1>1. frame[g] \in Frame
  BY DEF TInv, TypeOK
<1>2. ASSUME g \in Proc, caller[g] = Idle
      PROVE  handBar[g] = Holds(f.server, Best(f))
  BY <1>1, <1>2, CallInHand DEF handBar, OwnCall
<1> QED
  BY <1>2, ContinueHand DEF handBar

-----------------------------------------------------------------------------

CallsInv == HeldInv /\ PlacesInv

HStep == [Holding!HNext]_(Holding!hvars)

UsualStep == [Holding!Usual]_<<copyBar, handBar>>

LEMMA NoFault ==
  ASSUME UsualStep, UNCHANGED faults
  PROVE  HStep
BY DEF UsualStep, HStep, Holding!HNext, Holding!hvars

FaultStep ==
  \/ UNCHANGED <<copyBar, handBar>>
  \/ \E p \in Proc : Holding!LetGo(p) \/ Holding!Void(p)
  \/ \E s \in Server : \/ Holding!Refresh(s) \/ Holding!Tear(s)
                       \/ \E notary \in Server : Holding!Arrive(s, notary)
  \/ Holding!Restart

LEMMA AFault ==
  ASSUME FaultStep, faults < MaxFaults, faults' = faults + 1
  PROVE  HStep
BY DEF FaultStep, HStep, Holding!HNext, Holding!Mishap

LEMMA LetsGo ==
  ASSUME NEW p \in Proc, row' = row, handBar' = [handBar EXCEPT ![p] = Idle]
  PROVE  UsualStep
<1>1. copyBar' = copyBar
  BY DEF copyBar
<1>2. Holding!LetGo(p)
  BY <1>1 DEF Holding!LetGo
<1> QED
  BY <1>2 DEF UsualStep, Holding!Usual

(* A request that takes a row that no step changes reads it.               *)
LEMMA ReadsRow ==
  ASSUME TypeOK, NEW p \in Proc, NEW s \in Server, row' = row,
         handBar' = [handBar EXCEPT ![p] = Holds(s, row[s])]
  PROVE  UsualStep
<1>1. CASE row[s] = NoRow
  BY <1>1, LetsGo DEF Holds
<1>2. CASE row[s] # NoRow
  <2>1. copyBar' = copyBar /\ copyBar[s] = CopyOf(row[s])
    BY DEF copyBar
  <2>2. row[s] \in Row
    BY <1>2 DEF TypeOK
  <2>3. copyBar[s] # NoRow
    BY <2>1, <2>2, CopyType
  <2>4. Holds(s, row[s]) = [server |-> s, copy |-> copyBar'[s]]
    BY <1>2, <2>1 DEF Holds
  <2>5. Holding!Read(p, s)
    BY <2>1, <2>3, <2>4 DEF Holding!Read, Holding!Takes
  <2> QED
    BY <2>5 DEF UsualStep, Holding!Usual
<1> QED
  BY <1>1, <1>2

(* Keys that a call stores, and that the request may take, arrive.         *)
LEMMA Arrives ==
  ASSUME TypeOK, NEW s \in Server, NEW r \in Row, r.keys,
         row' = [row EXCEPT ![s] = r],
         \/ handBar' = handBar
         \/ \E p \in Proc : handBar' = [handBar EXCEPT ![p] = Holds(s, r)]
  PROVE  Holding!Arrive(s, r.via) /\ copyBar'[s] = CopyOf(r)
<1>1. copyBar' = [copyBar EXCEPT ![s] = CopyOf(r)]
  BY OneCopy
<1>2. copyBar'[s] = CopyOf(r)
  BY <1>1 DEF copyBar
<1>3. /\ CopyOf(r) \in Holding!Copy /\ CopyOf(r).via = r.via
      /\ CopyOf(r).keys = r.keys
  <2>1. CopyOf(r) = [valid |-> r.valid, via |-> r.via, keys |-> r.keys]
    BY CopyType
  <2>2. CopyOf(r).via = r.via /\ CopyOf(r).keys = r.keys
    BY <2>1
  <2> QED
    BY <2>2, CopyType
<1>4. Holds(s, r) = [server |-> s, copy |-> copyBar'[s]]
  BY <1>2, NamesAssumption DEF Holds
<1>5. handBar' = handBar \/ \E p \in Proc : Holding!Takes(p, s)
  BY <1>4 DEF Holding!Takes
<1> QED
  BY <1>1, <1>2, <1>3, <1>5 DEF Holding!Arrive

(* The request loads what is held, or replies with it.                     *)
LEMMA LoadStep ==
  ASSUME CallsInv, NEW p \in Proc, Load(p)
  PROVE  UsualStep
<1>t. /\ TInv /\ TypeOK /\ CallerInv /\ FramesInv /\ PlacesInv
      /\ p \in Goroutine /\ clock \in Nat
  BY DEF CallsInv, HeldInv, TInv, TypeOK, Goroutine
<1> DEFINE f == frame[p]
           r == row[f.server]
           due == ShouldProbe(r, clock)
           h == [f EXCEPT !.now = clock, !.held = r, !.probed = due,
                          !.pc = IF due THEN "probe" ELSE "fallback"]
<1>1. /\ f # Idle /\ f \in Frame /\ f.pc = "load" /\ f.best = NoRow
      /\ f.server \in Server /\ r \in Row \cup {NoRow}
  <2>1. f # Idle /\ f \in Frame /\ f.pc = "load"
    BY <1>t DEF Load, At, TypeOK
  <2>2. f.best = NoRow
    BY <1>t, <2>1 DEF FramesInv, BestOK
  <2>3. f.server \in Server /\ r \in Row \cup {NoRow}
    BY <1>t, <2>1 DEF TypeOK, Frame
  <2> QED
    BY <2>1, <2>2, <2>3
<1>2. row' = row /\ (Return(p, "fresh", r) \/ Continue(p, h))
  BY DEF Load
<1>3. CASE Return(p, "fresh", r)
  <2>1. "fresh" \in Outcome
    BY DEF Outcome
  <2>2. CASE handBar' = handBar
    BY <1>2, <2>2 DEF UsualStep, copyBar
  <2>3. CASE handBar' = [handBar EXCEPT ![p] =
                           IF HasKeys(r) THEN Holds(f.server, r) ELSE Idle]
    BY <1>t, <1>1, <1>2, <2>3, ReadsRow, LetsGo
  <2> QED
    BY <1>t, <1>1, <1>3, <2>1, <2>2, <2>3, ReturnHand
<1>4. CASE Continue(p, h)
  <2>1. due \in BOOLEAN
    BY DEF ShouldProbe
  <2> HIDE DEF due
  <2>2. h \in Frame /\ h.server = f.server /\ Best(h) = r
    BY <1>t, <1>1, <2>1 DEF Frame, Best
  <2> HIDE DEF h
  <2>3. \/ handBar' = handBar
        \/ handBar' = [handBar EXCEPT ![p] = Holds(f.server, r)]
    BY <1>t, <1>4, <2>2, ContinueHand
  <2>4. CASE handBar' = handBar
    BY <1>2, <2>4 DEF UsualStep, copyBar
  <2> QED
    BY <1>t, <1>1, <1>2, <2>3, <2>4, ReadsRow
<1> QED
  BY <1>2, <1>3, <1>4

(* The origin's answer is stored, for a request or for nobody.             *)
LEMMA AnswerStep ==
  ASSUME CallsInv, NEW g \in Goroutine, OriginAnswers(g)
  PROVE  HStep
<1>t. /\ TInv /\ TypeOK /\ CallerInv /\ FramesInv /\ PlacesInv
  BY DEF CallsInv, HeldInv, TInv
<1> DEFINE s == frame[g].server
           r == row'[s]
<1>1. frame[g] # Idle /\ s \in Server
  BY <1>t DEF OriginAnswers, At, TypeOK, Frame
<1>2. Return(g, "origin", r)
  BY DEF OriginAnswers
<1>3. /\ \E c \in Row : row' = [row EXCEPT ![s] = c]
      /\ r.keys /\ r.via = Direct
  BY <1>t, OriginAnswersRow
<1>4. row' = [row EXCEPT ![s] = r] /\ r \in Row
  <2>1. PICK c \in Row : row' = [row EXCEPT ![s] = c]
    BY <1>3
  <2>2. r = c
    BY <1>t, <1>1, <2>1 DEF TypeOK
  <2> QED
    BY <2>1, <2>2
<1> HIDE DEF r
<1>5. \/ handBar' = handBar
      \/ \E p \in Proc : handBar' = [handBar EXCEPT ![p] = Holds(s, r)]
  <2>1. "origin" \in Outcome /\ HasKeys(r)
    BY <1>3, <1>4 DEF Outcome, HasKeys
  <2> QED
    BY <1>t, <1>1, <1>2, <1>3, <1>4, <2>1, ReturnHand
<1>6. Holding!Refresh(s)
  BY <1>t, <1>1, <1>3, <1>4, <1>5, Arrives DEF Holding!Refresh
<1>7. CASE UNCHANGED faults
  BY <1>1, <1>6, <1>7, NoFault DEF UsualStep, Holding!Usual
<1>8. CASE faults < MaxFaults /\ faults' = faults + 1
  BY <1>1, <1>6, <1>8, AFault DEF FaultStep
<1> QED
  BY <1>7, <1>8 DEF OriginAnswers

(* A probe that fails changes no hand.                                     *)
LEMMA GiveUpHand ==
  ASSUME CallsInv, NEW g \in Goroutine, At(g, "probe"), GiveUp(g)
  PROVE  handBar' = handBar
<1>t. /\ TInv /\ TypeOK /\ CallerInv /\ FramesInv /\ PlacesInv
      /\ frame[g] # Idle /\ frame[g] \in Frame
  BY DEF CallsInv, HeldInv, TInv, TypeOK, At
<1>1. CASE frame[g].reason = "sweep"
  BY <1>t, <1>1, ReturnHand DEF GiveUp, Outcome
<1>2. CASE frame[g].reason # "sweep"
  <2> DEFINE h == [frame[g] EXCEPT !.pc = "fallback"]
  <2>1. h \in Frame /\ h.server = frame[g].server /\ Best(h) = Best(frame[g])
    BY <1>t DEF Frame, Best
  <2>2. Continue(g, h)
    BY <1>2 DEF GiveUp
  <2> HIDE DEF h
  <2> QED
    BY <1>t, <2>1, <2>2, ContinueKeeps
<1> QED
  BY <1>1, <1>2

(* A note of a failure makes a copy only where there was none, one that    *)
(* was never valid.                                                        *)
LEMMA FailureStep ==
  ASSUME CallsInv, NEW g \in Goroutine, OriginFails(g)
  PROVE  UsualStep
<1>t. TInv /\ TypeOK
  BY DEF CallsInv, HeldInv, TInv
<1> DEFINE s == frame[g].server
<1>1. s \in Server /\ row[s] \in Row \cup {NoRow}
  <2>1. frame[g] \in Frame
    BY <1>t DEF OriginFails, At, TypeOK
  <2>2. frame[g].server \in Server
    BY <2>1 DEF Frame
  <2> QED
    BY <1>t, <2>2 DEF TypeOK
<1>2. handBar' = handBar
  BY GiveUpHand DEF OriginFails
<1>3. PICK now \in Nat, n \in Nat, next \in Nat :
        row' = [row EXCEPT ![s] = Noted(row[s], now, n, next)]
  <2> DEFINE f == frame[g]
             k == Failures(f.held)
  <2>1. f \in Frame
    BY <1>t DEF OriginFails, At, TypeOK
  <2>2. f.now \in Nat /\ k \in Nat
    BY <2>1, FailuresType DEF Frame
  <2>3. PICK transient \in BOOLEAN :
          row' = [row EXCEPT ![s] = Noted(row[s], f.now, k,
                                          f.now + OriginBackoff(k, transient))]
    BY DEF OriginFails
  <2> HIDE DEF f, k
  <2>4. OriginBackoff(k, transient) \in Nat
    BY <2>2, BackoffBounds
  <2>5. PICK backoff : backoff = OriginBackoff(k, transient)
    OBVIOUS
  <2>6. f.now + backoff \in Nat
    BY <2>2, <2>4, <2>5
  <2> QED
    BY <2>2, <2>3, <2>5, <2>6
<1>n. Noted(row[s], now, n, next) \in Row
  BY <1>1, NotedType
<1>4. copyBar' = [copyBar EXCEPT ![s] = CopyOf(Noted(row[s], now, n, next))]
  BY <1>t, <1>1, <1>3, OneCopy
<1>5. CASE row[s] = NoRow
  <2>1. CopyOf(Noted(row[s], now, n, next)) =
          [valid |-> 0, via |-> Direct, keys |-> FALSE]
    BY <1>n, <1>5, CopyType DEF Noted
  <2>2. copyBar[s] = NoRow
    BY <1>1, <1>5 DEF copyBar, CopyOf
  <2>3. Holding!Miss(s)
    BY <1>2, <1>4, <2>1, <2>2 DEF Holding!Miss
  <2> QED
    BY <1>1, <2>3 DEF UsualStep, Holding!Usual
<1>6. CASE row[s] # NoRow
  <2>1. CopyOf(Noted(row[s], now, n, next)) = CopyOf(row[s])
    <3> DEFINE r == Noted(row[s], now, n, next)
    <3>1. row[s] \in Row
      BY <1>1, <1>6
    <3>2. r.valid = row[s].valid /\ r.via = row[s].via /\ r.keys = row[s].keys
      BY <1>6, <3>1 DEF Noted, Row
    <3> QED
      BY <1>n, <1>6, <3>1, <3>2, CopyType
  <2>2. copyBar[s] = CopyOf(row[s])
    BY <1>1 DEF copyBar
  <2>3. copyBar' = copyBar
    BY <1>4, <2>1, <2>2 DEF copyBar
  <2> QED
    BY <1>2, <2>3 DEF UsualStep
<1> QED
  BY <1>5, <1>6

(* The tail of queryRemoteKeys replies with what the request has in hand,  *)
(* or with no keys.                                                        *)
LEMMA ConcludeStep ==
  ASSUME CallsInv, NEW g \in Goroutine, frame[g] # Idle, row' = row,
         Conclude(g, frame[g].best)
  PROVE  UsualStep
<1>t. /\ TInv /\ TypeOK /\ CallerInv /\ FramesInv /\ PlacesInv
  BY DEF CallsInv, HeldInv, TInv
<1> DEFINE f == frame[g]
<1>1. /\ f \in Frame /\ {f.best, Best(f)} \subseteq Row \cup {NoRow}
      /\ EmptyRecord(f) \in Row
  BY <1>t, EmptyType DEF TypeOK, Frame, Best
<1>2. PICK outcome \in Outcome, r \in Row \cup {NoRow} :
        /\ Return(g, outcome, r)
        /\ HasKeys(r) => r = Best(f)
  <2>1. HeldSatisfies(f.best, f.min) => f.best = Best(f)
    BY DEF HeldSatisfies, HasKeys, Best
  <2>2. ~HasKeys(EmptyRecord(f))
    BY DEF HasKeys, EmptyRecord
  <2> QED
    BY <1>1, <2>1, <2>2 DEF Conclude, Best, Outcome
<1>3. copyBar' = copyBar
  BY DEF copyBar
<1>4. CASE handBar' = handBar
  BY <1>3, <1>4 DEF UsualStep
<1>5. CASE /\ g \in Proc /\ caller[g] = Idle
           /\ handBar' = [handBar EXCEPT ![g] =
                            IF HasKeys(r) THEN Holds(f.server, r) ELSE Idle]
  <2>1. handBar[g] = Holds(f.server, Best(f))
    BY <1>1, <1>5, CallInHand DEF handBar, OwnCall
  <2>2. CASE HasKeys(r)
    <3>1. handBar' = handBar
      BY <1>2, <1>5, <2>1, <2>2 DEF handBar
    <3> QED
      BY <1>3, <3>1 DEF UsualStep
  <2>3. CASE ~HasKeys(r)
    BY <1>5, <2>3, LetsGo
  <2> QED
    BY <2>2, <2>3
<1> QED
  BY <1>t, <1>2, <1>4, <1>5, ReturnHand

(* A walk's own steps, between the copies it hears, change neither the     *)
(* store nor what the request has in hand.                                 *)
LEMMA WalkStep ==
  ASSUME CallsInv, NEW g \in Goroutine,
         TakeWalk(g) \/ SkipItself(g) \/ NotaryFails(g) \/ NextNotary(g)
  PROVE  UsualStep
<1>t. /\ TInv /\ TypeOK /\ WalkingInv /\ CallerInv /\ FramesInv /\ PlacesInv
  BY DEF CallsInv, HeldInv, TInv
<1> DEFINE f == frame[g]
<1>1. f # Idle /\ f \in Frame
  BY <1>t DEF TakeWalk, SkipItself, NotaryFails, NextNotary, At, TypeOK
<1>2. copyBar' = copyBar
  BY DEF TakeWalk, SkipItself, NotaryFails, NextNotary, copyBar
<1>3. ASSUME NEW h \in Frame, Continue(g, h), h.server = f.server,
             h.held = f.held, h.best = f.best
      PROVE  handBar' = handBar
  BY <1>t, <1>1, <1>3, ContinueKeeps DEF Best
<1>4. CASE TakeWalk(g)
  <2> DEFINE h == [f EXCEPT !.pc = "walk", !.left = Notaries]
  <2>1. /\ h \in Frame /\ h.server = f.server
        /\ h.held = f.held /\ h.best = f.best
    BY <1>1, WalkType DEF Frame
  <2>2. Continue(g, h)
    BY <1>4 DEF TakeWalk
  <2> HIDE DEF h
  <2> QED
    BY <1>2, <1>3, <2>1, <2>2 DEF UsualStep
<1>5. CASE SkipItself(g) \/ NotaryFails(g)
  <2>1. f.left # <<>> /\ Continue(g, Onward(f))
    BY <1>t, <1>5 DEF SkipItself, NotaryFails, WalkingInv
  <2>2. /\ Onward(f) \in Frame /\ Onward(f).server = f.server
        /\ Onward(f).held = f.held /\ Onward(f).best = f.best
    <3>1. Onward(f) \in Frame
      BY <1>1, <2>1, OnwardType
    <3> QED
      BY <1>1, <3>1 DEF Onward, Frame
  <2> QED
    BY <1>2, <1>3, <2>1, <2>2 DEF UsualStep
<1>6. CASE NextNotary(g)
  <2> DEFINE c == Call(Head(f.left), "notary", clock)
  <2>1. /\ frame' = [frame EXCEPT ![g] = c]
        /\ caller' = [caller EXCEPT ![g] = f] /\ reply' = reply
    BY <1>6 DEF NextNotary
  <2>2. caller[g] = Idle
    BY <1>t, <1>1, <1>6 DEF NextNotary, At, CallerInv, PlacesInv
  <2> HIDE DEF c
  <2>3. /\ \A h \in Goroutine : h # g => /\ frame'[h] = frame[h]
                                         /\ caller'[h] = caller[h]
        /\ caller'[g] = f
    BY <1>t, <2>1 DEF TypeOK
  <2>4. handBar' = IF g \in Proc
                   THEN [handBar EXCEPT ![g] = InHand(OwnCall(g), reply[g])']
                   ELSE handBar
    BY <1>t, <2>1, <2>3, OneHand
  <2>5. OwnCall(g)' = f /\ OwnCall(g) = f
    BY <1>1, <2>2, <2>3 DEF OwnCall
  <2>6. InHand(OwnCall(g), reply[g])' = InHand(OwnCall(g), reply[g])
    BY <2>1, <2>5
  <2>7. handBar' = handBar
    BY <2>4, <2>6 DEF handBar
  <2> QED
    BY <1>2, <2>7 DEF UsualStep
<1> QED
  BY <1>4, <1>5, <1>6

(* What a walk has best after a copy it hears is that copy, or as before.  *)
LEMMA HeardHand ==
  ASSUME NEW f \in Frame, NEW r \in Row, NEW offered,
         NEW h, h = [Heard(f, r) EXCEPT !.offered = offered]
  PROVE  h.server = f.server /\ Best(h) \in {r, Best(f)}
<1>1. r # NoRow
  BY NamesAssumption
<1>2. CASE HeldSatisfies(r, f.min)
  <2>1. h.server = f.server /\ h.best = r
    BY <1>2 DEF Heard, Frame
  <2> QED
    BY <1>1, <2>1 DEF Best
<1>3. CASE ~HeldSatisfies(r, f.min)
  <2>1. /\ h.server = f.server /\ h.held = f.held
        /\ h.best = Better(f.best, r)
    BY <1>3 DEF Heard, Onward, Frame
  <2>2. h.best \in {r, f.best} /\ h.best # NoRow
    BY <1>1, <2>1 DEF Better
  <2> QED
    BY <2>1, <2>2 DEF Best
<1> QED
  BY <1>2, <1>3

(* The request may take what is held once a notary has answered.           *)
LEMMA HeardTakes ==
  ASSUME CallsInv, NEW g \in Goroutine, frame[g] # Idle, frame[g].left # <<>>,
         NEW u \in Row, NEW valid \in Nat,
         Continue(g, [Heard(frame[g], u) EXCEPT
                        !.offered = IF valid > @ THEN valid ELSE @])
  PROVE  \/ handBar' = handBar
         \/ /\ g \in Proc
            /\ handBar' = [handBar EXCEPT ![g] = Holds(frame[g].server, u)]
<1>t. TInv
  BY DEF CallsInv, HeldInv
<1> DEFINE f == frame[g]
           offered == IF valid > f.offered THEN valid ELSE f.offered
           h == [Heard(f, u) EXCEPT !.offered = offered]
<1>1. f \in Frame /\ f.offered \in Nat /\ offered \in Nat
  BY <1>t DEF TInv, TypeOK, Frame
<1>2. Continue(g, h)
  <2>1. Heard(f, u).offered = f.offered
    <3>1. CASE HeldSatisfies(u, f.min)
      BY <1>1, <3>1 DEF Heard, Frame
    <3>2. CASE ~HeldSatisfies(u, f.min)
      BY <1>1, <3>2 DEF Heard, Onward, Frame
    <3> QED
      BY <3>1, <3>2
  <2> QED
    BY <2>1
<1> HIDE DEF offered
<1>3. h \in Frame
  BY <1>1, HeardType
<1>4. h.server = f.server /\ Best(h) \in {u, Best(f)}
  BY <1>1, HeardHand
<1> HIDE DEF h
<1>5. CASE Best(h) = Best(f)
  BY <1>t, <1>1, <1>2, <1>3, <1>4, <1>5, ContinueKeeps
<1>6. CASE Best(h) = u
  BY <1>t, <1>2, <1>3, <1>4, <1>6, ContinueHand
<1> QED
  BY <1>4, <1>5, <1>6

LEMMA NotarysRow ==
  ASSUME clock \in Nat, NEW r \in Row \cup {NoRow}, NEW n \in Server,
         NEW valid \in Offers, NEW u, u = Replaced(r, n, valid)
  PROVE  u \in Row /\ u.keys /\ u.via = n /\ u.valid = valid
<1>1. n \in Server \cup {Direct} /\ valid \in Nat
  OBVIOUS
<1> HIDE PolicyAssumption, ScheduleAssumption, ResolverAssumption, NamesAssumption
<1> QED
  BY <1>1, ReplacedType

(* A copy of a notary is stored if it is valid for longer, or else by      *)
(* mishap, and the request may take what is then held.                     *)
LEMMA HeardStep ==
  ASSUME CallsInv, NEW g \in Goroutine, NotaryAnswers(g)
  PROVE  HStep
<1>t. /\ TInv /\ TypeOK /\ WalkingInv /\ FramesInv /\ clock \in Nat
  BY DEF CallsInv, HeldInv, TInv, TypeOK
<1> DEFINE f == frame[g]
           s == f.server
           n == Head(f.left)
           r == row[s]
<1>1. /\ f # Idle /\ f \in Frame /\ s \in Server /\ n \in Server
      /\ f.left # <<>> /\ r \in Row \cup {NoRow}
  <2>1. f # Idle /\ f \in Frame /\ f.left # <<>>
    BY <1>t DEF NotaryAnswers, At, TypeOK, WalkingInv
  <2>2. f.left \in Seq(Server) /\ s \in Server
    BY <2>1 DEF Frame
  <2>3. n \in Server
    BY <2>1, <2>2
  <2> QED
    BY <1>t, <2>1, <2>2, <2>3 DEF TypeOK
<1>2. PICK valid \in Offers :
        /\ NotaryStores(s, n, valid)
        /\ Continue(g, [Heard(f, row'[s]) EXCEPT
                          !.offered = IF valid > @ THEN valid ELSE @])
  BY DEF NotaryAnswers
<1>3. valid \in Nat
  OBVIOUS
<1>4. PICK u : u = Replaced(r, n, valid)
  OBVIOUS
<1>5. u \in Row /\ u.keys /\ u.via = n /\ u.valid = valid
  <2> HIDE PolicyAssumption, ScheduleAssumption, ResolverAssumption, NamesAssumption
  <2> HIDE DEF f, s, n, r
  <2> QED
    BY <1>t, <1>1, <1>4, NotarysRow
<1>6. PICK w \in {r, u} :
        /\ w # NoRow /\ row' = [row EXCEPT ![s] = w]
        /\ \/ UNCHANGED faults /\ (w = r \/ r = NoRow \/ valid > r.valid)
           \/ w = u /\ faults < MaxFaults /\ faults' = faults + 1
  <2>1. u # NoRow
    BY <1>5, NamesAssumption
  <2>2. CASE /\ row' = [row EXCEPT ![s] = Upgraded(r, n, valid)]
             /\ UNCHANGED faults
    <3>1. CASE r # NoRow /\ valid <= r.valid
      <4>1. Upgraded(r, n, valid) = r
        BY <3>1 DEF Upgraded
      <4> QED
        BY <2>2, <3>1, <4>1
    <3>2. CASE ~(r # NoRow /\ valid <= r.valid)
      <4>1. Upgraded(r, n, valid) = u
        BY <1>4, <3>2 DEF Upgraded
      <4>2. r \in Row => r.valid \in Nat
        BY DEF Row
      <4>3. r = NoRow \/ valid > r.valid
        <5> HIDE DEF f, s, n, r
        <5> HIDE PolicyAssumption, ScheduleAssumption, ResolverAssumption, NamesAssumption
        <5>1. r = NoRow \/ ~ valid <= r.valid
          BY <3>2
        <5>2. r # NoRow => r.valid \in Nat
          BY <1>1, <4>2
        <5> QED
          BY <1>3, <5>1, <5>2
      <4> HIDE DEF f, s, n, r
      <4>4. row' = [row EXCEPT ![s] = u] /\ UNCHANGED faults
        BY <2>2, <4>1
      <4> HIDE PolicyAssumption, ScheduleAssumption, ResolverAssumption, NamesAssumption
      <4> QED
        BY <2>1, <4>3, <4>4
    <3> QED
      BY <3>1, <3>2
  <2>3. CASE /\ row' = [row EXCEPT ![s] = Replaced(r, n, valid)]
             /\ faults < MaxFaults /\ faults' = faults + 1
    BY <1>4, <2>1, <2>3
  <2> QED
    BY <1>2, <2>2, <2>3 DEF NotaryStores
<1>7. w \in Row /\ row'[s] = w
  BY <1>t, <1>1, <1>5, <1>6 DEF TypeOK
<1>8. \/ handBar' = handBar
      \/ g \in Proc /\ handBar' = [handBar EXCEPT ![g] = Holds(s, w)]
  BY <1>1, <1>2, <1>3, <1>7, HeardTakes
<1>9. CASE w = r /\ UNCHANGED faults
  <2>1. row' = row /\ r \in Row
    BY <1>t, <1>1, <1>6, <1>7, <1>9 DEF TypeOK
  <2>2. CASE handBar' = handBar
    BY <1>9, <2>1, <2>2, NoFault DEF UsualStep, copyBar
  <2> QED
    BY <1>t, <1>1, <1>8, <1>9, <2>1, <2>2, ReadsRow, NoFault
<1> HIDE DEF f, s, n, r
<1>10. CASE w = u
  <2>1. Holding!Arrive(s, n) /\ copyBar'[s] = CopyOf(u)
    <3>1. row' = [row EXCEPT ![s] = u]
      BY <1>6, <1>10
    <3>2. \/ handBar' = handBar
          \/ \E p \in Proc : handBar' = [handBar EXCEPT ![p] = Holds(s, u)]
      BY <1>8, <1>10
    <3> QED
      BY <1>t, <1>1, <1>5, <3>1, <3>2, Arrives
  <2>2. CASE UNCHANGED faults /\ (r = NoRow \/ (r \in Row /\ valid > r.valid))
    <3>1. copyBar[s] = CopyOf(r)
      BY <1>1 DEF copyBar, r
    <3>2. copyBar[s] = NoRow \/ copyBar'[s].valid > copyBar[s].valid
      <4>1. CASE r = NoRow
        BY <3>1, <4>1 DEF CopyOf
      <4>2. CASE r \in Row /\ valid > r.valid
        <5>1. CopyOf(u).valid = valid /\ CopyOf(r).valid = r.valid
          BY <1>5, <4>2, CopyType
        <5> QED
          BY <2>1, <3>1, <4>2, <5>1
      <4> QED
        BY <2>2, <4>1, <4>2
    <3>3. Holding!Upgrade(s, n)
      BY <2>1, <3>2 DEF Holding!Upgrade
    <3> QED
      BY <1>1, <2>2, <3>3, NoFault DEF UsualStep, Holding!Usual
  <2>3. CASE faults < MaxFaults /\ faults' = faults + 1
    BY <1>1, <2>1, <2>3, AFault DEF FaultStep
  <2>4. CASE UNCHANGED faults /\ w = r
    BY <1>9, <2>4
  <2> QED
    BY <1>1, <1>6, <2>2, <2>3, <2>4
<1> QED
  BY <1>6, <1>9, <1>10

(* A new request has nothing in hand, whatever it was last answered.       *)
LEMMA RequestStep ==
  ASSUME CallsInv, NEW p \in Proc, Request(p)
  PROVE  UsualStep
<1>t. TInv /\ TypeOK /\ CallerInv /\ p \in Goroutine
  BY DEF CallsInv, HeldInv, TInv, Goroutine
<1>1. PICK s \in Asked, min \in {0} \cup FromNow(Ahead) :
        frame' = [frame EXCEPT ![p] = Call(s, "request", min)]
  BY DEF Request
<1> DEFINE c == Call(s, "request", min)
<1>2. c \in Frame /\ Best(c) = NoRow /\ c # Idle
  <2>1. s \in Server /\ min \in Nat /\ clock \in Nat
    BY <1>t DEF TypeOK, FromNow
  <2>2. c \in Frame
    BY <2>1, CallType
  <2> QED
    BY <2>2 DEF Call, Best
<1>3. row' = row /\ caller' = caller /\ reply' = [reply EXCEPT ![p] = Idle]
  BY DEF Request
<1>4. caller[p] = Idle
  BY <1>t DEF Request, CallerInv
<1> HIDE DEF c
<1>5. OwnCall(p)' = c
  BY <1>t, <1>1, <1>3, <1>4 DEF OwnCall, TypeOK, c
<1>6. InHand(OwnCall(p), reply[p])' = Idle
  <2>1. InHand(c, reply'[p]) = Holds(c.server, Best(c))
    BY <1>2, CallInHand
  <2> QED
    BY <1>2, <1>5, <2>1 DEF Holds
<1>7. handBar' = [handBar EXCEPT ![p] = Idle]
  BY <1>t, <1>1, <1>3, <1>6, OneHand DEF TypeOK
<1> QED
  BY <1>3, <1>7, LetsGo

LEMMA Voided ==
  ASSUME NEW c, NEW d, NEW valid, NEW via, NEW keys,
         c = [valid |-> valid, via |-> via, keys |-> keys],
         d = [valid |-> 0, via |-> via, keys |-> keys]
  PROVE  d = [c EXCEPT !.valid = 0]
<1> HIDE PolicyAssumption, ScheduleAssumption, ResolverAssumption, NamesAssumption
<1> QED
  OBVIOUS

(* A request that finds its reply spoilt takes the validity of what is     *)
(* then held, and lets go of its own.                                      *)
LEMMA InvalidateStep ==
  ASSUME CallsInv, NEW p \in Proc, Invalidate(p)
  PROVE  HStep
<1>t. TypeOK /\ CallerInv /\ FramesInv /\ p \in Goroutine
  BY DEF CallsInv, HeldInv, TInv, Goroutine
<1> DEFINE s == reply[p].server
           r == reply[p].record
           v == [row[s] EXCEPT !.valid = 0, !.updated = 0]
<1>1. /\ reply[p] # Idle /\ HasKeys(r) /\ row[s] # NoRow
      /\ row' = [row EXCEPT ![s].valid = 0, ![s].updated = 0]
      /\ reply' = [reply EXCEPT ![p] = Idle]
      /\ frame' = frame /\ caller' = caller
  BY DEF Invalidate
<1>2. s \in Server /\ r \in Row /\ row[s] \in Row
  BY <1>t, <1>1 DEF TypeOK, Reply, HasKeys
<1>3. frame[p] = Idle /\ caller[p] = Idle
  BY <1>t, <1>1 DEF FramesInv, CallerInv
<1>4. row' = [row EXCEPT ![s] = v] /\ v \in Row /\ v.valid = 0
      /\ v.via = row[s].via /\ v.keys = row[s].keys
  BY <1>t, <1>1, <1>2 DEF TypeOK, Row
<1> HIDE DEF v
<1>5. copyBar' = [copyBar EXCEPT ![s] = CopyOf(v)]
  BY <1>t, <1>2, <1>4, OneCopy
<1>6. copyBar[s] = CopyOf(row[s]) /\ copyBar[s] # NoRow
  BY <1>2, CopyType DEF copyBar
<1>7. CopyOf(v) = [copyBar[s] EXCEPT !.valid = 0]
  <2>1. /\ CopyOf(v) = [valid |-> 0, via |-> row[s].via, keys |-> row[s].keys]
        /\ copyBar[s] = [valid |-> row[s].valid, via |-> row[s].via,
                         keys |-> row[s].keys]
    BY <1>2, <1>4, <1>6, CopyType
  <2> QED
    BY <2>1, Voided
<1>8. handBar[p] = [server |-> s, copy |-> CopyOf(r)] /\ handBar[p] # Idle
  <2>1. handBar[p] = [server |-> s, copy |-> CopyOf(r)]
    BY <1>1, <1>2, <1>3 DEF handBar, OwnCall, InHand, Holds, HasKeys
  <2>2. CopyOf(r) \in Holding!Copy
    BY <1>2, CopyType
  <2>3. [server |-> s, copy |-> CopyOf(r)] \in [server : Server, copy : Holding!Copy]
    BY <1>2, <2>2
  <2> QED
    BY <2>1, <2>3, CopyAssumption
<1>9. handBar' = [handBar EXCEPT ![p] = Idle]
  <2>1. reply'[p] = Idle /\ OwnCall(p)' = Idle
    BY <1>t, <1>1, <1>3 DEF OwnCall, TypeOK
  <2>2. InHand(OwnCall(p), reply[p])' = Idle
    BY <2>1 DEF InHand
  <2> QED
    BY <1>t, <1>1, <2>2, OneHand DEF TypeOK
<1>10. handBar[p].server = s
  BY <1>8
<1>11. Holding!Void(p)
  BY <1>5, <1>6, <1>7, <1>8, <1>9, <1>10 DEF Holding!Void
<1>12. FaultStep
  BY <1>11 DEF FaultStep
<1> QED
  BY <1>12, AFault DEF Invalidate

(* A load that fails replies with no keys.                                 *)
LEMMA LoadFailsStep ==
  ASSUME CallsInv, NEW p \in Proc, LoadFails(p)
  PROVE  HStep
<1>t. /\ TInv /\ CallerInv /\ FramesInv /\ PlacesInv /\ p \in Goroutine
  BY DEF CallsInv, HeldInv, Goroutine
<1>1. /\ frame[p] # Idle /\ Return(p, "error", NoRow) /\ row' = row
      /\ faults < MaxFaults /\ faults' = faults + 1
  BY DEF LoadFails, At
<1>2. "error" \in Outcome /\ ~HasKeys(NoRow)
  BY DEF Outcome, HasKeys
<1>3. copyBar' = copyBar
  BY <1>1 DEF copyBar
<1>4. handBar' = handBar \/ handBar' = [handBar EXCEPT ![p] = Idle]
  BY <1>t, <1>1, <1>2, ReturnHand
<1>5. FaultStep
  BY <1>3, <1>4 DEF FaultStep, Holding!LetGo
<1> QED
  BY <1>1, <1>5, AFault

(* A failed probe whose note fails too, and a failed turn of the sweep,    *)
(* change nothing that is held.                                            *)
LEMMA UnnotedStep ==
  ASSUME CallsInv, (\E g \in Goroutine : OriginFailsUnnoted(g)) \/ VisitFails
  PROVE  HStep
<1>1. copyBar' = copyBar
  BY DEF OriginFailsUnnoted, VisitFails, copyBar
<1>2. handBar' = handBar
  BY GiveUpHand DEF OriginFailsUnnoted, VisitFails, calls, handBar, OwnCall
<1>3. FaultStep
  BY <1>1, <1>2 DEF FaultStep
<1> QED
  BY <1>3, AFault DEF OriginFailsUnnoted, VisitFails

(* A store that is cut short tears one copy and changes no hand.           *)
LEMMA Tears ==
  ASSUME TypeOK, NEW s \in Server, NEW r \in Row,
         row' = [row EXCEPT ![s] = r], handBar' = handBar
  PROVE  FaultStep
<1>1. copyBar' = [copyBar EXCEPT ![s] = CopyOf(r)]
  BY OneCopy
<1>2. copyBar'[s] = CopyOf(r)
  BY <1>1 DEF copyBar
<1>3. Holding!Tear(s)
  BY <1>1, <1>2, CopyType DEF Holding!Tear
<1> QED
  BY <1>3 DEF FaultStep

LEMMA StoreFailsStep ==
  ASSUME CallsInv, NEW g \in Goroutine, OriginStoreFails(g) \/ NotaryStoreFails(g)
  PROVE  HStep
<1>t. TInv /\ TypeOK /\ WalkingInv
  BY DEF CallsInv, HeldInv, TInv
<1> DEFINE f == frame[g]
<1>1. f # Idle /\ f \in Frame /\ f.server \in Server
  BY <1>t DEF OriginStoreFails, NotaryStoreFails, At, TypeOK, Frame
<1>2. faults < MaxFaults /\ faults' = faults + 1
  BY DEF OriginStoreFails, NotaryStoreFails
<1>3. CASE OriginStoreFails(g)
  <2>1. PICK r \in Row : row' = [row EXCEPT ![f.server] = r]
    BY <1>t, <1>3, OriginStoreFailsRow
  <2>2. handBar' = handBar
    BY <1>3, GiveUpHand DEF OriginStoreFails
  <2> QED
    BY <1>t, <1>1, <1>2, <2>1, <2>2, Tears, AFault
<1>4. CASE NotaryStoreFails(g)
  <2>1. PICK r \in Row : row' = [row EXCEPT ![f.server] = r]
    BY <1>t, <1>4, NotaryStoreFailsRow
  <2>2. f.left # <<>> /\ Continue(g, Onward(f))
    BY <1>t, <1>4 DEF NotaryStoreFails, At, WalkingInv
  <2>3. /\ Onward(f) \in Frame /\ Onward(f).server = f.server
        /\ Onward(f).held = f.held /\ Onward(f).best = f.best
    <3>1. Onward(f) \in Frame
      BY <1>1, <2>2, OnwardType
    <3> QED
      BY <1>1, <3>1 DEF Onward, Frame
  <2>4. handBar' = handBar
    BY <1>t, <1>1, <2>2, <2>3, ContinueKeeps DEF Best
  <2> QED
    BY <1>t, <1>1, <1>2, <2>1, <2>4, Tears, AFault
<1> QED
  BY <1>3, <1>4

(* A restart empties every hand, and of each copy leaves that or one whose *)
(* store it cuts short.                                                    *)
LEMMA RestartStep ==
  ASSUME CallsInv, Restart
  PROVE  HStep
<1>t. TInv
  BY DEF CallsInv, HeldInv
<1>1. /\ row \in [Server -> Row \cup {NoRow}]
      /\ row' \in [Server -> Row \cup {NoRow}]
      /\ \A s \in Server : row'[s] = row[s] \/ row'[s] \in Row
  BY <1>t, RestartRow DEF TInv, TypeOK
<1>2. copyBar' \in [Server -> Holding!Copy \cup {NoRow}]
  <2>1. \A s \in Server : CopyOf(row'[s]) \in Holding!Copy \cup {NoRow}
    <3>1. CopyOf(NoRow) = NoRow
      BY DEF CopyOf
    <3> QED
      BY <1>1, <3>1, CopyType
  <2> QED
    BY <2>1 DEF copyBar
<1>3. \A s \in Server : copyBar[s] # NoRow => copyBar'[s] # NoRow
  <2>1. \A s \in Server : row[s] # NoRow => row'[s] # NoRow
    BY <1>1
  <2> QED
    BY <1>1, <2>1, NoCopy DEF copyBar
<1>4. ASSUME NEW p \in Proc PROVE InHand(OwnCall(p), reply[p])' = Idle
  BY DEF Restart, OwnCall, InHand, Goroutine
<1>5. handBar' = [p \in Proc |-> Idle]
  BY <1>4 DEF handBar
<1>6. FaultStep
  BY <1>2, <1>3, <1>5 DEF FaultStep, Holding!Restart
<1> QED
  BY <1>6, AFault DEF Restart

(* The sweeper has no hand.                                                *)
LEMMA SweeperStep ==
  ASSUME CallsInv, ListDue \/ Visit
  PROVE  UsualStep
<1>t. TypeOK /\ Sweeper \in Goroutine \ Proc
  BY DEF CallsInv, HeldInv, TInv, Goroutine
<1>1. row' = row
  BY DEF ListDue, Visit
<1>2. CASE UNCHANGED calls
  BY <1>1, <1>2, Stutters DEF calls, UsualStep
<1>3. ASSUME NEW f, Continue(Sweeper, f)
      PROVE  UsualStep
  <2>1. handBar' = handBar
    BY <1>t, <1>3, OneHand DEF Continue, TypeOK
  <2> QED
    BY <1>1, <2>1 DEF UsualStep, copyBar
<1> QED
  BY <1>2, <1>3 DEF ListDue, Visit

-----------------------------------------------------------------------------

LEMMA InitHoldings == Init => Holding!HInit
BY DEF Init, Holding!HInit, copyBar, handBar, CopyOf, OwnCall, InHand, Goroutine

LEMMA NextHoldings == CallsInv /\ [Next]_vars => HStep
<1> SUFFICES ASSUME CallsInv, [Next]_vars PROVE HStep
  OBVIOUS
<1> USE DEF calls
<1>1. ASSUME NEW p \in Proc,
             Request(p) \/ Load(p) \/ LoadFails(p) \/ Invalidate(p)
      PROVE  HStep
  BY <1>1, RequestStep, LoadStep, LoadFailsStep, InvalidateStep, NoFault
     DEF Request, Load
<1>2. ASSUME NEW g \in Goroutine, OriginAnswers(g) \/ OriginFails(g)
      PROVE  HStep
  BY <1>2, AnswerStep, FailureStep, NoFault DEF OriginFails
<1>3. ASSUME NEW g \in Goroutine,
             \/ OriginFailsUnnoted(g) \/ OriginStoreFails(g)
             \/ NotaryStoreFails(g)
      PROVE  HStep
  BY <1>3, UnnotedStep, StoreFailsStep
<1>4. ASSUME NEW g \in Goroutine, NoWalk(g) \/ WalkEnds(g) PROVE HStep
  <2>1. FramesInv
    BY DEF CallsInv, HeldInv
  <2>2. /\ frame[g] # Idle /\ row' = row /\ faults' = faults
        /\ Conclude(g, frame[g].best)
    BY <1>4, <2>1 DEF NoWalk, WalkEnds, At, FramesInv, BestOK
  <2> QED
    BY <2>2, ConcludeStep, NoFault
<1>5. ASSUME NEW g \in Goroutine,
             \/ TakeWalk(g) \/ SkipItself(g) \/ NextNotary(g)
             \/ NotaryAnswers(g) \/ NotaryFails(g)
      PROVE  HStep
  BY <1>5, WalkStep, HeardStep, NoFault
     DEF TakeWalk, SkipItself, NextNotary, NotaryFails
<1>6. CASE ListDue \/ Visit
  BY <1>6, SweeperStep, NoFault DEF ListDue, Visit
<1>7. CASE VisitFails \/ Restart
  BY <1>7, UnnotedStep, RestartStep
<1>8. CASE Tick \/ UNCHANGED vars
  BY <1>8, Stutters DEF Tick, vars, HStep, Holding!hvars
<1> QED
  BY <1>1, <1>2, <1>3, <1>4, <1>5, <1>6, <1>7, <1>8 DEF Next, Step

(* For any requests, servers, notaries, ladder and faults, the calls keep  *)
(* the promise of Holdings: but for a mishap, of which there are never more*)
(* than faults, a copy is replaced only by its origin's answer or a        *)
(* longer-valid one, and a request replies with a copy that was held since *)
(* it began (notary.go:186-230 and 399-440).  The mishaps are a store cut  *)
(* short, a rule of longer validity whose SELECT fails, an invalidation, a *)
(* load that fails and a restart.                                          *)
THEOREM ImplementsHoldings == Spec => KeepsHoldings
<1>1. Spec => []CallsInv
  BY ApartInduction, PTL DEF ApartInv, CallsInv
<1> QED
  BY <1>1, InitHoldings, NextHoldings, PTL
     DEF Spec, KeepsHoldings, Holding!HSpec, HStep
=============================================================================
