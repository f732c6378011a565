--------------------------- MODULE HeldKeysProofs ---------------------------
(***************************************************************************)
(* Proofs about what requests reply, for any number of requests, servers   *)
(* and notaries: keys if they read keys, and the best copy of their walk,  *)
(* through every fault but a store of their server that is cut short under *)
(* them; and, where no other call is on their server, the copy that the    *)
(* store holds.                                                            *)
(***************************************************************************)
EXTENDS KeyResolverProofs

(* A walk that was offered a copy has a best one; while notaries are left  *)
(* it does not satisfy the request.                                        *)
BestOK(f) ==
  /\ f.best = NoRow => f.offered = 0
  /\ f.pc \in {"load", "probe", "fallback"} => f.best = NoRow
  /\ f.left # <<>> => ~HeldSatisfies(f.best, f.min)

(* A call that has not walked yet has no best copy to lose.                *)
LEMMA UntakenBest ==
  ASSUME NEW f \in Frame, f.pc = "load", BestOK(f), NEW now, NEW r, NEW due,
         NEW h, h = [f EXCEPT !.now = now, !.held = r, !.probed = due,
                       !.pc = IF due THEN "probe" ELSE "fallback"]
  PROVE  h.pc # "load" /\ BestOK(h)
BY DEF BestOK, Frame

(* A walk that hears a copy has a best one.                                *)
LEMMA HeardBest ==
  ASSUME NEW f \in Frame, BestOK(f), f.left # <<>>,
         NEW r \in Row, NEW valid \in Offers,
         NEW h, h = [Heard(f, r) EXCEPT
                       !.offered = IF valid > @ THEN valid ELSE @]
  PROVE  h.pc # "load" /\ BestOK(h)
<1>1. r # NoRow
  BY NamesAssumption
<1>2. CASE HeldSatisfies(r, f.min)
  <2>1. h.pc = "walk" /\ h.left = <<>> /\ h.best = r
    BY <1>2 DEF Heard, Frame
  <2> QED
    BY <1>1, <2>1 DEF BestOK
<1>3. CASE ~HeldSatisfies(r, f.min)
  <2>1. h.pc = "walk" /\ h.best = Better(f.best, r) /\ h.min = f.min
    BY <1>3 DEF Heard, Onward, Frame
  <2>2. ~HeldSatisfies(Better(f.best, r), f.min) /\ Better(f.best, r) # NoRow
    BY <1>1, <1>3 DEF Better, BestOK
  <2> QED
    BY <2>1, <2>2 DEF BestOK
<1> QED
  BY <1>2, <1>3

(* A record that a notary's first copy replaces if it has no keys: stores  *)
(* that succeed and failure notes leave no other.                          *)
Whole(r) == r # NoRow /\ ~r.keys => r.valid = 0

(* What a call f has to show for what it read and heard, where r is its    *)
(* server's row and t the time at which a store of it was last cut short.  *)
Shown(f, r, t) ==
  t < f.now /\ Whole(f.held) =>
    /\ Whole(r)
    /\ f.best # NoRow => f.best.keys /\ f.best.valid >= f.offered

(* The best copy stays at least as long-valid as every copy offered.       *)
LEMMA HeardKept ==
  ASSUME NEW f \in Frame, BestOK(f), f.left # <<>>,
         f.best # NoRow => f.best.keys /\ f.best.valid >= f.offered,
         NEW r \in Row, r.keys, NEW valid \in Offers, r.valid >= valid,
         NEW h, h = [Heard(f, r) EXCEPT
                       !.offered = IF valid > @ THEN valid ELSE @]
  PROVE  h.best.keys /\ h.best.valid >= h.offered
<1>1. r.valid \in Nat /\ valid \in Nat /\ f.offered \in Nat /\ f.min \in Nat
  BY ResolverAssumption DEF Row, Frame
<1>2. f.best # NoRow => /\ f.best.valid \in Nat /\ f.best.keys
                        /\ f.best.valid >= f.offered /\ f.best.valid < f.min
  <2> SUFFICES ASSUME f.best # NoRow
               PROVE  /\ f.best.valid \in Nat /\ f.best.keys
                      /\ f.best.valid >= f.offered /\ f.best.valid < f.min
    OBVIOUS
  <2>1. f.best \in Row
    BY DEF Frame
  <2>2. f.best.valid \in Nat
    BY <2>1 DEF Row
  <2>3. ~(f.best.valid >= f.min) /\ f.best.keys /\ f.best.valid >= f.offered
    BY DEF BestOK, HeldSatisfies, HasKeys
  <2> QED
    BY <1>1, <2>2, <2>3
<1>3. f.best = NoRow => f.offered = 0
  BY DEF BestOK
<1>4. CASE HeldSatisfies(r, f.min)
  <2>1. h.best = r /\ h.offered = IF valid > f.offered THEN valid ELSE f.offered
    BY <1>4 DEF Heard, Frame
  <2>2. r.valid >= f.offered
    BY <1>1, <1>2, <1>3, <1>4 DEF HeldSatisfies
  <2> QED
    BY <1>1, <2>1, <2>2
<1>5. CASE ~HeldSatisfies(r, f.min)
  <2>1. /\ h.best = Better(f.best, r)
        /\ h.offered = IF valid > f.offered THEN valid ELSE f.offered
    BY <1>5 DEF Heard, Onward, Frame
  <2>2. /\ Better(f.best, r).keys
        /\ Better(f.best, r).valid >= valid
        /\ Better(f.best, r).valid >= f.offered
    <3>1. CASE f.best = NoRow
      <4>1. Better(f.best, r) = r
        BY <3>1 DEF Better
      <4> QED
        BY <1>1, <1>3, <3>1, <4>1
    <3>2. CASE f.best # NoRow /\ r.valid > f.best.valid
      BY <1>1, <1>2, <3>2 DEF Better
    <3>3. CASE f.best # NoRow /\ ~(r.valid > f.best.valid)
      <4>1. Better(f.best, r) = f.best
        BY <3>3 DEF Better
      <4> QED
        BY <1>1, <1>2, <3>3, <4>1
    <3> QED
      BY <3>1, <3>2, <3>3
  <2> QED
    BY <2>1, <2>2
<1> QED
  BY <1>4, <1>5

-----------------------------------------------------------------------------
USE PolicyAssumption, ScheduleAssumption, ResolverAssumption, NamesAssumption

(* A call has no reply yet and has read nothing before its load, and its   *)
(* best copy is what the walk has come to.                                 *)
FramesInv ==
  /\ \A p \in Proc : frame[p] # Idle => reply[p] = Idle
  /\ \A g \in Goroutine :
       /\ At(g, "load") => frame[g].held = NoRow
       /\ frame[g] # Idle => BestOK(frame[g])
       /\ caller[g] # Idle => BestOK(caller[g])

CallsOf(g) == {frame[g], caller[g]} \ {Idle}

(* A call under which no store of its server was cut short, and which read *)
(* no keyless leftover of one, finds no such leftover, and its best copy   *)
(* is the best that it was offered.                                        *)
KeptInv ==
  \A g \in Goroutine : \A f \in CallsOf(g) :
    Shown(f, row[f.server], torn[f.server])

(* A step cuts a store of s short now, or leaves whole what was.           *)
KeepsWhole ==
  \A s \in Server :
    \/ torn'[s] = clock
    \/ torn'[s] = torn[s] /\ (Whole(row[s]) => Whole(row'[s]))

(* Every writer of a row keeps a row without keys without validity, unless *)
(* it is cut short.                                                        *)
LEMMA NextKeepsWhole == TInv /\ [Next]_vars => KeepsWhole
<1> SUFFICES ASSUME TInv, [Next]_vars PROVE KeepsWhole
  OBVIOUS
<1> USE DEF calls, history
<1>t. TypeOK /\ WalkingInv
  BY DEF TInv
<1>r. \A s \in Server : row[s] # NoRow => row[s] \in Row
  BY <1>t DEF TypeOK
<1>1. ASSUME NEW x \in Server, NEW r, row' = [row EXCEPT ![x] = r],
             torn' = torn, Whole(row[x]) => Whole(r)
      PROVE  KeepsWhole
  BY <1>t, <1>1 DEF KeepsWhole, TypeOK
<1>2. ASSUME row' = row, torn' = torn PROVE KeepsWhole
  BY <1>2 DEF KeepsWhole
<1>3. ASSUME NEW g \in Goroutine, OriginAnswers(g) PROVE KeepsWhole
  <2> DEFINE s == frame[g].server
  <2>1. s \in Server /\ clock \in Nat /\ row[s] \in Row \cup {NoRow}
    BY <1>t, <1>3 DEF OriginAnswers, At, TypeOK, Frame
  <2>2. PICK valid \in FromNow(Lifetimes) :
          \/ row' = [row EXCEPT ![s] = Fetched(valid)]
          \/ row' = [row EXCEPT ![s] = Replaced(row[s], Direct, valid)]
    BY <1>3 DEF OriginAnswers
  <2>3. Fetched(valid).keys
    BY DEF Fetched
  <2>4. Replaced(row[s], Direct, valid).keys
    BY <2>1, ReplacedType DEF FromNow
  <2>5. torn' = torn
    BY <1>3 DEF OriginAnswers
  <2> QED
    BY <1>1, <2>1, <2>2, <2>3, <2>4, <2>5 DEF Whole
<1>4. ASSUME NEW g \in Goroutine, OriginFails(g) PROVE KeepsWhole
  <2> DEFINE s == frame[g].server
  <2>1. s \in Server /\ torn' = torn
    BY <1>t, <1>4 DEF OriginFails, At, TypeOK, Frame
  <2>2. PICK now, n, next : row' = [row EXCEPT ![s] = Noted(row[s], now, n, next)]
    BY <1>4 DEF OriginFails
  <2>3. Whole(row[s]) => Whole(Noted(row[s], now, n, next))
    <3>1. CASE row[s] = NoRow
      BY <3>1 DEF Noted, Whole
    <3>2. CASE row[s] # NoRow
      BY <1>r, <2>1, <3>2 DEF Noted, Row, Whole
    <3> QED
      BY <3>1, <3>2
  <2> QED
    BY <1>1, <2>1, <2>2, <2>3
<1>5. ASSUME NEW g \in Goroutine, NotaryAnswers(g) PROVE KeepsWhole
  <2> DEFINE s == frame[g].server
             n == Head(frame[g].left)
  <2>1. s \in Server /\ n \in Server
    <3>1. frame[g] \in Frame /\ frame[g].left # <<>>
      BY <1>t, <1>5 DEF NotaryAnswers, At, TypeOK, WalkingInv
    <3> QED
      BY <3>1, HeadTailProperties DEF Frame
  <2>2. PICK valid \in Offers : NotaryStores(s, n, valid)
    BY <1>5 DEF NotaryAnswers
  <2>3. PICK r \in Row : /\ row' = [row EXCEPT ![s] = r]
                         /\ r = row[s] \/ r.keys
    <3> HIDE PolicyAssumption, ScheduleAssumption, ResolverAssumption, NamesAssumption
    <3> HIDE DEF s, n
    <3> QED
      BY <1>t, <2>1, <2>2, NotaryStoresRow
  <2>4. torn' = torn
    BY <1>5 DEF NotaryAnswers
  <2> QED
    BY <1>1, <2>1, <2>3, <2>4 DEF Whole
<1>6. ASSUME NEW p \in Proc, Invalidate(p) PROVE KeepsWhole
  <2> DEFINE s == reply[p].server
  <2>1. s \in Server /\ row[s] # NoRow /\ torn' = torn
    BY <1>t, <1>6 DEF Invalidate, TypeOK, Reply
  <2>2. row' = [row EXCEPT ![s] = [row[s] EXCEPT !.valid = 0, !.updated = 0]]
    BY <1>r, <1>6, <2>1 DEF Invalidate, Row
  <2>3. [row[s] EXCEPT !.valid = 0, !.updated = 0].valid = 0
    BY <1>r, <2>1 DEF Row
  <2> QED
    BY <1>1, <2>1, <2>2, <2>3 DEF Whole
<1>7. ASSUME NEW g \in Goroutine, OriginStoreFails(g) \/ NotaryStoreFails(g)
      PROVE  KeepsWhole
  <2>1. /\ torn' = [torn EXCEPT ![frame[g].server] = clock]
        /\ \E r : row' = [row EXCEPT ![frame[g].server] = r]
    BY <1>t, <1>7, OriginStoreFailsRow, NotaryStoreFailsRow
       DEF OriginStoreFails, NotaryStoreFails, TInv
  <2> QED
    BY <1>t, <2>1 DEF KeepsWhole, TypeOK
<1>8. CASE Restart
  BY <1>8 DEF Restart, KeepsWhole
<1>9. ASSUME NEW p \in Proc, Request(p) \/ Load(p) \/ LoadFails(p)
      PROVE  KeepsWhole
  BY <1>2, <1>9 DEF Request, Load, LoadFails
<1>10. ASSUME NEW g \in Goroutine,
              \/ OriginFailsUnnoted(g) \/ NoWalk(g) \/ TakeWalk(g)
              \/ SkipItself(g) \/ NextNotary(g) \/ NotaryFails(g) \/ WalkEnds(g)
       PROVE  KeepsWhole
  BY <1>2, <1>10 DEF OriginFailsUnnoted, NoWalk, TakeWalk, SkipItself,
                     NextNotary, NotaryFails, WalkEnds
<1>11. CASE ListDue \/ Visit \/ VisitFails \/ Tick \/ UNCHANGED vars
  BY <1>2, <1>11 DEF ListDue, Visit, VisitFails, Tick, vars
<1> QED
  BY <1>3, <1>4, <1>5, <1>6, <1>7, <1>8, <1>9, <1>10, <1>11 DEF Next, Step

-----------------------------------------------------------------------------

(* A return empties its frame and hands a copy to a waiting caller.        *)
LEMMA ReturnFrames ==
  ASSUME TInv, CallerInv, FramesInv, NEW g \in Goroutine, NEW outcome, NEW r,
         frame[g] # Idle, Return(g, outcome, r)
  PROVE  FramesInv'
<1>t. TypeOK
  BY DEF TInv
<1>1. caller[g] # Idle => /\ caller[g] \in Frame /\ caller[g].left # <<>>
                          /\ BestOK(caller[g])
  BY DEF TInv, TypeOK, WalkingInv, FramesInv
<1>2. caller[g] # Idle => /\ Anchored(caller[g], r).pc # "load"
                          /\ BestOK(Anchored(caller[g], r))
  BY <1>1 DEF Anchored, Onward, BestOK, Frame
<1>3. caller[g] # Idle => frame[g].reason = "notary"
  BY DEF CallerInv
<1>4. \A p \in Proc : frame'[p] # Idle => reply'[p] = Idle
  <2> SUFFICES ASSUME NEW p \in Proc, frame'[p] # Idle PROVE reply'[p] = Idle
    OBVIOUS
  <2>1. p \in Goroutine
    BY DEF Goroutine
  <2>2. CASE p = g
    BY <1>t, <1>3, <2>1, <2>2 DEF Return, FramesInv, TypeOK
  <2>3. CASE p # g
    BY <1>t, <2>1, <2>3 DEF Return, FramesInv, TypeOK
  <2> QED
    BY <2>2, <2>3
<1>5. ASSUME NEW h \in Goroutine
      PROVE  /\ At(h, "load")' => frame'[h].held = NoRow
             /\ frame'[h] # Idle => BestOK(frame'[h])
             /\ caller'[h] # Idle => BestOK(caller'[h])
  <2>1. CASE h = g
    BY <1>t, <1>2, <2>1 DEF Return, FramesInv, TypeOK, At
  <2>2. CASE h # g
    BY <1>t, <2>2 DEF Return, FramesInv, TypeOK, At
  <2> QED
    BY <2>1, <2>2
<1> QED
  BY <1>4, <1>5 DEF FramesInv, BestOK, At

(* A call that goes on keeps what the invariant says of its locals.        *)
LEMMA ContinueFrames ==
  ASSUME TInv, FramesInv, NEW g \in Goroutine, NEW f, Continue(g, f),
         frame[g] # Idle \/ g \notin Proc,
         f.pc # "load", BestOK(f)
  PROVE  FramesInv'
<1>t. TypeOK
  BY DEF TInv
<1>1. \A p \in Proc : frame'[p] # Idle => reply'[p] = Idle
  BY <1>t DEF Continue, FramesInv, TypeOK, Goroutine
<1>2. ASSUME NEW h \in Goroutine
      PROVE  /\ At(h, "load")' => frame'[h].held = NoRow
             /\ frame'[h] # Idle => BestOK(frame'[h])
             /\ caller'[h] # Idle => BestOK(caller'[h])
  BY <1>t DEF Continue, FramesInv, TypeOK, At
<1> QED
  BY <1>1, <1>2 DEF FramesInv, BestOK, At

(* Every step of a call, of the sweeper and every fault keeps FramesInv.   *)
LEMMA NextFramesInv ==
  TInv /\ CallerInv /\ FramesInv /\ [Next]_vars => FramesInv'
<1> SUFFICES ASSUME TInv, CallerInv, FramesInv, [Next]_vars
             PROVE  FramesInv'
  OBVIOUS
<1> USE DEF calls, history
<1>t. TypeOK /\ WalkingInv
  BY DEF TInv
<1>f. \A g \in Goroutine : frame[g] # Idle => frame[g] \in Frame
                                             /\ BestOK(frame[g])
  BY <1>t DEF TypeOK, FramesInv
<1>g. Proc \subseteq Goroutine /\ Sweeper \in Goroutine \ Proc
  BY DEF Goroutine
<1>1. ASSUME NEW p \in Proc, Request(p) PROVE FramesInv'
  <2>1. PICK s, min : frame' = [frame EXCEPT ![p] = Call(s, "request", min)]
    BY <1>1 DEF Request
  <2>2. Call(s, "request", min).held = NoRow /\ BestOK(Call(s, "request", min))
    BY DEF Call, BestOK
  <2>3. reply' = [reply EXCEPT ![p] = Idle] /\ caller' = caller
    BY <1>1 DEF Request
  <2>4. \A q \in Proc : frame'[q] # Idle => reply'[q] = Idle
    BY <1>t, <1>g, <2>1, <2>3 DEF FramesInv, TypeOK
  <2>5. ASSUME NEW h \in Goroutine
        PROVE  /\ At(h, "load")' => frame'[h].held = NoRow
               /\ frame'[h] # Idle => BestOK(frame'[h])
               /\ caller'[h] # Idle => BestOK(caller'[h])
    BY <1>t, <2>1, <2>2, <2>3 DEF FramesInv, TypeOK, At
  <2> QED
    BY <2>4, <2>5 DEF FramesInv, BestOK, At
<1>2. ASSUME NEW p \in Proc, Load(p) PROVE FramesInv'
  <2> DEFINE due == ShouldProbe(row[frame[p].server], clock)
             f == [frame[p] EXCEPT !.now = clock, !.held = row[frame[p].server],
                     !.probed = due, !.pc = IF due THEN "probe" ELSE "fallback"]
  <2>1. p \in Goroutine /\ frame[p] # Idle
    BY <1>2, <1>g DEF Load, At
  <2>2. (\E r : Return(p, "fresh", r)) \/ Continue(p, f)
    BY <1>2 DEF Load
  <2> HIDE DEF due
  <2>3. frame[p] \in Frame /\ frame[p].pc = "load" /\ BestOK(frame[p])
    BY <1>2, <1>f, <2>1 DEF Load, At
  <2>4. f.pc # "load" /\ BestOK(f)
    BY <2>3, UntakenBest
  <2> HIDE DEF f
  <2> QED
    BY <2>1, <2>2, <2>4, ReturnFrames, ContinueFrames
<1>3. ASSUME NEW g \in Goroutine, OriginAnswers(g) PROVE FramesInv'
  BY <1>3, ReturnFrames DEF OriginAnswers, At
<1>4. ASSUME NEW g \in Goroutine,
             OriginFails(g) \/ OriginFailsUnnoted(g) \/ OriginStoreFails(g)
      PROVE  FramesInv'
  <2> DEFINE f == [frame[g] EXCEPT !.pc = "fallback"]
  <2>1. frame[g] # Idle /\ frame[g].pc = "probe" /\ GiveUp(g)
    BY <1>4 DEF OriginFails, OriginFailsUnnoted, OriginStoreFails, At
  <2>2. f.pc # "load" /\ BestOK(f)
    BY <1>f, <2>1 DEF BestOK, Frame
  <2>3. (\E outcome, r : Return(g, outcome, r)) \/ Continue(g, f)
    BY <2>1 DEF GiveUp
  <2> HIDE DEF f
  <2> QED
    BY <2>1, <2>2, <2>3, ReturnFrames, ContinueFrames
<1>5. ASSUME NEW g \in Goroutine, NoWalk(g) \/ WalkEnds(g) PROVE FramesInv'
  <2>1. frame[g] # Idle /\ \E outcome, r : Return(g, outcome, r)
    BY <1>5 DEF NoWalk, WalkEnds, At, Conclude
  <2> QED
    BY <2>1, ReturnFrames
<1>6. ASSUME NEW g \in Goroutine, TakeWalk(g) PROVE FramesInv'
  <2> DEFINE f == [frame[g] EXCEPT !.pc = "walk", !.left = Notaries]
  <2>1. frame[g] # Idle /\ frame[g].pc = "fallback" /\ Continue(g, f)
    BY <1>6 DEF TakeWalk, At
  <2>2. f.pc # "load" /\ BestOK(f)
    BY <1>f, <2>1 DEF BestOK, Frame, HeldSatisfies, HasKeys
  <2> HIDE DEF f
  <2> QED
    BY <2>1, <2>2, ContinueFrames
<1>7. ASSUME NEW g \in Goroutine,
             SkipItself(g) \/ NotaryFails(g) \/ NotaryStoreFails(g)
      PROVE  FramesInv'
  <2>1. frame[g] # Idle /\ Continue(g, Onward(frame[g]))
    BY <1>7 DEF SkipItself, NotaryFails, NotaryStoreFails, At
  <2>2. Onward(frame[g]).pc # "load" /\ BestOK(Onward(frame[g]))
    BY <1>f, <2>1 DEF Onward, BestOK, Frame
  <2> QED
    BY <2>1, <2>2, ContinueFrames
<1>8. ASSUME NEW g \in Goroutine, NextNotary(g) PROVE FramesInv'
  <2> DEFINE f == Call(Head(frame[g].left), "notary", clock)
  <2>1. /\ frame[g] # Idle
        /\ frame' = [frame EXCEPT ![g] = f]
        /\ caller' = [caller EXCEPT ![g] = frame[g]] /\ reply' = reply
    BY <1>8 DEF NextNotary, At
  <2>2. f.held = NoRow /\ BestOK(f)
    BY DEF Call, BestOK
  <2> HIDE DEF f
  <2>3. \A q \in Proc : frame'[q] # Idle => reply'[q] = Idle
    BY <1>t, <1>g, <2>1 DEF FramesInv, TypeOK
  <2>4. ASSUME NEW h \in Goroutine
        PROVE  /\ At(h, "load")' => frame'[h].held = NoRow
               /\ frame'[h] # Idle => BestOK(frame'[h])
               /\ caller'[h] # Idle => BestOK(caller'[h])
    BY <1>t, <1>f, <2>1, <2>2 DEF FramesInv, TypeOK, At
  <2> QED
    BY <2>3, <2>4 DEF FramesInv, BestOK, At
<1>9. ASSUME NEW g \in Goroutine, NotaryAnswers(g) PROVE FramesInv'
  <2> DEFINE f == frame[g]
             s == f.server
             n == Head(f.left)
             r == row'[s]
  <2>1. f # Idle /\ f \in Frame /\ s \in Server /\ BestOK(f) /\ f.left # <<>>
    BY <1>f, <1>t, <1>9 DEF NotaryAnswers, At, Frame, WalkingInv
  <2>2. PICK valid \in Offers :
          /\ NotaryStores(s, n, valid)
          /\ Continue(g, [Heard(f, r) EXCEPT
                            !.offered = IF valid > @ THEN valid ELSE @])
    BY <1>9 DEF NotaryAnswers
  <2>3. n \in Server
    BY <2>1, HeadTailProperties DEF Frame
  <2>4. PICK stores \in Row : row' = [row EXCEPT ![s] = stores]
    BY <1>t, <2>1, <2>2, <2>3, NotaryStoresRow
  <2>5. r \in Row
    BY <1>t, <2>1, <2>4 DEF TypeOK
  <2> DEFINE h == [Heard(f, r) EXCEPT
                      !.offered = IF valid > @ THEN valid ELSE @]
  <2> HIDE DEF r
  <2>6. h.pc # "load" /\ BestOK(h)
    BY <2>1, <2>5, HeardBest
  <2>7. Continue(g, h)
    BY <2>2 DEF r
  <2> HIDE DEF h, f
  <2> QED
    BY <2>1, <2>6, <2>7, ContinueFrames DEF f
<1>10. CASE Visit
  <2> DEFINE s == Head(queue)
             f == [Call(s, "sweep", 0) EXCEPT !.pc = "probe", !.now = clock,
                     !.held = row[s], !.probed = TRUE]
  <2>1. f.pc # "load" /\ BestOK(f)
    BY DEF Call, BestOK
  <2>2. CASE Continue(Sweeper, f)
    <3> HIDE DEF f
    <3> QED
      BY <1>g, <2>1, <2>2, ContinueFrames
  <2>3. CASE UNCHANGED calls
    BY <2>3 DEF FramesInv, At
  <2> QED
    BY <1>10, <2>2, <2>3 DEF Visit
<1>11. ASSUME NEW p \in Proc, LoadFails(p) PROVE FramesInv'
  BY <1>11, <1>g, ReturnFrames DEF LoadFails, At
<1>12. ASSUME NEW p \in Proc, Invalidate(p) PROVE FramesInv'
  BY <1>t, <1>12 DEF Invalidate, FramesInv, TypeOK, At
<1>13. CASE Restart
  BY <1>13 DEF Restart, FramesInv, At
<1>14. CASE ListDue \/ VisitFails \/ Tick \/ UNCHANGED vars
  BY <1>14 DEF ListDue, VisitFails, Tick, vars, FramesInv, At
<1> QED
  BY <1>1, <1>2, <1>3, <1>4, <1>5, <1>6, <1>7, <1>8, <1>9, <1>10, <1>11,
     <1>12, <1>13, <1>14 DEF Next, Step

-----------------------------------------------------------------------------

(* A call that reads and hears nothing in a step has still what it had.    *)
LEMMA SameKept ==
  ASSUME TInv, ClockInv, KeptInv, KeepsWhole,
         NEW g \in Goroutine, NEW f \in CallsOf(g), NEW h,
         h.server = f.server, h.now = f.now, h.held = f.held,
         h.best = f.best, h.offered = f.offered
  PROVE  Shown(h, row'[h.server], torn'[h.server])
<1>1. f \in Frame /\ f.server \in Server /\ f.now \in Nat /\ f.now <= clock
  <2>1. f \in Frame
    BY DEF CallsOf, TInv, TypeOK
  <2>2. f.now <= clock
    BY DEF CallsOf, ClockInv
  <2> QED
    BY <2>1, <2>2 DEF Frame
<1>2. clock \in Nat /\ torn[f.server] \in Nat
  BY <1>1 DEF TInv, TypeOK
<1>3. Shown(f, row[f.server], torn[f.server])
  BY DEF KeptInv
<1>4. \/ torn'[f.server] = clock
      \/ /\ torn'[f.server] = torn[f.server]
         /\ Whole(row[f.server]) => Whole(row'[f.server])
  BY <1>1 DEF KeepsWhole
<1>5. CASE torn'[f.server] = clock
  <2>1. ~(torn'[h.server] < h.now)
    BY <1>1, <1>2, <1>5
  <2> QED
    BY <2>1 DEF Shown
<1> QED
  BY <1>3, <1>4, <1>5 DEF Shown

(* A call that has not loaded yet has nothing to show.                     *)
LEMMA UnloadedKept ==
  ASSUME NEW f, f.now = 0, NEW r, NEW t \in Nat
  PROVE  Shown(f, r, t)
BY DEF Shown

LEMMA OthersKept ==
  ASSUME TInv, ClockInv, KeptInv, KeepsWhole, NEW g \in Goroutine,
         \A h \in Goroutine : h # g => /\ frame'[h] = frame[h]
                                       /\ caller'[h] = caller[h],
         \A f \in CallsOf(g)' : Shown(f, row'[f.server], torn'[f.server])
  PROVE  KeptInv'
<1> SUFFICES ASSUME NEW h \in Goroutine, NEW f \in CallsOf(h)'
             PROVE  Shown(f, row'[f.server], torn'[f.server])
  BY DEF KeptInv, Shown, Whole
<1>1. CASE h = g
  BY <1>1
<1>2. CASE h # g
  <2>1. f \in CallsOf(h)
    BY <1>2 DEF CallsOf
  <2> QED
    BY <2>1, SameKept
<1> QED
  BY <1>1, <1>2

LEMMA ReturnKept ==
  ASSUME TInv, ClockInv, KeptInv, KeepsWhole, NEW g \in Goroutine,
         NEW outcome, NEW r, Return(g, outcome, r)
  PROVE  KeptInv'
<1>1. \A h \in Goroutine : h # g => /\ frame'[h] = frame[h]
                                    /\ caller'[h] = caller[h]
  BY DEF Return, TInv, TypeOK
<1>2. ASSUME NEW f \in CallsOf(g)'
      PROVE  Shown(f, row'[f.server], torn'[f.server])
  <2>1. caller[g] # Idle /\ f = Anchored(caller[g], r)
    BY <1>2 DEF CallsOf, Return, TInv, TypeOK
  <2>2. PICK c \in CallsOf(g) : c = caller[g]
    BY <2>1 DEF CallsOf
  <2>3. c \in Frame
    BY <2>1, <2>2 DEF TInv, TypeOK
  <2>4. /\ f.server = c.server /\ f.now = c.now /\ f.held = c.held
        /\ f.best = c.best /\ f.offered = c.offered
    BY <2>1, <2>2, <2>3 DEF Anchored, Onward, Frame
  <2> QED
    BY <2>4, SameKept
<1> QED
  BY <1>1, <1>2, OthersKept

LEMMA ContinueKept ==
  ASSUME TInv, ClockInv, KeptInv, KeepsWhole, NEW g \in Goroutine, NEW f,
         Continue(g, f), Shown(f, row'[f.server], torn'[f.server])
  PROVE  KeptInv'
<1>1. \A h \in Goroutine : h # g => /\ frame'[h] = frame[h]
                                    /\ caller'[h] = caller[h]
  BY DEF Continue, TInv, TypeOK
<1>2. ASSUME NEW c \in CallsOf(g)'
      PROVE  Shown(c, row'[c.server], torn'[c.server])
  <2>1. c = f \/ (c = caller[g] /\ caller[g] # Idle)
    BY <1>2 DEF CallsOf, Continue, TInv, TypeOK
  <2>2. CASE c = f
    BY <2>2
  <2>3. CASE c = caller[g] /\ caller[g] # Idle
    <3>1. c \in CallsOf(g)
      BY <2>3 DEF CallsOf
    <3> QED
      BY <3>1, SameKept
  <2> QED
    BY <2>1, <2>2, <2>3
<1> QED
  BY <1>1, <1>2, OthersKept

(* A call that loads or is begun by the sweep has the row as it is now.    *)
LEMMA LoadedKept ==
  ASSUME NEW f, NEW r, f.held = r, f.best = NoRow, NEW t
  PROVE  Shown(f, r, t)
BY DEF Shown

LEMMA NextKeptInv ==
  TInv /\ ClockInv /\ FramesInv /\ KeptInv /\ [Next]_vars => KeptInv'
<1> SUFFICES ASSUME TInv, ClockInv, FramesInv, KeptInv, [Next]_vars
             PROVE  KeptInv'
  OBVIOUS
<1> USE DEF calls, history
<1>t. TypeOK /\ WalkingInv /\ KeepsWhole
  BY NextKeepsWhole DEF TInv
<1>g. Proc \subseteq Goroutine /\ Sweeper \in Goroutine
  BY DEF Goroutine
<1>f. ASSUME NEW g \in Goroutine, frame[g] # Idle
      PROVE  /\ frame[g] \in Frame /\ frame[g] \in CallsOf(g)
             /\ frame[g].server \in Server /\ BestOK(frame[g])
  BY <1>t, <1>f DEF TypeOK, CallsOf, Frame, FramesInv
<1>n. \A s \in Server : torn'[s] \in Nat
  BY NextTInv DEF TInv, TypeOK
<1>r. ASSUME NEW g \in Goroutine, NEW outcome, NEW r, Return(g, outcome, r)
      PROVE  KeptInv'
  BY <1>t, <1>r, ReturnKept
<1>c. ASSUME NEW g \in Goroutine, NEW f, Continue(g, f),
             Shown(f, row'[f.server], torn'[f.server])
      PROVE  KeptInv'
  BY <1>t, <1>c, ContinueKept
(* A call that only moves on. *)
<1>m. ASSUME NEW g \in Goroutine, frame[g] # Idle, NEW f, Continue(g, f),
             f.server = frame[g].server, f.now = frame[g].now,
             f.held = frame[g].held, f.best = frame[g].best,
             f.offered = frame[g].offered
      PROVE  KeptInv'
  <2>1. Shown(f, row'[f.server], torn'[f.server])
    BY <1>t, <1>f, <1>m, SameKept
  <2> QED
    BY <1>c, <1>m, <2>1
<1>u. ASSUME UNCHANGED <<frame, caller>> PROVE KeptInv'
  <2> SUFFICES ASSUME NEW h \in Goroutine, NEW f \in CallsOf(h)'
               PROVE  Shown(f, row'[f.server], torn'[f.server])
    BY DEF KeptInv, Shown, Whole
  <2>1. f \in CallsOf(h)
    BY <1>u DEF CallsOf
  <2> QED
    BY <1>t, <2>1, SameKept
<1>1. ASSUME NEW p \in Proc, Request(p) PROVE KeptInv'
  <2>1. PICK s \in Asked, min \in {0} \cup FromNow(Ahead) :
          frame' = [frame EXCEPT ![p] = Call(s, "request", min)]
    BY <1>1 DEF Request
  <2> DEFINE f == Call(s, "request", min)
  <2>2. f.now = 0 /\ f.server = s /\ s \in Server
    BY DEF Call
  <2>3. caller' = caller
    BY <1>1 DEF Request
  <2> HIDE DEF f
  <2>4. Shown(f, row'[f.server], torn'[f.server])
    BY <1>n, <2>2, UnloadedKept
  <2>5. ASSUME NEW c \in CallsOf(p)'
        PROVE  Shown(c, row'[c.server], torn'[c.server])
    <3>1. c = f \/ c \in CallsOf(p)
      BY <1>g, <1>t, <2>1, <2>3, <2>5 DEF CallsOf, TypeOK, f
    <3> QED
      BY <1>g, <1>t, <2>4, <3>1, SameKept
  <2>6. \A h \in Goroutine : h # p => frame'[h] = frame[h] /\ caller'[h] = caller[h]
    BY <1>g, <1>t, <2>1, <2>3 DEF TypeOK
  <2> QED
    BY <1>g, <1>t, <2>5, <2>6, OthersKept
<1>2. ASSUME NEW p \in Proc, Load(p) PROVE KeptInv'
  <2> DEFINE r == row[frame[p].server]
             due == ShouldProbe(r, clock)
             f == [frame[p] EXCEPT !.now = clock, !.held = r,
                     !.probed = due, !.pc = IF due THEN "probe" ELSE "fallback"]
  <2>1. (\E o : Return(p, o, r)) \/ Continue(p, f)
    BY <1>2 DEF Load
  <2>2. /\ frame[p] \in Frame /\ frame[p].best = NoRow
        /\ row' = row
    BY <1>2, <1>f, <1>g DEF Load, At, BestOK
  <2> HIDE DEF due, r
  <2>3. f.held = r /\ f.best = NoRow /\ f.server = frame[p].server
    BY <2>2 DEF Frame
  <2> HIDE DEF f
  <2>4. Shown(f, row'[f.server], torn'[f.server])
    BY <2>2, <2>3, LoadedKept DEF r
  <2> QED
    BY <1>c, <1>g, <1>r, <2>1, <2>4
<1>3. ASSUME NEW g \in Goroutine,
             \/ OriginAnswers(g) \/ OriginFails(g) \/ OriginFailsUnnoted(g)
             \/ OriginStoreFails(g) \/ NoWalk(g) \/ WalkEnds(g)
      PROVE  KeptInv'
  <2> DEFINE f == [frame[g] EXCEPT !.pc = "fallback"]
  <2>1. frame[g] # Idle /\ ((\E o, r : Return(g, o, r)) \/ Continue(g, f))
    BY <1>3 DEF OriginAnswers, OriginFails, OriginFailsUnnoted, NoWalk, WalkEnds,
                OriginStoreFails, GiveUp, Conclude, At
  <2>2. /\ f.server = frame[g].server /\ f.now = frame[g].now
        /\ f.held = frame[g].held /\ f.best = frame[g].best
        /\ f.offered = frame[g].offered
    BY <1>f, <2>1 DEF Frame
  <2> HIDE DEF f
  <2> QED
    BY <1>m, <1>r, <2>1, <2>2
<1>4. ASSUME NEW g \in Goroutine,
             \/ TakeWalk(g) \/ SkipItself(g) \/ NotaryFails(g)
             \/ NotaryStoreFails(g)
      PROVE  KeptInv'
  <2> DEFINE f == [frame[g] EXCEPT !.pc = "walk", !.left = Notaries]
             h == Onward(frame[g])
  <2>1. frame[g] # Idle /\ (Continue(g, f) \/ Continue(g, h))
    BY <1>4 DEF TakeWalk, SkipItself, NotaryFails, NotaryStoreFails, At
  <2>2. \A c \in {f, h} :
          /\ c.server = frame[g].server /\ c.now = frame[g].now
          /\ c.held = frame[g].held /\ c.best = frame[g].best
          /\ c.offered = frame[g].offered
    BY <1>f, <2>1 DEF Frame, Onward
  <2> HIDE DEF f, h
  <2> QED
    BY <1>m, <2>1, <2>2
<1>5. ASSUME NEW g \in Goroutine, NextNotary(g) PROVE KeptInv'
  <2> DEFINE f == Call(Head(frame[g].left), "notary", clock)
  <2>1. /\ frame' = [frame EXCEPT ![g] = f]
        /\ caller' = [caller EXCEPT ![g] = frame[g]] /\ frame[g] # Idle
    BY <1>5 DEF NextNotary, At
  <2>2. f.now = 0 /\ f.server \in Server
    <3>1. Head(frame[g].left) \in Server
      BY <1>f, <1>5, HeadTailProperties DEF NextNotary, At, Frame
    <3> QED
      BY <3>1 DEF Call
  <2> HIDE DEF f
  <2>3. Shown(f, row'[f.server], torn'[f.server])
    BY <1>n, <2>2, UnloadedKept
  <2>4. ASSUME NEW c \in CallsOf(g)'
        PROVE  Shown(c, row'[c.server], torn'[c.server])
    <3>1. c = f \/ c = frame[g]
      BY <1>t, <2>1, <2>4 DEF CallsOf, TypeOK
    <3> QED
      BY <1>f, <1>t, <2>1, <2>3, <3>1, SameKept
  <2>5. \A h \in Goroutine : h # g => frame'[h] = frame[h] /\ caller'[h] = caller[h]
    BY <1>t, <2>1 DEF TypeOK
  <2> QED
    BY <1>t, <2>4, <2>5, OthersKept
<1>6. ASSUME NEW g \in Goroutine, NotaryAnswers(g) PROVE KeptInv'
  <2> DEFINE f == frame[g]
             s == f.server
             n == Head(f.left)
             r == row'[s]
  <2>1. /\ f # Idle /\ f \in Frame /\ s \in Server /\ BestOK(f) /\ f.left # <<>>
        /\ f \in CallsOf(g) /\ row[s] \in Row \cup {NoRow}
    BY <1>f, <1>t, <1>6 DEF NotaryAnswers, At, TypeOK, WalkingInv
  <2>2. PICK valid \in Offers :
          /\ NotaryStores(s, n, valid)
          /\ Continue(g, [Heard(f, r) EXCEPT
                            !.offered = IF valid > @ THEN valid ELSE @])
    BY <1>6 DEF NotaryAnswers
  <2>3. n \in Server /\ valid \in Nat \ {0}
    BY <2>1, HeadTailProperties DEF Frame
  <2>4. PICK u \in Row :
          /\ row' = [row EXCEPT ![s] = u]
          /\ u = row[s] \/ (u.keys /\ u.valid = valid)
          /\ u.valid >= valid
    <3> HIDE PolicyAssumption, ScheduleAssumption, ResolverAssumption, NamesAssumption
    <3> HIDE DEF s, n
    <3>1. NotaryStores(s, n, valid) /\ s \in Server /\ n \in Server
      BY <2>1, <2>2, <2>3 DEF s, n
    <3> QED
      BY <1>t, <3>1, NotaryStoresRow
  <2>5. r = u /\ r # NoRow /\ torn' = torn
    BY <1>t, <1>6, <2>1, <2>4, NamesAssumption DEF TypeOK, NotaryAnswers
  <2>6. r.valid >= valid
    BY <2>4, <2>5
  <2> DEFINE h == [Heard(f, r) EXCEPT
                      !.offered = IF valid > @ THEN valid ELSE @]
  <2>7. Continue(g, h)
    BY <2>2
  <2>8. r \in Row
    BY <2>5
  <2> HIDE DEF r
  <2>9. h.server = s /\ h.now = f.now /\ h.held = f.held
    BY <2>1 DEF Heard, Onward, Frame
  <2>10. Shown(h, r, torn[s])
    <3> SUFFICES ASSUME torn[s] < h.now, Whole(h.held)
                 PROVE  /\ Whole(r)
                        /\ h.best # NoRow => h.best.keys /\ h.best.valid >= h.offered
      BY DEF Shown
    <3>1. /\ Whole(row[s])
          /\ f.best # NoRow => f.best.keys /\ f.best.valid >= f.offered
      BY <2>1, <2>9 DEF KeptInv, Shown
    <3>2. r.keys
      <4>1. CASE r = row[s]
        <5>0. r.valid \in Nat /\ valid \in Nat \ {0}
          BY <2>8 DEF Row
        <5>1. r.valid # 0
          BY <2>6, <5>0
        <5>2. Whole(r)
          BY <3>1, <4>1
        <5> QED
          BY <2>5, <5>1, <5>2 DEF Whole
      <4>2. CASE r # row[s]
        BY <2>4, <2>5, <4>2 DEF r
      <4> QED
        BY <4>1, <4>2
    <3> HIDE DEF f
    <3>3. h.best.keys /\ h.best.valid >= h.offered
      BY <2>1, <2>6, <2>8, <3>1, <3>2, HeardKept
    <3> QED
      BY <3>2, <3>3 DEF Whole
  <2> HIDE DEF h
  <2>11. Shown(h, row'[h.server], torn'[h.server])
    BY <2>5, <2>9, <2>10 DEF r
  <2> QED
    BY <1>c, <2>7, <2>11
<1>7. CASE Visit
  <2> DEFINE s == Head(queue)
             f == [Call(s, "sweep", 0) EXCEPT !.pc = "probe", !.now = clock,
                     !.held = row[s], !.probed = TRUE]
  <2>1. f.held = row[s] /\ f.best = NoRow /\ f.server = s
    BY DEF Call
  <2>2. (Continue(Sweeper, f) \/ UNCHANGED calls) /\ row' = row
    BY <1>7 DEF Visit
  <2> HIDE DEF f
  <2>3. Shown(f, row'[f.server], torn'[f.server])
    BY <2>1, <2>2, LoadedKept
  <2> QED
    BY <1>c, <1>g, <1>u, <2>2, <2>3
<1>8. ASSUME NEW p \in Proc, LoadFails(p) PROVE KeptInv'
  BY <1>8, <1>g, <1>r DEF LoadFails
<1>9. ASSUME NEW p \in Proc, Invalidate(p) PROVE KeptInv'
  BY <1>9, <1>u DEF Invalidate
<1>10. CASE Restart
  BY <1>10 DEF Restart, KeptInv, CallsOf
<1>11. CASE ListDue \/ VisitFails \/ Tick \/ UNCHANGED vars
  BY <1>11, <1>u DEF ListDue, VisitFails, Tick, vars
<1> QED
  BY <1>1, <1>2, <1>3, <1>4, <1>5, <1>6, <1>7, <1>8, <1>9, <1>10, <1>11
     DEF Next, Step

-----------------------------------------------------------------------------

(* The origin's answer leaves its own keys.                                *)
LEMMA OriginAnswersRow ==
  ASSUME TypeOK, NEW g \in Goroutine, OriginAnswers(g)
  PROVE  LET s == frame[g].server
         IN  /\ \E r \in Row : row' = [row EXCEPT ![s] = r]
             /\ row'[s] # NoRow /\ row'[s].keys /\ row'[s].via = Direct
<1> DEFINE s == frame[g].server
<1>1. s \in Server /\ clock \in Nat /\ row[s] \in Row \cup {NoRow}
  BY DEF OriginAnswers, At, TypeOK, Frame
<1>2. PICK valid \in FromNow(Lifetimes) :
        \/ row' = [row EXCEPT ![s] = Fetched(valid)]
        \/ row' = [row EXCEPT ![s] = Replaced(row[s], Direct, valid)]
  BY DEF OriginAnswers
<1>3. valid \in Nat
  BY DEF FromNow
<1>4. PICK r : r \in Row /\ r.keys /\ r.via = Direct
               /\ row' = [row EXCEPT ![s] = r]
  <2>1. PICK c : c = Fetched(valid)
    OBVIOUS
  <2>2. c \in Row /\ c.keys /\ c.via = Direct
    BY <1>1, <1>3, <2>1, FetchedType DEF Fetched
  <2>3. PICK d : d = Replaced(row[s], Direct, valid)
    OBVIOUS
  <2>4. d \in Row /\ d.keys /\ d.via = Direct
    <3>1. Direct \in Server \cup {Direct}
      OBVIOUS
    <3> HIDE PolicyAssumption, ScheduleAssumption, ResolverAssumption, NamesAssumption
    <3> HIDE DEF s
    <3> QED
      BY <1>1, <1>3, <2>3, <3>1, ReplacedType
  <2> QED
    BY <1>2, <2>1, <2>2, <2>3, <2>4
<1> HIDE DEF s
<1>5. row'[s] = r /\ r # NoRow
  BY <1>1, <1>4, NamesAssumption DEF TypeOK
<1> QED
  BY <1>4, <1>5 DEF s

(* A reply is given by the request's own return.                           *)
LEMMA OwnReturn ==
  ASSUME TInv, FramesInv, NEW g \in Goroutine, NEW outcome, NEW r,
         Return(g, outcome, r), NEW p \in Proc, Replies(p)
  PROVE  p = g /\ reply'[p].record = r
BY DEF Return, Replies, FramesInv, TInv, TypeOK

(* The tail of queryRemoteKeys answers with keys if it holds any.          *)
LEMMA ConcludeKeeps ==
  ASSUME TInv, FramesInv, NEW g \in Goroutine, NEW best,
         best # NoRow => best.keys, HasKeys(frame[g].held), Conclude(g, best)
  PROVE  \E outcome, r : Return(g, outcome, r) /\ HasKeys(r)
BY DEF Conclude, HeldSatisfies, HasKeys

(* A request that replies with keys in hand replies with keys: the load,   *)
(* the origin's answer and the tail are the only ways it ends.             *)
LEMMA HeldKeysKept ==
  TInv /\ FramesInv /\ KeptInv /\ [Next]_vars =>
    \A p \in Proc : LET f == frame[p] IN
      Replies(p) /\ HasKeys(f.held) /\ torn[f.server] < f.now =>
        HasKeys(reply'[p].record)
<1> SUFFICES ASSUME TInv, FramesInv, KeptInv, [Next]_vars, NEW p \in Proc,
                    Replies(p), HasKeys(frame[p].held),
                    torn[frame[p].server] < frame[p].now
             PROVE  HasKeys(reply'[p].record)
  OBVIOUS
<1> USE DEF calls, history
<1>t. TypeOK /\ p \in Goroutine
  BY DEF TInv, Goroutine
<1>p. /\ frame[p] # Idle /\ reply[p] = Idle /\ reply'[p] # Idle
      /\ ~At(p, "load")
  BY <1>t DEF Replies, FramesInv, At, HasKeys
<1>1. ASSUME reply' = reply PROVE FALSE
  BY <1>p, <1>1
<1>2. ASSUME NEW g \in Goroutine, NEW f, Continue(g, f) PROVE FALSE
  BY <1>1, <1>2 DEF Continue
<1>3. ASSUME NEW q \in Proc, Request(q) PROVE FALSE
  BY <1>t, <1>p, <1>3 DEF Request, TypeOK
<1>4. ASSUME NEW q \in Proc, Load(q) \/ LoadFails(q) PROVE FALSE
  <2>1. q \in Goroutine /\ At(q, "load")
    BY <1>4 DEF Load, LoadFails, Goroutine
  <2>2. \E outcome, r : Return(q, outcome, r)
    BY <1>2, <1>4, <2>1 DEF Load, LoadFails
  <2> QED
    BY <1>p, <2>1, <2>2, OwnReturn
<1>b. frame[p].best # NoRow => frame[p].best.keys
  BY <1>t, <1>p DEF KeptInv, CallsOf, Shown, Whole, HasKeys
<1>5. ASSUME NEW g \in Goroutine, OriginAnswers(g)
      PROVE  HasKeys(reply'[p].record)
  BY <1>t, <1>5, OwnReturn, OriginAnswersRow DEF HasKeys, OriginAnswers
<1>6. ASSUME NEW g \in Goroutine,
             OriginFails(g) \/ OriginFailsUnnoted(g) \/ OriginStoreFails(g)
      PROVE  FALSE
  <2>1. GiveUp(g)
    BY <1>6 DEF OriginFails, OriginFailsUnnoted, OriginStoreFails
  <2>2. CASE frame[g].reason = "sweep" /\ Return(g, "error", NoRow)
    BY <2>2, OwnReturn DEF Replies
  <2> QED
    BY <1>2, <2>1, <2>2 DEF GiveUp
<1>7. ASSUME NEW g \in Goroutine, NEW best, Conclude(g, best),
             best = NoRow \/ best = frame[g].best
      PROVE  HasKeys(reply'[p].record)
  <2>1. \E outcome, r : Return(g, outcome, r)
    BY <1>7 DEF Conclude
  <2>2. p = g
    BY <2>1, OwnReturn
  <2>3. PICK outcome, r : Return(g, outcome, r) /\ HasKeys(r)
    BY <1>b, <1>7, <2>2, ConcludeKeeps
  <2> QED
    BY <2>3, OwnReturn
<1>8. ASSUME NEW g \in Goroutine, NoWalk(g) PROVE HasKeys(reply'[p].record)
  BY <1>7, <1>8 DEF NoWalk
<1>9. ASSUME NEW g \in Goroutine, WalkEnds(g) PROVE HasKeys(reply'[p].record)
  BY <1>7, <1>9 DEF WalkEnds
<1>10. ASSUME NEW g \in Goroutine,
              \/ TakeWalk(g) \/ SkipItself(g) \/ NextNotary(g)
              \/ NotaryAnswers(g) \/ NotaryFails(g) \/ NotaryStoreFails(g)
       PROVE  FALSE
  BY <1>1, <1>2, <1>10 DEF TakeWalk, SkipItself, NextNotary, NotaryAnswers,
                           NotaryFails, NotaryStoreFails
<1>11. ASSUME NEW q \in Proc, Invalidate(q) PROVE FALSE
  BY <1>t, <1>p, <1>11 DEF Invalidate, TypeOK
<1>12. CASE Visit
  BY <1>1, <1>12 DEF Visit, Continue
<1>13. CASE Restart
  BY <1>p, <1>13 DEF Restart
<1>14. CASE ListDue \/ VisitFails \/ Tick \/ UNCHANGED vars
  BY <1>1, <1>14 DEF ListDue, VisitFails, Tick, vars
<1> QED
  BY <1>3, <1>4, <1>5, <1>6, <1>8, <1>9, <1>10, <1>11, <1>12, <1>13, <1>14
     DEF Next, Step

HeldInv == TInv /\ ClockInv /\ CallerInv /\ FramesInv /\ KeptInv

LEMMA HeldInduction == Spec => []HeldInv
<1>1. Init => HeldInv
  BY InitTInv DEF HeldInv, Init, ClockInv, CallerInv, FramesInv, KeptInv,
                  CallsOf, At
<1>2. HeldInv /\ [Next]_vars => HeldInv'
  BY NextTInv, NextClockInv, NextCallerInv, NextFramesInv, NextKeptInv
     DEF HeldInv
<1> QED
  BY <1>1, <1>2, PTL DEF Spec

(* A request that read keys replies with keys, whatever the origin, the    *)
(* notaries, other requests and faults do meanwhile, short of cutting a    *)
(* store of its server (queryRemoteKeys, notary.go:201-230).               *)
THEOREM HeldKeysAreServed == Spec => HeldIsNotLost
<1>1. HeldInv /\ [Next]_vars =>
        [\A p \in Proc : LET f == frame[p] IN
           Replies(p) /\ HasKeys(f.held) /\ torn[f.server] < f.now =>
             HasKeys(reply'[p].record)]_vars
  BY HeldKeysKept DEF HeldInv
<1> QED
  BY <1>1, HeldInduction, PTL DEF Spec, HeldIsNotLost

-----------------------------------------------------------------------------

(* The tail of queryRemoteKeys answers with the walk's best copy, if there *)
(* is one with keys.                                                       *)
LEMMA ConcludeBest ==
  ASSUME NEW g \in Goroutine, NEW best, HasKeys(best), Conclude(g, best)
  PROVE  \E outcome : Return(g, outcome, best)
BY DEF Conclude, HeldSatisfies, HasKeys

(* What the caller of a walk must get.                                     *)
GetsBest(p) ==
  /\ HasKeys(reply'[p].record)
  /\ reply'[p].record.valid >= frame[p].offered

LEMMA BestKept ==
  TInv /\ FramesInv /\ KeptInv /\ [Next]_vars =>
    \A p \in Proc :
      Replies(p) /\ frame[p].offered > 0 /\ Intact(frame[p]) => GetsBest(p)
<1> SUFFICES ASSUME TInv, FramesInv, KeptInv, [Next]_vars, NEW p \in Proc,
                    Replies(p), frame[p].offered > 0, Intact(frame[p])
             PROVE  GetsBest(p)
  OBVIOUS
<1> USE DEF calls, history
<1>t. TypeOK /\ p \in Goroutine
  BY DEF TInv, Goroutine
<1>p. /\ frame[p] # Idle /\ reply[p] = Idle /\ reply'[p] # Idle
      /\ frame[p] \in Frame /\ BestOK(frame[p])
  BY <1>t DEF Replies, FramesInv, TypeOK
<1>1. ASSUME reply' = reply PROVE FALSE
  BY <1>p, <1>1
<1>2. ASSUME NEW g \in Goroutine, NEW f, Continue(g, f) PROVE FALSE
  BY <1>1, <1>2 DEF Continue
<1>3. ASSUME NEW q \in Proc, Request(q) PROVE FALSE
  BY <1>t, <1>p, <1>3 DEF Request, TypeOK
<1>b. /\ HasKeys(frame[p].best)
      /\ frame[p].best.valid >= frame[p].offered
      /\ frame[p].pc \notin {"load", "probe", "fallback"}
  <2>1. frame[p].best # NoRow /\ frame[p].pc \notin {"load", "probe", "fallback"}
    BY <1>p DEF BestOK
  <2>2. Shown(frame[p], row[frame[p].server], torn[frame[p].server])
    BY <1>t, <1>p DEF KeptInv, CallsOf
  <2> QED
    BY <2>1, <2>2 DEF Shown, Intact, Whole, HasKeys
(* A call that has not walked was offered nothing. *)
<1>4. ASSUME NEW g \in Goroutine, NEW outcome, NEW r, Return(g, outcome, r),
             frame[g].pc \in {"load", "probe", "fallback"}
      PROVE  FALSE
  BY <1>b, <1>4, OwnReturn
<1>5. ASSUME NEW q \in Proc, Load(q) \/ LoadFails(q) PROVE FALSE
  <2>1. q \in Goroutine /\ frame[q].pc = "load"
    BY <1>5 DEF Load, LoadFails, At, Goroutine
  <2>2. \E outcome, r : Return(q, outcome, r)
    BY <1>2, <1>5, <2>1 DEF Load, LoadFails
  <2> QED
    BY <1>4, <2>1, <2>2
<1>6. ASSUME NEW g \in Goroutine, OriginAnswers(g) PROVE FALSE
  BY <1>4, <1>6 DEF OriginAnswers, At
<1>7. ASSUME NEW g \in Goroutine,
             OriginFails(g) \/ OriginFailsUnnoted(g) \/ OriginStoreFails(g)
      PROVE  FALSE
  <2>1. GiveUp(g) /\ frame[g].pc = "probe"
    BY <1>7 DEF OriginFails, OriginFailsUnnoted, OriginStoreFails, At
  <2> QED
    BY <1>2, <1>4, <2>1 DEF GiveUp
<1>8. ASSUME NEW g \in Goroutine, NoWalk(g) PROVE FALSE
  BY <1>4, <1>8 DEF NoWalk, At, Conclude
<1>9. ASSUME NEW g \in Goroutine, WalkEnds(g) PROVE GetsBest(p)
  <2>1. Conclude(g, frame[g].best)
    BY <1>9 DEF WalkEnds
  <2>2. p = g
    BY <2>1, OwnReturn DEF Conclude
  <2>3. \E outcome : Return(g, outcome, frame[g].best)
    BY <1>b, <2>1, <2>2, ConcludeBest
  <2> QED
    BY <1>b, <2>2, <2>3, OwnReturn DEF GetsBest
<1>10. ASSUME NEW g \in Goroutine,
              \/ TakeWalk(g) \/ SkipItself(g) \/ NextNotary(g)
              \/ NotaryAnswers(g) \/ NotaryFails(g) \/ NotaryStoreFails(g)
       PROVE  FALSE
  BY <1>1, <1>2, <1>10 DEF TakeWalk, SkipItself, NextNotary, NotaryAnswers,
                           NotaryFails, NotaryStoreFails
<1>11. ASSUME NEW q \in Proc, Invalidate(q) PROVE FALSE
  BY <1>t, <1>p, <1>11 DEF Invalidate, TypeOK
<1>12. CASE Visit
  BY <1>1, <1>12 DEF Visit, Continue
<1>13. CASE Restart
  BY <1>p, <1>13 DEF Restart
<1>14. CASE ListDue \/ VisitFails \/ Tick \/ UNCHANGED vars
  BY <1>1, <1>14 DEF ListDue, VisitFails, Tick, vars
<1> QED
  BY <1>3, <1>5, <1>6, <1>7, <1>8, <1>9, <1>10, <1>11, <1>12, <1>13,
     <1>14 DEF Next, Step

(* The caller of a walk gets the longest-valid copy any notary offered in  *)
(* it, or one valid for longer still, whatever other requests, the sweeper *)
(* and faults do meanwhile, short of cutting a store of its server         *)
(* (walkNotaries, notaryFallback.go:112-118).                              *)
THEOREM WalkGivesBest == Spec => BestOfWalk
<1>1. HeldInv /\ [Next]_vars =>
        [\A p \in Proc : LET f == frame[p] IN
           Replies(p) /\ f.offered > 0 /\ Intact(f) =>
             /\ HasKeys(reply'[p].record)
             /\ reply'[p].record.valid >= f.offered]_vars
  BY BestKept DEF GetsBest, HeldInv
<1> QED
  BY <1>1, HeldInduction, PTL DEF Spec, BestOfWalk

-----------------------------------------------------------------------------
(* Where calls do not overlap.  What overlap does to the store is in       *)
(* README.md, section 5.                                                   *)

(* Nobody else is on the server of a request.                              *)
Apart ==
  \A g, h \in Goroutine : g # h =>
    \A f \in CallsOf(g), c \in CallsOf(h) :
      f.reason = "request" => f.server # c.server

(* No failure note is lost, no store is cut short but by a restart and     *)
(* none skips its rule, and no record is invalidated while a call is on    *)
(* its server.                                                             *)
Quiet ==
  /\ \A g \in Goroutine :
       /\ ~OriginFailsUnnoted(g) /\ ~OriginStoreFails(g)
       /\ ~NotaryStoreFails(g) /\ (NotaryAnswers(g) => UNCHANGED faults)
  /\ \A p \in Proc : Invalidate(p) =>
       \A g \in Goroutine : \A f \in CallsOf(g) : f.server # reply[p].server

SameCopy(a, b) == a.valid = b.valid /\ a.via = b.via /\ a.keys = b.keys

(* What a request has in hand is what the store holds, r, and it walks     *)
(* only while the origin has a standoff.                                   *)
Agrees(f, r) ==
  /\ f.best = NoRow /\ f.held # NoRow => r # NoRow /\ SameCopy(f.held, r)
  /\ f.best # NoRow => /\ r # NoRow /\ SameCopy(f.best, r)
                       /\ f.held # NoRow => f.best.valid >= f.held.valid
  /\ f.pc \in {"fallback", "walk", "ask"} => r # NoRow /\ r.next > 0

CallsAgree ==
  \A g \in Goroutine : \A f \in CallsOf(g) :
    f.reason = "request" => Agrees(f, row[f.server])

(* Only requests walk, no notary is asked about itself, and the outer call *)
(* of a request goroutine is a request.                                    *)
PlacesInv ==
  \A g \in Goroutine :
    /\ frame[g] # Idle /\ frame[g].pc \in {"walk", "ask"} =>
         frame[g].reason = "request"
    /\ caller[g] # Idle => /\ caller[g].reason = "request"
                           /\ caller[g].pc = "walk"
                           /\ frame[g].server # caller[g].server
    /\ g \in Proc /\ frame[g] # Idle /\ caller[g] = Idle =>
         frame[g].reason = "request"

LEMMA NextPlacesInv ==
  TInv /\ CallerInv /\ PlacesInv /\ [Next]_vars => PlacesInv'
<1> SUFFICES ASSUME TInv, CallerInv, PlacesInv, [Next]_vars PROVE PlacesInv'
  OBVIOUS
<1> USE DEF calls
<1>t. TypeOK /\ WalkingInv /\ Proc \subseteq Goroutine /\ Sweeper \in Goroutine
  BY DEF TInv, Goroutine
<1>f. \A g \in Goroutine : frame[g] # Idle => frame[g] \in Frame
  BY <1>t DEF TypeOK
<1>1. ASSUME NEW g \in Goroutine, NEW outcome, NEW r, Return(g, outcome, r)
      PROVE  PlacesInv'
  <2>1. caller[g] # Idle => Anchored(caller[g], r).reason = "request"
    BY <1>t DEF Anchored, Onward, PlacesInv, TypeOK, Frame
  <2> QED
    BY <1>t, <1>1, <2>1 DEF Return, PlacesInv, TypeOK
<1>2. ASSUME NEW g \in Goroutine, NEW f, Continue(g, f),
             IF frame[g] = Idle THEN g \notin Proc
             ELSE f.server = frame[g].server /\ f.reason = frame[g].reason,
             f.pc \in {"walk", "ask"} => f.reason = "request"
      PROVE  PlacesInv'
  BY <1>t, <1>2 DEF Continue, PlacesInv, CallerInv, TypeOK
<1>3. ASSUME UNCHANGED <<frame, caller>> PROVE PlacesInv'
  BY <1>3 DEF PlacesInv
<1>4. ASSUME NEW p \in Proc, Request(p) PROVE PlacesInv'
  <2>1. PICK s, min : frame' = [frame EXCEPT ![p] = Call(s, "request", min)]
    BY <1>4 DEF Request
  <2>2. /\ Call(s, "request", min).pc = "load" /\ caller[p] = Idle
        /\ Call(s, "request", min).reason = "request"
    BY <1>t, <1>4 DEF Call, Request, CallerInv
  <2> QED
    BY <1>t, <1>4, <2>1, <2>2 DEF Request, PlacesInv, TypeOK
<1>5. ASSUME NEW p \in Proc, Load(p) PROVE PlacesInv'
  <2> DEFINE due == ShouldProbe(row[frame[p].server], clock)
             f == [frame[p] EXCEPT !.now = clock, !.held = row[frame[p].server],
                     !.probed = due, !.pc = IF due THEN "probe" ELSE "fallback"]
  <2>1. (\E r : Return(p, "fresh", r)) \/ Continue(p, f)
    BY <1>5 DEF Load
  <2>2. frame[p] \in Frame /\ frame[p] # Idle
    BY <1>t, <1>f, <1>5 DEF Load, At
  <2> HIDE DEF due
  <2>3. /\ f.pc \in {"probe", "fallback"} /\ f.server = frame[p].server
        /\ f.reason = frame[p].reason
    BY <2>2 DEF Frame
  <2> HIDE DEF f
  <2> QED
    BY <1>1, <1>2, <1>t, <2>1, <2>2, <2>3
<1>6. ASSUME NEW g \in Goroutine, At(g, "probe"), GiveUp(g) PROVE PlacesInv'
  <2>1. /\ [frame[g] EXCEPT !.pc = "fallback"].pc = "fallback"
        /\ [frame[g] EXCEPT !.pc = "fallback"].server = frame[g].server
        /\ [frame[g] EXCEPT !.pc = "fallback"].reason = frame[g].reason
        /\ frame[g] # Idle
    BY <1>f, <1>6 DEF At, Frame
  <2> QED
    BY <1>1, <1>2, <1>6, <2>1 DEF GiveUp
<1>7. ASSUME NEW g \in Goroutine,
             \/ OriginAnswers(g) \/ OriginFails(g) \/ OriginFailsUnnoted(g)
             \/ OriginStoreFails(g) \/ NoWalk(g) \/ WalkEnds(g)
      PROVE  PlacesInv'
  BY <1>1, <1>6, <1>7 DEF OriginAnswers, OriginFails, OriginFailsUnnoted,
                          OriginStoreFails, NoWalk, WalkEnds, Conclude
<1>8. ASSUME NEW g \in Goroutine, TakeWalk(g) PROVE PlacesInv'
  <2> DEFINE f == [frame[g] EXCEPT !.pc = "walk", !.left = Notaries]
  <2>1. /\ Continue(g, f) /\ frame[g] \in Frame /\ frame[g] # Idle
        /\ frame[g].reason = "request"
    BY <1>f, <1>8 DEF TakeWalk, At, WantsWalk
  <2>2. f.reason = "request" /\ f.server = frame[g].server
    BY <2>1 DEF Frame
  <2> HIDE DEF f
  <2> QED
    BY <1>2, <2>1, <2>2
<1>9. ASSUME NEW g \in Goroutine,
             SkipItself(g) \/ NotaryFails(g) \/ NotaryStoreFails(g)
      PROVE  PlacesInv'
  <2>1. /\ Continue(g, Onward(frame[g])) /\ frame[g] \in Frame
        /\ frame[g] # Idle /\ frame[g].reason = "request"
    BY <1>f, <1>9 DEF SkipItself, NotaryFails, NotaryStoreFails, At, PlacesInv
  <2>2. /\ Onward(frame[g]).reason = "request"
        /\ Onward(frame[g]).server = frame[g].server
    BY <2>1 DEF Onward, Frame
  <2> QED
    BY <1>2, <2>1, <2>2
<1>10. ASSUME NEW g \in Goroutine, NextNotary(g) PROVE PlacesInv'
  <2> DEFINE f == Call(Head(frame[g].left), "notary", clock)
  <2>1. /\ frame' = [frame EXCEPT ![g] = f]
        /\ caller' = [caller EXCEPT ![g] = frame[g]]
        /\ frame[g] # Idle /\ frame[g].pc = "walk"
        /\ Head(frame[g].left) # frame[g].server
    BY <1>10 DEF NextNotary, At
  <2>2. f.pc = "load" /\ f.server = Head(frame[g].left)
    BY DEF Call
  <2> HIDE DEF f
  <2> QED
    BY <1>t, <2>1, <2>2 DEF PlacesInv, TypeOK
<1>11. ASSUME NEW g \in Goroutine, NotaryAnswers(g) PROVE PlacesInv'
  <2> DEFINE r == row'[frame[g].server]
  <2>1. PICK valid : Continue(g, [Heard(frame[g], r) EXCEPT
                                    !.offered = IF valid > @ THEN valid ELSE @])
    BY <1>11 DEF NotaryAnswers
  <2> DEFINE f == [Heard(frame[g], r) EXCEPT
                      !.offered = IF valid > @ THEN valid ELSE @]
  <2>2. frame[g] \in Frame /\ frame[g] # Idle /\ frame[g].reason = "request"
    BY <1>f, <1>11 DEF NotaryAnswers, At, PlacesInv
  <2> HIDE DEF r
  <2>3. f.reason = "request" /\ f.server = frame[g].server
    BY <2>2 DEF Heard, Onward, Frame
  <2>4. Continue(g, f)
    BY <2>1
  <2> HIDE DEF f
  <2> QED
    BY <1>2, <2>2, <2>3, <2>4
<1>12. CASE Visit
  <2> DEFINE s == Head(queue)
             f == [Call(s, "sweep", 0) EXCEPT !.pc = "probe", !.now = clock,
                     !.held = row[s], !.probed = TRUE]
  <2>1. f.pc = "probe" /\ frame[Sweeper] = Idle /\ Sweeper \notin Proc
    BY <1>12 DEF Call, Visit
  <2>2. Continue(Sweeper, f) \/ UNCHANGED calls
    BY <1>12 DEF Visit
  <2> HIDE DEF f
  <2> QED
    BY <1>2, <1>3, <1>t, <2>1, <2>2
<1>13. ASSUME NEW p \in Proc, LoadFails(p) PROVE PlacesInv'
  BY <1>1, <1>13, <1>t DEF LoadFails
<1>14. ASSUME NEW p \in Proc, Invalidate(p) PROVE PlacesInv'
  BY <1>3, <1>14 DEF Invalidate
<1>15. CASE Restart
  BY <1>15 DEF Restart, PlacesInv
<1>16. CASE ListDue \/ VisitFails \/ Tick \/ UNCHANGED vars
  BY <1>3, <1>16 DEF ListDue, VisitFails, Tick, vars
<1> QED
  BY <1>4, <1>5, <1>7, <1>8, <1>9, <1>10, <1>11, <1>12, <1>13, <1>14, <1>15,
     <1>16 DEF Next, Step

(* A step of one call leaves the requests of other goroutines in agreement *)
(* if it writes no row but its own server's.                               *)
OwnRowOnly(g) ==
  row' = row \/ /\ frame[g] # Idle
                /\ \A s \in Server : s # frame[g].server => row'[s] = row[s]

LEMMA OthersAgree ==
  ASSUME TInv, Apart, CallsAgree, NEW g \in Goroutine, OwnRowOnly(g),
         \A h \in Goroutine : h # g => /\ frame'[h] = frame[h]
                                       /\ caller'[h] = caller[h],
         \A f \in CallsOf(g)' : f.reason = "request" => Agrees(f, row'[f.server])
  PROVE  CallsAgree'
<1> SUFFICES ASSUME NEW h \in Goroutine, NEW f \in CallsOf(h)',
                    f.reason = "request"
             PROVE  Agrees(f, row'[f.server])
  BY DEF CallsAgree
<1>1. CASE h = g
  BY <1>1
<1>2. CASE h # g
  <2>1. f \in CallsOf(h)
    BY <1>2 DEF CallsOf
  <2>2. f.server \in Server
    BY <2>1 DEF CallsOf, TInv, TypeOK, Frame
  <2>3. frame[g] # Idle => f.server # frame[g].server
    BY <1>2, <2>1 DEF Apart, CallsOf
  <2>4. row'[f.server] = row[f.server]
    BY <2>2, <2>3 DEF OwnRowOnly
  <2> QED
    BY <2>1, <2>4 DEF CallsAgree
<1> QED
  BY <1>1, <1>2

LEMMA ReturnAgrees ==
  ASSUME TInv, PlacesInv, Apart, CallsAgree, NEW g \in Goroutine, OwnRowOnly(g),
         NEW outcome, NEW r, Return(g, outcome, r)
  PROVE  CallsAgree'
<1>1. \A h \in Goroutine : h # g => /\ frame'[h] = frame[h]
                                    /\ caller'[h] = caller[h]
  BY DEF Return, TInv, TypeOK
<1>2. ASSUME NEW f \in CallsOf(g)' PROVE Agrees(f, row'[f.server])
  <2> DEFINE c == caller[g]
  <2>1. c # Idle /\ f = Anchored(c, r)
    BY <1>2 DEF CallsOf, Return, TInv, TypeOK
  <2>2. c \in Frame /\ c.pc = "walk" /\ c.reason = "request"
        /\ c.server # frame[g].server /\ c.server \in Server
    BY <2>1 DEF PlacesInv, TInv, TypeOK, Frame
  <2>3. /\ f.held = c.held /\ f.best = c.best /\ f.server = c.server
        /\ f.pc \in {"walk", "ask"}
    BY <2>1, <2>2 DEF Anchored, Onward, Frame
  <2>4. Agrees(c, row[c.server])
    BY <2>1, <2>2 DEF CallsAgree, CallsOf
  <2>5. row'[c.server] = row[c.server]
    BY <2>2 DEF OwnRowOnly
  <2> HIDE DEF c
  <2> QED
    BY <2>2, <2>3, <2>4, <2>5 DEF Agrees
<1> QED
  BY <1>1, <1>2, OthersAgree

LEMMA ContinueAgrees ==
  ASSUME TInv, CallerInv, PlacesInv, Apart, CallsAgree, NEW g \in Goroutine,
         OwnRowOnly(g), NEW f, Continue(g, f),
         f.reason = "request" => Agrees(f, row'[f.server])
  PROVE  CallsAgree'
<1>1. \A h \in Goroutine : h # g => /\ frame'[h] = frame[h]
                                    /\ caller'[h] = caller[h]
  BY DEF Continue, TInv, TypeOK
<1>2. ASSUME NEW c \in CallsOf(g)', c.reason = "request"
      PROVE  Agrees(c, row'[c.server])
  <2>1. CASE c = f
    BY <1>2, <2>1
  <2>2. CASE c = caller[g] /\ caller[g] # Idle
    <3>1. c.server # frame[g].server /\ c.server \in Server
      BY <2>2 DEF PlacesInv, TInv, TypeOK, Frame
    <3>2. Agrees(c, row[c.server])
      BY <1>2, <2>2 DEF CallsAgree, CallsOf
    <3>3. row'[c.server] = row[c.server]
      BY <3>1 DEF OwnRowOnly
    <3> QED
      BY <3>2, <3>3
  <2>3. c = f \/ (c = caller[g] /\ caller[g] # Idle)
    <3>1. frame'[g] = f /\ caller'[g] = caller[g]
      BY DEF Continue, TInv, TypeOK
    <3> QED
      BY <1>2, <3>1 DEF CallsOf
  <2> QED
    BY <2>1, <2>2, <2>3
<1> QED
  BY <1>1, <1>2, OthersAgree

(* A failure note leaves the copy alone and sets a standoff.               *)
LEMMA NotedAgrees ==
  ASSUME NEW f \in Frame, NEW r \in Row \cup {NoRow}, f.pc = "probe",
         f.best = NoRow, Agrees(f, r),
         NEW now \in Nat, NEW n \in Nat, NEW next \in Nat \ {0}
  PROVE  Agrees([f EXCEPT !.pc = "fallback"], Noted(r, now, n, next))
<1>1. [f EXCEPT !.pc = "fallback"].held = f.held
      /\ [f EXCEPT !.pc = "fallback"].best = NoRow
  BY DEF Frame
<1>2. Noted(r, now, n, next) # NoRow /\ Noted(r, now, n, next).next = next
  <2>1. Noted(r, now, n, next) \in Row
    BY NotedType
  <2> QED
    BY <2>1 DEF Noted, Row
<1>3. r # NoRow => SameCopy(r, Noted(r, now, n, next))
  BY DEF SameCopy, Noted, Row
<1> HIDE PolicyAssumption, ScheduleAssumption, ResolverAssumption
<1> QED
  BY <1>1, <1>2, <1>3 DEF Agrees, SameCopy

(* A copy that is heard is the one the store then holds, or shorter-valid  *)
(* than what the store holds already.                                      *)
LEMMA HeardAgrees ==
  ASSUME NEW f \in Frame, NEW r \in Row \cup {NoRow}, f.pc = "ask",
         Agrees(f, r), NEW notary \in Server, NEW valid \in Offers, clock \in Nat,
         NEW h, h = [Heard(f, Upgraded(r, notary, valid)) EXCEPT
                       !.offered = IF valid > @ THEN valid ELSE @]
  PROVE  Agrees(h, Upgraded(r, notary, valid))
<1> DEFINE u == Upgraded(r, notary, valid)
<1>1. r \in Row /\ r.next > 0 /\ r.valid \in Nat /\ valid \in Nat
  BY DEF Agrees, Row
<1>2. u \in Row /\ u # NoRow
  BY UpgradedType
<1> HIDE PolicyAssumption, ScheduleAssumption, ResolverAssumption
<1>3. /\ u.next = r.next /\ u.valid >= r.valid
      /\ u.valid > r.valid \/ u = r
  <2>0. r # NoRow
    BY <1>1, NamesAssumption
  <2>1. CASE valid <= r.valid
    <3>1. u = r
      BY <2>0, <2>1 DEF Upgraded
    <3> HIDE DEF u
    <3> QED
      BY <1>1, <3>1
  <2>2. CASE ~(valid <= r.valid)
    <3>1. u = Replaced(r, notary, valid)
      BY <2>0, <2>2 DEF Upgraded
    <3>3. notary \in Server \cup {Direct}
      OBVIOUS
    <3> HIDE DEF u
    <3>2. u.next = r.next /\ u.valid = valid
      <4> HIDE NamesAssumption
      <4> QED
        BY <1>1, <2>0, <3>1, <3>3, ReplacedType
    <3> QED
      BY <1>1, <2>2, <3>2
  <2> QED
    BY <2>1, <2>2
<1>4. /\ f.held # NoRow => f.held.valid \in Nat /\ u.valid >= f.held.valid
      /\ f.best # NoRow => f.best.valid = r.valid
  <2> HIDE DEF u
  <2>1. f.best # NoRow => f.best.valid = r.valid
    BY DEF Agrees, SameCopy
  <2>2. f.held # NoRow => f.held.valid \in Nat
    BY DEF Frame, Row
  <2>3. f.held # NoRow => r.valid >= f.held.valid
    BY <1>1, <2>2 DEF Agrees, SameCopy
  <2>4. u.valid \in Nat
    BY <1>2 DEF Row
  <2> QED
    BY <1>1, <1>3, <2>1, <2>2, <2>3, <2>4
<1> HIDE DEF u
<1>5. /\ h.held = f.held
      /\ \/ h.best = u
         \/ h.best = f.best /\ f.best # NoRow /\ ~(u.valid > f.best.valid)
  <2>1. h = [Heard(f, u) EXCEPT !.offered = IF valid > @ THEN valid ELSE @]
    BY DEF u
  <2>2. CASE HeldSatisfies(u, f.min)
    BY <2>1, <2>2 DEF Heard, Frame
  <2>3. CASE ~HeldSatisfies(u, f.min)
    <3>1. h.held = f.held /\ h.best = Better(f.best, u)
      BY <2>1, <2>3 DEF Heard, Onward, Frame
    <3> QED
      BY <3>1 DEF Better
  <2> QED
    BY <2>2, <2>3
<1>6. CASE h.best = u
  BY <1>1, <1>2, <1>3, <1>4, <1>5, <1>6 DEF Agrees, SameCopy, u
<1>7. CASE h.best = f.best /\ f.best # NoRow /\ ~(u.valid > f.best.valid)
  <2>1. u = r
    BY <1>3, <1>4, <1>7
  <2> QED
    BY <1>1, <1>2, <1>5, <1>7, <2>1 DEF Agrees, u
<1> QED
  BY <1>5, <1>6, <1>7

ApartInv == HeldInv /\ SInv /\ PlacesInv

LEMMA ApartInduction == Spec => []ApartInv
<1>1. Init => PlacesInv
  BY DEF Init, PlacesInv
<1>2. HeldInv /\ PlacesInv /\ [Next]_vars => PlacesInv'
  BY NextPlacesInv DEF HeldInv
<1> QED
  BY <1>1, <1>2, HeldInduction, InitSInv, NextSInv, PTL DEF Spec, ApartInv

(* Every step of calls that keep apart keeps what requests have in hand in *)
(* agreement with the store.                                               *)
LEMMA NextCallsAgree ==
  ApartInv /\ Apart /\ CallsAgree /\ [Next]_vars /\ [Quiet]_vars => CallsAgree'
<1> SUFFICES ASSUME ApartInv, Apart, CallsAgree, [Next]_vars, [Quiet]_vars
             PROVE  CallsAgree'
  OBVIOUS
<1> USE DEF calls, history
<1>t. /\ TInv /\ TypeOK /\ WalkingInv /\ CallerInv /\ FramesInv /\ PlacesInv
      /\ ClockInv
  BY DEF ApartInv, HeldInv, SInv, TInv
<1>g. Proc \subseteq Goroutine /\ Sweeper \in Goroutine
  BY DEF Goroutine
<1>f. ASSUME NEW g \in Goroutine, frame[g] # Idle
      PROVE  /\ frame[g] \in Frame /\ frame[g].server \in Server
             /\ row[frame[g].server] \in Row \cup {NoRow}
             /\ frame[g].reason = "request" =>
                  Agrees(frame[g], row[frame[g].server])
  BY <1>t, <1>f DEF TypeOK, Frame, CallsAgree, CallsOf
<1>r. ASSUME NEW g \in Goroutine, NEW outcome, NEW r, Return(g, outcome, r),
             OwnRowOnly(g)
      PROVE  CallsAgree'
  BY <1>t, <1>r, ReturnAgrees
<1>c. ASSUME NEW g \in Goroutine, NEW f, Continue(g, f), OwnRowOnly(g),
             f.reason = "request" => Agrees(f, row'[f.server])
      PROVE  CallsAgree'
  BY <1>t, <1>c, ContinueAgrees
<1>u. ASSUME UNCHANGED <<frame, caller, row>> PROVE CallsAgree'
  BY <1>u DEF CallsAgree, CallsOf
<1>1. ASSUME NEW p \in Proc, Request(p) PROVE CallsAgree'
  <2>1. PICK s, min : frame' = [frame EXCEPT ![p] = Call(s, "request", min)]
    BY <1>1 DEF Request
  <2> DEFINE f == Call(s, "request", min)
  <2>2. f.pc = "load" /\ f.held = NoRow /\ f.best = NoRow
    BY DEF Call
  <2>3. caller' = caller /\ caller[p] = Idle /\ row' = row
    BY <1>1, <1>g, <1>t DEF Request, CallerInv
  <2> HIDE DEF f
  <2>4. CallsOf(p)' \subseteq {f}
    BY <1>g, <1>t, <2>1, <2>3 DEF CallsOf, TypeOK, f
  <2>5. \A c \in CallsOf(p)' : c.reason = "request" => Agrees(c, row'[c.server])
    BY <2>2, <2>4 DEF Agrees
  <2>6. \A h \in Goroutine : h # p => frame'[h] = frame[h] /\ caller'[h] = caller[h]
    BY <1>g, <1>t, <2>1, <2>3 DEF TypeOK
  <2> QED
    BY <1>g, <1>t, <2>3, <2>5, <2>6, OthersAgree DEF OwnRowOnly
<1>2. ASSUME NEW p \in Proc, Load(p) PROVE CallsAgree'
  <2> DEFINE r == row[frame[p].server]
             due == ShouldProbe(r, clock)
             f == [frame[p] EXCEPT !.now = clock, !.held = r,
                     !.probed = due, !.pc = IF due THEN "probe" ELSE "fallback"]
  <2>1. (\E o : Return(p, o, r)) \/ Continue(p, f)
    BY <1>2 DEF Load
  <2>2. /\ frame[p] \in Frame /\ frame[p].pc = "load" /\ frame[p].best = NoRow
        /\ r \in Row \cup {NoRow} /\ row' = row
    BY <1>2, <1>f, <1>g, <1>t DEF Load, At, FramesInv, BestOK
  <2>3. ~due => r # NoRow /\ r.next > 0
    <3>1. clock \in Nat
      BY <1>t DEF TypeOK
    <3> HIDE DEF r
    <3>2. r # NoRow => r.next \in Nat
      BY <2>2 DEF Row
    <3> QED
      BY <3>1, <3>2 DEF ShouldProbe
  <2> HIDE DEF due, r
  <2>4. /\ f.held = r /\ f.best = NoRow /\ f.server = frame[p].server
        /\ f.pc = IF due THEN "probe" ELSE "fallback"
    BY <2>2 DEF Frame
  <2> HIDE DEF f
  <2>5. Agrees(f, row'[f.server])
    BY <2>2, <2>3, <2>4 DEF Agrees, SameCopy, r
  <2> QED
    BY <1>c, <1>g, <1>r, <2>1, <2>2, <2>5 DEF OwnRowOnly
<1>3. ASSUME NEW g \in Goroutine, OriginAnswers(g) PROVE CallsAgree'
  <2>1. OwnRowOnly(g)
    <3>1. frame[g] # Idle /\ \E r : row' = [row EXCEPT ![frame[g].server] = r]
      BY <1>3, <1>t, OriginAnswersRow DEF OriginAnswers, At
    <3> QED
      BY <1>t, <3>1 DEF OwnRowOnly, TypeOK
  <2> QED
    BY <1>3, <1>r, <2>1 DEF OriginAnswers
<1>4. ASSUME NEW g \in Goroutine, OriginFails(g) PROVE CallsAgree'
  <2> DEFINE s == frame[g].server
             n == Failures(frame[g].held)
  <2>1. PICK transient \in BOOLEAN :
          row' = [row EXCEPT ![s] = Noted(@, frame[g].now, n,
                    frame[g].now + OriginBackoff(n, transient))]
    BY <1>4 DEF OriginFails
  <2> DEFINE next == frame[g].now + OriginBackoff(n, transient)
             f == [frame[g] EXCEPT !.pc = "fallback"]
  <2>2. /\ frame[g] # Idle /\ frame[g] \in Frame /\ frame[g].pc = "probe"
        /\ s \in Server /\ row[s] \in Row \cup {NoRow} /\ frame[g].best = NoRow
    BY <1>4, <1>f, <1>t DEF OriginFails, At, FramesInv, BestOK
  <2>3. frame[g].now \in Nat /\ n \in Nat
    BY <2>2, FailuresType DEF Frame
  <2>4. next \in Nat \ {0}
    <3>1. OriginBackoff(n, transient) \in Nat \ {0}
      BY <2>1, <2>3, BackoffBounds
    <3>2. \A a \in Nat, b \in Nat \ {0} : a + b \in Nat \ {0}
      OBVIOUS
    <3> HIDE DEF n
    <3> QED
      BY <2>3, <3>1, <3>2
  <2>5. row'[s] = Noted(row[s], frame[g].now, n, next)
    BY <1>t, <2>1, <2>2 DEF TypeOK
  <2>6. OwnRowOnly(g)
    BY <1>t, <2>1, <2>2 DEF OwnRowOnly, TypeOK
  <2> HIDE DEF next, n
  <2>7. f.server = s /\ f.reason = frame[g].reason
    BY <2>2 DEF Frame
  <2>8. frame[g].reason = "request" => Agrees(f, row'[s])
    <3> HAVE frame[g].reason = "request"
    <3>1. Agrees(frame[g], row[s])
      BY <1>f, <2>2
    <3>2. Agrees(f, Noted(row[s], frame[g].now, n, next))
      BY <2>2, <2>3, <2>4, <3>1, NotedAgrees
    <3> QED
      BY <2>5, <3>2
  <2>9. (\E o, r : Return(g, o, r)) \/ Continue(g, f)
    BY <1>4 DEF OriginFails, GiveUp
  <2> HIDE DEF f
  <2> QED
    BY <1>c, <1>r, <2>6, <2>7, <2>8, <2>9
<1>5. ASSUME NEW g \in Goroutine,
             OriginFailsUnnoted(g) \/ OriginStoreFails(g) \/ NotaryStoreFails(g)
      PROVE  CallsAgree'
  BY <1>5, <1>u DEF Quiet, vars
<1>6. ASSUME NEW g \in Goroutine, NoWalk(g) \/ WalkEnds(g) PROVE CallsAgree'
  <2>1. row' = row /\ \E o, r : Return(g, o, r)
    BY <1>6 DEF NoWalk, WalkEnds, Conclude
  <2> QED
    BY <1>r, <2>1 DEF OwnRowOnly
<1>7. ASSUME NEW g \in Goroutine, TakeWalk(g) \/ SkipItself(g) \/ NotaryFails(g)
      PROVE  CallsAgree'
  <2>1. /\ frame[g] # Idle /\ frame[g].pc \in {"fallback", "walk", "ask"}
        /\ row' = row
    BY <1>7 DEF TakeWalk, SkipItself, NotaryFails, At
  <2>2. \/ Continue(g, [frame[g] EXCEPT !.pc = "walk", !.left = Notaries])
        \/ Continue(g, Onward(frame[g]))
    BY <1>7 DEF TakeWalk, SkipItself, NotaryFails
  <2>3. PICK f : /\ Continue(g, f) /\ f.reason = frame[g].reason
                 /\ f.server = frame[g].server /\ f.held = frame[g].held
                 /\ f.best = frame[g].best /\ f.pc = "walk"
    <3>1. frame[g] \in Frame
      BY <1>f, <2>1
    <3>2. CASE Continue(g, [frame[g] EXCEPT !.pc = "walk", !.left = Notaries])
      <4> DEFINE h == [frame[g] EXCEPT !.pc = "walk", !.left = Notaries]
      <4>1. /\ h.reason = frame[g].reason /\ h.server = frame[g].server
            /\ h.held = frame[g].held /\ h.best = frame[g].best /\ h.pc = "walk"
        BY <3>1 DEF Frame
      <4> HIDE DEF h
      <4> QED
        BY <3>2, <4>1 DEF h
    <3>3. CASE Continue(g, Onward(frame[g]))
      <4> DEFINE h == Onward(frame[g])
      <4>1. /\ h.reason = frame[g].reason /\ h.server = frame[g].server
            /\ h.held = frame[g].held /\ h.best = frame[g].best /\ h.pc = "walk"
        BY <3>1 DEF Onward, Frame
      <4> HIDE DEF h
      <4> QED
        BY <3>3, <4>1 DEF h
    <3> QED
      BY <2>2, <3>2, <3>3
  <2>4. f.reason = "request" => Agrees(f, row'[f.server])
    BY <1>f, <2>1, <2>3 DEF Agrees
  <2> QED
    BY <1>c, <2>1, <2>3, <2>4 DEF OwnRowOnly
<1>8. ASSUME NEW g \in Goroutine, NextNotary(g) PROVE CallsAgree'
  <2> DEFINE f == Call(Head(frame[g].left), "notary", clock)
  <2>1. /\ frame' = [frame EXCEPT ![g] = f]
        /\ caller' = [caller EXCEPT ![g] = frame[g]] /\ row' = row
        /\ frame[g] # Idle
    BY <1>8 DEF NextNotary, At
  <2>2. f.reason = "notary"
    BY DEF Call
  <2> HIDE DEF f
  <2>3. CallsOf(g)' \subseteq {f, frame[g]}
    BY <1>t, <2>1 DEF CallsOf, TypeOK
  <2>4. \A c \in CallsOf(g)' : c.reason = "request" => Agrees(c, row'[c.server])
    BY <1>f, <2>1, <2>2, <2>3
  <2>5. \A h \in Goroutine : h # g => frame'[h] = frame[h] /\ caller'[h] = caller[h]
    BY <1>t, <2>1 DEF TypeOK
  <2> QED
    BY <1>t, <2>1, <2>4, <2>5, OthersAgree DEF OwnRowOnly
<1>9. ASSUME NEW g \in Goroutine, NotaryAnswers(g) PROVE CallsAgree'
  <2> DEFINE s == frame[g].server
             n == Head(frame[g].left)
  <2>1. PICK valid \in Offers :
          /\ row' = [row EXCEPT ![s] = Upgraded(row[s], n, valid)]
          /\ Continue(g, [Heard(frame[g], row'[s]) EXCEPT
                            !.offered = IF valid > @ THEN valid ELSE @])
    <3>1. UNCHANGED faults /\ faults \in Nat
      BY <1>9, <1>t DEF Quiet, vars, TypeOK
    <3>2. faults' # faults + 1
      BY <3>1
    <3> QED
      BY <1>9, <3>2 DEF NotaryAnswers, NotaryStores
  <2>2. /\ frame[g] # Idle /\ frame[g] \in Frame /\ frame[g].pc = "ask"
        /\ s \in Server /\ row[s] \in Row \cup {NoRow} /\ clock \in Nat
        /\ frame[g].reason = "request" /\ Agrees(frame[g], row[s])
    BY <1>9, <1>f, <1>t DEF NotaryAnswers, At, PlacesInv, TypeOK
  <2>3. n \in Server
    <3>1. frame[g].left # <<>>
      BY <1>t, <1>9 DEF NotaryAnswers, WalkingInv
    <3>2. PICK q \in Seq(Server) : q = frame[g].left
      BY <2>2 DEF Frame
    <3> QED
      BY <3>1, <3>2
  <2>4. row'[s] = Upgraded(row[s], n, valid)
    BY <1>t, <2>1, <2>2 DEF TypeOK
  <2> DEFINE u == Upgraded(row[s], n, valid)
             h == [Heard(frame[g], u) EXCEPT
                      !.offered = IF valid > @ THEN valid ELSE @]
  <2>5. Agrees(h, u)
    BY <2>2, <2>3, HeardAgrees
  <2>6. OwnRowOnly(g)
    BY <1>t, <2>1, <2>2 DEF OwnRowOnly, TypeOK
  <2>7. Continue(g, h)
    BY <2>1, <2>4
  <2> HIDE DEF u
  <2>8. h.server = s
    BY <2>2 DEF Heard, Onward, Frame
  <2> HIDE DEF h
  <2> QED
    BY <1>c, <2>4, <2>5, <2>6, <2>7, <2>8 DEF u
<1>10. CASE Visit
  <2> DEFINE s == Head(queue)
             f == [Call(s, "sweep", 0) EXCEPT !.pc = "probe", !.now = clock,
                     !.held = row[s], !.probed = TRUE]
  <2>1. f.reason = "sweep" /\ row' = row
    BY <1>10 DEF Call, Visit
  <2>2. Continue(Sweeper, f) \/ UNCHANGED calls
    BY <1>10 DEF Visit
  <2> HIDE DEF f
  <2> QED
    BY <1>c, <1>g, <1>u, <2>1, <2>2 DEF OwnRowOnly
<1>11. ASSUME NEW p \in Proc, LoadFails(p) PROVE CallsAgree'
  BY <1>11, <1>g, <1>r DEF LoadFails, OwnRowOnly
<1>12. ASSUME NEW p \in Proc, Invalidate(p) PROVE CallsAgree'
  <2>1. CASE UNCHANGED vars
    BY <1>u, <2>1 DEF vars
  <2>2. CASE Quiet
    <3>1. ASSUME NEW g \in Goroutine, NEW f \in CallsOf(g)
          PROVE  f.server \in Server /\ row'[f.server] = row[f.server]
      <4>1. f.server \in Server
        BY <1>t DEF CallsOf, TypeOK, Frame
      <4>2. f.server # reply[p].server
        BY <1>12, <2>2 DEF Quiet
      <4>3. row' = [row EXCEPT ![reply[p].server].valid = 0,
                               ![reply[p].server].updated = 0]
        BY <1>12 DEF Invalidate
      <4> QED
        BY <1>t, <4>1, <4>2, <4>3 DEF TypeOK
    <3>2. frame' = frame /\ caller' = caller
      BY <1>12 DEF Invalidate
    <3> QED
      BY <3>1, <3>2 DEF CallsAgree, CallsOf
  <2> QED
    BY <2>1, <2>2
<1>13. CASE Restart
  BY <1>13 DEF Restart, CallsAgree, CallsOf
<1>14. CASE ListDue \/ VisitFails \/ Tick \/ UNCHANGED vars
  BY <1>14, <1>u DEF ListDue, VisitFails, Tick, vars
<1> QED
  BY <1>1, <1>2, <1>3, <1>4, <1>5, <1>6, <1>7, <1>8, <1>9, <1>10, <1>11,
     <1>12, <1>13, <1>14 DEF Next, Step

(* Only an answer of the origin clears a standoff, and it makes the copy   *)
(* the origin's own.                                                       *)
LEMMA NextRowsSwept ==
  ApartInv /\ CallsAgree /\ NotaryRowsAreSwept /\ [Next]_vars /\ [Quiet]_vars
    => NotaryRowsAreSwept'
<1> SUFFICES ASSUME ApartInv, CallsAgree, NotaryRowsAreSwept, [Next]_vars,
                    [Quiet]_vars
             PROVE  NotaryRowsAreSwept'
  OBVIOUS
<1> USE DEF calls, history
<1>t. TInv /\ TypeOK /\ WalkingInv /\ PlacesInv
  BY DEF ApartInv, HeldInv, TInv
<1>u. ASSUME row' = row PROVE NotaryRowsAreSwept'
  BY <1>u DEF NotaryRowsAreSwept
<1>s. ASSUME NEW s \in Server, NEW r, row' = [row EXCEPT ![s] = r],
             r.via # Direct => r.next > 0
      PROVE  NotaryRowsAreSwept'
  BY <1>s, <1>t DEF NotaryRowsAreSwept, TypeOK
<1>1. ASSUME NEW g \in Goroutine, OriginAnswers(g) PROVE NotaryRowsAreSwept'
  <2> DEFINE s == frame[g].server
  <2>1. s \in Server
    BY <1>t, <1>1 DEF OriginAnswers, At, TypeOK, Frame
  <2>2. PICK r : row' = [row EXCEPT ![s] = r]
    BY <1>t, <1>1, OriginAnswersRow
  <2>3. r.via = Direct
    BY <1>t, <1>1, <2>1, <2>2, OriginAnswersRow DEF TypeOK
  <2> QED
    BY <1>s, <2>1, <2>2, <2>3
<1>2. ASSUME NEW g \in Goroutine, OriginFails(g) PROVE NotaryRowsAreSwept'
  <2> DEFINE s == frame[g].server
             n == Failures(frame[g].held)
  <2>1. PICK transient \in BOOLEAN :
          row' = [row EXCEPT ![s] = Noted(@, frame[g].now, n,
                    frame[g].now + OriginBackoff(n, transient))]
    BY <1>2 DEF OriginFails
  <2> DEFINE next == frame[g].now + OriginBackoff(n, transient)
  <2>2. frame[g] \in Frame /\ s \in Server /\ row[s] \in Row \cup {NoRow}
    BY <1>2, <1>t DEF OriginFails, At, TypeOK, Frame
  <2>3. frame[g].now \in Nat /\ n \in Nat
    BY <2>2, FailuresType DEF Frame
  <2>5. next \in Nat \ {0}
    <3>1. OriginBackoff(n, transient) \in Nat \ {0}
      BY <2>1, <2>3, BackoffBounds
    <3>2. \A a \in Nat, b \in Nat \ {0} : a + b \in Nat \ {0}
      OBVIOUS
    <3> HIDE DEF n
    <3> QED
      BY <2>3, <3>1, <3>2
  <2> HIDE DEF n
  <2>6. row' = [row EXCEPT ![s] = Noted(row[s], frame[g].now, n, next)]
    BY <2>1
  <2> HIDE DEF next
  <2>7. Noted(row[s], frame[g].now, n, next).next > 0
    BY <2>2, <2>5 DEF Noted, Row
  <2> QED
    BY <1>s, <2>2, <2>6, <2>7
<1>3. ASSUME NEW g \in Goroutine, NotaryAnswers(g) PROVE NotaryRowsAreSwept'
  <2> DEFINE s == frame[g].server
             n == Head(frame[g].left)
  <2>2. /\ frame[g] # Idle /\ frame[g].pc = "ask" /\ s \in Server
        /\ frame[g].reason = "request" /\ row[s] \in Row \cup {NoRow}
        /\ n \in Server
    <3>1. /\ frame[g] # Idle /\ frame[g].pc = "ask" /\ frame[g] \in Frame
          /\ frame[g].reason = "request" /\ frame[g].left # <<>>
      BY <1>3, <1>t DEF NotaryAnswers, At, PlacesInv, TypeOK, WalkingInv
    <3>2. s \in Server /\ n \in Server
      BY <3>1, HeadTailProperties DEF Frame
    <3> QED
      BY <1>t, <3>1, <3>2 DEF TypeOK
  <2>1. PICK valid \in Offers :
          \/ row' = [row EXCEPT ![s] = Upgraded(row[s], n, valid)]
          \/ row' = [row EXCEPT ![s] = Replaced(row[s], n, valid)]
    BY <1>3 DEF NotaryAnswers, NotaryStores
  <2>3. row[s] # NoRow /\ row[s].next > 0
    BY <2>2 DEF CallsAgree, CallsOf, Agrees
  <2>4. /\ Replaced(row[s], n, valid).next > 0
        /\ Upgraded(row[s], n, valid).next > 0
    <3>1. clock \in Nat /\ n \in Server \cup {Direct} /\ valid \in Nat
      BY <1>t, <2>2 DEF TypeOK
    <3>2. Replaced(row[s], n, valid).next > 0
      <4> HIDE PolicyAssumption, ScheduleAssumption, ResolverAssumption, NamesAssumption
      <4> HIDE DEF s, n
      <4> QED
        BY <2>2, <2>3, <3>1, ReplacedType
    <3> QED
      BY <2>3, <3>2 DEF Upgraded
  <2> QED
    BY <1>s, <2>1, <2>2, <2>4
<1>4. ASSUME NEW p \in Proc, Invalidate(p) PROVE NotaryRowsAreSwept'
  <2> DEFINE s == reply[p].server
  <2>1. s \in Server /\ row[s] # NoRow /\ row[s] \in Row
    BY <1>t, <1>4 DEF Invalidate, TypeOK, Reply
  <2>2. row' = [row EXCEPT ![s] = [row[s] EXCEPT !.valid = 0, !.updated = 0]]
    BY <1>4, <2>1 DEF Invalidate, Row
  <2>3. [row[s] EXCEPT !.valid = 0, !.updated = 0].via # Direct =>
          [row[s] EXCEPT !.valid = 0, !.updated = 0].next > 0
    BY <2>1 DEF Row, NotaryRowsAreSwept
  <2> QED
    BY <1>s, <2>1, <2>2, <2>3
<1>5. ASSUME NEW p \in Proc, Request(p) \/ Load(p) \/ LoadFails(p)
      PROVE  NotaryRowsAreSwept'
  BY <1>u, <1>5 DEF Request, Load, LoadFails
<1>6. ASSUME NEW g \in Goroutine,
             \/ OriginFailsUnnoted(g) \/ NoWalk(g) \/ TakeWalk(g)
             \/ SkipItself(g) \/ NextNotary(g) \/ NotaryFails(g) \/ WalkEnds(g)
      PROVE  NotaryRowsAreSwept'
  BY <1>u, <1>6 DEF OriginFailsUnnoted, NoWalk, TakeWalk, SkipItself,
                    NextNotary, NotaryFails, WalkEnds
<1>7. CASE ListDue \/ Visit \/ VisitFails \/ Tick \/ UNCHANGED vars
  BY <1>u, <1>7 DEF ListDue, Visit, VisitFails, Tick, vars
<1>8. ASSUME NEW g \in Goroutine, OriginStoreFails(g) \/ NotaryStoreFails(g)
      PROVE  NotaryRowsAreSwept'
  BY <1>8, <1>u DEF Quiet, vars
<1>9. CASE Restart
  <2> SUFFICES ASSUME NEW s \in Server, row'[s] # NoRow, row'[s].via # Direct
               PROVE  row'[s].next > 0
    BY DEF NotaryRowsAreSwept
  <2>1. PICK r \in Remains(s) : r = row'[s]
    BY <1>9 DEF Restart
  <2>2. CASE r = row[s]
    BY <2>1, <2>2 DEF NotaryRowsAreSwept
  <2>3. ASSUME NEW g \in Goroutine, frame[g].server = s, At(g, "probe"),
               r \in OriginCut(frame[g])
        PROVE  FALSE
    <3>1. frame[g] \in Frame
      BY <1>t, <2>3 DEF At, TypeOK
    <3> QED
      BY <1>t, <2>1, <2>3, <3>1, OriginCutRow
  <2>4. ASSUME NEW g \in Goroutine, frame[g].server = s, At(g, "ask"),
               r \in NotaryCut(frame[g])
        PROVE  r.next > 0
    <3>1. /\ frame[g] \in Frame /\ frame[g].left # <<>>
          /\ frame[g].reason = "request" /\ frame[g] # Idle
          /\ frame[g].pc = "ask"
      BY <1>t, <2>4 DEF At, TypeOK, WalkingInv, PlacesInv
    <3>2. row[s] # NoRow /\ row[s].next > 0
      BY <2>4, <3>1 DEF CallsAgree, CallsOf, Agrees
    <3>3. r.next = row[s].next
      BY <1>t, <2>4, <3>1, <3>2, NotaryCutRow
    <3> QED
      BY <3>2, <3>3
  <2> QED
    BY <2>1, <2>2, <2>3, <2>4, RemainsRow
<1> QED
  BY <1>1, <1>2, <1>3, <1>4, <1>5, <1>6, <1>7, <1>8, <1>9 DEF Next, Step

AgreeInv == ApartInv /\ CallsAgree /\ NotaryRowsAreSwept

LEMMA AgreeInduction ==
  Spec /\ []Apart /\ [][Quiet]_vars => []AgreeInv
<1>1. Init => CallsAgree /\ NotaryRowsAreSwept
  BY DEF Init, CallsAgree, CallsOf, NotaryRowsAreSwept
<1>2. ApartInv /\ CallsAgree /\ NotaryRowsAreSwept /\ Apart /\ [Next]_vars
        /\ [Quiet]_vars => CallsAgree' /\ NotaryRowsAreSwept'
  BY NextCallsAgree, NextRowsSwept
<1> QED
  BY <1>1, <1>2, ApartInduction, PTL DEF Spec, AgreeInv

(* A notary's copy is on the sweep's schedule (orm.go:145-147), for any    *)
(* notaries and through restarts that cut stores short, failed loads,      *)
(* visits and resets, unless two calls are on the server of a request at   *)
(* once, a failure note is lost, or a store fails while its call goes on.  *)
THEOREM ApartRowsAreSwept ==
  Spec /\ []Apart /\ [][Quiet]_vars => []NotaryRowsAreSwept
BY AgreeInduction, PTL DEF AgreeInv

(* What the reply's record is compared by: all but the schedule's columns. *)
Copy(r) == [r EXCEPT !.updated = 0, !.failures = 0, !.next = 0]

LEMMA SameCopies ==
  ASSUME NEW a \in Row, NEW b \in Row, SameCopy(a, b)
  PROVE  Copy(a) = Copy(b)
BY DEF SameCopy, Copy, Row

Matches(p, r) ==
  /\ Copy(r) = Copy(row'[frame[p].server])
  /\ r.via # Direct /\ frame[p].held # NoRow => r.valid >= frame[p].held.valid

(* The tail of queryRemoteKeys replies with what the call has in hand.     *)
LEMMA ConcludeMatches ==
  ASSUME TypeOK, NEW p \in Proc, frame[p] \in Frame,
         Agrees(frame[p], row[frame[p].server]), row' = row,
         NEW r, HasKeys(r),
         \/ r = frame[p].best
         \/ r = IF frame[p].best = NoRow THEN frame[p].held ELSE frame[p].best
  PROVE  Matches(p, r)
<1> DEFINE f == frame[p]
           h == row[f.server]
<1>1. {h, f.held, f.best} \subseteq Row \cup {NoRow}
  <2>1. f.server \in Server /\ {f.held, f.best} \subseteq Row \cup {NoRow}
    BY DEF Frame
  <2>2. h \in Row \cup {NoRow}
    BY <2>1 DEF TypeOK
  <2> QED
    BY <2>1, <2>2
<1>2. r # NoRow
  BY DEF HasKeys
<1>3. CASE r = f.best
  <2>1. /\ h \in Row /\ r \in Row /\ SameCopy(r, h)
        /\ f.held # NoRow => r.valid >= f.held.valid
    BY <1>1, <1>2, <1>3 DEF Agrees
  <2> QED
    BY <2>1, SameCopies DEF Matches
<1>4. CASE f.best = NoRow /\ r = f.held
  <2>1. h \in Row /\ r \in Row /\ SameCopy(r, h) /\ r.valid \in Nat
    BY <1>1, <1>2, <1>4 DEF Agrees, Row
  <2>2. Copy(r) = Copy(h)
    BY <2>1, SameCopies
  <2> QED
    BY <1>4, <2>1, <2>2 DEF Matches
<1> QED
  BY <1>3, <1>4

LEMMA RepliesMatch ==
  AgreeInv /\ [Next]_vars =>
    \A p \in Proc : Replies(p) /\ HasKeys(reply'[p].record) =>
      Matches(p, reply'[p].record)
<1> SUFFICES ASSUME AgreeInv, [Next]_vars, NEW p \in Proc, Replies(p),
                    HasKeys(reply'[p].record)
             PROVE  Matches(p, reply'[p].record)
  OBVIOUS
<1> USE DEF calls, history
<1>t. /\ TInv /\ TypeOK /\ FramesInv /\ PlacesInv /\ CallsAgree
      /\ p \in Goroutine
  BY DEF AgreeInv, ApartInv, HeldInv, TInv, Goroutine
<1>p. /\ frame[p] # Idle /\ reply[p] = Idle /\ reply'[p] # Idle
      /\ frame[p] \in Frame /\ frame[p].server \in Server
      /\ row[frame[p].server] \in Row \cup {NoRow}
      /\ Agrees(frame[p], row[frame[p].server])
  BY <1>t DEF Replies, FramesInv, TypeOK, Frame, CallsAgree, CallsOf
<1>1. ASSUME reply' = reply PROVE FALSE
  BY <1>p, <1>1
<1>2. ASSUME NEW g \in Goroutine, NEW f, Continue(g, f) PROVE FALSE
  BY <1>1, <1>2 DEF Continue
<1>o. ASSUME NEW g \in Goroutine, NEW o, NEW r, Return(g, o, r)
      PROVE  p = g /\ reply'[p].record = r /\ HasKeys(r)
  BY <1>t, <1>o, OwnReturn
<1>3. ASSUME NEW q \in Proc, Request(q) PROVE FALSE
  BY <1>t, <1>p, <1>3 DEF Request, TypeOK
<1>4. ASSUME NEW q \in Proc, Load(q) PROVE Matches(p, reply'[p].record)
  <2> DEFINE r == row[frame[q].server]
  <2>1. q \in Goroutine /\ At(q, "load") /\ row' = row /\ Return(q, "fresh", r)
    BY <1>2, <1>4 DEF Load, Goroutine
  <2>2. p = q /\ reply'[p].record = r
    BY <1>o, <2>1
  <2>3. frame[p].held = NoRow
    BY <1>t, <2>1, <2>2 DEF FramesInv
  <2> QED
    BY <2>1, <2>2, <2>3 DEF Matches
<1>5. ASSUME NEW q \in Proc, LoadFails(q) PROVE FALSE
  BY <1>5, <1>o DEF LoadFails, HasKeys, Goroutine
<1>6. ASSUME NEW g \in Goroutine, OriginAnswers(g)
      PROVE  Matches(p, reply'[p].record)
  <2> DEFINE s == frame[g].server
  <2>1. Return(g, "origin", row'[s])
    BY <1>6 DEF OriginAnswers
  <2>2. p = g /\ reply'[p].record = row'[s]
    BY <1>o, <2>1
  <2>3. row'[s].via = Direct
    BY <1>6, <1>t, OriginAnswersRow
  <2> QED
    BY <2>2, <2>3 DEF Matches
<1>7. ASSUME NEW g \in Goroutine,
             OriginFails(g) \/ OriginFailsUnnoted(g) \/ OriginStoreFails(g)
      PROVE  FALSE
  BY <1>2, <1>7, <1>o DEF OriginFails, OriginFailsUnnoted, OriginStoreFails,
                          GiveUp, HasKeys
<1>8. ASSUME NEW g \in Goroutine, Conclude(g, frame[g].best), row' = row
      PROVE  Matches(p, reply'[p].record)
  <2> DEFINE f == frame[g]
             held == IF f.best = NoRow THEN f.held ELSE f.best
  <2>1. PICK o, r : Return(g, o, r) /\ r \in {f.best, held, EmptyRecord(f)}
    BY <1>8 DEF Conclude
  <2>2. p = g /\ reply'[p].record = r /\ HasKeys(r)
    BY <1>o, <2>1
  <2>3. r # EmptyRecord(f)
    BY <2>2 DEF HasKeys, EmptyRecord
  <2> QED
    BY <1>8, <1>p, <1>t, <2>1, <2>2, <2>3, ConcludeMatches
<1>9. ASSUME NEW g \in Goroutine, NoWalk(g) \/ WalkEnds(g)
      PROVE  Matches(p, reply'[p].record)
  <2>1. row' = row /\ Conclude(g, frame[g].best)
    BY <1>9, <1>t DEF NoWalk, WalkEnds, At, FramesInv, BestOK
  <2> QED
    BY <1>8, <2>1
<1>10. ASSUME NEW g \in Goroutine,
              \/ TakeWalk(g) \/ SkipItself(g) \/ NextNotary(g)
              \/ NotaryAnswers(g) \/ NotaryFails(g) \/ NotaryStoreFails(g)
       PROVE  FALSE
  BY <1>1, <1>2, <1>10 DEF TakeWalk, SkipItself, NextNotary, NotaryAnswers,
                           NotaryFails, NotaryStoreFails
<1>11. ASSUME NEW q \in Proc, Invalidate(q) PROVE FALSE
  BY <1>t, <1>p, <1>11 DEF Invalidate, TypeOK
<1>12. CASE Visit
  BY <1>1, <1>12 DEF Visit, Continue
<1>13. CASE Restart
  BY <1>p, <1>13 DEF Restart
<1>14. CASE ListDue \/ VisitFails \/ Tick \/ UNCHANGED vars
  BY <1>1, <1>14 DEF ListDue, VisitFails, Tick, vars
<1> QED
  BY <1>3, <1>4, <1>5, <1>6, <1>7, <1>9, <1>10, <1>11, <1>12, <1>13, <1>14
     DEF Next, Step

(* A request replies with the copy the reservoir then holds, and with one  *)
(* no shorter-valid than it found unless the origin answered               *)
(* (notary.go:206-208), unless another call is on its server meanwhile or  *)
(* a store of it fails or skips its rule.                                  *)
THEOREM ApartRepliesMatch ==
  Spec /\ []Apart /\ [][Quiet]_vars => RepliesMatchReservoir
<1>1. AgreeInv /\ [Next]_vars =>
        [\A p \in Proc : Replies(p) /\ HasKeys(reply'[p].record) =>
           LET r == reply'[p].record IN
           /\ [r EXCEPT !.updated = 0, !.failures = 0, !.next = 0] =
              [row'[frame[p].server] EXCEPT !.updated = 0, !.failures = 0, !.next = 0]
           /\ r.via # Direct /\ frame[p].held # NoRow => r.valid >= frame[p].held.valid]_vars
  BY RepliesMatch DEF Matches, Copy
<1> QED
  BY <1>1, AgreeInduction, PTL DEF Spec, RepliesMatchReservoir
=============================================================================
