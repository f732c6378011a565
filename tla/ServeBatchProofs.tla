-------------------------- MODULE ServeBatchProofs --------------------------
(***************************************************************************)
(* The safety properties of a batch, for any number of requests, servers,  *)
(* slots, criteria and faults.                                             *)
(***************************************************************************)
EXTENDS ServeBatchProps, FiniteSetTheorems, WellFoundedInduction, TLAPS

(* The goroutines of a request, and those of them that hold a slot.        *)
Busy(r) == {s \in Server : ~ At(r, s, "none")}
Holding(r) == {s \in Server : ~ At(r, s, "none") /\ ~ At(r, s, "queued")}

(* The wait group and the semaphore count goroutines, an item without one  *)
(* is not counted yet, and none is left when the reply is out.             *)
CountInv ==
  \A r \in Request :
    /\ wg[r] = Cardinality(Busy(r))
    /\ sem[r] = Cardinality(Holding(r))
    /\ todo[r] \cap Busy(r) = {}
    /\ reply[r] # None => todo[r] = {} /\ Busy(r) = {}

(* The histories remember what was not good or out of reach since.         *)
WorldInv ==
  \A r \in Request : reply[r] = None => \A s \in DOMAIN body[r] :
    /\ s \notin spoilt[r] => held[s].kind = "good"
    /\ ~ reach[s] => s \in away[r]

(* A record is valid for long enough, or for as long as what a source has  *)
(* answered.                                                               *)
LongEnough(r, s, rec) ==
  \/ Meets(rec.valid, body[r][s])
  \/ short[r][s] # Nothing /\ rec.valid >= short[r][s]

(* A record that may be answered with.                                     *)
Suits(r, s, rec) ==
  /\ rec \in Record
  /\ s \notin spoilt[r] => rec.kind = "good"
  /\ s \notin spoilt[r] \cup away[r] => LongEnough(r, s, rec)

(* A lookup has a record that suits, or a reason; it ends with a result    *)
(* and has none before.                                                    *)
ItemInv(r, s) ==
  /\ At(r, s, "fetch") /\ s \notin spoilt[r]
       => worker[r][s].got.kind = "good"
  /\ At(r, s, "prepare") => Suits(r, s, worker[r][s].got)
  /\ At(r, s, "refuse") => s \in spoilt[r]
  /\ results[r][s] = Error => s \in spoilt[r]
  /\ results[r][s] \in Record => Suits(r, s, results[r][s])
  /\ At(r, s, "leave") \/ (At(r, s, "none") /\ s \notin todo[r])
       <=> results[r][s] # Nothing

ItemsInv ==
  \A r \in Request : reply[r] = None =>
    \A s \in DOMAIN body[r] : ItemInv(r, s)

ReplyInv ==
  \A r \in Request : reply[r] # None =>
    /\ \A s \in Server : results[r][s] = Nothing
    /\ \A s \in DOMAIN body[r] :
         /\ s \notin spoilt[r] => s \in DOMAIN reply[r]
         /\ s \in DOMAIN reply[r] => Suits(r, s, reply[r][s])

BatchInv ==
  TypeOK /\ CountInv /\ WorldInv /\ ItemsInv /\ ReplyInv

-----------------------------------------------------------------------------
(* The highest criterion.                                                  *)

LEMMA LeastOf ==
  ASSUME NEW T \in SUBSET Nat, T # {}
  PROVE  \E i \in T : \A j \in T : i <= j
<1>1. PICK i \in T : \A j \in T : ~ (<<j, i>> \in OpToRel(<, Nat))
  BY NatLessThanWellFounded, WFMin
<1>2. \A j \in T : ~ (j < i)
  BY <1>1 DEF OpToRel
<1>. QED  BY <1>2, i \in Nat

BoundedTo(f, k) == \E b \in Nat : \A i \in 1..k : f[i] <= b

LEMMA BoundedNext ==
  ASSUME NEW n \in Nat, NEW f, \A i \in 1..n : f[i] \in Nat,
         NEW k \in 1..n, BoundedTo(f, k - 1)
  PROVE  BoundedTo(f, k)
<1>1. PICK b \in Nat : \A i \in 1..(k - 1) : f[i] <= b
  BY DEF BoundedTo
<1>2. PICK c \in Nat : c = f[k]
  OBVIOUS
<1>3. PICK d \in Nat : b <= d /\ c <= d
  BY b <= c \/ c <= b
<1>4. ASSUME NEW i \in 1..k PROVE f[i] <= d
  <2>1. CASE i = k
    BY <1>2, <1>3, <2>1
  <2>2. CASE i # k
    <3>1. f[i] <= b /\ f[i] \in Nat
      BY <1>1, <2>2
    <3>. QED  BY <1>3, <3>1
  <2>. QED  BY <2>1, <2>2
<1>. QED  BY <1>4 DEF BoundedTo

LEMMA FiniteIsBounded ==
  ASSUME NEW S \in SUBSET Nat, IsFiniteSet(S)
  PROVE  \E b \in Nat : \A x \in S : x <= b
<1>1. PICK n \in Nat : ExistsSurjection(1..n, S)
  BY FS_NatSurjection
<1>2. PICK f \in Surjection(1..n, S) : TRUE
  BY <1>1 DEF ExistsSurjection
<1>3. /\ \A i \in 1..n : f[i] \in Nat
      /\ \A x \in S : \E i \in 1..n : f[i] = x
  BY <1>2 DEF Surjection
<1>. DEFINE U == {k \in 0..n : ~ BoundedTo(f, k)}
<1>4. BoundedTo(f, 0)
  <2>1. \A i \in 1..0 : f[i] <= 0
    OBVIOUS
  <2>. QED  BY <2>1 DEF BoundedTo
<1>5. U = {}
  <2>. SUFFICES ASSUME U # {} PROVE FALSE
    OBVIOUS
  <2>1. U \in SUBSET Nat
    OBVIOUS
  <2>2. PICK k \in U : \A j \in U : k <= j
    BY <2>1, LeastOf
  <2>3. k \in 1..n /\ ~ BoundedTo(f, k)
    BY <1>4, <2>2
  <2>4. k - 1 \in 0..n /\ k - 1 \notin U
    BY <2>2, <2>3
  <2>. QED  BY <1>3, <2>3, <2>4, BoundedNext
<1>6. BoundedTo(f, n)
  BY <1>5
<1>. QED  BY <1>3, <1>6 DEF BoundedTo

LEMMA MaxIsHighest ==
  ASSUME NEW S \in SUBSET Nat, IsFiniteSet(S), S # {}
  PROVE  Max(S) \in S /\ \A x \in S : Max(S) >= x
<1>. DEFINE T == {b \in Nat : \A x \in S : x <= b}
<1>1. T # {} /\ T \in SUBSET Nat
  BY FiniteIsBounded
<1>2. PICK m \in T : \A b \in T : m <= b
  BY <1>1, LeastOf
<1>3. m \in Nat /\ \A x \in S : x \in Nat /\ x <= m
  BY <1>2
<1>4. m \in S
  <2>. SUFFICES ASSUME m \notin S PROVE FALSE
    OBVIOUS
  <2>1. \A x \in S : x <= m - 1
    BY <1>3
  <2>2. PICK x \in S : x \in Nat /\ x <= m - 1
    BY <1>3, <2>1
  <2>3. m - 1 \in T
    BY <1>3, <2>1, <2>2
  <2>. QED  BY <1>2, <1>3, <2>3
<1>5. \E x \in S : \A y \in S : x >= y
  BY <1>3, <1>4
<1>. HIDE DEF T
<1>. QED  BY <1>5 DEF Max

LEMMA MinValidMeets ==
  ASSUME NEW c \in SUBSET Nat, IsFiniteSet(c)
  PROVE  /\ MinValid(c) \in Nat
         /\ \A q \in c : MinValid(c) >= q
<1>1. Max({0} \cup c) \in Nat /\ \A q \in c : Max({0} \cup c) >= q
  <2>1. IsFiniteSet({0} \cup c)
    <3>1. {0} \cup c = c \cup {0}
      OBVIOUS
    <3>. QED  BY <3>1, FS_AddElement
  <2>2. {0} \cup c \in SUBSET Nat /\ {0} \cup c # {}
    OBVIOUS
  <2>3. /\ Max({0} \cup c) \in {0} \cup c
        /\ \A q \in {0} \cup c : Max({0} \cup c) >= q
    BY <2>1, <2>2, MaxIsHighest
  <2>. QED  BY <2>2, <2>3
<1>2. Now \in Nat
  BY ServeBatchAssumption
<1>. QED  BY <1>1, <1>2 DEF MinValid

(* A record that is valid for longer meets what a shorter-valid one does.  *)
LEMMA MeetsMore ==
  ASSUME NEW c \in SUBSET Nat, NEW a \in Int, NEW b \in Int, b <= a,
         Meets(b, c)
  PROVE  Meets(a, c)
BY ServeBatchAssumption DEF Meets

-----------------------------------------------------------------------------
(* What a step of one goroutine leaves alone.                              *)

(* What an answer does to what is held.                                    *)
FetchStores(s, valid) ==
  held' = [held EXCEPT ![s] = [kind |-> "good", valid |-> valid]]
FetchKeeps(s, valid) == valid <= held[s].valid /\ UNCHANGED held


LocalTo(r, s) ==
  /\ worker' = [worker EXCEPT ![r][s] = worker'[r][s]]
  /\ results' = [results EXCEPT ![r][s] = results'[r][s]]
  /\ worker'[r][s] \in Worker /\ results'[r][s] \in Result
  /\ UNCHANGED <<body, reply>>
  /\ todo' \in [Request -> SUBSET Server]
  /\ \A q \in Request, z \in Server :
       (q # r \/ z # s) => (z \in todo'[q] <=> z \in todo[q])
  /\ \A q \in Request : spoilt[q] \subseteq spoilt'[q]
  /\ spoilt' \in [Request -> SUBSET Server]
  /\ UNCHANGED away
  /\ \A q \in Request, z \in Server :
       (q # r \/ z # s) => short'[q][z] = short[q][z]
  /\ short' \in [Request -> [Server -> {Nothing} \cup 1..Longest]]

LEMMA WorkIsLocal ==
  ASSUME TypeOK, NEW r \in Request, NEW s \in Server, Work(r, s) \/ Fault(r, s)
  PROVE  LocalTo(r, s)
<1>1. /\ worker \in [Request -> [Server -> Worker]]
      /\ results \in [Request -> [Server -> Result]]
      /\ todo \in [Request -> SUBSET Server]
      /\ spoilt \in [Request -> SUBSET Server]
      /\ short \in [Request -> [Server -> {Nothing} \cup 1..Longest]]
      /\ held[s] \in Record /\ worker[r][s] \in Worker
  BY DEF TypeOK
<1>2. Longest \in Nat /\ Now \in Nat /\ Offers[s] \subseteq 1..Longest
  BY ServeBatchAssumption
<1>3. ASSUME NEW l \in {"none", "queued", "lookup", "fetch", "prepare",
                        "refuse", "leave"},
             Goto(r, s, l)
      PROVE  /\ worker' = [worker EXCEPT ![r][s] = worker'[r][s]]
             /\ worker'[r][s] \in Worker
  BY <1>1, <1>3 DEF Goto, Worker
<1>4. ASSUME NEW w \in Worker, worker' = [worker EXCEPT ![r][s] = w]
      PROVE  /\ worker' = [worker EXCEPT ![r][s] = worker'[r][s]]
             /\ worker'[r][s] \in Worker
  BY <1>1, <1>4
<1>5. ASSUME NEW x \in Result, Leave(r, s, x)
      PROVE  /\ worker' = [worker EXCEPT ![r][s] = worker'[r][s]]
             /\ worker'[r][s] \in Worker
             /\ results' = [results EXCEPT ![r][s] = results'[r][s]]
             /\ results'[r][s] \in Result
  <2>1. [Idle EXCEPT !.pc = "leave"] \in Worker
    BY <1>2 DEF Idle, Worker, NoRecord, Record
  <2>2. worker' = [worker EXCEPT ![r][s] = [Idle EXCEPT !.pc = "leave"]]
        /\ results' = [results EXCEPT ![r][s] = x]
    BY <1>5 DEF Leave
  <2>. QED  BY <1>1, <1>4, <1>5, <2>1, <2>2
<1>6. ASSUME results' = results
      PROVE  /\ results' = [results EXCEPT ![r][s] = results'[r][s]]
             /\ results'[r][s] \in Result
  BY <1>1, <1>6
<1>7. ASSUME spoilt' = Noted(spoilt, s) \/ spoilt' = [spoilt EXCEPT ![r] = @ \cup {s}]
      PROVE  /\ \A q \in Request : spoilt[q] \subseteq spoilt'[q]
             /\ spoilt' \in [Request -> SUBSET Server]
  <2>1. CASE spoilt' = Noted(spoilt, s)
    <3>1. \A q \in Request : spoilt'[q] = spoilt[q] \/ spoilt'[q] = spoilt[q] \cup {s}
      BY <1>1, <2>1 DEF Noted
    <3>2. \A q \in Request :
            (IF q \in Open(s) THEN spoilt[q] \cup {s} ELSE spoilt[q])
              \in SUBSET Server
      BY <1>1
    <3>3. spoilt' \in [Request -> SUBSET Server]
      BY <2>1, <3>2 DEF Noted
    <3>. QED  BY <3>1, <3>3
  <2>2. CASE spoilt' = [spoilt EXCEPT ![r] = @ \cup {s}]
    <3>1. \A q \in Request :
            spoilt'[q] = IF q = r THEN spoilt[q] \cup {s} ELSE spoilt[q]
      BY <1>1, <2>2
    <3>. QED  BY <1>1, <2>2, <3>1
  <2>. QED  BY <1>7, <2>1, <2>2
<1>8. ASSUME todo' = [todo EXCEPT ![r] = @ \ {s}]
      PROVE  /\ todo' \in [Request -> SUBSET Server]
             /\ \A q \in Request, z \in Server :
                  (q # r \/ z # s) => (z \in todo'[q] <=> z \in todo[q])
  <2>1. \A q \in Request :
          todo'[q] = IF q = r THEN todo[q] \ {s} ELSE todo[q]
    BY <1>1, <1>8
  <2>. QED  BY <1>1, <1>8, <2>1
<1>9. Error \in Result /\ worker[r][s].got \in Record
      /\ Record \subseteq Result
  BY <1>1 DEF Result, Worker
<1>23. ASSUME UNCHANGED short
       PROVE  /\ \A q \in Request, z \in Server :
                   (q # r \/ z # s) => short'[q][z] = short[q][z]
              /\ short' \in [Request -> [Server -> {Nothing} \cup 1..Longest]]
  BY <1>1, <1>23
<1>10. CASE Spawn(r, s)
  BY <1>1, <1>23, <1>3, <1>6, <1>8, <1>10 DEF Spawn, LocalTo,
     history
<1>11. CASE TakeSlot(r, s)
  BY <1>1, <1>23, <1>3, <1>6, <1>11 DEF TakeSlot, LocalTo,
     history
<1>12. CASE Lookup(r, s)
  <2>1. [pc |-> IF Fresh(held[s], MinValid(body[r][s])) THEN "prepare"
                ELSE "fetch",
         got |-> held[s]] \in Worker
    BY <1>1 DEF Worker
  <2>. QED  BY <1>1, <1>23, <1>4, <1>6, <1>12, <2>1 DEF Lookup, LocalTo,
     history
<1>13. CASE Fetch(r, s)
  <2>1. PICK valid \in Offers[s] :
          /\ FetchKeeps(s, valid) \/ FetchStores(s, valid)
          /\ short' = [short EXCEPT ![r][s] =
               IF Meets(valid, body[r][s]) THEN Nothing ELSE valid]
    BY <1>13 DEF Fetch, FetchKeeps, FetchStores
  <2>2. PICK m : m = IF Meets(valid, body[r][s]) THEN Nothing ELSE valid
    OBVIOUS
  <2>3. m \in {Nothing} \cup 1..Longest
    BY <1>2, <2>2
  <2>4. short' = [short EXCEPT ![r][s] = m]
    BY <2>1, <2>2
  <2>5. /\ \A q \in Request, z \in Server :
              (q # r \/ z # s) => short'[q][z] = short[q][z]
        /\ short' \in [Request -> [Server -> {Nothing} \cup 1..Longest]]
    BY <1>1, <2>3, <2>4
  <2>6. held'[s] \in Record
    <3>1. [kind |-> "good", valid |-> valid] \in Record
      BY <1>2 DEF Record
    <3>2. held \in [Server -> Record]
      BY DEF TypeOK
    <3>. QED  BY <2>1, <3>1, <3>2 DEF FetchKeeps, FetchStores
  <2>7. [pc |-> "prepare", got |-> held'[s]] \in Worker
    BY <2>6 DEF Worker
  <2>. QED  BY <1>1, <1>4, <1>6, <1>13, <2>5, <2>7 DEF Fetch, LocalTo
<1>14. CASE FetchNothing(r, s)
  BY <1>1, <1>23, <1>3, <1>6, <1>14 DEF FetchNothing, LocalTo,
     history
<1>15. CASE StoreFails(r, s)
  BY <1>1, <1>23, <1>3, <1>6, <1>7, <1>15 DEF StoreFails, LocalTo,
     history
<1>16. CASE LookupFails(r, s)
  BY <1>1, <1>23, <1>5, <1>7, <1>9, <1>16 DEF LookupFails, LocalTo,
     history
<1>17. CASE Prepare(r, s)
  BY <1>1, <1>23, <1>5, <1>9, <1>17 DEF Prepare, LocalTo,
     history
<1>18. CASE Refuse(r, s)
  <2>1. [Idle EXCEPT !.pc = "refuse"] \in Worker
    BY <1>2 DEF Idle, Worker, NoRecord, Record
  <2>. QED  BY <1>1, <1>23, <1>4, <1>6, <1>18, <2>1 DEF Refuse, LocalTo,
     history
<1>19. CASE PrepareFails(r, s)
  BY <1>1, <1>23, <1>5, <1>7, <1>9, <1>19 DEF PrepareFails, LocalTo,
     history
<1>20. CASE Invalidate(r, s)
  BY <1>1, <1>23, <1>5, <1>7, <1>9, <1>20 DEF Invalidate, LocalTo,
     history
<1>21. CASE InvalidateFails(r, s)
  BY <1>1, <1>23, <1>5, <1>9, <1>21 DEF InvalidateFails, LocalTo,
     history
<1>22. CASE ReturnSlot(r, s)
  <2>1. Idle \in Worker
    BY <1>2 DEF Idle, Worker, NoRecord, Record
  <2>. QED  BY <1>1, <1>23, <1>4, <1>6, <1>22, <2>1 DEF ReturnSlot, LocalTo,
     history
<1>. QED  BY <1>10, <1>11, <1>12, <1>13, <1>14, <1>15, <1>16, <1>17, <1>18,
             <1>19, <1>20, <1>21, <1>22 DEF Work, Fault

-----------------------------------------------------------------------------
(* The counts.                                                             *)

LEMMA CountsAreFinite ==
  ASSUME NEW r
  PROVE  IsFiniteSet(Busy(r)) /\ IsFiniteSet(Holding(r))
BY FS_Subset, ServeBatchAssumption DEF Busy, Holding

(* The goroutine of s alone moves: who is busy or holds a slot changes by  *)
(* s at most.                                                              *)
LEMMA CountsMove ==
  ASSUME TypeOK, NEW r \in Request, NEW s \in Server, LocalTo(r, s)
  PROVE  /\ \A q \in Request \ {r} :
              Busy(q)' = Busy(q) /\ Holding(q)' = Holding(q)
         /\ Busy(r)' = IF worker'[r][s].pc = "none" THEN Busy(r) \ {s}
                       ELSE Busy(r) \cup {s}
         /\ Holding(r)' = IF worker'[r][s].pc \in {"none", "queued"}
                          THEN Holding(r) \ {s} ELSE Holding(r) \cup {s}
<1>1. worker \in [Request -> [Server -> Worker]]
  BY DEF TypeOK
<1>2. PICK w : w = worker'[r][s]
  OBVIOUS
<1>3. worker' = [worker EXCEPT ![r][s] = w]
  BY <1>2 DEF LocalTo
<1>4. \A q \in Request, z \in Server :
        worker'[q][z] = IF q = r /\ z = s THEN w ELSE worker[q][z]
  BY <1>1, <1>3
<1>5. \A q \in Request \ {r} :
        Busy(q)' = Busy(q) /\ Holding(q)' = Holding(q)
  BY <1>4 DEF Busy, Holding, At
<1>6. Busy(r)' = IF w.pc = "none" THEN Busy(r) \ {s} ELSE Busy(r) \cup {s}
  BY <1>4 DEF Busy, At
<1>7. Holding(r)' = IF w.pc \in {"none", "queued"} THEN Holding(r) \ {s}
                    ELSE Holding(r) \cup {s}
  BY <1>4 DEF Holding, At
<1>. QED  BY <1>2, <1>5, <1>6, <1>7

(* The counts follow a goroutine that starts, takes its slot, goes on or   *)
(* returns.                                                                *)
LEMMA CountStep ==
  ASSUME TypeOK, CountInv, NEW r \in Request, NEW s \in Server,
         Work(r, s) \/ Fault(r, s)
  PROVE  CountInv'
<1>1. /\ wg \in [Request -> Nat] /\ sem \in [Request -> 0..Slots]
      /\ todo \in [Request -> SUBSET Server] /\ LocalTo(r, s)
      /\ worker \in [Request -> [Server -> Worker]]
  BY WorkIsLocal DEF TypeOK
<1>2. \A q \in Request : /\ IsFiniteSet(Busy(q)) /\ Cardinality(Busy(q)) \in Nat
                         /\ IsFiniteSet(Holding(q))
                         /\ Cardinality(Holding(q)) \in Nat
  BY CountsAreFinite, FS_CardinalityType
<1>3. /\ Cardinality(Busy(r) \cup {s}) =
           IF s \in Busy(r) THEN Cardinality(Busy(r)) ELSE Cardinality(Busy(r)) + 1
      /\ Cardinality(Busy(r) \ {s}) =
           IF s \in Busy(r) THEN Cardinality(Busy(r)) - 1 ELSE Cardinality(Busy(r))
      /\ Cardinality(Holding(r) \cup {s}) =
           IF s \in Holding(r) THEN Cardinality(Holding(r))
           ELSE Cardinality(Holding(r)) + 1
      /\ Cardinality(Holding(r) \ {s}) =
           IF s \in Holding(r) THEN Cardinality(Holding(r)) - 1
           ELSE Cardinality(Holding(r))
  BY <1>2, FS_AddElement, FS_RemoveElement
<1>4. /\ \A q \in Request \ {r} :
              Busy(q)' = Busy(q) /\ Holding(q)' = Holding(q)
      /\ Busy(r)' = IF worker'[r][s].pc = "none" THEN Busy(r) \ {s}
                    ELSE Busy(r) \cup {s}
      /\ Holding(r)' = IF worker'[r][s].pc \in {"none", "queued"}
                       THEN Holding(r) \ {s} ELSE Holding(r) \cup {s}
  BY <1>1, CountsMove
<1>5. /\ s \in Busy(r) <=> worker[r][s].pc # "none"
      /\ s \in Holding(r) <=> worker[r][s].pc \notin {"none", "queued"}
  BY DEF Busy, Holding, At
<1>6. reply' = reply
  BY <1>1 DEF LocalTo
<1>7. ASSUME todo' = todo, wg' = wg, sem' = sem,
             worker[r][s].pc \notin {"none", "queued"},
             worker'[r][s].pc \notin {"none", "queued"}
      PROVE  CountInv'
  <2>1. \A q \in Request : Busy(q)' = Busy(q) /\ Holding(q)' = Holding(q)
    BY <1>4, <1>5, <1>7
  <2>. QED  BY <1>6, <1>7, <2>1 DEF CountInv
<1>8. CASE Spawn(r, s)
  <2>1. /\ s \in todo[r] /\ todo' = [todo EXCEPT ![r] = @ \ {s}]
        /\ wg' = [wg EXCEPT ![r] = @ + 1] /\ sem' = sem
        /\ worker'[r][s].pc = "queued"
    BY <1>1, <1>8 DEF Spawn, Goto, Worker
  <2>2. s \notin Busy(r) /\ s \notin Holding(r) /\ reply[r] = None
    BY <1>5, <2>1 DEF CountInv
  <2>3. Busy(r)' = Busy(r) \cup {s} /\ Holding(r)' = Holding(r)
    BY <1>4, <2>1, <2>2
  <2>4. \A q \in Request :
          /\ todo'[q] = IF q = r THEN todo[q] \ {s} ELSE todo[q]
          /\ wg'[q] = IF q = r THEN wg[q] + 1 ELSE wg[q]
    BY <1>1, <2>1
  <2>. SUFFICES ASSUME NEW q \in Request
                PROVE  /\ wg'[q] = Cardinality(Busy(q)')
                       /\ sem'[q] = Cardinality(Holding(q)')
                       /\ todo'[q] \cap Busy(q)' = {}
                       /\ reply'[q] # None => todo'[q] = {} /\ Busy(q)' = {}
    BY DEF CountInv
  <2>5. CASE q = r
    <3>1. wg'[r] = Cardinality(Busy(r)')
      BY <1>3, <2>2, <2>3, <2>4 DEF CountInv
    <3>2. sem'[r] = Cardinality(Holding(r)')
      BY <2>1, <2>3 DEF CountInv
    <3>3. todo'[r] = todo[r] \ {s} /\ Busy(r)' = Busy(r) \cup {s}
          /\ todo[r] \cap Busy(r) = {}
      BY <2>3, <2>4 DEF CountInv
    <3>4. todo'[r] \cap Busy(r)' = {}
      BY <3>3
    <3>. QED  BY <1>6, <2>2, <2>5, <3>1, <3>2, <3>4
  <2>6. CASE q # r
    BY <1>4, <1>6, <2>1, <2>4, <2>6 DEF CountInv
  <2>. QED  BY <2>5, <2>6
<1>9. CASE TakeSlot(r, s)
  <2>1. /\ worker[r][s].pc = "queued" /\ worker'[r][s].pc = "lookup"
        /\ sem' = [sem EXCEPT ![r] = @ + 1] /\ wg' = wg /\ todo' = todo
    BY <1>1, <1>9 DEF TakeSlot, Goto, At, Worker
  <2>2. \A q \in Request : Busy(q)' = Busy(q)
    BY <1>4, <1>5, <2>1
  <2>3. Holding(r)' = Holding(r) \cup {s} /\ s \notin Holding(r)
    BY <1>4, <1>5, <2>1
  <2>4. \A q \in Request : sem'[q] = IF q = r THEN sem[q] + 1 ELSE sem[q]
    BY <1>1, <2>1
  <2>5. \A q \in Request : sem'[q] = Cardinality(Holding(q)')
    BY <1>3, <1>4, <2>3, <2>4 DEF CountInv
  <2>. QED  BY <1>6, <2>1, <2>2, <2>5 DEF CountInv
<1>10. CASE ReturnSlot(r, s)
  <2>1. /\ worker[r][s].pc = "leave" /\ worker'[r][s].pc = "none"
        /\ sem' = [sem EXCEPT ![r] = @ - 1] /\ wg' = [wg EXCEPT ![r] = @ - 1]
        /\ todo' = todo
    BY <1>1, <1>10 DEF ReturnSlot, At, Worker, Idle
  <2>2. Busy(r)' = Busy(r) \ {s} /\ Holding(r)' = Holding(r) \ {s}
        /\ s \in Busy(r) /\ s \in Holding(r)
    BY <1>4, <1>5, <2>1
  <2>3. \A q \in Request : /\ sem'[q] = IF q = r THEN sem[q] - 1 ELSE sem[q]
                           /\ wg'[q] = IF q = r THEN wg[q] - 1 ELSE wg[q]
    BY <1>1, <2>1
  <2>. SUFFICES ASSUME NEW q \in Request
                PROVE  /\ wg'[q] = Cardinality(Busy(q)')
                       /\ sem'[q] = Cardinality(Holding(q)')
                       /\ todo'[q] \cap Busy(q)' = {}
                       /\ reply'[q] # None => todo'[q] = {} /\ Busy(q)' = {}
    BY DEF CountInv
  <2>4. CASE q = r
    BY <1>3, <1>6, <2>1, <2>2, <2>3, <2>4 DEF CountInv
  <2>5. CASE q # r
    BY <1>4, <1>6, <2>1, <2>3, <2>5 DEF CountInv
  <2>. QED  BY <2>4, <2>5
<1>11. CASE Lookup(r, s)
  BY <1>1, <1>7, <1>11 DEF Lookup, At
<1>12. CASE LookupFails(r, s) \/ Prepare(r, s) \/ PrepareFails(r, s)
            \/ Invalidate(r, s) \/ InvalidateFails(r, s)
  <2>1. ASSUME NEW x, Leave(r, s, x) PROVE worker'[r][s].pc = "leave"
    BY <1>1, <2>1 DEF Leave, Idle
  <2>. QED  BY <1>1, <1>7, <1>12, <2>1
       DEF LookupFails, Prepare, PrepareFails, Invalidate, InvalidateFails, At
<1>13. CASE Fetch(r, s)
  BY <1>1, <1>7, <1>13 DEF Fetch, At
<1>14. CASE FetchNothing(r, s) \/ StoreFails(r, s)
  BY <1>1, <1>7, <1>14 DEF FetchNothing, StoreFails, Goto, At, Worker
<1>15. CASE Refuse(r, s)
  BY <1>1, <1>7, <1>15 DEF Refuse, At, Idle
<1>. QED  BY <1>8, <1>9, <1>10, <1>11, <1>12, <1>13, <1>14, <1>15
          DEF Work, Fault

-----------------------------------------------------------------------------
(* The steps that are no goroutine's own.                                  *)

LEMMA OtherCounts ==
  ASSUME CountInv, UNCHANGED <<wg, sem, todo, worker, reply>>
  PROVE  CountInv'
BY DEF CountInv, Busy, Holding, At

LEMMA ReceiveStep ==
  ASSUME BatchInv, NEW r \in Request, NEW b \in Body[r], Receive(r, b)
  PROVE  BatchInv'
<1>1. /\ body \in [Request -> Bodies] /\ todo \in [Request -> SUBSET Server]
      /\ reply \in [Request -> Replies]
      /\ spoilt \in [Request -> SUBSET Server]
      /\ away \in [Request -> SUBSET Server]
      /\ results \in [Request -> [Server -> Result]]
      /\ short \in [Request -> [Server -> {Nothing} \cup 1..Longest]]
  BY DEF BatchInv, TypeOK
<1>2. /\ reply[r] # None
      /\ body' = [body EXCEPT ![r] = b]
      /\ todo' = [todo EXCEPT ![r] = DOMAIN b]
      /\ reply' = [reply EXCEPT ![r] = None]
      /\ spoilt' = [spoilt EXCEPT ![r] =
                     {s \in DOMAIN b : held[s].kind # "good"}]
      /\ away' = [away EXCEPT ![r] = {s \in DOMAIN b : ~ reach[s]}]
      /\ short' = [short EXCEPT ![r] = [s \in Server |-> Nothing]]
      /\ UNCHANGED <<held, reach, wg, sem, worker, results, faults, turns>>
  BY DEF Receive
<1>3. DOMAIN b \subseteq Server /\ b \in Bodies /\ None \in Replies
  <2>1. DOMAIN b \subseteq Server
    BY ServeBatchAssumption
  <2>. QED  BY <2>1 DEF Bodies, Replies
<1>4. TypeOK'
  <2>1. body' \in [Request -> Bodies] /\ todo' \in [Request -> SUBSET Server]
        /\ reply' \in [Request -> Replies]
    BY <1>1, <1>2, <1>3
  <2>2. spoilt' \in [Request -> SUBSET Server]
        /\ away' \in [Request -> SUBSET Server]
    BY <1>1, <1>2, <1>3
  <2>3. [s \in Server |-> Nothing] \in [Server -> {Nothing} \cup 1..Longest]
    OBVIOUS
  <2>4. short' \in [Request -> [Server -> {Nothing} \cup 1..Longest]]
    BY <1>1, <1>2, <2>3
  <2>. QED  BY <1>2, <2>1, <2>2, <2>4 DEF BatchInv, TypeOK
<1>5. Busy(r) = {} /\ Holding(r) = {} /\ \A q \in Request :
        Busy(q)' = Busy(q) /\ Holding(q)' = Holding(q)
  BY <1>2 DEF BatchInv, CountInv, Busy, Holding, At
<1>6. CountInv'
  BY <1>1, <1>2, <1>5 DEF BatchInv, CountInv
<1>7. WorldInv'
  <2>. SUFFICES ASSUME NEW q \in Request, reply'[q] = None,
                       NEW s \in DOMAIN body'[q]
                PROVE  /\ s \notin spoilt'[q] => held'[s].kind = "good"
                       /\ ~ reach'[s] => s \in away'[q]
    BY DEF WorldInv
  <2>1. CASE q = r
    BY <1>1, <1>2, <2>1
  <2>2. CASE q # r
    BY <1>1, <1>2, <2>2 DEF BatchInv, WorldInv
  <2>. QED  BY <2>1, <2>2
<1>8. ReplyInv'
  <2>1. ASSUME NEW q \in Request, reply'[q] # None
        PROVE  /\ q # r /\ reply'[q] = reply[q] /\ body'[q] = body[q]
               /\ spoilt'[q] = spoilt[q] /\ away'[q] = away[q]
               /\ short'[q] = short[q]
    BY <1>1, <1>2, <2>1
  <2>. SUFFICES ASSUME NEW q \in Request, reply'[q] # None
                PROVE  /\ \A s \in Server : results'[q][s] = Nothing
                       /\ \A s \in DOMAIN body'[q] :
                            /\ s \notin spoilt'[q] => s \in DOMAIN reply'[q]
                            /\ s \in DOMAIN reply'[q]
                                 => Suits(q, s, reply[q][s])'
    BY DEF ReplyInv
  <2>2. /\ q # r /\ reply'[q] = reply[q] /\ body'[q] = body[q]
        /\ spoilt'[q] = spoilt[q] /\ away'[q] = away[q]
        /\ short'[q] = short[q]
    BY <2>1
  <2>3. \A s, x : Suits(q, s, x) <=> Suits(q, s, x)'
    BY <2>2 DEF Suits, LongEnough
  <2>4. /\ \A s \in Server : results'[q][s] = Nothing
        /\ \A s \in DOMAIN body[q] :
             /\ s \notin spoilt[q] => s \in DOMAIN reply[q]
             /\ s \in DOMAIN reply[q] => Suits(q, s, reply[q][s])
    BY <1>2, <2>2 DEF BatchInv, ReplyInv
  <2>. QED  BY <2>2, <2>3, <2>4 DEF Suits
<1>9. ItemsInv'
  <2>. SUFFICES ASSUME NEW q \in Request, reply'[q] = None,
                       NEW s \in DOMAIN body'[q]
                PROVE  ItemInv(q, s)'
    BY DEF ItemsInv
  <2>1. CASE q # r
    <3>1. /\ reply'[q] = reply[q] /\ body'[q] = body[q] /\ todo'[q] = todo[q]
          /\ spoilt'[q] = spoilt[q] /\ away'[q] = away[q]
          /\ short'[q] = short[q]
      BY <1>1, <1>2, <2>1
    <3>. QED  BY <1>2, <3>1 DEF BatchInv, ItemsInv, ItemInv, Suits,
                 LongEnough, At
  <2>2. CASE q = r
    <3>1. s \in todo'[r] /\ s \in Server
      BY <1>1, <1>2, <1>3, <2>2
    <3>2. At(r, s, "none")'
      BY <1>5, <3>1, <1>2 DEF Busy, At
    <3>3. results'[r][s] = Nothing
      BY <1>2, <3>1 DEF BatchInv, ReplyInv
    <3>. QED  BY <2>2, <3>1, <3>2, <3>3, ServeBatchAssumption DEF ItemInv, At
  <2>. QED  BY <2>1, <2>2
<1>. QED  BY <1>4, <1>6, <1>7, <1>8, <1>9 DEF BatchInv

LEMMA BodyFits ==
  ASSUME TypeOK, NEW r \in Request
  PROVE  /\ DOMAIN body[r] \subseteq Server
         /\ \A s \in DOMAIN body[r] :
              body[r][s] \in SUBSET Nat /\ IsFiniteSet(body[r][s])
<1>1. body[r] \in Bodies
  BY DEF TypeOK
<1>2. PICK b : b = body[r]
  OBVIOUS
<1>3. CASE b = <<>>
  BY <1>2, <1>3
<1>4. CASE \E q \in Request : b \in Body[q]
  BY <1>2, <1>4, ServeBatchAssumption
<1>. QED  BY <1>1, <1>2, <1>3, <1>4 DEF Bodies

LEMMA SuitsStill ==
  ASSUME NEW r \in Request, NEW s, NEW rec, Suits(r, s, rec),
         body'[r] = body[r], spoilt[r] \subseteq spoilt'[r],
         away[r] \subseteq away'[r], short'[r][s] = short[r][s]
  PROVE  Suits(r, s, rec)'
BY DEF Suits, LongEnough

LEMMA ItemStill ==
  ASSUME NEW r \in Request, NEW s, ItemInv(r, s),
         UNCHANGED <<worker[r][s], results[r][s], body[r], short[r][s]>>,
         s \in todo'[r] <=> s \in todo[r],
         spoilt[r] \subseteq spoilt'[r], away[r] \subseteq away'[r]
  PROVE  ItemInv(r, s)'
<1>1. PICK w, x : w = worker[r][s] /\ x = results[r][s]
  OBVIOUS
<1>2. /\ Suits(r, s, w.got) => Suits(r, s, w.got)'
      /\ Suits(r, s, x) => Suits(r, s, x)'
  BY SuitsStill
<1>. QED  BY <1>1, <1>2 DEF ItemInv, At, Suits

(* Time and the origins move on.                                           *)
LEMMA WorldStep ==
  ASSUME BatchInv, NEW s \in Server, Age(s) \/ ComeOrGo(s)
  PROVE  BatchInv'
<1>1. /\ held \in [Server -> Record] /\ reach \in [Server -> BOOLEAN]
      /\ away \in [Request -> SUBSET Server]
      /\ Now \in Nat \ {0} /\ Longest \in Nat /\ MaxTurns \in Nat
      /\ turns \in 0..MaxTurns
  BY ServeBatchAssumption DEF BatchInv, TypeOK
<1>2. /\ UNCHANGED <<body, todo, wg, sem, worker, results, reply, faults,
                     spoilt, short>>
      /\ turns < MaxTurns /\ turns' = turns + 1
  BY DEF Age, ComeOrGo, batch, history
<1>3. /\ held' \in [Server -> Record] /\ reach' \in [Server -> BOOLEAN]
      /\ \A z \in Server : held'[z].kind = held[z].kind
  <2>1. CASE Age(s)
    <3>1. held' = [held EXCEPT ![s].valid = @ - 1] /\ reach' = reach
          /\ held[s].valid >= Now
      BY <2>1 DEF Age
    <3>2. held[s].valid - 1 \in 0..Longest
      <4>1. held[s].valid \in 0..Longest
        <5>1. held[s] \in Record
          BY <1>1
        <5>. QED  BY <5>1 DEF Record
      <4>. QED  BY <4>1, <1>1, <3>1
    <3>3. [held[s] EXCEPT !.valid = @ - 1] \in Record
      BY <1>1, <3>2 DEF Record
    <3>4. \A z \in Server :
            held'[z] = IF z = s THEN [held[s] EXCEPT !.valid = @ - 1]
                       ELSE held[z]
      BY <1>1, <3>1
    <3>. QED  BY <1>1, <3>1, <3>3, <3>4 DEF Record
  <2>2. CASE ComeOrGo(s)
    BY <1>1, <2>2 DEF ComeOrGo
  <2>. QED  BY <2>1, <2>2
<1>4. /\ away' \in [Request -> SUBSET Server]
      /\ \A r \in Request : away[r] \subseteq away'[r]
      /\ \A r \in Request : reply[r] = None => \A z \in DOMAIN body[r] :
           z \in Server /\ reach'[z] # reach[z] => z \in away'[r]
  <2>1. CASE Age(s)
    BY <1>1, <2>1 DEF Age, history
  <2>2. CASE ComeOrGo(s)
    <3>1. /\ reach' = [reach EXCEPT ![s] = ~ @] /\ away' = Noted(away, s)
      BY <2>2 DEF ComeOrGo
    <3>2. \A r \in Request :
            away'[r] = IF r \in Open(s) THEN away[r] \cup {s} ELSE away[r]
      BY <3>1 DEF Noted
    <3>3. away' = [r \in Request |-> away'[r]]
      BY <3>1 DEF Noted
    <3>4. \A z \in Server : reach'[z] # reach[z] => z = s
      BY <1>1, <3>1
    <3>. QED  BY <1>1, <3>2, <3>3, <3>4 DEF Open
  <2>. QED  BY <2>1, <2>2
<1>5. TypeOK'
  BY <1>1, <1>2, <1>3, <1>4 DEF BatchInv, TypeOK
<1>6. CountInv'
  BY <1>2, OtherCounts DEF BatchInv
<1>7. WorldInv'
  <2>1. \A r \in Request : DOMAIN body[r] \subseteq Server
    BY BodyFits DEF BatchInv
  <2>. QED  BY <1>1, <1>2, <1>3, <1>4, <2>1 DEF BatchInv, WorldInv
<1>8. ItemsInv'
  <2>. SUFFICES ASSUME NEW r \in Request, reply'[r] = None,
                       NEW z \in DOMAIN body'[r]
                PROVE  ItemInv(r, z)'
    BY DEF ItemsInv
  <2>1. ItemInv(r, z)
    BY <1>2 DEF BatchInv, ItemsInv
  <2>. QED  BY <1>2, <1>4, <2>1, ItemStill
<1>9. ReplyInv'
  <2>. SUFFICES ASSUME NEW r \in Request, reply'[r] # None
                PROVE  /\ \A z \in Server : results'[r][z] = Nothing
                       /\ \A z \in DOMAIN body'[r] :
                            /\ z \notin spoilt'[r] => z \in DOMAIN reply'[r]
                            /\ z \in DOMAIN reply'[r]
                                 => Suits(r, z, reply[r][z])'
    BY DEF ReplyInv
  <2>1. \A z, x : Suits(r, z, x) => Suits(r, z, x)'
    BY <1>2, <1>4, SuitsStill
  <2>. QED  BY <1>2, <2>1 DEF BatchInv, ReplyInv, Suits, LongEnough
<1>. QED  BY <1>5, <1>6, <1>7, <1>8, <1>9 DEF BatchInv

-----------------------------------------------------------------------------
(* The reply.                                                              *)

LEMMA ReplyStep ==
  ASSUME BatchInv, NEW r \in Request, Reply(r)
  PROVE  BatchInv'
<1>1. /\ results \in [Request -> [Server -> Result]]
      /\ reply \in [Request -> Replies]
      /\ DOMAIN body[r] \subseteq Server
  BY BodyFits DEF BatchInv, TypeOK
<1>2. /\ reply[r] = None /\ todo[r] = {} /\ wg[r] = 0
      /\ results' = [results EXCEPT ![r] = [s \in Server |-> Nothing]]
      /\ UNCHANGED <<held, reach, body, todo, wg, sem, worker, faults, turns,
                     spoilt, away, short>>
  BY DEF Reply, history
<1>3. PICK f : f = [s \in Answered(r) |-> results[r][s]]
  OBVIOUS
<1>4. reply' = [reply EXCEPT ![r] = f]
  BY <1>3 DEF Reply
<1>5. Answered(r) \in SUBSET Server
  BY <1>1 DEF Answered
<1>6. f \in [Answered(r) -> Result]
  BY <1>1, <1>3, <1>5
<1>7. f \in Replies /\ f # None
  <2>1. f # None
    BY <1>5, <1>6, ServeBatchAssumption
  <2>2. f \in UNION {[S -> Result] : S \in SUBSET Server}
    BY <1>5, <1>6
  <2>. QED  BY <2>1, <2>2 DEF Replies
<1>8. Busy(r) = {}
  BY <1>2, CountsAreFinite, FS_EmptySet DEF BatchInv, CountInv
<1>9. \A q \in Request : /\ reply'[q] = IF q = r THEN f ELSE reply[q]
                         /\ q # r => results'[q] = results[q]
  BY <1>1, <1>2, <1>4
<1>10. TypeOK'
  <2>1. [s \in Server |-> Nothing] \in [Server -> Result]
    BY DEF Result
  <2>2. results' \in [Request -> [Server -> Result]]
    BY <1>1, <1>2, <2>1
  <2>3. reply' \in [Request -> Replies]
    BY <1>1, <1>4, <1>7
  <2>. QED  BY <1>2, <2>2, <2>3 DEF BatchInv, TypeOK
<1>11. CountInv'
  <2>1. \A q \in Request : Busy(q)' = Busy(q) /\ Holding(q)' = Holding(q)
    BY <1>2 DEF Busy, Holding, At
  <2>. QED  BY <1>2, <1>8, <1>9, <2>1 DEF BatchInv, CountInv
<1>12. WorldInv'
  BY <1>2, <1>7, <1>9 DEF BatchInv, WorldInv
<1>13. ItemsInv'
  <2>. SUFFICES ASSUME NEW q \in Request, reply'[q] = None,
                       NEW s \in DOMAIN body'[q]
                PROVE  ItemInv(q, s)'
    BY DEF ItemsInv
  <2>1. q # r /\ reply[q] = None /\ results'[q] = results[q]
    BY <1>7, <1>9
  <2>2. ItemInv(q, s)
    BY <1>2, <2>1 DEF BatchInv, ItemsInv
  <2>. QED  BY <1>2, <2>1, <2>2, ItemStill
<1>14. ReplyInv'
  <2>. SUFFICES ASSUME NEW q \in Request, reply'[q] # None
                PROVE  /\ \A s \in Server : results'[q][s] = Nothing
                       /\ \A s \in DOMAIN body'[q] :
                            /\ s \notin spoilt'[q] => s \in DOMAIN reply'[q]
                            /\ s \in DOMAIN reply'[q]
                                 => Suits(q, s, reply[q][s])'
    BY DEF ReplyInv
  <2>1. \A s, x : Suits(q, s, x) => Suits(q, s, x)'
    BY <1>2, SuitsStill
  <2>2. CASE q # r
    <3>1. reply'[q] = reply[q] /\ results'[q] = results[q]
      BY <1>9, <2>2
    <3>2. \A s \in DOMAIN body[q] : s \in DOMAIN reply[q]
            => Suits(q, s, reply[q][s])'
      BY <2>1, <3>1 DEF BatchInv, ReplyInv
    <3>. QED  BY <1>2, <3>1, <3>2 DEF BatchInv, ReplyInv, Suits, LongEnough
  <2>3. CASE q = r
    <3>1. \A s \in DOMAIN body[r] :
            results[r][s] # Error => Suits(r, s, results[r][s])
      <4>. TAKE s \in DOMAIN body[r]
      <4>1. At(r, s, "none") /\ s \notin todo[r]
        BY <1>1, <1>2, <1>8 DEF Busy
      <4>2. results[r][s] # Nothing /\ results[r][s] \in Result /\ ItemInv(r, s)
        BY <1>1, <1>2, <4>1 DEF BatchInv, ItemsInv, ItemInv
      <4>. QED  BY <4>2 DEF ItemInv, Result
    <3>2. \A s \in DOMAIN body[r] : results[r][s] = Error => s \in spoilt[r]
      BY <1>2 DEF BatchInv, ItemsInv, ItemInv
    <3>3. /\ \A s \in DOMAIN body[r] : s \notin spoilt[r] => s \in Answered(r)
          /\ \A s \in Answered(r) : s \in DOMAIN body[r] /\ results[r][s] # Error
      BY <3>2 DEF Answered
    <3>4. DOMAIN f = Answered(r) /\ \A s \in Answered(r) : f[s] = results[r][s]
      BY <1>3
    <3>5. \A s \in Answered(r) : Suits(r, s, f[s])'
      BY <2>1, <2>3, <3>1, <3>3, <3>4
    <3>6. \A s \in Server : results'[r][s] = Nothing
      BY <1>1, <1>2
    <3>7. reply'[r] = f
      BY <1>9
    <3>. QED  BY <1>2, <2>3, <3>3, <3>4, <3>5, <3>6, <3>7
                 DEF Suits, LongEnough
  <2>. QED  BY <2>2, <2>3
<1>. QED  BY <1>10, <1>11, <1>12, <1>13, <1>14 DEF BatchInv

-----------------------------------------------------------------------------
(* The steps of a goroutine.                                               *)

LEMMA WorkTyped ==
  ASSUME TypeOK, CountInv, NEW r \in Request, NEW s \in Server,
         Work(r, s) \/ Fault(r, s)
  PROVE  TypeOK'
<1>1. /\ held \in [Server -> Record] /\ reach \in [Server -> BOOLEAN]
      /\ wg \in [Request -> Nat] /\ sem \in [Request -> 0..Slots]
      /\ worker \in [Request -> [Server -> Worker]]
      /\ results \in [Request -> [Server -> Result]]
      /\ faults \in 0..MaxFaults
  BY DEF TypeOK
<1>2. LocalTo(r, s) /\ CountInv'
  BY WorkIsLocal, CountStep
<1>3. /\ Longest \in Nat /\ MaxFaults \in Nat /\ Slots \in Nat
      /\ Offers[s] \subseteq 1..Longest
  BY ServeBatchAssumption
<1>4. held' \in [Server -> Record]
  <2>1. CASE UNCHANGED held
    BY <1>1, <2>1
  <2>2. ASSUME NEW rec \in Record, held' = [held EXCEPT ![s] = rec]
        PROVE  held' \in [Server -> Record]
    BY <1>1, <2>2
  <2>3. CASE Fetch(r, s)
    <3>1. \A v \in Offers[s] : [kind |-> "good", valid |-> v] \in Record
      BY <1>3 DEF Record
    <3>. QED  BY <2>1, <2>2, <2>3, <3>1 DEF Fetch
  <2>4. CASE StoreFails(r, s)
    <3>1. \A k \in {"bad", "bare"}, v \in Offers[s] :
            [kind |-> k, valid |-> v] \in Record
      BY <1>3 DEF Record
    <3>. QED  BY <2>2, <2>4, <3>1 DEF StoreFails
  <2>5. CASE Invalidate(r, s)
    <3>1. [kind |-> IF held[s].kind = "bare" THEN "bare" ELSE "bad",
           valid |-> 0] \in Record
      BY <1>3 DEF Record
    <3>. QED  BY <1>1, <2>2, <2>5, <3>1 DEF Invalidate
  <2>. QED  BY <2>1, <2>3, <2>4, <2>5
       DEF Work, Fault, Spawn, TakeSlot, Lookup, LookupFails, FetchNothing,
           Prepare, Refuse, PrepareFails, InvalidateFails, ReturnSlot
<1>5. reach' = reach /\ turns' = turns /\ faults' \in 0..MaxFaults
  BY <1>1, <1>3 DEF Work, Fault, Spawn, TakeSlot, Lookup, LookupFails, Fetch,
     FetchNothing, StoreFails, Prepare, Refuse, PrepareFails, Invalidate,
     InvalidateFails, ReturnSlot
<1>6. wg' \in [Request -> Nat]
  <2>1. \A q \in Request : wg'[q] \in Nat
    <3>. TAKE q \in Request
    <3>1. IsFiniteSet(Busy(q)')
      BY FS_Subset, ServeBatchAssumption DEF Busy
    <3>2. Cardinality(Busy(q)') \in Nat
      BY <3>1, FS_CardinalityType
    <3>. QED  BY <1>2, <3>2 DEF CountInv
  <2>2. wg' = [q \in Request |-> wg'[q]]
    BY <1>1 DEF Work, Fault, Spawn, TakeSlot, Lookup, LookupFails, Fetch,
       FetchNothing, StoreFails, Prepare, Refuse, PrepareFails, Invalidate,
       InvalidateFails, ReturnSlot
  <2>. QED  BY <2>1, <2>2
<1>7. sem' \in [Request -> 0..Slots]
  <2>1. \A q \in Request : sem'[q] \in Nat
    <3>. TAKE q \in Request
    <3>1. IsFiniteSet(Holding(q)')
      BY FS_Subset, ServeBatchAssumption DEF Holding
    <3>2. Cardinality(Holding(q)') \in Nat
      BY <3>1, FS_CardinalityType
    <3>. QED  BY <1>2, <3>2 DEF CountInv
  <2>2. CASE UNCHANGED sem
    BY <1>1, <2>2
  <2>3. CASE TakeSlot(r, s)
    <3>1. sem' = [sem EXCEPT ![r] = @ + 1] /\ sem[r] < Slots
      BY <2>3 DEF TakeSlot
    <3>. QED  BY <1>1, <1>3, <3>1
  <2>4. CASE ReturnSlot(r, s)
    <3>1. sem' = [sem EXCEPT ![r] = @ - 1]
      BY <2>4 DEF ReturnSlot
    <3>2. sem[r] - 1 \in 0..Slots
      BY <1>1, <1>3, <2>1, <3>1
    <3>. QED  BY <1>1, <3>1, <3>2
  <2>. QED  BY <2>2, <2>3, <2>4
       DEF Work, Fault, Spawn, Lookup, LookupFails, Fetch, FetchNothing,
           StoreFails, Prepare, Refuse, PrepareFails, Invalidate,
           InvalidateFails
<1>8. /\ worker' \in [Request -> [Server -> Worker]]
      /\ results' \in [Request -> [Server -> Result]]
  <2>1. PICK w \in Worker, x \in Result :
          worker' = [worker EXCEPT ![r][s] = w]
          /\ results' = [results EXCEPT ![r][s] = x]
    BY <1>2 DEF LocalTo
  <2>. QED  BY <1>1, <2>1
<1>. QED  BY <1>2, <1>4, <1>5, <1>6, <1>7, <1>8 DEF TypeOK, LocalTo

LEMMA Unanswered ==
  ASSUME CountInv, NEW r \in Request, NEW s \in Server,
         Work(r, s) \/ Fault(r, s)
  PROVE  reply[r] = None
<1>1. s \in todo[r] \/ s \in Busy(r)
  BY DEF Work, Fault, Spawn, TakeSlot, Lookup, LookupFails, Fetch,
     FetchNothing, StoreFails, Prepare, Refuse, PrepareFails, Invalidate,
     InvalidateFails, ReturnSlot, Busy, At
<1>. QED  BY <1>1 DEF CountInv

LEMMA WorldKept ==
  ASSUME TypeOK, WorldInv, NEW r \in Request, NEW s \in Server,
         Work(r, s) \/ Fault(r, s), LocalTo(r, s), UNCHANGED reach
  PROVE  WorldInv'
<1>1. /\ held \in [Server -> Record] /\ spoilt \in [Request -> SUBSET Server]
      /\ \A q \in Request : DOMAIN body[q] \subseteq Server
  BY BodyFits DEF TypeOK
<1>2. UNCHANGED held \/ Fetch(r, s) \/ StoreFails(r, s) \/ Invalidate(r, s)
  BY DEF Work, Fault, Spawn, TakeSlot, Lookup, LookupFails, FetchNothing,
     Prepare, Refuse, PrepareFails, InvalidateFails, ReturnSlot
<1>3. \A z \in Server : z # s => held'[z] = held[z]
  BY <1>1, <1>2 DEF Fetch, StoreFails, Invalidate
<1>4. \A q \in Request : reply[q] = None /\ s \in DOMAIN body[q] =>
        s \in spoilt'[q] \/ held'[s] = held[s] \/ held'[s].kind = "good"
  <2>1. CASE Fetch(r, s)
    BY <1>1, <2>1 DEF Fetch
  <2>2. CASE StoreFails(r, s) \/ Invalidate(r, s)
    <3>1. spoilt' = Noted(spoilt, s)
      BY <2>2 DEF StoreFails, Invalidate
    <3>. QED  BY <3>1 DEF Noted, Open
  <2>. QED  BY <1>2, <2>1, <2>2
<1>. SUFFICES ASSUME NEW q \in Request, reply'[q] = None,
                     NEW z \in DOMAIN body'[q]
              PROVE  /\ z \notin spoilt'[q] => held'[z].kind = "good"
                     /\ ~ reach'[z] => z \in away'[q]
  BY DEF WorldInv
<1>5. /\ reply[q] = None /\ spoilt[q] \subseteq spoilt'[q] /\ away' = away
      /\ z \in DOMAIN body[q] /\ z \in Server
  BY <1>1 DEF LocalTo
<1>6. /\ z \notin spoilt[q] => held[z].kind = "good"
      /\ ~ reach[z] => z \in away[q]
  BY <1>5 DEF WorldInv
<1>. QED  BY <1>3, <1>4, <1>5, <1>6

LEMMA OwnItem ==
  ASSUME BatchInv, NEW r \in Request, NEW s \in DOMAIN body[r],
         s \in Server, reply[r] = None,
         Work(r, s) \/ Fault(r, s), LocalTo(r, s)
  PROVE  ItemInv(r, s)'
<1>1. /\ worker \in [Request -> [Server -> Worker]]
      /\ results \in [Request -> [Server -> Result]]
      /\ held[s] \in Record /\ worker[r][s].got \in Record
      /\ spoilt \in [Request -> SUBSET Server]
      /\ short \in [Request -> [Server -> {Nothing} \cup 1..Longest]]
  BY DEF BatchInv, TypeOK, Worker
<1>2. /\ ItemInv(r, s)
      /\ s \notin spoilt[r] => held[s].kind = "good"
      /\ ~ reach[s] => s \in away[r]
  BY DEF BatchInv, ItemsInv, WorldInv
<1>3. /\ body' = body /\ away' = away /\ spoilt[r] \subseteq spoilt'[r]
      /\ short' = short =>
           \A x : Suits(r, s, x) => Suits(r, s, x)'
  <2>1. body' = body /\ away' = away /\ spoilt[r] \subseteq spoilt'[r]
    BY DEF LocalTo
  <2>. QED  BY <2>1, SuitsStill
<1>4. /\ Nothing \notin Record /\ Error \notin Record /\ Nothing # Error
      /\ Longest \in Nat /\ Now \in Nat /\ Offers[s] \subseteq 1..Longest
  BY ServeBatchAssumption
<1>20. At(r, s, "none") => s \in todo[r] \/ results[r][s] # Nothing
  BY <1>2 DEF ItemInv
<1>21. ASSUME worker[r][s].pc \in {"queued", "lookup", "fetch", "prepare",
                                    "refuse"} \/ s \in todo[r]
       PROVE  results[r][s] = Nothing
  <2>1. s \in todo[r] => worker[r][s].pc = "none"
    BY DEF BatchInv, CountInv, Busy, At
  <2>. QED  BY <1>2, <1>21, <2>1 DEF ItemInv, At
<1>5. ASSUME results' = results,
             \/ /\ worker'[r][s].pc = "none" /\ s \notin todo'[r]
                /\ results[r][s] # Nothing /\ short' = short
             \/ worker'[r][s].pc # "none" /\ results[r][s] = Nothing,
             \/ worker'[r][s].pc \in {"queued", "lookup", "none"}
             \/ /\ worker'[r][s].pc = "fetch"
                /\ s \notin spoilt[r] => worker'[r][s].got.kind = "good"
             \/ /\ worker'[r][s].pc = "prepare"
                /\ Suits(r, s, worker[r][s].got)'
             \/ worker'[r][s].pc = "refuse" /\ s \in spoilt[r]
      PROVE  ItemInv(r, s)'
  <2>1. CASE worker'[r][s].pc = "none"
    <3>1. results'[r][s] \in Record => Suits(r, s, results[r][s])'
      BY <1>2, <1>3, <1>5, <2>1 DEF ItemInv
    <3>. QED  BY <1>2, <1>3, <1>5, <2>1, <3>1 DEF ItemInv, At, Suits, LongEnough
  <2>2. CASE worker'[r][s].pc # "none"
    BY <1>1, <1>2, <1>3, <1>4, <1>5, <2>2 DEF ItemInv, At, Suits, LongEnough
  <2>. QED  BY <2>1, <2>2
<1>6. ASSUME NEW x, Leave(r, s, x), short' = short,
             (x = Error /\ s \in spoilt'[r]) \/ Suits(r, s, x)
      PROVE  ItemInv(r, s)'
  <2>1. worker'[r][s].pc = "leave" /\ results'[r][s] = x
    BY <1>1, <1>6 DEF Leave, Idle
  <2>2. x = Error \/ Suits(r, s, x)'
    BY <1>3, <1>6
  <2>3. x # Nothing
    BY <1>4, <1>6 DEF Suits
  <2>. QED  BY <1>4, <1>6, <2>1, <2>2, <2>3 DEF ItemInv, At, Suits, LongEnough
<1>7. CASE Spawn(r, s) \/ TakeSlot(r, s)
  <2>1. worker'[r][s].pc \in {"queued", "lookup"} /\ results' = results
    BY <1>1, <1>7 DEF Spawn, TakeSlot, Goto, Worker
  <2>2. results[r][s] = Nothing
    BY <1>7, <1>21 DEF Spawn, TakeSlot, At
  <2>. QED  BY <1>5, <2>1, <2>2
<1>8. CASE Lookup(r, s)
  <2>1. /\ worker'[r][s].pc = IF Fresh(held[s], MinValid(body[r][s]))
                              THEN "prepare" ELSE "fetch"
        /\ worker'[r][s].got = held[s] /\ results' = results
        /\ short' = short /\ results[r][s] = Nothing
    BY <1>1, <1>8, <1>21 DEF Lookup, At, history
  <2>2. ASSUME Fresh(held[s], MinValid(body[r][s]))
        PROVE  Suits(r, s, held[s])
    <3>1. /\ body[r][s] \in SUBSET Nat
          /\ MinValid(body[r][s]) \in Nat
          /\ \A q \in body[r][s] : MinValid(body[r][s]) >= q
      BY BodyFits, MinValidMeets DEF BatchInv
    <3>2. held[s].valid \in Int
      BY <1>1 DEF Record
    <3>3. Meets(held[s].valid, body[r][s])
      BY <1>4, <2>2, <3>1, <3>2 DEF Fresh, Meets
    <3>. QED  BY <1>1, <1>2, <3>3 DEF Suits, LongEnough
  <2>3. PICK h : h = held[s]
    OBVIOUS
  <2>4. Fresh(h, MinValid(body[r][s])) => Suits(r, s, h)'
    BY <1>3, <2>1, <2>2, <2>3
  <2>. QED  BY <1>2, <1>5, <2>1, <2>3, <2>4
<1>9. CASE LookupFails(r, s)
  <2>1. Leave(r, s, Error) /\ s \in spoilt'[r] /\ short' = short
    BY <1>1, <1>9 DEF LookupFails
  <2>. QED  BY <1>6, <2>1
<1>10. CASE Fetch(r, s)
  <2>1. PICK valid \in Offers[s] :
          /\ FetchKeeps(s, valid) \/ FetchStores(s, valid)
          /\ short' = [short EXCEPT ![r][s] =
               IF Meets(valid, body[r][s]) THEN Nothing ELSE valid]
    BY <1>10 DEF Fetch, FetchKeeps, FetchStores
  <2>2. PICK rec : rec = held'[s]
    OBVIOUS
  <2>3. /\ worker'[r][s].pc = "prepare" /\ worker'[r][s].got = rec
        /\ results' = results /\ results[r][s] = Nothing
        /\ spoilt' = spoilt
    BY <1>1, <1>10, <1>21, <2>2 DEF Fetch, At
  <2>4. /\ rec \in Record /\ valid \in Nat /\ rec.valid >= valid
        /\ s \notin spoilt[r] => rec.kind = "good"
    <3>1. CASE FetchKeeps(s, valid)
      <4>1. rec = held[s] /\ valid <= rec.valid
        BY <2>2, <3>1 DEF FetchKeeps
      <4>2. rec \in Record /\ rec.valid \in Nat
        BY <1>1, <4>1 DEF Record
      <4>. QED  BY <1>2, <1>4, <4>1, <4>2
    <3>2. CASE FetchStores(s, valid)
      <4>1. held' = [held EXCEPT ![s] = [kind |-> "good", valid |-> valid]]
        BY <3>2 DEF FetchStores
      <4>2. rec = [kind |-> "good", valid |-> valid]
        BY <1>2, <2>2, <4>1 DEF BatchInv, TypeOK
      <4>. QED  BY <1>4, <4>2 DEF Record
    <3>. QED  BY <2>1, <3>1, <3>2
  <2>5. rec.valid \in Int /\ body[r][s] \in SUBSET Nat
    <3>1. rec.valid \in Int
      BY <2>4 DEF Record
    <3>. QED  BY <3>1, BodyFits DEF BatchInv
  <2>6. /\ short'[r][s] = IF Meets(valid, body[r][s]) THEN Nothing ELSE valid
    BY <1>1, <2>1
  <2>7. LongEnough(r, s, rec)'
    <3>1. CASE Meets(valid, body[r][s])
      <4>1. Meets(rec.valid, body[r][s])
        BY <2>4, <2>5, <3>1, MeetsMore
      <4>. QED  BY <1>3, <4>1 DEF LongEnough, Meets
    <3>2. CASE ~ Meets(valid, body[r][s])
      <4>1. short'[r][s] = valid
        BY <2>6, <3>2
      <4>2. valid # Nothing
        BY ServeBatchAssumption
      <4>. QED  BY <2>4, <4>1, <4>2 DEF LongEnough
    <3>. QED  BY <3>1, <3>2
  <2>8. Suits(r, s, rec)'
    BY <2>3, <2>4, <2>7 DEF Suits
  <2>. QED  BY <1>5, <2>3, <2>8, <2>2
<1>11. CASE FetchNothing(r, s)
  <2>1. PICK rec : rec = worker[r][s].got
    OBVIOUS
  <2>2. /\ worker'[r][s].pc = "prepare" /\ worker'[r][s].got = rec
        /\ results' = results /\ At(r, s, "fetch") /\ ~ reach[s]
        /\ short' = short /\ results[r][s] = Nothing
    BY <1>1, <1>11, <1>21, <2>1 DEF FetchNothing, Goto, Worker, At, history
  <2>3. Suits(r, s, rec)
    BY <1>1, <1>2, <2>1, <2>2 DEF ItemInv, Suits
  <2>4. Suits(r, s, rec)'
    BY <1>3, <2>2, <2>3
  <2>. QED  BY <1>5, <2>1, <2>2, <2>4
<1>12. CASE StoreFails(r, s)
  <2>1. PICK rec : rec = worker[r][s].got
    OBVIOUS
  <2>2. /\ worker'[r][s].pc = "prepare" /\ worker'[r][s].got = rec
        /\ results' = results /\ results[r][s] = Nothing
    BY <1>1, <1>12, <1>21, <2>1 DEF StoreFails, Goto, Worker, At
  <2>3. s \in spoilt'[r]
    BY <1>1, <1>12 DEF StoreFails, Noted, Open
  <2>4. Suits(r, s, rec)'
    BY <1>1, <2>1, <2>3 DEF Suits
  <2>. QED  BY <1>5, <2>1, <2>2, <2>4
<1>13. CASE Prepare(r, s)
  <2>1. /\ Leave(r, s, worker[r][s].got) /\ At(r, s, "prepare")
        /\ short' = short
    BY <1>13 DEF Prepare, history
  <2>2. PICK rec : rec = worker[r][s].got
    OBVIOUS
  <2>3. Leave(r, s, rec) /\ Suits(r, s, rec)
    BY <1>2, <2>1, <2>2 DEF ItemInv
  <2>. QED  BY <1>6, <2>1, <2>3
<1>14. CASE Refuse(r, s)
  <2>1. s \in spoilt[r]
    BY <1>2, <1>14 DEF Refuse, ItemInv, Suits
  <2>2. worker'[r][s].pc = "refuse" /\ results' = results
        /\ results[r][s] = Nothing
    BY <1>1, <1>14, <1>21 DEF Refuse, Idle, At
  <2>. QED  BY <1>5, <2>1, <2>2
<1>15. CASE PrepareFails(r, s)
  <2>1. Leave(r, s, Error) /\ s \in spoilt'[r] /\ short' = short
    BY <1>1, <1>15 DEF PrepareFails
  <2>. QED  BY <1>6, <2>1
<1>16. CASE Invalidate(r, s) \/ InvalidateFails(r, s)
  <2>1. At(r, s, "refuse") /\ Leave(r, s, Error) /\ short' = short
    BY <1>16 DEF Invalidate, InvalidateFails, history
  <2>2. s \in spoilt'[r]
    BY <1>2, <1>3, <2>1 DEF ItemInv
  <2>. QED  BY <1>6, <2>1, <2>2
<1>17. CASE ReturnSlot(r, s)
  <2>1. /\ worker'[r][s].pc = "none" /\ results' = results
        /\ At(r, s, "leave") /\ short' = short /\ todo' = todo
    BY <1>1, <1>17 DEF ReturnSlot, Idle, history
  <2>2. s \notin todo[r]
    BY <2>1 DEF BatchInv, CountInv, Busy, At
  <2>. QED  BY <1>2, <1>5, <2>1, <2>2 DEF ItemInv
<1>. QED  BY <1>7, <1>8, <1>9, <1>10, <1>11, <1>12, <1>13, <1>14, <1>15, <1>16,
             <1>17 DEF Work, Fault

LEMMA WorkStep ==
  ASSUME BatchInv, NEW r \in Request, NEW s \in Server,
         Work(r, s) \/ Fault(r, s)
  PROVE  BatchInv'
<1>1. TypeOK' /\ CountInv' /\ LocalTo(r, s) /\ reply[r] = None
  BY WorkTyped, CountStep, WorkIsLocal, Unanswered DEF BatchInv
<1>2. reach' = reach
  BY DEF Work, Fault, Spawn, TakeSlot, Lookup, LookupFails, Fetch,
     FetchNothing, StoreFails, Prepare, Refuse, PrepareFails, Invalidate,
     InvalidateFails, ReturnSlot
<1>3. WorldInv'
  BY <1>1, <1>2, WorldKept DEF BatchInv
<1>4. /\ worker \in [Request -> [Server -> Worker]]
      /\ results \in [Request -> [Server -> Result]]
      /\ body' = body /\ reply' = reply /\ away' = away
  BY <1>1 DEF BatchInv, TypeOK, LocalTo
<1>5. PICK w, x : /\ worker' = [worker EXCEPT ![r][s] = w]
                  /\ results' = [results EXCEPT ![r][s] = x]
  BY <1>1 DEF LocalTo
<1>6. \A q \in Request, z \in Server : q # r \/ z # s =>
        worker'[q][z] = worker[q][z] /\ results'[q][z] = results[q][z]
  BY <1>4, <1>5
<1>7. ItemsInv'
  <2>. SUFFICES ASSUME NEW q \in Request, reply'[q] = None,
                       NEW z \in DOMAIN body'[q]
                PROVE  ItemInv(q, z)'
    BY DEF ItemsInv
  <2>1. reply[q] = None /\ z \in DOMAIN body[q] /\ z \in Server
    BY <1>4, BodyFits DEF BatchInv
  <2>2. CASE q = r /\ z = s
    BY <1>1, <2>1, <2>2, OwnItem
  <2>3. CASE q # r \/ z # s
    <3>1. ItemInv(q, z)
      BY <2>1 DEF BatchInv, ItemsInv
    <3>2. UNCHANGED <<worker[q][z], results[q][z], body[q], short[q][z]>>
      BY <1>1, <1>4, <1>6, <2>1, <2>3 DEF LocalTo
    <3>3. /\ z \in todo'[q] <=> z \in todo[q]
          /\ spoilt[q] \subseteq spoilt'[q] /\ away[q] \subseteq away'[q]
      BY <1>1, <1>4, <2>1, <2>3 DEF LocalTo
    <3>. QED  BY <3>1, <3>2, <3>3, ItemStill
  <2>. QED  BY <2>2, <2>3
<1>8. ReplyInv'
  <2>. SUFFICES ASSUME NEW q \in Request, reply'[q] # None
                PROVE  /\ \A z \in Server : results'[q][z] = Nothing
                       /\ \A z \in DOMAIN body'[q] :
                            /\ z \notin spoilt'[q] => z \in DOMAIN reply'[q]
                            /\ z \in DOMAIN reply'[q]
                                 => Suits(q, z, reply[q][z])'
    BY DEF ReplyInv
  <2>1. reply[q] # None /\ q # r /\ spoilt[q] \subseteq spoilt'[q]
    BY <1>1, <1>4 DEF LocalTo
  <2>2. \A z \in Server : \A y : Suits(q, z, y) => Suits(q, z, y)'
    <3>1. \A z \in Server : short'[q][z] = short[q][z]
      BY <1>1, <2>1 DEF LocalTo
    <3>. QED  BY <1>4, <2>1, <3>1, SuitsStill
  <2>3. \A z \in DOMAIN body[q] : z \in DOMAIN reply[q]
          => Suits(q, z, reply[q][z])'
    BY <1>4, <2>1, <2>2, BodyFits DEF BatchInv, ReplyInv
  <2>4. \A z \in Server : results'[q][z] = Nothing
    BY <1>6, <2>1 DEF BatchInv, ReplyInv
  <2>. QED  BY <1>4, <2>1, <2>3, <2>4
            DEF BatchInv, ReplyInv, Suits, LongEnough
<1>. QED  BY <1>1, <1>3, <1>7, <1>8 DEF BatchInv

-----------------------------------------------------------------------------
LEMMA BatchInit == Init => BatchInv
<1>. SUFFICES ASSUME Init PROVE BatchInv
  OBVIOUS
<1>1. Idle \in Worker /\ NoRecord \in Record
  BY ServeBatchAssumption DEF Idle, Worker, NoRecord, Record
<1>2. <<>> \in Bodies
  BY DEF Bodies
<1>3. <<>> \in Replies /\ <<>> # None
  <2>1. <<>> \in [{} -> Result]
    OBVIOUS
  <2>2. {} \in SUBSET Server
    OBVIOUS
  <2>3. <<>> \in UNION {[S -> Result] : S \in SUBSET Server}
    BY <2>1, <2>2
  <2>. QED  BY <2>1, <2>2, <2>3, ServeBatchAssumption DEF Replies
<1>4. TypeOK
  <2>1. held \in [Server -> Record]
    BY ServeBatchAssumption DEF Init
  <2>2. body \in [Request -> Bodies] /\ reply \in [Request -> Replies]
    BY <1>2, <1>3 DEF Init
  <2>3. worker \in [Request -> [Server -> Worker]]
    BY <1>1 DEF Init
  <2>4. results \in [Request -> [Server -> Result]]
    BY DEF Init, Result
  <2>. QED  BY <2>1, <2>2, <2>3, <2>4, ServeBatchAssumption DEF Init, TypeOK
<1>5. \A r \in Request : Busy(r) = {} /\ Holding(r) = {}
  BY DEF Init, Busy, Holding, At, Idle
<1>6. CountInv
  BY <1>5, FS_EmptySet DEF Init, CountInv
<1>7. \A r \in Request : reply[r] # None
  BY <1>3 DEF Init
<1>8. WorldInv /\ ItemsInv
  BY <1>7 DEF WorldInv, ItemsInv
<1>9. \A r \in Request : DOMAIN body[r] = {}
  BY DEF Init
<1>10. ReplyInv
  BY <1>9 DEF Init, ReplyInv
<1>. QED  BY <1>4, <1>6, <1>8, <1>10 DEF BatchInv

LEMMA BatchInduction == Spec => []BatchInv
<1>1. ASSUME BatchInv, [Next]_vars PROVE BatchInv'
  <2>1. CASE UNCHANGED vars
    <3>1. TypeOK' /\ CountInv' /\ WorldInv'
      BY <1>1, <2>1, OtherCounts
         DEF vars, batch, history, BatchInv, TypeOK, WorldInv
    <3>2. ItemsInv' /\ ReplyInv'
      BY <1>1, <2>1 DEF vars, batch, history, BatchInv, ItemsInv, ReplyInv,
         ItemInv, Suits, LongEnough, At
    <3>. QED  BY <3>1, <3>2 DEF BatchInv
  <2>. QED  BY <1>1, <2>1, ReceiveStep, ReplyStep, WorkStep, WorldStep DEF Next
<1>. QED  BY <1>1, BatchInit, PTL DEF Spec

(* The types; among them that no more slots are taken than the semaphore   *)
(* has, and none is given back twice (src/api/keys_v2/query.go:122).       *)
THEOREM TypeCorrect == Spec => []TypeOK
<1>1. BatchInv => TypeOK
  BY DEF BatchInv
<1>. QED  BY <1>1, BatchInduction, PTL

(* When the reply is out every goroutine of the batch has returned         *)
(* (src/api/keys_v2/query.go:134).                                         *)
THEOREM RepliesComeLast == Spec => []NothingRunsOn
<1>1. BatchInv => NothingRunsOn
  BY DEF BatchInv, CountInv, NothingRunsOn, Busy
<1>. QED  BY <1>1, BatchInduction, PTL

(* Every server of a batch is answered for unless something failed for it  *)
(* itself (src/api/keys_v2/query.go:136).                                  *)
THEOREM HarmIsOnesOwn == Spec => []OthersAreUnharmed
<1>1. BatchInv => OthersAreUnharmed
  BY DEF BatchInv, ReplyInv, OthersAreUnharmed, Suits
<1>. QED  BY <1>1, BatchInduction, PTL

(* The answer for a server meets every criterion the request has for it,   *)
(* or is the best that a source answered with when it was asked, whatever  *)
(* validities the sources answer with (src/api/keys_v2/query.go:93).       *)
THEOREM CriteriaMet == Spec => []EveryCriterionIsMet
<1>1. BatchInv => EveryCriterionIsMet
  BY DEF BatchInv, ReplyInv, EveryCriterionIsMet, Suits, LongEnough
<1>. QED  BY <1>1, BatchInduction, PTL

(* Slots are held by goroutines that go on and give them back, so a        *)
(* goroutine that waits for one never waits in vain, with any number of    *)
(* slots (src/api/keys_v2/query.go:128).                                   *)
THEOREM NoBatchBlocksItself == Spec => []SomeoneMoves
<1>1. ASSUME BatchInv PROVE SomeoneMoves
  <2>. SUFFICES ASSUME NEW r \in Request, wg[r] # 0,
                       \A s \in Server : worker[r][s].pc \in {"none", "queued"}
                PROVE  \E s \in Server : At(r, s, "queued") /\ sem[r] < Slots
    BY DEF SomeoneMoves
  <2>1. Busy(r) # {} /\ Holding(r) = {}
    BY <1>1, FS_EmptySet DEF BatchInv, CountInv, Holding, At
  <2>2. sem[r] = 0
    BY <1>1, <2>1, FS_EmptySet DEF BatchInv, CountInv
  <2>3. PICK s \in Server : At(r, s, "queued")
    BY <2>1 DEF Busy, At
  <2>. QED  BY <2>2, <2>3, ServeBatchAssumption
<1>. QED  BY <1>1, BatchInduction, PTL

-----------------------------------------------------------------------------
(* A batch implements Gather.  While a lookup can still find something,    *)
(* its server is one that its request asks for and has no result.          *)
OpenInv ==
  \A r \in Request, s \in Server :
    s \in todo[r] \/ worker[r][s].pc \notin {"none", "leave"} =>
      s \in DOMAIN body[r] /\ results[r][s] = Nothing

LEMMA OpenStep ==
  ASSUME BatchInv, OpenInv, [Next]_vars
  PROVE  OpenInv'
<1>1. /\ worker \in [Request -> [Server -> Worker]]
      /\ results \in [Request -> [Server -> Result]]
      /\ todo \in [Request -> SUBSET Server]
      /\ body \in [Request -> Bodies]
  BY DEF BatchInv, TypeOK
<1>2. CASE UNCHANGED <<body, todo, worker, results>>
  BY <1>2 DEF OpenInv
<1>3. ASSUME NEW r \in Request, NEW b \in Body[r], Receive(r, b)
      PROVE  OpenInv'
  <2>1. /\ reply[r] # None
        /\ body' = [body EXCEPT ![r] = b]
        /\ todo' = [todo EXCEPT ![r] = DOMAIN b]
        /\ worker' = worker /\ results' = results
    BY <1>3 DEF Receive
  <2>2. Busy(r) = {} /\ \A s \in Server : results[r][s] = Nothing
    BY <2>1 DEF BatchInv, CountInv, ReplyInv
  <2>3. \A s \in Server : worker[r][s].pc = "none"
    BY <2>2 DEF Busy, At
  <2>. QED  BY <1>1, <2>1, <2>2, <2>3 DEF OpenInv
<1>4. ASSUME NEW r \in Request, Reply(r)
      PROVE  OpenInv'
  <2>1. /\ todo[r] = {} /\ wg[r] = 0
        /\ results' = [results EXCEPT ![r] = [s \in Server |-> Nothing]]
        /\ UNCHANGED <<body, todo, worker>>
    BY <1>4 DEF Reply
  <2>2. Busy(r) = {}
    BY <2>1, CountsAreFinite, FS_EmptySet DEF BatchInv, CountInv
  <2>3. \A s \in Server : worker[r][s].pc = "none"
    BY <2>2 DEF Busy, At
  <2>. QED  BY <1>1, <2>1, <2>3 DEF OpenInv
<1>5. ASSUME NEW r \in Request, NEW s \in Server, Work(r, s) \/ Fault(r, s)
      PROVE  OpenInv'
  <2>1. LocalTo(r, s)
    BY <1>5, WorkIsLocal DEF BatchInv
  <2>2. PICK w, x : /\ worker' = [worker EXCEPT ![r][s] = w]
                    /\ results' = [results EXCEPT ![r][s] = x]
    BY <2>1 DEF LocalTo
  <2>3. \A q \in Request, z \in Server : q # r \/ z # s =>
          /\ worker'[q][z] = worker[q][z] /\ results'[q][z] = results[q][z]
          /\ z \in todo'[q] <=> z \in todo[q]
    BY <1>1, <2>1, <2>2 DEF LocalTo
  <2>4. \/ s \notin todo'[r] /\ worker'[r][s].pc \in {"none", "leave"}
        \/ /\ s \in todo[r] \/ worker[r][s].pc \notin {"none", "leave"}
           /\ results'[r][s] = results[r][s]
    <3>1. s \in todo[r] => worker[r][s].pc = "none"
      BY DEF BatchInv, CountInv, Busy, At
    <3>2. CASE Spawn(r, s) \/ TakeSlot(r, s) \/ Lookup(r, s) \/ Fetch(r, s)
               \/ FetchNothing(r, s) \/ StoreFails(r, s) \/ Refuse(r, s)
      BY <1>1, <3>2 DEF Spawn, TakeSlot, Lookup, Fetch, FetchNothing,
         StoreFails, Refuse, At
    <3>3. CASE LookupFails(r, s) \/ Prepare(r, s) \/ PrepareFails(r, s)
               \/ Invalidate(r, s) \/ InvalidateFails(r, s)
      BY <1>1, <3>1, <3>3 DEF LookupFails, Prepare, PrepareFails, Invalidate,
         InvalidateFails, Leave, Idle, At
    <3>4. CASE ReturnSlot(r, s)
      BY <1>1, <3>1, <3>4 DEF ReturnSlot, Idle, At
    <3>. QED  BY <1>5, <3>2, <3>3, <3>4 DEF Work, Fault
  <2>5. body' = body
    BY <2>1 DEF LocalTo
  <2>. QED  BY <1>1, <2>3, <2>4, <2>5 DEF OpenInv
<1>6. ASSUME NEW s \in Server, Age(s) \/ ComeOrGo(s)
      PROVE  UNCHANGED <<body, todo, worker, results>>
  BY <1>6 DEF Age, ComeOrGo, batch
<1>7. CASE UNCHANGED vars
  BY <1>2, <1>7 DEF vars, batch
<1>. QED  BY <1>2, <1>3, <1>4, <1>5, <1>6, <1>7 DEF Next

(* What each variable of Gather stands for.                                *)
Bad == {rec \in Record : rec.kind = "bad"}
askedBar == [r \in Request |-> DOMAIN body[r]]
handBar == [r \in Request |-> [s \in Server |-> InHand(r, s)]]

(* A goroutine that moves changes its own hand alone.                      *)
LEMMA HandMoves ==
  ASSUME TypeOK, NEW r \in Request, NEW s \in Server, LocalTo(r, s)
  PROVE  /\ handBar' = [handBar EXCEPT ![r][s] = InHand(r, s)']
         /\ InHand(r, s)' = InHand(r, s) => handBar' = handBar
<1>1. worker \in [Request -> [Server -> Worker]]
  BY DEF TypeOK
<1>2. PICK w : worker' = [worker EXCEPT ![r][s] = w]
  BY DEF LocalTo
<1>3. \A q \in Request, z \in Server : q # r \/ z # s =>
        worker'[q][z] = worker[q][z]
  BY <1>1, <1>2
<1>4. \A q \in Request, z \in Server : q # r \/ z # s =>
        InHand(q, z)' = InHand(q, z)
  BY <1>3 DEF InHand
<1>. QED  BY <1>4 DEF handBar

(* Each step of a goroutine is one of its lookup, a change of what is      *)
(* held, or none at all.                                                   *)
LEMMA WorkPromised ==
  ASSUME BatchInv, OpenInv, NEW r \in Request, NEW s \in Server,
         Work(r, s) \/ Fault(r, s)
  PROVE  \/ Promise!Drift(s) \/ Promise!Take(r, s) \/ Promise!Refuse(r, s)
         \/ Promise!Settle(r, s) \/ Promise!Fail(r, s)
         \/ UNCHANGED <<held, askedBar, handBar, results, reply>>
<1>1. /\ worker \in [Request -> [Server -> Worker]]
      /\ results \in [Request -> [Server -> Result]]
      /\ held \in [Server -> Record]
      /\ worker[r][s].got \in Record
      /\ Longest \in Nat /\ Offers[s] \subseteq 1..Longest
  BY ServeBatchAssumption DEF BatchInv, TypeOK, Worker
<1>2. LocalTo(r, s) /\ reply[r] = None
  BY WorkIsLocal, Unanswered DEF BatchInv
<1>3. UNCHANGED <<askedBar, reply>>
  BY <1>2 DEF LocalTo, askedBar
<1>4. /\ handBar' = [handBar EXCEPT ![r][s] = InHand(r, s)']
      /\ InHand(r, s)' = InHand(r, s) => handBar' = handBar
      /\ handBar[r][s] = InHand(r, s)
      /\ askedBar[r] = DOMAIN body[r]
  BY <1>2, HandMoves DEF BatchInv, handBar, askedBar
<1>5. ASSUME worker[r][s].pc \notin {"none", "leave"}
      PROVE  Promise!Open(r, s)
  BY <1>2, <1>4, <1>5 DEF OpenInv, Promise!Open, askedBar
<1>6. ASSUME UNCHANGED held PROVE Promise!Change(s)
  BY <1>1, <1>6 DEF Promise!Change
<1>7. ASSUME NEW rec \in Record, held' = [held EXCEPT ![s] = rec]
      PROVE  Promise!Change(s) /\ held'[s] = rec
  BY <1>1, <1>7 DEF Promise!Change
<1>8. ASSUME NEW x, Leave(r, s, x)
      PROVE  /\ InHand(r, s)' = Nothing
             /\ results' = [results EXCEPT ![r][s] = x]
  BY <1>1, <1>8 DEF Leave, Idle, InHand
<1>9. CASE Spawn(r, s) \/ TakeSlot(r, s) \/ ReturnSlot(r, s)
  <2>1. /\ worker[r][s].pc \notin {"fetch", "prepare"}
        /\ worker'[r][s].pc \notin {"fetch", "prepare"}
        /\ UNCHANGED <<held, results>>
    <3>1. s \in todo[r] => worker[r][s].pc = "none"
      BY DEF BatchInv, CountInv, Busy, At
    <3>. QED  BY <1>1, <1>9, <3>1 DEF Spawn, TakeSlot, ReturnSlot, Goto, Idle,
                 At, Worker
  <2>2. InHand(r, s)' = InHand(r, s)
    BY <2>1 DEF InHand
  <2>. QED  BY <1>3, <1>4, <2>1, <2>2
<1>10. CASE Lookup(r, s)
  <2>1. /\ worker[r][s].pc = "lookup"
        /\ worker'[r][s].pc \in {"fetch", "prepare"}
        /\ worker'[r][s].got = held[s]
        /\ UNCHANGED <<held, results>>
    BY <1>1, <1>10 DEF Lookup, At
  <2>2. InHand(r, s)' = held'[s]
    BY <2>1 DEF InHand
  <2>3. Promise!Take(r, s)
    BY <1>3, <1>4, <1>5, <1>6, <2>1, <2>2
       DEF Promise!Take, askedBar, handBar
  <2>. QED  BY <2>3
<1>11. CASE Fetch(r, s)
  <2>1. PICK valid \in Offers[s] :
          FetchKeeps(s, valid) \/ FetchStores(s, valid)
    BY <1>11 DEF Fetch, FetchKeeps, FetchStores
  <2>2. /\ worker[r][s].pc = "fetch" /\ worker'[r][s].pc = "prepare"
        /\ worker'[r][s].got = held'[s] /\ UNCHANGED results
    BY <1>1, <1>11 DEF Fetch, At
  <2>3. InHand(r, s)' = held'[s] /\ Promise!Change(s)
    <3>1. [kind |-> "good", valid |-> valid] \in Record
      BY <1>1 DEF Record
    <3>2. Promise!Change(s)
      BY <1>6, <1>7, <2>1, <3>1 DEF FetchKeeps, FetchStores
    <3>. QED  BY <2>2, <3>2 DEF InHand
  <2>4. Promise!Take(r, s)
    BY <1>3, <1>4, <1>5, <2>2, <2>3 DEF Promise!Take, askedBar, handBar
  <2>. QED  BY <2>4
<1>12. CASE FetchNothing(r, s) \/ StoreFails(r, s)
  <2>1. /\ worker[r][s].pc = "fetch" /\ worker'[r][s].pc = "prepare"
        /\ worker'[r][s].got = worker[r][s].got
        /\ UNCHANGED results
    <3>1. worker[r][s].pc = "fetch" /\ Goto(r, s, "prepare")
          /\ UNCHANGED results
      BY <1>12 DEF FetchNothing, StoreFails, At
    <3>2. /\ worker'[r][s].pc = "prepare"
          /\ worker'[r][s].got = worker[r][s].got
      BY <1>1, <3>1 DEF Goto, Worker
    <3>. QED  BY <3>1, <3>2
  <2>2. InHand(r, s)' = InHand(r, s)
    BY <2>1 DEF InHand
  <2>3. UNCHANGED <<askedBar, handBar, results, reply>>
    BY <1>3, <1>4, <2>1, <2>2
  <2>4. CASE FetchNothing(r, s)
    BY <2>3, <2>4 DEF FetchNothing
  <2>5. CASE StoreFails(r, s)
    <3>1. PICK kind \in {"bad", "bare"}, v \in Offers[s] :
            held' = [held EXCEPT ![s] = [kind |-> kind, valid |-> v]]
      BY <2>5 DEF StoreFails
    <3>2. [kind |-> kind, valid |-> v] \in Record
      BY <1>1 DEF Record
    <3>3. Promise!Change(s)
      BY <1>7, <3>1, <3>2
    <3>. QED  BY <2>3, <3>3 DEF Promise!Drift, askedBar, handBar
  <2>. QED  BY <1>12, <2>4, <2>5
<1>13. CASE Prepare(r, s)
  <2>1. /\ worker[r][s].pc = "prepare" /\ worker[r][s].got.kind # "bad"
        /\ Leave(r, s, worker[r][s].got) /\ UNCHANGED held
    BY <1>13 DEF Prepare, At
  <2>2. InHand(r, s) = worker[r][s].got
    BY <2>1 DEF InHand
  <2>3. InHand(r, s)' = Nothing /\ InHand(r, s) \in Record \ Bad
        /\ results' = [results EXCEPT ![r][s] = InHand(r, s)]
    BY <1>1, <1>8, <2>1, <2>2 DEF Bad
  <2>4. Promise!Settle(r, s)
    BY <1>3, <1>4, <1>5, <2>1, <2>3 DEF Promise!Settle, askedBar, handBar, Bad
  <2>. QED  BY <2>4
<1>14. CASE Refuse(r, s)
  <2>1. /\ worker[r][s].pc = "prepare" /\ worker[r][s].got.kind = "bad"
        /\ worker'[r][s].pc = "refuse"
        /\ UNCHANGED <<held, results>>
    BY <1>1, <1>14 DEF Refuse, At, Idle
  <2>2. InHand(r, s) \in Bad /\ InHand(r, s)' = Nothing
    BY <1>1, <2>1 DEF InHand, Bad
  <2>3. Promise!Refuse(r, s)
    BY <1>3, <1>4, <1>5, <2>1, <2>2 DEF Promise!Refuse, askedBar, handBar, Bad
  <2>. QED  BY <2>3
<1>15. CASE LookupFails(r, s) \/ PrepareFails(r, s) \/ Invalidate(r, s)
            \/ InvalidateFails(r, s)
  <2>1. /\ worker[r][s].pc \notin {"none", "leave"} /\ Leave(r, s, Error)
    BY <1>15 DEF LookupFails, PrepareFails, Invalidate, InvalidateFails, At
  <2>2. Promise!Change(s)
    <3>1. CASE Invalidate(r, s)
      <4>1. PICK rec : rec = [kind |-> IF held[s].kind = "bare" THEN "bare"
                                       ELSE "bad", valid |-> 0]
        OBVIOUS
      <4>2. rec \in Record
        BY <1>1, <4>1 DEF Record
      <4>3. held' = [held EXCEPT ![s] = rec]
        BY <1>1, <3>1, <4>1 DEF Invalidate
      <4>. QED  BY <1>7, <4>2, <4>3
    <3>2. CASE UNCHANGED held
      BY <1>6, <3>2
    <3>. QED  BY <1>15, <3>1, <3>2 DEF LookupFails, PrepareFails,
                 InvalidateFails
  <2>3. Promise!Fail(r, s)
    BY <1>3, <1>4, <1>5, <1>8, <2>1, <2>2
       DEF Promise!Fail, askedBar, handBar
  <2>. QED  BY <2>3
<1>. QED  BY <1>9, <1>10, <1>11, <1>12, <1>13, <1>14, <1>15 DEF Work, Fault

(* A request asks for the servers of its body; the reply answers with all  *)
(* that was found.                                                         *)
LEMMA AskPromised ==
  ASSUME BatchInv, NEW r \in Request, NEW b \in Body[r], Receive(r, b)
  PROVE  DOMAIN b \in SUBSET Server /\ Promise!Ask(r, DOMAIN b)
<1>1. body \in [Request -> Bodies]
  BY DEF BatchInv, TypeOK
<1>2. /\ reply[r] # None
      /\ body' = [body EXCEPT ![r] = b]
      /\ reply' = [reply EXCEPT ![r] = None]
      /\ UNCHANGED <<held, worker, results>>
  BY DEF Receive
<1>3. askedBar' = [askedBar EXCEPT ![r] = DOMAIN b]
  BY <1>1, <1>2 DEF askedBar
<1>4. handBar' = handBar
  BY <1>2 DEF handBar, InHand
<1>5. DOMAIN b \in SUBSET Server
  BY ServeBatchAssumption
<1>. QED  BY <1>2, <1>3, <1>4, <1>5 DEF Promise!Ask, askedBar, handBar

LEMMA AnswerPromised ==
  ASSUME BatchInv, NEW r \in Request, Reply(r)
  PROVE  Promise!Answer(r)
<1>1. /\ reply[r] = None /\ todo[r] = {} /\ wg[r] = 0
      /\ reply' = [reply EXCEPT ![r] = [s \in Answered(r) |-> results[r][s]]]
      /\ results' = [results EXCEPT ![r] = [s \in Server |-> Nothing]]
      /\ UNCHANGED <<held, body, worker>>
  BY DEF Reply
<1>2. Busy(r) = {} /\ DOMAIN body[r] \subseteq Server
  BY <1>1, CountsAreFinite, FS_EmptySet, BodyFits DEF BatchInv, CountInv
<1>3. \A s \in askedBar[r] : results[r][s] # Nothing
  BY <1>1, <1>2 DEF BatchInv, ItemsInv, ItemInv, Busy, askedBar
<1>4. Answered(r) = {z \in askedBar[r] : results[r][z] # Error}
  BY DEF Answered, askedBar
<1>5. UNCHANGED <<askedBar, handBar>>
  BY <1>1 DEF askedBar, handBar, InHand
<1>. QED  BY <1>1, <1>3, <1>4, <1>5 DEF Promise!Answer, askedBar, handBar

LEMMA WorldPromised ==
  ASSUME BatchInv, NEW s \in Server, Age(s) \/ ComeOrGo(s)
  PROVE  Promise!Drift(s)
<1>1. /\ held \in [Server -> Record] /\ held[s] \in Record
      /\ Now \in Nat \ {0} /\ Longest \in Nat
  BY ServeBatchAssumption DEF BatchInv, TypeOK
<1>2. UNCHANGED <<body, worker, results, reply>>
  BY DEF Age, ComeOrGo, batch
<1>3. UNCHANGED <<askedBar, handBar>>
  BY <1>2 DEF askedBar, handBar, InHand
<1>4. Promise!Change(s)
  <2>1. CASE Age(s)
    <3>1. PICK rec : rec = [held[s] EXCEPT !.valid = @ - 1]
      OBVIOUS
    <3>2. rec \in Record
      BY <1>1, <2>1, <3>1 DEF Age, Record
    <3>3. held' = [held EXCEPT ![s] = rec]
      BY <1>1, <2>1, <3>1 DEF Age
    <3>. QED  BY <1>1, <3>2, <3>3 DEF Promise!Change
  <2>2. CASE ComeOrGo(s)
    BY <1>1, <2>2 DEF ComeOrGo, Promise!Change
  <2>. QED  BY <2>1, <2>2
<1>. QED  BY <1>2, <1>3, <1>4 DEF Promise!Drift, askedBar, handBar

(* For any number of requests, servers and slots, and whatever fails: each *)
(* reply is put together from one lookup per server, of a record that      *)
(* verified and was held since the request came in                         *)
(* (src/api/keys_v2/query.go:117).                                         *)
THEOREM ImplementsGather == Spec => BatchPromise
<1>1. Init => OpenInv /\ Promise!GInit
  <2>. SUFFICES ASSUME Init PROVE OpenInv /\ Promise!GInit
    OBVIOUS
  <2>1. held \in [Server -> Record]
    BY ServeBatchAssumption DEF Init
  <2>2. /\ \A r \in Request : todo[r] = {} /\ DOMAIN body[r] = {}
        /\ \A r \in Request, s \in Server : worker[r][s].pc = "none"
    BY DEF Init, Idle
  <2>3. \A r \in Request, s \in Server : InHand(r, s) = Nothing
    BY <2>2 DEF InHand
  <2>4. askedBar = [r \in Request |-> {}]
        /\ handBar = [r \in Request |-> [s \in Server |-> Nothing]]
    BY <2>2, <2>3 DEF askedBar, handBar
  <2>5. Promise!GInit
    BY <2>1, <2>4 DEF Init, Promise!GInit, askedBar, handBar
  <2>. QED  BY <2>2, <2>5 DEF OpenInv
<1>2. ASSUME BatchInv, OpenInv, [Next]_vars
      PROVE  [Promise!GNext]_(Promise!gvars)
  <2>1. CASE UNCHANGED vars
    BY <2>1 DEF vars, batch, Promise!gvars, InHand
  <2>2. ASSUME NEW r \in Request, NEW s \in Server, Work(r, s) \/ Fault(r, s)
        PROVE  [Promise!GNext]_(Promise!gvars)
    BY <1>2, <2>2, WorkPromised
       DEF Promise!GNext, Promise!gvars, askedBar, handBar
  <2>3. ASSUME NEW r \in Request, NEW b \in Body[r], Receive(r, b)
        PROVE  Promise!GNext
    BY <1>2, <2>3, AskPromised DEF Promise!GNext
  <2>4. ASSUME NEW r \in Request, Reply(r)
        PROVE  Promise!GNext
    BY <1>2, <2>4, AnswerPromised DEF Promise!GNext
  <2>5. ASSUME NEW s \in Server, Age(s) \/ ComeOrGo(s)
        PROVE  Promise!GNext
    BY <1>2, <2>5, WorldPromised DEF Promise!GNext
  <2>. QED  BY <1>2, <2>1, <2>2, <2>3, <2>4, <2>5 DEF Next
<1>3. ASSUME BatchInv, OpenInv, [Next]_vars PROVE OpenInv'
  BY <1>3, OpenStep
<1>. QED  BY <1>1, <1>2, <1>3, BatchInduction, PTL
          DEF Spec, BatchPromise, Promise!GSpec
=============================================================================
