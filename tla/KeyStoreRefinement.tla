------------------------- MODULE KeyStoreRefinement -------------------------
(***************************************************************************)
(* The proof that, without faults, the statements of KeyStore implement    *)
(* the atomic records of Reservoir.                                        *)
(***************************************************************************)
EXTENDS KeyStoreProofs

(* The records of distinct kinds have distinct rows.                       *)
LEMMA KindsDiffer ==
  /\ Blank.row = BlankRow /\ BlankRow # NoRow
  /\ \A a \in Answer, v \in Via : /\ Entry(a, v).row # NoRow
                                  /\ Entry(a, v).row # BlankRow
<1>1. Blank.row = BlankRow /\ BlankRow # NoRow
  BY BlankType, NamesAssumption DEF Blank, Held
<1>2. ASSUME NEW a \in Answer, NEW v \in Via
      PROVE  Entry(a, v).row # NoRow /\ Entry(a, v).row # BlankRow
  <2>1. Entry(a, v).row = RowOf(a, v)
    BY DEF Entry, Held
  <2>2. RowOf(a, v).extra = a /\ BlankRow.extra = None
    BY DEF RowOf, BlankRow
  <2> QED
    BY <2>1, <2>2, EntryType, NamesAssumption
<1> QED
  BY <1>1, <1>2

(* What the tables hold follows from the row where no answer is stored.    *)
LEMMA StoredKinds ==
  ASSUME Whole(Stored)
  PROVE  /\ row = NoRow => Stored = Unknown
         /\ row = BlankRow => Stored = Blank
<1>1. Stored.row = row
  BY DEF Stored, Held
<1> QED
  BY <1>1, KindsDiffer DEF Whole, Unknown, Held

(* Who is late in a store holds the lock.                                  *)
LEMMA LateWriter ==
  ASSUME LInv, NEW p \in Proc, Late(p)
  PROVE  writer = p /\ writer # None
BY NamesAssumption
   DEF LInv, TInv, LockInv, Late, Writing, Storing, Keeping

(* The abstract record is what is stored, unless a store is late.          *)
LEMMA RecBar ==
  ASSUME LInv
  PROVE  /\ (\A q \in Proc : ~ Late(q)) => recBar = Stored
         /\ \A p \in Proc : Late(p) => recBar = Stores(p)
<1>1. writer \in Proc \cup {None}
  BY DEF LInv, TInv, TypeOK
<1> QED
  BY <1>1, LateWriter DEF recBar

(* The invariants of KeyStoreProofs together.                              *)
AllInv == LInv /\ StoreInv /\ WholeInv

LEMMA InitPromise == Init => Promise!RInit
BY NamesAssumption
   DEF Init, Promise!RInit, recBar, viewBar, Late, Stored, Unknown

(* A step of p that moves no goroutine into or out of a late store and     *)
(* changes neither its answer nor what is stored or in hand.               *)
LEMMA Stutters ==
  ASSUME AllInv, AllInv', UNCHANGED <<row, keys, sigs, got>>,
         \A q \in Proc : Late(q)' <=> Late(q),
         \A q \in Proc : Late(q) => job'[q] = job[q]
  PROVE  UNCHANGED <<recBar, viewBar>>
<1>1. viewBar' = viewBar
  BY DEF viewBar, Stores
<1>2. CASE \A q \in Proc : ~ Late(q)
  <2>1. recBar = Stored /\ recBar' = Stored'
    BY <1>2, RecBar DEF AllInv, recBar, LInv, TInv, TypeOK
  <2> QED
    BY <1>1, <2>1 DEF Stored
<1>3. ASSUME NEW q \in Proc, Late(q) PROVE recBar' = recBar
  <2>1. writer = q /\ writer # None
    BY <1>3, LateWriter DEF AllInv
  <2>2. Late(q)'
    BY <1>3
  <2>3. (writer = q)'
    BY <2>2 DEF AllInv, LInv, LockInv, Late, Writing, Storing
  <2> QED
    BY <2>1, <2>2, <2>3, <1>3 DEF recBar, Stores
<1> QED
  BY <1>1, <1>2, <1>3

(* Reading or keeping what is held, under the lock, is one abstract read.  *)
LEMMA ReadsHeld ==
  ASSUME AllInv, AllInv', NEW p \in Proc,
         \A q \in Proc : ~ Late(q) /\ ~ Late(q)',
         got' = [got EXCEPT ![p] = Stored], UNCHANGED tables
  PROVE  Promise!Read(p)
<1>1. recBar = Stored
  BY RecBar DEF AllInv
<1>2. recBar' = Stored'
  BY DEF recBar, AllInv, LInv, TInv, TypeOK
<1>3. viewBar = got /\ viewBar' = got'
  BY DEF viewBar, AllInv, LInv, TInv, TypeOK
<1> QED
  BY <1>1, <1>2, <1>3 DEF Promise!Read, Stored, tables

LEMMA NextPromise ==
  ASSUME AllWellFormed
  PROVE  AllInv /\ AllInv' /\ [Next]_vars
           => [Promise!RNext]_(Promise!rvars)
<1> SUFFICES ASSUME AllInv, AllInv', [Next]_vars
             PROVE  [Promise!RNext]_(Promise!rvars)
  OBVIOUS
<1> USE DEF AllInv
<1>1. ASSUME UNCHANGED <<recBar, viewBar>>
      PROVE  [Promise!RNext]_(Promise!rvars)
  BY <1>1 DEF Promise!rvars
<1>2. ASSUME NEW p \in Proc, Promise!Read(p) \/ Promise!Forget(p)
      PROVE  [Promise!RNext]_(Promise!rvars)
  BY <1>2 DEF Promise!RNext
<1> DEFINE Calm == \A q \in Proc : ~ Late(q)
<1>3. ASSUME NEW p \in Proc, Query(p) \/ Acquire(p)
      PROVE  UNCHANGED <<recBar, viewBar>>
  <2>1. /\ UNCHANGED <<row, keys, sigs, got, job>>
        /\ \A q \in Proc : Late(q)' <=> Late(q)
    BY <1>3 DEF Query, Acquire, BeginLoad, BeginStore, BeginInvalidate,
                tables, Goto, Late, LInv, TInv, TypeOK
  <2> QED
    BY <2>1, Stutters
<1>4. ASSUME NEW p \in Proc, NEW a \in Answer, NEW v \in Via, Fetch(p, a, v)
      PROVE  UNCHANGED <<recBar, viewBar>>
  <2>1. /\ UNCHANGED <<row, keys, sigs, got>>
        /\ \A q \in Proc : Late(q)' <=> Late(q)
        /\ \A q \in Proc : Late(q) => job'[q] = job[q]
    BY <1>4 DEF Fetch, tables, Goto, Late, LInv, TInv, TypeOK
  <2> QED
    BY <2>1, Stutters
<1>5. ASSUME NEW p \in Proc, LoadRow(p)
      PROVE  [Promise!RNext]_(Promise!rvars)
  <2>1. Calm
    BY <1>5, NoLateWriter DEF LoadRow, Reading
  <2>2. \A q \in Proc : ~ Late(q)'
    BY <1>5, <2>1 DEF LoadRow, Goto, Late, LInv, TInv, TypeOK
  <2>3. CASE row = NoRow
    <3>1. Stored = Unknown
      BY <2>1, <2>3, StoredKinds DEF WholeInv
    <3> QED
      BY <1>2, <1>5, <2>1, <2>2, <2>3, <3>1, ReadsHeld DEF LoadRow
  <2>4. CASE row # NoRow
    <3>1. UNCHANGED <<row, keys, sigs, got, job>>
      BY <1>5, <2>4 DEF LoadRow, tables
    <3> QED
      BY <1>1, <2>1, <2>2, <3>1, Stutters
  <2> QED
    BY <2>3, <2>4
<1>6. ASSUME NEW p \in Proc, LoadKeys(p) \/ Check(p) \/ KeepKeys(p)
      PROVE  UNCHANGED <<recBar, viewBar>>
  <2>1. /\ UNCHANGED <<row, keys, sigs, got, job>>
        /\ \A q \in Proc : Late(q)' <=> Late(q)
    BY <1>6 DEF LoadKeys, Check, KeepKeys, tables, Goto, Late, LInv, TInv,
                TypeOK
  <2> QED
    BY <2>1, Stutters
<1>7. ASSUME NEW p \in Proc, LoadSigs(p) \/ KeepSigs(p)
      PROVE  Promise!Read(p)
  <2>1. Calm
    BY <1>7, NoLateWriter DEF LoadSigs, KeepSigs, Reading, Writing, Keeping
  <2>2. \A q \in Proc : ~ Late(q)'
    BY <1>7, <2>1 DEF LoadSigs, KeepSigs, Goto, Late, LInv, TInv, TypeOK
  <2>3. got' = [got EXCEPT ![p] = Stored]
    BY <1>7 DEF LoadSigs, KeepSigs, WholeInv, Held, Stored
  <2> QED
    BY <1>7, <2>1, <2>2, <2>3, ReadsHeld DEF LoadSigs, KeepSigs
<1>8. ASSUME NEW p \in Proc, Upsert(p)
      PROVE  \E a \in Answer, v \in Via : Promise!Put(p, a, v)
  <2> DEFINE a == job[p].ans
             v == job[p].via
  <2>1. a \in Answer /\ v \in Via /\ pc[p] = "upsert"
    BY <1>8 DEF Upsert, LInv, TInv, JobInv, Storing, Job
  <2>2. Calm
    BY <2>1, NoLateWriter DEF Writing, Storing
  <2>3. recBar = Stored /\ Stored.row = row
    BY <2>2, RecBar DEF Stored, Held
  <2>4. Promise!Replaces(a, v)
    <3>1. CASE v = Direct
      BY <3>1 DEF Promise!Replaces
    <3>2. CASE row \in {NoRow, BlankRow}
      BY <2>2, <2>3, <3>2, StoredKinds DEF WholeInv, Promise!Replaces
    <3>3. CASE ValidUntil[a] > row.valid
      <4>1. Entry(a, v).row.valid = ValidUntil[a]
        BY DEF Entry, Held, RowOf
      <4> QED
        BY <2>3, <3>3, <4>1 DEF Promise!Replaces
    <3> QED
      BY <2>1, <3>1, <3>2, <3>3 DEF WholeInv
  <2>5. /\ job' = job /\ got' = got
        /\ Late(p)'
        /\ \A q \in Proc \ {p} : ~ Late(q)'
    BY <1>8, <2>2 DEF Upsert, Goto, Late, LInv, TInv, TypeOK
  <2>6. recBar' = Entry(a, v)
    <3>1. writer = p /\ writer' = writer /\ p # None
      BY <1>8, <2>1, NamesAssumption
         DEF Upsert, locks, LInv, LockInv, Writing, Storing
    <3> QED
      BY <2>5, <3>1 DEF recBar, Stores
  <2>7. viewBar' = [viewBar EXCEPT ![p] = Entry(a, v)]
    BY <2>2, <2>5 DEF viewBar, Stores
  <2>8. Promise!Put(p, a, v)
    BY <2>4, <2>6, <2>7 DEF Promise!Put
  <2> QED
    BY <2>1, <2>8
<1>9. ASSUME NEW p \in Proc, NEW l \in PCs,
             writer = p, pc[p] \in {"deleteKeys", "deleteSigs", "insertKeys",
                                   "insertSigs"},
             l \in {"deleteSigs", "insertKeys", "insertSigs"},
             pc' = [pc EXCEPT ![p] = l], UNCHANGED <<locks, job, got>>
      PROVE  UNCHANGED <<recBar, viewBar>>
  <2>1. \A q \in Proc : Late(q)' <=> Late(q)
    BY <1>9 DEF Late, LInv, TInv, TypeOK
  <2>2. Late(p) /\ Late(p)' /\ writer' = writer /\ writer # None
    BY <1>9, <2>1, LateWriter DEF Late, locks
  <2>3. recBar' = recBar
    BY <1>9, <2>2 DEF recBar, Stores
  <2>4. viewBar' = viewBar
    BY <1>9, <2>1 DEF viewBar, Stores
  <2> QED
    BY <2>3, <2>4
<1>10. ASSUME NEW p \in Proc, DeleteKeys(p) \/ DeleteSigs(p) \/ KeysInserted(p)
       PROVE  UNCHANGED <<recBar, viewBar>>
  BY <1>9, <1>10
     DEF DeleteKeys, DeleteSigs, KeysInserted, Goto, PCs, Writing, Storing,
         LInv, LockInv
<1>11. ASSUME NEW p \in Proc, NEW r \in todo[p], InsertKey(p, r) \/ InsertSig(p, r)
       PROVE  UNCHANGED <<recBar, viewBar>>
  <2>1. /\ pc[p] \in {"insertKeys", "insertSigs"} /\ pc' = pc
        /\ UNCHANGED <<locks, job, got>>
    BY <1>11 DEF InsertKey, NextKey, InsertSig
  <2>2. pc' = [pc EXCEPT ![p] = pc[p]] /\ writer = p
    BY <2>1 DEF LInv, LockInv, TInv, TypeOK, Writing, Storing
  <2> QED
    BY <1>9, <2>1, <2>2 DEF PCs, Writing, Storing
<1>12. ASSUME NEW p \in Proc, StoreDone(p)
       PROVE  UNCHANGED <<recBar, viewBar>>
  <2>1. Late(p) /\ job[p] \in Job
    BY <1>12 DEF StoreDone, Late, LInv, TInv, JobInv, Storing
  <2>2. /\ \A q \in Proc \ {p} : ~ Late(q)
        /\ recBar = Stores(p)
    BY <2>1, LateWriter, RecBar
  <2>3. \A q \in Proc : ~ Late(q)'
    BY <1>12, <2>2 DEF StoreDone, Goto, Late, LInv, TInv, TypeOK
  <2>4. Stored' = Stores(p)
    <3>1. /\ row = RowOf(job[p].ans, job[p].via)
          /\ keys = KeyRows(job[p].ans) /\ sigs = SigRows(job[p].ans)
      BY <1>12, <2>1 DEF StoreDone, StoreInv, WholeInv
    <3> QED
      BY <1>12, <3>1 DEF StoreDone, tables, Stored, Stores, Entry
  <2>5. recBar' = Stored'
    BY <2>3 DEF recBar, LInv, TInv, TypeOK
  <2>6. viewBar' = viewBar
    BY <1>12, <2>1, <2>2, <2>3
       DEF viewBar, StoreDone, Stores, LInv, TInv, TypeOK
  <2> QED
    BY <2>2, <2>4, <2>5, <2>6
<1>13. ASSUME NEW p \in Proc, NEW r \in todo[p], DuplicateKey(p, r)
       PROVE  FALSE
  <2>1. WellFormed(job[p].ans) /\ NextKey(p, r)
    BY <1>13
       DEF DuplicateKey, NextKey, AllWellFormed, LInv, TInv, JobInv, Storing, Job
  <2> QED
    BY <1>13, <2>1, CollisionFree DEF DuplicateKey, InsertNeverCollides
<1>14. ASSUME NEW p \in Proc, Serve(p) \/ Refuse(p)
       PROVE  UNCHANGED <<recBar, viewBar>>
  <2>1. /\ UNCHANGED <<row, keys, sigs, got, job>>
        /\ \A q \in Proc : Late(q)' <=> Late(q)
    BY <1>14 DEF Serve, Refuse, tables, Goto, Late, LInv, TInv, TypeOK
  <2> QED
    BY <2>1, Stutters
<1>15. ASSUME NEW p \in Proc, InvalidateHeld(p) PROVE FALSE
  BY <1>15 DEF InvalidateHeld, WholeInv
<1>16. ASSUME NEW p \in Proc, Finish(p) PROVE Promise!Forget(p)
  <2>1. /\ UNCHANGED <<row, keys, sigs, job, locks>>
        /\ got' = [got EXCEPT ![p] = None]
        /\ ~ Late(p) /\ \A q \in Proc : Late(q)' <=> Late(q)
    BY <1>16 DEF Finish, tables, Goto, Late, LInv, TInv, TypeOK
  <2>2. viewBar' = [viewBar EXCEPT ![p] = None]
    BY <2>1 DEF viewBar, Stores, LInv, TInv, TypeOK
  <2>3. recBar' = recBar
    <3>1. writer' = writer /\ writer \in Proc \cup {None}
      BY <2>1 DEF locks, LInv, TInv, TypeOK
    <3> QED
      BY <2>1, <3>1 DEF recBar, Stores, Stored
  <2> QED
    BY <2>2, <2>3 DEF Promise!Forget
<1>17. CASE NoteOriginFailure
  <2>1. Calm
    <3> SUFFICES ASSUME NEW q \in Proc, Late(q) PROVE FALSE
      OBVIOUS
    <3>1. RowOf(job[q].ans, job[q].via) \in ServerRow
      BY EntryType DEF Late, LInv, TInv, JobInv, Storing, Job
    <3> QED
      BY <1>17, <3>1, NamesAssumption DEF NoteOriginFailure, WholeInv
  <2>2. recBar = Unknown
    BY <1>17, <2>1, RecBar, StoredKinds DEF NoteOriginFailure, WholeInv
  <2>3. recBar' = Blank
    <3>1. Stored' = Blank
      BY <1>17, <2>1, StoredKinds
         DEF NoteOriginFailure, WholeInv, Stored, Unknown, Blank, Held
    <3>2. \A q \in Proc : ~ Late(q)'
      BY <1>17, <2>1 DEF NoteOriginFailure, Late
    <3> QED
      BY <3>1, <3>2 DEF recBar, LInv, TInv, TypeOK
  <2>4. viewBar' = viewBar
    BY <1>17 DEF NoteOriginFailure, viewBar, Late, Stores
  <2> QED
    BY <2>2, <2>3, <2>4 DEF Promise!Miss, Promise!RNext
<1>18. CASE UNCHANGED vars
  BY <1>1, <1>18 DEF vars, recBar, viewBar, Late, Stores, Stored
<1> QED
  BY <1>1, <1>2, <1>3, <1>4, <1>5, <1>6, <1>7, <1>8, <1>10, <1>11, <1>12,
     <1>13, <1>14, <1>15, <1>16, <1>17, <1>18
     DEF Next, Step, Load, Store, Answering, Promise!RNext

(* Without faults, the store implements a reservoir of whole records that  *)
(* are read and replaced atomically.                                       *)
THEOREM Implements == ASSUME AllWellFormed PROVE Spec => KeepsPromise
<1>1. Spec => []AllInv
  BY WholeInvariant DEF AllInv
<1> QED
  BY <1>1, InitPromise, NextPromise, PTL DEF Spec, KeepsPromise, Promise!RSpec
=============================================================================
