--------------------------- MODULE KeyStoreProofs ---------------------------
(***************************************************************************)
(* Proofs about KeyStore, for every set of goroutines, answers, keys and   *)
(* notaries.                                                               *)
(***************************************************************************)
EXTENDS KeyStoreProps, TLAPS

(* The rows of an answer are rows of the tables.                           *)
LEMMA RowsType ==
  ASSUME NEW a \in Answer
  PROVE  /\ KeyRows(a) \in SUBSET TableRow
         /\ SigRows(a) \in SUBSET TableRow
         /\ SigRows(a) \subseteq KeyRows(a)
BY AnswerAssumption DEF KeyRows, SigRows, TableRow, KeyEntry, Current

(* An answer stored from anyone makes a record.                            *)
LEMMA EntryType ==
  ASSUME NEW a \in Answer, NEW v \in Via
  PROVE  RowOf(a, v) \in ServerRow /\ Entry(a, v) \in Record
<1>1. RowOf(a, v) \in ServerRow
  BY AnswerAssumption DEF RowOf, ServerRow
<1> QED
  BY <1>1, RowsType DEF Entry, Held, Record

(* The rows created by a failed probe, and no row at all.                  *)
LEMMA BlankType ==
  BlankRow \in ServerRow /\ Unknown \in Record /\ Blank \in Record
<1>1. BlankRow \in ServerRow
  BY DEF BlankRow, ServerRow, Via
<1> QED
  BY <1>1 DEF Unknown, Blank, Held, Record

(* A goroutine that is storing has an answer in hand.                      *)
JobInv ==
  \A p \in Proc : pc[p] \in {"lock"} \cup Storing \cup Keeping => job[p] \in Job

(* What a goroutine is reading is there while it reads.                    *)
PartInv ==
  /\ \A p \in Proc : pc[p] \in {"readKeys", "readSigs"} \cup Keeping
                       => part[p] \in Record
  /\ \A p \in Proc : pc[p] \in {"loaded", "served"} => got[p] \in Record

TInv == TypeOK /\ JobInv /\ PartInv
-----------------------------------------------------------------------------
USE DEF TInv

LEMMA InitTInv == Init => TInv
BY NamesAssumption
   DEF Init, TypeOK, JobInv, PartInv, PCs, Reading, Writing, Storing, Keeping

LEMMA NextTInv == TInv /\ [FaultyNext]_vars => TInv'
<1> SUFFICES ASSUME TInv, [FaultyNext]_vars PROVE TInv'
  OBVIOUS
<1> USE NamesAssumption, RowsType, EntryType, BlankType
    DEF TypeOK, JobInv, PartInv, PCs, Reading, Writing, Storing, Keeping,
        tables, locks, Goto, LockFree, AcquireLock, ReleaseLock,
        AcquireRLock, ReleaseRLock
<1>1. ASSUME NEW p \in Proc, Query(p) PROVE TInv'
  BY <1>1 DEF Query
<1>2. ASSUME NEW p \in Proc, BeginLoad(p) PROVE TInv'
  BY <1>2 DEF BeginLoad
<1>3. ASSUME NEW p \in Proc, LoadRow(p) PROVE TInv'
  BY <1>3 DEF LoadRow, Held, Record
<1>4. ASSUME NEW p \in Proc, LoadKeys(p) PROVE TInv'
  BY <1>4 DEF LoadKeys, Held, Record
<1>5. ASSUME NEW p \in Proc, LoadSigs(p) PROVE TInv'
  BY <1>5 DEF LoadSigs, Held, Record
<1>6. ASSUME NEW p \in Proc, NEW a \in Answer, NEW v \in Via, Fetch(p, a, v)
      PROVE TInv'
  BY <1>6 DEF Fetch, Job
<1>7. ASSUME NEW p \in Proc, BeginStore(p) PROVE TInv'
  BY <1>7 DEF BeginStore
<1>8. ASSUME NEW p \in Proc, Check(p) PROVE TInv'
  BY <1>8 DEF Check, KeepsHeld, Held, Record
<1>9. ASSUME NEW p \in Proc, KeepKeys(p) PROVE TInv'
  BY <1>9 DEF KeepKeys, Held, Record
<1>10. ASSUME NEW p \in Proc, KeepSigs(p) PROVE TInv'
  BY <1>10 DEF KeepSigs, Held, Record
<1>11. ASSUME NEW p \in Proc, Upsert(p) PROVE TInv'
  BY <1>11 DEF Upsert, Job
<1>12. ASSUME NEW p \in Proc, DeleteKeys(p) PROVE TInv'
  BY <1>12 DEF DeleteKeys
<1>13. ASSUME NEW p \in Proc, DeleteSigs(p) PROVE TInv'
  BY <1>13 DEF DeleteSigs, Job
<1>14. ASSUME NEW p \in Proc, NEW r \in todo[p], InsertKey(p, r) PROVE TInv'
  BY <1>14 DEF InsertKey, NextKey
<1>15. ASSUME NEW p \in Proc, KeysInserted(p) PROVE TInv'
  BY <1>15 DEF KeysInserted, Job
<1>16. ASSUME NEW p \in Proc, NEW r \in todo[p], InsertSig(p, r) PROVE TInv'
  BY <1>16 DEF InsertSig
<1>17. ASSUME NEW p \in Proc, StoreDone(p) PROVE TInv'
  BY <1>17 DEF StoreDone, Job
<1>18. ASSUME NEW p \in Proc, AbandonStore(p), faults' \in 0 .. MaxFaults
       PROVE TInv'
  BY <1>18 DEF AbandonStore
<1>19. ASSUME NEW p \in Proc, Answering(p) PROVE TInv'
  BY <1>19 DEF Answering, Serve, Refuse, InvalidateHeld, Finish, ServerRow
<1>20. ASSUME NEW p \in Proc, BeginInvalidate(p) PROVE TInv'
  BY <1>20 DEF BeginInvalidate
<1>21. CASE NoteOriginFailure
  BY <1>21 DEF NoteOriginFailure
<1>22. ASSUME NEW p \in Proc, LoadFails(p) PROVE TInv'
  BY <1>22 DEF LoadFails, Fault
<1>23. ASSUME NEW p \in Proc, CheckFails(p) PROVE TInv'
  BY <1>23 DEF CheckFails, Fault
<1>24. ASSUME NEW p \in Proc, InvalidateFails(p) PROVE TInv'
  BY <1>24 DEF InvalidateFails, Fault
<1>25. CASE Restart
  BY <1>25 DEF Restart, Fault
<1>26. CASE UNCHANGED vars
  BY <1>26 DEF vars
<1>27. ASSUME NEW p \in Proc, NEW r \in todo[p], DuplicateKey(p, r) PROVE TInv'
  BY <1>27, <1>18 DEF DuplicateKey
<1>28. ASSUME NEW p \in Proc, StoreFails(p) PROVE TInv'
  BY <1>28, <1>18 DEF StoreFails, Fault
<1> QED
  BY <1>1, <1>2, <1>3, <1>4, <1>5, <1>6, <1>7, <1>8, <1>9, <1>10, <1>11,
     <1>12, <1>13, <1>14, <1>15, <1>16, <1>17, <1>19, <1>20, <1>21, <1>22,
     <1>23, <1>24, <1>25, <1>26, <1>27, <1>28
     DEF FaultyNext, Next, Step, Acquire, Load, Store, StatementFails

(* FaultySpec keeps types, through failed statements and restarts.         *)
THEOREM TypeCorrect == FaultySpec => []TypeOK
<1>1. FaultySpec => []TInv
  BY InitTInv, NextTInv, PTL DEF FaultySpec
<1> QED
  BY <1>1, PTL
-----------------------------------------------------------------------------
(* The lock: one writer and no reader beside it, and everyone who is       *)
(* between two statements holds it.                                        *)
LockInv ==
  /\ \A p \in Proc : pc[p] \in Writing <=> writer = p
  /\ \A p \in Proc : pc[p] \in Reading => p \in readers
  /\ \A p \in readers : pc[p] \in Reading \cup {"rlock"}
  /\ writer # None => readers = {}

LEMMA InitLockInv == Init => LockInv
BY NamesAssumption DEF Init, LockInv, Writing, Storing, Keeping, Reading

LEMMA NextLockInv == TInv /\ LockInv /\ [FaultyNext]_vars => LockInv'
<1> SUFFICES ASSUME TInv, LockInv, [FaultyNext]_vars PROVE LockInv'
  OBVIOUS
<1> USE NamesAssumption
    DEF TypeOK, LockInv, PCs, Reading, Writing, Storing, Keeping,
        tables, locks, Goto, LockFree, AcquireLock, ReleaseLock,
        AcquireRLock, ReleaseRLock
<1>1. ASSUME NEW p \in Proc, Query(p) PROVE LockInv'
  BY <1>1 DEF Query
<1>2. ASSUME NEW p \in Proc, Acquire(p) PROVE LockInv'
  BY <1>2 DEF Acquire, BeginLoad, BeginStore, BeginInvalidate
<1>3. ASSUME NEW p \in Proc, Load(p) PROVE LockInv'
  BY <1>3 DEF Load, LoadRow, LoadKeys, LoadSigs
<1>4. ASSUME NEW p \in Proc, NEW a \in Answer, NEW v \in Via, Fetch(p, a, v)
      PROVE LockInv'
  BY <1>4 DEF Fetch
<1>5. ASSUME NEW p \in Proc, Check(p) \/ KeepKeys(p) \/ KeepSigs(p)
      PROVE LockInv'
  BY <1>5 DEF Check, KeepKeys, KeepSigs
<1>6. ASSUME NEW p \in Proc, Upsert(p) \/ DeleteKeys(p) \/ DeleteSigs(p)
      PROVE LockInv'
  BY <1>6 DEF Upsert, DeleteKeys, DeleteSigs
<1>7. ASSUME NEW p \in Proc, NEW r \in todo[p],
             InsertKey(p, r) \/ InsertSig(p, r)
      PROVE LockInv'
  BY <1>7 DEF InsertKey, InsertSig
<1>8. ASSUME NEW p \in Proc, KeysInserted(p) \/ StoreDone(p) PROVE LockInv'
  BY <1>8 DEF KeysInserted, StoreDone
<1>9. ASSUME NEW p \in Proc, pc[p] \in Writing, AbandonStore(p) PROVE LockInv'
  BY <1>9 DEF AbandonStore
<1>10. ASSUME NEW p \in Proc, NEW r \in todo[p], DuplicateKey(p, r)
       PROVE LockInv'
  BY <1>10, <1>9 DEF DuplicateKey, NextKey
<1>11. ASSUME NEW p \in Proc, Answering(p) PROVE LockInv'
  BY <1>11 DEF Answering, Serve, Refuse, InvalidateHeld, Finish
<1>12. CASE NoteOriginFailure
  BY <1>12 DEF NoteOriginFailure
<1>13. ASSUME NEW p \in Proc, LoadFails(p) \/ CheckFails(p) \/ InvalidateFails(p)
       PROVE LockInv'
  BY <1>13 DEF LoadFails, CheckFails, InvalidateFails
<1>14. ASSUME NEW p \in Proc, StoreFails(p) PROVE LockInv'
  BY <1>14, <1>9 DEF StoreFails
<1>15. CASE Restart
  BY <1>15 DEF Restart
<1>16. CASE UNCHANGED vars
  BY <1>16 DEF vars
<1> QED
  BY <1>1, <1>2, <1>3, <1>4, <1>5, <1>6, <1>7, <1>8, <1>10, <1>11, <1>12,
     <1>13, <1>14, <1>15, <1>16
     DEF FaultyNext, Next, Step, Store, StatementFails

(* No two goroutines write at once, and none reads while one writes,       *)
(* whatever fails.                                                         *)
THEOREM LockCorrect == FaultySpec => []LockInv
<1>1. Init => TInv /\ LockInv
  BY InitTInv, InitLockInv
<1>2. TInv /\ LockInv /\ [FaultyNext]_vars => TInv' /\ LockInv'
  BY NextTInv, NextLockInv
<1> QED
  BY <1>1, <1>2, PTL DEF FaultySpec

(* No step of another goroutine is awaited: a statement can be executed,   *)
(* or the lock is to be had.                                               *)
CanGoOn(p) ==
  \/ pc[p] \in Reading \cup (Writing \ {"insertKeys", "insertSigs"})
  \/ pc[p] = "insertKeys" /\ (todo[p] # {} => \E r \in todo[p] : NextKey(p, r))
  \/ pc[p] = "insertSigs"
  \/ pc[p] = "rlock" /\ (p \in readers \/ (writer = None /\ ~ LockWanted))
  \/ pc[p] \in {"lock", "wlock"} /\ LockFree

LockIsNeverStuck ==
  \A p \in Proc : pc[p] \in {"rlock", "lock", "wlock"} =>
    \E q \in Proc : pc[q] \notin {"idle", "loaded", "served"} /\ CanGoOn(q)

(* The rows that are left to insert: the current keys first, then the old. *)
LEMMA SomeKeyIsNext ==
  ASSUME NEW p \in Proc, pc[p] = "insertKeys", TypeOK, todo[p] # {}
  PROVE  \E r \in todo[p] : NextKey(p, r)
<1>1. CASE \E r \in todo[p] : r[2][2] # "old"
  BY <1>1 DEF NextKey
<1>2. CASE \A r \in todo[p] : r[2][2] = "old"
  <2>1. Current({t[2] : t \in todo[p]}) = {}
    BY <1>2 DEF Current
  <2> QED
    BY <2>1 DEF NextKey
<1> QED
  BY <1>1, <1>2

(* Whoever waits for the lock waits for a goroutine that can go on, or can *)
(* have it: a waiting writer keeps readers out, but only while it waits    *)
(* itself for holders, who wait for nobody (src/keys/notary.go:350, 397).  *)
THEOREM LockNeverStuck == FaultySpec => []LockIsNeverStuck
<1>1. ASSUME TInv, LockInv PROVE LockIsNeverStuck
  <2> SUFFICES ASSUME NEW p \in Proc, pc[p] \in {"rlock", "lock", "wlock"}
               PROVE  \E q \in Proc : /\ pc[q] \notin {"idle", "loaded", "served"}
                                      /\ CanGoOn(q)
    BY DEF LockIsNeverStuck
  <2>1. CASE writer # None
    <3>1. writer \in Proc /\ pc[writer] \in Writing
      BY <1>1, <2>1 DEF TypeOK, LockInv
    <3>2. CanGoOn(writer)
      BY <1>1, <3>1, SomeKeyIsNext DEF CanGoOn
    <3> QED
      BY <3>1, <3>2 DEF Writing, Storing, Keeping
  <2>2. CASE writer = None /\ readers # {}
    <3>1. PICK q \in Proc : q \in readers
      BY <1>1, <2>2 DEF TypeOK
    <3>2. pc[q] \in Reading \cup {"rlock"}
      BY <1>1, <3>1 DEF LockInv
    <3> QED
      BY <3>1, <3>2 DEF CanGoOn, Reading
  <2>3. CASE LockFree /\ LockWanted
    BY <2>3 DEF CanGoOn, LockWanted
  <2>4. CASE LockFree /\ ~ LockWanted
    BY <2>4 DEF CanGoOn, LockFree, LockWanted
  <2> QED
    BY <2>1, <2>2, <2>3, <2>4 DEF LockFree
<1>2. Init => TInv /\ LockInv
  BY InitTInv, InitLockInv
<1>3. TInv /\ LockInv /\ [FaultyNext]_vars => TInv' /\ LockInv'
  BY NextTInv, NextLockInv
<1> QED
  BY <1>1, <1>2, <1>3, PTL DEF FaultySpec
-----------------------------------------------------------------------------
(* How far the store in progress has got with the two tables, and that     *)
(* signatures never join the keys of another answer.                       *)
StoreInv ==
  /\ \A p \in Proc :
       /\ pc[p] = "deleteSigs" => keys = {}
       /\ pc[p] = "insertKeys" =>
            /\ sigs = {}
            /\ keys \cup todo[p] = KeyRows(job[p].ans)
            /\ keys \cap todo[p] = {}
       /\ pc[p] = "insertSigs" =>
            /\ keys = KeyRows(job[p].ans)
            /\ sigs \cup todo[p] = SigRows(job[p].ans)
  /\ SignaturesImplyFullKeys

LInv == TInv /\ LockInv
USE DEF LInv

LEMMA InitStoreInv == Init => StoreInv
BY DEF Init, StoreInv, SignaturesImplyFullKeys

LEMMA NextStoreInv == LInv /\ StoreInv /\ [FaultyNext]_vars => StoreInv'
<1> SUFFICES ASSUME LInv, StoreInv, [FaultyNext]_vars PROVE StoreInv'
  OBVIOUS
<1> USE DEF TypeOK, JobInv, LockInv, StoreInv, SignaturesImplyFullKeys,
        PCs, Reading, Writing, Storing, Keeping, tables, Goto
<1>1. ASSUME NEW p \in Proc, Query(p) PROVE StoreInv'
  BY <1>1 DEF Query
<1>2. ASSUME NEW p \in Proc, Acquire(p) PROVE StoreInv'
  BY <1>2 DEF Acquire, BeginLoad, BeginStore, BeginInvalidate
<1>3. ASSUME NEW p \in Proc, Load(p) PROVE StoreInv'
  BY <1>3 DEF Load, LoadRow, LoadKeys, LoadSigs
<1>4. ASSUME NEW p \in Proc, NEW a \in Answer, NEW v \in Via, Fetch(p, a, v)
      PROVE StoreInv'
  BY <1>4 DEF Fetch
<1>5. ASSUME NEW p \in Proc, Check(p) \/ KeepKeys(p) PROVE StoreInv'
  BY <1>5 DEF Check, KeepKeys
<1>6. ASSUME NEW p \in Proc, KeepSigs(p) PROVE StoreInv'
  BY <1>6 DEF KeepSigs
<1>7. ASSUME NEW p \in Proc, Upsert(p) PROVE StoreInv'
  BY <1>7 DEF Upsert
<1>8. ASSUME NEW p \in Proc, DeleteKeys(p) PROVE StoreInv'
  BY <1>8 DEF DeleteKeys
<1>9. ASSUME NEW p \in Proc, DeleteSigs(p) PROVE StoreInv'
  BY <1>9 DEF DeleteSigs
<1>10. ASSUME NEW p \in Proc, NEW r \in todo[p], InsertKey(p, r)
       PROVE StoreInv'
  BY <1>10 DEF InsertKey, NextKey
<1>11. ASSUME NEW p \in Proc, KeysInserted(p) PROVE StoreInv'
  <2>1. keys' = KeyRows(job'[p].ans) /\ sigs' = {} /\ job' = job
    <3>1. todo[p] = {} /\ UNCHANGED <<keys, sigs, job>>
      BY <1>11 DEF KeysInserted
    <3>2. keys \cup todo[p] = KeyRows(job[p].ans) /\ sigs = {}
      BY <1>11 DEF KeysInserted
    <3> QED
      BY <3>1, <3>2
  <2>2. todo'[p] = SigRows(job'[p].ans) /\ pc'[p] = "insertSigs"
    BY <1>11 DEF KeysInserted
  <2>3. \A q \in Proc \ {p} :
          pc'[q] \notin {"deleteSigs", "insertKeys", "insertSigs"}
    BY <1>11 DEF KeysInserted
  <2> QED
    BY <2>1, <2>2, <2>3
<1>12. ASSUME NEW p \in Proc, NEW r \in todo[p], InsertSig(p, r)
       PROVE StoreInv'
  <2>1. job[p].ans \in Answer
    BY <1>12 DEF InsertSig, Job
  <2> QED
    BY <1>12, <2>1 DEF InsertSig
<1>13. ASSUME NEW p \in Proc, StoreDone(p) PROVE StoreInv'
  BY <1>13 DEF StoreDone
<1>14. ASSUME NEW p \in Proc, pc[p] \in Writing, AbandonStore(p)
       PROVE StoreInv'
  BY <1>14 DEF AbandonStore
<1>15. ASSUME NEW p \in Proc, NEW r \in todo[p], DuplicateKey(p, r)
       PROVE StoreInv'
  BY <1>15, <1>14 DEF DuplicateKey, NextKey
<1>16. ASSUME NEW p \in Proc, Answering(p) PROVE StoreInv'
  BY <1>16 DEF Answering, Serve, Refuse, InvalidateHeld, Finish
<1>17. CASE NoteOriginFailure
  BY <1>17 DEF NoteOriginFailure
<1>18. ASSUME NEW p \in Proc, LoadFails(p) \/ CheckFails(p) \/ InvalidateFails(p)
       PROVE StoreInv'
  BY <1>18 DEF LoadFails, CheckFails, InvalidateFails
<1>19. ASSUME NEW p \in Proc, StoreFails(p) PROVE StoreInv'
  BY <1>19, <1>14 DEF StoreFails
<1>20. CASE Restart
  BY <1>20 DEF Restart
<1>21. CASE UNCHANGED vars
  BY <1>21 DEF vars
<1> QED
  BY <1>1, <1>2, <1>3, <1>4, <1>5, <1>6, <1>7, <1>8, <1>9, <1>10, <1>11,
     <1>12, <1>13, <1>15, <1>16, <1>17, <1>18, <1>19, <1>20, <1>21
     DEF FaultyNext, Next, Step, Store, StatementFails

(* FaultySpec keeps the three invariants together.                         *)
LEMMA FaultyInv == FaultySpec => [](LInv /\ StoreInv)
<1>1. Init => LInv /\ StoreInv
  BY InitTInv, InitLockInv, InitStoreInv
<1>2. LInv /\ StoreInv /\ [FaultyNext]_vars => (LInv /\ StoreInv)'
  BY NextTInv, NextLockInv, NextStoreInv
<1> QED
  BY <1>1, <1>2, PTL DEF FaultySpec

(* Wherever statements fail and restarts cut a store short, signatures in  *)
(* the tables lie beside all the keys of the answer they sign.             *)
THEOREM SignaturesBesideTheirKeys == FaultySpec => []SignaturesImplyFullKeys
BY FaultyInv, PTL DEF StoreInv

(* What a store has left to insert is not in the table.                    *)
LEMMA CollisionFree == LInv /\ StoreInv => InsertNeverCollides
<1> SUFFICES ASSUME LInv, StoreInv, NEW p \in Proc, NEW r \in todo[p],
                    NextKey(p, r), WellFormed(job[p].ans),
                    NEW t \in keys, t[2][1] = r[2][1]
             PROVE  FALSE
  BY DEF InsertNeverCollides, Ids
<1>1. /\ pc[p] = "insertKeys"
      /\ r \in KeyRows(job[p].ans) /\ t \in KeyRows(job[p].ans)
      /\ r \notin keys
  BY DEF NextKey, StoreInv
<1>2. r[2] \in KeysIn[job[p].ans] /\ t[2] \in KeysIn[job[p].ans]
  BY <1>1 DEF KeyRows
<1>3. r = t
  BY <1>1, <1>2 DEF WellFormed, KeyRows
<1> QED
  BY <1>1, <1>3

(* No store of a well-formed answer meets remote_keys_pkey, whatever was   *)
(* left behind by the failed ones.                                         *)
THEOREM NoCollision == FaultySpec => []InsertNeverCollides
BY CollisionFree, FaultyInv, PTL
-----------------------------------------------------------------------------
(* Without faults.  The store in progress aside, the tables hold the whole *)
(* of one answer, and so does every record in memory.                      *)
AllWellFormed == \A a \in Answer : WellFormed(a)

WholeInv ==
  /\ (\A p \in Proc : ~ Late(p)) => Whole(Stored)
  /\ \A p \in Proc :
       /\ Late(p) => row = RowOf(job[p].ans, job[p].via)
       /\ pc[p] \in {"readKeys", "keepKeys"} =>
            row # NoRow /\ part[p] = Held(row, {}, {})
       /\ pc[p] \in {"readSigs", "keepSigs"} =>
            row # NoRow /\ part[p] = Held(row, keys, {})
       /\ pc[p] = "upsert" /\ job[p].via # Direct =>
            row \in {NoRow, BlankRow} \/ ValidUntil[job[p].ans] > row.valid
       /\ got[p] = None \/ Whole(got[p])
       /\ pc[p] \notin {"wlock", "invalidate"}

(* A whole record passes the last-minute check.                            *)
LEMMA WholeServable == ASSUME NEW r, Whole(r) PROVE Servable(r)
<1>1. CASE r \in {Unknown, Blank}
  BY <1>1 DEF Servable, Unknown, Blank, Held
<1>2. ASSUME NEW a \in Answer, NEW v \in Via, r = Entry(a, v)
      PROVE  Servable(r)
  BY <1>2 DEF Servable, Verifies, Entry, Held, RowOf, SigRows
<1> QED
  BY <1>1, <1>2 DEF Whole

(* While anyone else has a lock, or nobody has it, no store is under way.  *)
LEMMA NoLateWriter ==
  ASSUME LInv, NEW p \in Proc,
         pc[p] \in Reading \cup (Writing \ {"deleteKeys", "deleteSigs",
                                          "insertKeys", "insertSigs"})
           \/ writer = None
  PROVE  \A q \in Proc : ~ Late(q)
BY NamesAssumption
   DEF TypeOK, LockInv, Late, Writing, Storing, Keeping, Reading

(* No store of a well-formed answer meets a key twice.                     *)
LEMMA NoDuplicate ==
  ASSUME AllWellFormed, LInv, StoreInv, NEW p \in Proc, NEW r \in todo[p],
         DuplicateKey(p, r)
  PROVE  FALSE
<1>1. job[p] \in Job
  BY DEF DuplicateKey, NextKey, JobInv, Storing
<1>2. WellFormed(job[p].ans)
  BY <1>1 DEF AllWellFormed, Job
<1> QED
  BY <1>2, CollisionFree DEF DuplicateKey, InsertNeverCollides

LEMMA InitWholeInv == Init => WholeInv
BY DEF Init, WholeInv, Whole, Stored, Unknown, Late

LEMMA NextWholeInv ==
  ASSUME AllWellFormed
  PROVE  LInv /\ StoreInv /\ WholeInv /\ [Next]_vars => WholeInv'
<1> SUFFICES ASSUME LInv, StoreInv, WholeInv, [Next]_vars PROVE WholeInv'
  OBVIOUS
<1> USE NamesAssumption
    DEF TypeOK, JobInv, PartInv, WholeInv, Late, PCs, Reading, Writing,
        Storing, Keeping, tables, Goto
<1>1. ASSUME NEW p \in Proc, Query(p) PROVE WholeInv'
  BY <1>1 DEF Query, Stored
<1>2. ASSUME NEW p \in Proc, Acquire(p) PROVE WholeInv'
  BY <1>2 DEF Acquire, BeginLoad, BeginStore, BeginInvalidate, Stored
<1>3. ASSUME NEW p \in Proc, LoadRow(p) PROVE WholeInv'
  BY <1>3 DEF LoadRow, Whole, Stored
<1>4. ASSUME NEW p \in Proc, LoadKeys(p) \/ KeepKeys(p) PROVE WholeInv'
  <2>1. part' = [part EXCEPT ![p] = Held(row, keys, {})]
    BY <1>4 DEF LoadKeys, KeepKeys, Held
  <2> QED
    BY <1>4, <2>1 DEF LoadKeys, KeepKeys, Stored
<1>5. ASSUME NEW p \in Proc, LoadSigs(p) \/ KeepSigs(p) PROVE WholeInv'
  <2>1. Whole(Stored)
    BY <1>5, NoLateWriter DEF LoadSigs, KeepSigs
  <2>2. got' = [got EXCEPT ![p] = Stored]
    BY <1>5 DEF LoadSigs, KeepSigs, Held, Stored
  <2> QED
    BY <1>5, <2>1, <2>2 DEF LoadSigs, KeepSigs, Stored
<1>6. ASSUME NEW p \in Proc, NEW a \in Answer, NEW v \in Via, Fetch(p, a, v)
      PROVE WholeInv'
  BY <1>6 DEF Fetch, Stored
<1>7. ASSUME NEW p \in Proc, Check(p) PROVE WholeInv'
  <2>1. job[p].ans \in Answer
    BY <1>7 DEF Check, Job
  <2>2. KeepsHeld(job[p]) \/ job[p].via = Direct \/ row = NoRow
          \/ ValidUntil[job[p].ans] > row.valid
    BY <2>1, AnswerAssumption DEF KeepsHeld, ServerRow
  <2>3. KeepsHeld(job[p]) => row # NoRow
    BY DEF KeepsHeld
  <2> QED
    BY <1>7, <2>2, <2>3 DEF Check, Stored
<1>8. ASSUME NEW p \in Proc, Upsert(p) PROVE WholeInv'
  BY <1>8 DEF Upsert, LockInv
<1>9. ASSUME NEW p \in Proc, DeleteKeys(p) PROVE WholeInv'
  BY <1>9 DEF DeleteKeys, LockInv
<1>10. ASSUME NEW p \in Proc, DeleteSigs(p) PROVE WholeInv'
  BY <1>10 DEF DeleteSigs, LockInv
<1>11. ASSUME NEW p \in Proc, NEW r \in todo[p], InsertKey(p, r)
       PROVE WholeInv'
  BY <1>11 DEF InsertKey, NextKey, LockInv
<1>12. ASSUME NEW p \in Proc, KeysInserted(p) PROVE WholeInv'
  BY <1>12 DEF KeysInserted, LockInv
<1>13. ASSUME NEW p \in Proc, NEW r \in todo[p], InsertSig(p, r)
       PROVE WholeInv'
  BY <1>13 DEF InsertSig, LockInv
<1>14. ASSUME NEW p \in Proc, StoreDone(p) PROVE WholeInv'
  <2>1. job[p].ans \in Answer /\ job[p].via \in Via
    BY <1>14 DEF StoreDone, Job
  <2>2. Stored = Entry(job[p].ans, job[p].via)
    BY <1>14 DEF StoreDone, StoreInv, Stored, Entry
  <2>3. Whole(Stored)
    BY <2>1, <2>2 DEF Whole
  <2>4. Stored' = Stored
    BY <1>14 DEF StoreDone, Stored
  <2>5. \A q \in Proc : got'[q] = None \/ Whole(got'[q])
    BY <1>14, <2>2, <2>3 DEF StoreDone
  <2> QED
    BY <1>14, <2>3, <2>4, <2>5 DEF StoreDone, Whole
<1>15. ASSUME NEW p \in Proc, NEW r \in todo[p], DuplicateKey(p, r)
       PROVE FALSE
  BY <1>15, NoDuplicate
<1>16. ASSUME NEW p \in Proc, Serve(p) \/ Finish(p) PROVE WholeInv'
  BY <1>16 DEF Serve, Finish, Stored
<1>17. ASSUME NEW p \in Proc, Refuse(p) \/ InvalidateHeld(p) PROVE FALSE
  BY <1>17, WholeServable DEF Refuse, InvalidateHeld
<1>18. CASE NoteOriginFailure
  <2>1. \A q \in Proc : ~ Late(q)
    <3> SUFFICES ASSUME NEW q \in Proc, Late(q) PROVE FALSE
      OBVIOUS
    <3>1. RowOf(job[q].ans, job[q].via) \in ServerRow
      BY EntryType DEF Job
    <3>2. row = RowOf(job[q].ans, job[q].via)
      OBVIOUS
    <3> QED
      BY <3>1, <3>2, <1>18 DEF NoteOriginFailure
  <2>2. Stored = Unknown
    <3>1. Blank.row # NoRow
      BY BlankType DEF Blank, Held
    <3>2. ASSUME NEW a \in Answer, NEW v \in Via
          PROVE  Entry(a, v).row # NoRow
      <4>1. Entry(a, v).row = RowOf(a, v)
        BY DEF Entry, Held
      <4> QED
        BY <4>1, EntryType
    <3>3. Stored.row = NoRow
      BY <1>18 DEF NoteOriginFailure, Stored, Held
    <3> QED
      BY <2>1, <3>1, <3>2, <3>3 DEF Whole
  <2>3. Stored' = Blank
    BY <1>18, <2>2 DEF NoteOriginFailure, Stored, Unknown, Blank, Held
  <2>4. \A q \in Proc : pc[q] \notin {"readKeys", "keepKeys", "readSigs", "keepSigs"}
    BY <1>18 DEF NoteOriginFailure
  <2> QED
    BY <1>18, <2>1, <2>3, <2>4 DEF NoteOriginFailure, Whole
<1>19. CASE UNCHANGED vars
  BY <1>19 DEF vars, Stored
<1> QED
  BY <1>1, <1>2, <1>3, <1>4, <1>5, <1>6, <1>7, <1>8, <1>9, <1>10,
     <1>11, <1>12, <1>13, <1>14, <1>15, <1>16, <1>17, <1>18, <1>19
     DEF Next, Step, Load, Store, Answering

LEMMA WholeInvariant ==
  ASSUME AllWellFormed PROVE Spec => [](LInv /\ StoreInv /\ WholeInv)
<1>1. Init => LInv /\ StoreInv /\ WholeInv
  BY InitTInv, InitLockInv, InitStoreInv, InitWholeInv
<1>2. [Next]_vars => [FaultyNext]_vars
  BY DEF FaultyNext
<1>3. LInv /\ StoreInv /\ WholeInv /\ [Next]_vars
        => (LInv /\ StoreInv /\ WholeInv)'
  BY <1>2, NextTInv, NextLockInv, NextStoreInv, NextWholeInv
<1> QED
  BY <1>1, <1>3, PTL DEF Spec

(* Without faults, every record served is the whole of one answer.         *)
THEOREM ServesWhole == ASSUME AllWellFormed PROVE Spec => []ServedWhole
<1>1. LInv /\ WholeInv => ServedWhole
  BY NamesAssumption DEF PartInv, WholeInv, ServedWhole
<1> QED
  BY <1>1, WholeInvariant, PTL

(* Without faults, no store leaves a row without the keys of its answer.   *)
THEOREM KeysAreNeverLost ==
  ASSUME AllWellFormed PROVE Spec => []SettledRowsCarryKeys
<1>1. LInv /\ WholeInv => SettledRowsCarryKeys
  <2> SUFFICES ASSUME LInv, WholeInv, writer = None, row # NoRow,
                      row # BlankRow
               PROVE  keys # {}
    BY DEF SettledRowsCarryKeys
  <2>1. Whole(Stored)
    <3>1. \A p \in Proc : ~ Late(p)
      BY NamesAssumption
         DEF TypeOK, LockInv, Late, Writing, Storing, Keeping
    <3> QED
      BY <3>1 DEF WholeInv
  <2>2. PICK a \in Answer, v \in Via : Stored = Entry(a, v)
    BY <2>1 DEF Whole, Stored, Unknown, Blank, Held
  <2>3. keys = KeyRows(a)
    BY <2>2 DEF Stored, Entry, Held
  <2>4. PICK e \in KeysIn[a] : TRUE
    BY AnswerAssumption DEF Current
  <2>5. <<a, e>> \in KeyRows(a)
    BY DEF KeyRows
  <2> QED
    BY <2>3, <2>5
<1> QED
  BY <1>1, WholeInvariant, PTL

(* Which steps change the row, and how.                                    *)
LEMMA RowChanges ==
  ASSUME AllWellFormed, LInv, StoreInv, WholeInv, [Next]_vars, row' # row
  PROVE  \/ row = NoRow
         \/ \E p \in Proc : pc[p] = "upsert" /\ Upsert(p)
<1> USE DEF tables
<1>1. ASSUME NEW p \in Proc, InvalidateHeld(p) PROVE FALSE
  BY <1>1 DEF InvalidateHeld, WholeInv
<1>2. ASSUME NEW p \in Proc, Acquire(p) \/ Load(p) \/ Query(p) PROVE FALSE
  BY <1>2 DEF Acquire, BeginLoad, BeginStore, BeginInvalidate, Load, LoadRow,
              LoadKeys, LoadSigs, Query
<1>3. ASSUME NEW p \in Proc, NEW a \in Answer, NEW v \in Via, Fetch(p, a, v)
      PROVE  FALSE
  BY <1>3 DEF Fetch
<1>4. ASSUME NEW p \in Proc, Store(p) PROVE Upsert(p)
  BY <1>4 DEF Store, Check, KeepKeys, KeepSigs, DeleteKeys, DeleteSigs,
              InsertKey, DuplicateKey, AbandonStore, KeysInserted, InsertSig,
              StoreDone
<1>5. ASSUME NEW p \in Proc, Serve(p) \/ Refuse(p) \/ Finish(p) PROVE FALSE
  BY <1>5 DEF Serve, Refuse, Finish
<1> QED
  BY <1>1, <1>2, <1>3, <1>4, <1>5
     DEF Next, Step, Answering, NoteOriginFailure, Upsert, vars

(* Without faults, no notary shortens the validity of what is held.        *)
THEOREM UpgradeRule ==
  ASSUME AllWellFormed PROVE Spec => NotaryNeverDowngrades
<1> DEFINE Kept == row # NoRow /\ row'.valid < row.valid
                     => row'.via = Direct \/ row'.valid = 0
<1>1. LInv /\ StoreInv /\ WholeInv /\ [Next]_vars => [Kept]_vars
  <2> SUFFICES ASSUME LInv, StoreInv, WholeInv, [Next]_vars, row # NoRow,
                      row'.valid < row.valid, row'.via # Direct
               PROVE  row'.valid = 0
    OBVIOUS
  <2>0. row.valid \in Nat
    BY DEF TypeOK, ServerRow
  <2>1. PICK p \in Proc : pc[p] = "upsert" /\ Upsert(p)
    BY <2>0, RowChanges
  <2>2. job[p].ans \in Answer
    BY <2>1 DEF JobInv, Storing, Job
  <2>3. row' = RowOf(job[p].ans, job[p].via)
    BY <2>1 DEF Upsert
  <2>4. row'.valid = ValidUntil[job[p].ans] /\ job[p].via # Direct
    BY <2>3 DEF RowOf
  <2>5. row = BlankRow \/ ValidUntil[job[p].ans] > row.valid
    BY <2>1, <2>4 DEF WholeInv
  <2>6. ValidUntil[job[p].ans] \in Nat /\ row.valid \in Nat
    BY <2>2, AnswerAssumption DEF TypeOK, ServerRow
  <2>7. row = BlankRow => row.valid = 0
    BY DEF BlankRow
  <2> QED
    BY <2>4, <2>5, <2>6, <2>7
<1> QED
  BY <1>1, WholeInvariant, PTL DEF Spec, NotaryNeverDowngrades
-----------------------------------------------------------------------------
(* Through one fault.  The last-minute check is void for an answer without *)
(* a signature, which nothing in the code keeps an origin from giving.     *)
AllSigned == \A a \in Answer : SignedBy[a] # {}

(* A record that passes for one answer's, or has another's signature.      *)
Matched(r) ==
  \/ r.keys = {}
  \/ /\ r.row # NoRow /\ r.row.extra \in Answer
     /\ r.row.valid \in {0, ValidUntil[r.row.extra]}
     /\ r.keys \subseteq KeyRows(r.row.extra)
  \/ \E s \in r.sigs : s[1] # r.row.extra

(* What the lock guarantees whatever fails: the row of the store under     *)
(* way, and what readers have seen of the tables.                          *)
ReadInv ==
  /\ row = NoRow => keys = {}
  /\ \A p \in Proc :
       /\ Late(p) => row = RowOf(job[p].ans, job[p].via)
       /\ pc[p] \in {"readKeys", "keepKeys"} =>
            row # NoRow /\ part[p] = Held(row, {}, {})
       /\ pc[p] \in {"readSigs", "keepSigs"} =>
            row # NoRow /\ part[p] = Held(row, keys, {})
       /\ pc[p] = "served" => Servable(got[p])

(* Before a fault the tables and every record in memory are whole; after   *)
(* one, they match but for a store that has yet to delete the old keys.    *)
OneFaultInv ==
  /\ faults = 0 => WholeInv
  /\ faults <= 1 =>
       /\ faults = 0 \/ (\A p \in Proc : pc[p] # "deleteKeys") => Matched(Stored)
       /\ \A p \in Proc : got[p] # None => Matched(got[p])

LEMMA InitReadInv == Init => ReadInv
BY DEF Init, ReadInv, Late

(* A store knows the row it has written, and a record with a row is there. *)
LEMMA LateRow ==
  ASSUME LInv, ReadInv, NEW p \in Proc, Late(p)
  PROVE  /\ job[p].ans \in Answer /\ row = RowOf(job[p].ans, job[p].via)
         /\ row # NoRow
<1>1. job[p] \in Job
  BY DEF JobInv, Late, Storing
<1>2. job[p].ans \in Answer /\ job[p].via \in Via
  BY <1>1 DEF Job
<1>3. row = RowOf(job[p].ans, job[p].via)
  BY DEF ReadInv
<1> QED
  BY <1>2, <1>3, EntryType, NamesAssumption

LEMMA NextReadInv == LInv /\ StoreInv /\ ReadInv /\ [FaultyNext]_vars => ReadInv'
<1> SUFFICES ASSUME LInv, StoreInv, ReadInv, [FaultyNext]_vars PROVE ReadInv'
  OBVIOUS
<1> USE NamesAssumption
    DEF TypeOK, JobInv, PartInv, ReadInv, Late, PCs, Reading, Writing,
        Storing, Keeping, tables, Goto
<1>1. ASSUME NEW p \in Proc, Query(p) PROVE ReadInv'
  BY <1>1 DEF Query
<1>2. ASSUME NEW p \in Proc, Acquire(p) PROVE ReadInv'
  BY <1>2 DEF Acquire, BeginLoad, BeginStore, BeginInvalidate
<1>3. ASSUME NEW p \in Proc, LoadRow(p) PROVE ReadInv'
  BY <1>3 DEF LoadRow
<1>4. ASSUME NEW p \in Proc, LoadKeys(p) \/ KeepKeys(p) PROVE ReadInv'
  <2>1. part' = [part EXCEPT ![p] = Held(row, keys, {})]
    BY <1>4 DEF LoadKeys, KeepKeys, Held
  <2> QED
    BY <1>4, <2>1 DEF LoadKeys, KeepKeys
<1>5. ASSUME NEW p \in Proc, LoadSigs(p) \/ KeepSigs(p) PROVE ReadInv'
  BY <1>5 DEF LoadSigs, KeepSigs
<1>6. ASSUME NEW p \in Proc, NEW a \in Answer, NEW v \in Via, Fetch(p, a, v)
      PROVE ReadInv'
  BY <1>6 DEF Fetch
<1>7. ASSUME NEW p \in Proc, Check(p) PROVE ReadInv'
  BY <1>7 DEF Check, KeepsHeld
<1>8. ASSUME NEW p \in Proc, Upsert(p) PROVE ReadInv'
  <2>1. job[p] \in Job
    BY <1>8 DEF Upsert
  <2>2. row' # NoRow
    BY <1>8, <2>1, EntryType DEF Upsert, Job
  <2> QED
    BY <1>8, <2>2 DEF Upsert, LockInv
<1>9. ASSUME NEW p \in Proc, DeleteKeys(p) PROVE ReadInv'
  BY <1>9 DEF DeleteKeys, LockInv
<1>10. ASSUME NEW p \in Proc, DeleteSigs(p) PROVE ReadInv'
  BY <1>10 DEF DeleteSigs, LockInv
<1>11. ASSUME NEW p \in Proc, NEW r \in todo[p], InsertKey(p, r)
       PROVE ReadInv'
  <2>1. row # NoRow
    BY <1>11, LateRow DEF InsertKey, NextKey
  <2> QED
    BY <1>11, <2>1 DEF InsertKey, NextKey, LockInv
<1>12. ASSUME NEW p \in Proc, KeysInserted(p) PROVE ReadInv'
  BY <1>12 DEF KeysInserted, LockInv
<1>13. ASSUME NEW p \in Proc, NEW r \in todo[p], InsertSig(p, r)
       PROVE ReadInv'
  BY <1>13 DEF InsertSig, LockInv
<1>14. ASSUME NEW p \in Proc, StoreDone(p) PROVE ReadInv'
  BY <1>14 DEF StoreDone
<1>15. ASSUME NEW p \in Proc, pc[p] \in Writing, AbandonStore(p)
       PROVE  ReadInv'
  BY <1>15 DEF AbandonStore
<1>16. ASSUME NEW p \in Proc, NEW r \in todo[p], DuplicateKey(p, r)
       PROVE  ReadInv'
  BY <1>15, <1>16 DEF DuplicateKey, NextKey
<1>17. ASSUME NEW p \in Proc, Serve(p) \/ Refuse(p) \/ Finish(p)
       PROVE  ReadInv'
  BY <1>17 DEF Serve, Refuse, Finish
<1>18. ASSUME NEW p \in Proc, InvalidateHeld(p) PROVE ReadInv'
  <2>1. row' = NoRow => row = NoRow
    <3>1. row # NoRow => [row EXCEPT !.valid = 0] \in ServerRow
      BY DEF ServerRow
    <3> QED
      BY <1>18, <3>1 DEF InvalidateHeld
  <2> QED
    BY <1>18, <2>1 DEF InvalidateHeld, LockInv
<1>19. CASE NoteOriginFailure
  <2>1. \A q \in Proc : ~ Late(q)
    BY <1>19, LateRow DEF NoteOriginFailure
  <2> QED
    BY <1>19, <2>1 DEF NoteOriginFailure
<1>20. ASSUME NEW p \in Proc, LoadFails(p) \/ CheckFails(p) \/ InvalidateFails(p)
       PROVE  ReadInv'
  BY <1>20 DEF LoadFails, CheckFails, InvalidateFails
<1>21. ASSUME NEW p \in Proc, StoreFails(p) PROVE ReadInv'
  BY <1>15, <1>21 DEF StoreFails
<1>22. CASE Restart
  BY <1>22 DEF Restart
<1>23. CASE UNCHANGED vars
  BY <1>23 DEF vars
<1> QED
  BY <1>1, <1>2, <1>3, <1>4, <1>5, <1>6, <1>7, <1>8, <1>9, <1>10, <1>11,
     <1>12, <1>13, <1>14, <1>16, <1>17, <1>18, <1>19, <1>20, <1>21, <1>22,
     <1>23 DEF FaultyNext, Next, Step, Load, Store, Answering, StatementFails
LEMMA MatchedWhole ==
  /\ Matched(Unknown)
  /\ \A a \in Answer, v \in Via : Matched(Entry(a, v))
<1>1. Matched(Unknown)
  BY DEF Matched, Unknown, Held
<1>2. ASSUME NEW a \in Answer, NEW v \in Via PROVE Matched(Entry(a, v))
  <2>1. /\ Entry(a, v).row = RowOf(a, v) /\ Entry(a, v).keys = KeyRows(a)
        /\ RowOf(a, v).extra = a /\ RowOf(a, v).valid = ValidUntil[a]
    BY DEF Entry, Held, RowOf
  <2> QED
    BY <2>1, EntryType, NamesAssumption DEF Matched
<1> QED
  BY <1>1, <1>2

(* A whole record under another answer's row has that other's signatures.  *)
LEMMA UpsertMatches ==
  ASSUME AllSigned, Whole(Stored), NEW a \in Answer, NEW v \in Via
  PROVE  Matched(Held(RowOf(a, v), keys, sigs))
<1> DEFINE r == Held(RowOf(a, v), keys, sigs)
<1>1. /\ r.row = RowOf(a, v) /\ r.keys = keys /\ r.sigs = sigs
      /\ r.row.extra = a /\ r.row.valid = ValidUntil[a]
  BY DEF Held, RowOf
<1>2. r.row # NoRow
  BY <1>1, EntryType, NamesAssumption
<1> HIDE DEF r
<1>3. CASE Stored \in {Unknown, Blank}
  <2>1. keys = {}
    BY <1>3 DEF Stored, Unknown, Blank, Held
  <2> QED
    BY <1>1, <2>1 DEF Matched, r
<1>4. ASSUME NEW b \in Answer, NEW w \in Via, Stored = Entry(b, w)
      PROVE  Matched(r)
  <2>1. keys = KeyRows(b) /\ sigs = SigRows(b)
    BY <1>4 DEF Stored, Entry, Held
  <2>2. CASE a = b
    BY <1>1, <1>2, <2>1, <2>2 DEF Matched
  <2>3. CASE a # b
    <3>1. PICK e \in SignedBy[b] : TRUE
      BY DEF AllSigned
    <3>2. <<b, e>> \in r.sigs /\ <<b, e>>[1] # r.row.extra
      BY <1>1, <2>1, <2>3, <3>1 DEF SigRows
    <3> QED
      BY <3>2 DEF Matched
  <2> QED
    BY <2>2, <2>3
<1> QED
  BY <1>3, <1>4 DEF Whole, r

(* The keys and the row of a store past its deletions are its answer's.    *)
LEMMA InsertingMatches ==
  ASSUME LInv, StoreInv, ReadInv, NEW p \in Proc,
         pc[p] \in {"insertKeys", "insertSigs"},
         NEW ks, ks \subseteq KeyRows(job[p].ans), NEW ss
  PROVE  Matched(Held(row, ks, ss))
<1> DEFINE r == Held(row, ks, ss)
<1>1. /\ job[p].ans \in Answer /\ row = RowOf(job[p].ans, job[p].via)
      /\ row # NoRow
  BY LateRow DEF Late
<1>2. r.row = row /\ r.keys = ks
  BY DEF Held
<1>3. row.extra = job[p].ans /\ row.valid = ValidUntil[job[p].ans]
  BY <1>1 DEF RowOf
<1> QED
  BY <1>1, <1>2, <1>3 DEF Matched

(* A step that shows no fault is none.                                     *)
LEMMA FaultFree ==
  ASSUME TypeOK, [FaultyNext]_vars
  PROVE  /\ faults' = 0 => faults = 0 /\ [Next]_vars
         /\ faults' <= 1 => faults <= 1
         /\ faults' <= 1 /\ ~ [Next]_vars => faults = 0
<1>1. faults \in Nat
  BY NamesAssumption DEF TypeOK
<1>2. [Next]_vars => faults' = faults
  BY DEF Next, NoteOriginFailure, Step, Query, Fetch, Acquire, BeginLoad,
     BeginStore, BeginInvalidate, Load, LoadRow, LoadKeys, LoadSigs, Store,
     Check, KeepKeys, KeepSigs, Upsert, DeleteKeys, DeleteSigs, InsertKey,
     DuplicateKey, KeysInserted, InsertSig, StoreDone, Answering, Serve,
     Refuse, InvalidateHeld, Finish, vars
<1>3. ~ [Next]_vars => faults' = faults + 1
  BY DEF FaultyNext, Restart, StatementFails, LoadFails, CheckFails,
     StoreFails, InvalidateFails, Fault
<1> QED
  BY <1>1, <1>2, <1>3

(* The tables, until a second fault.                                       *)
TablesMatch ==
  faults = 0 \/ (\A p \in Proc : pc[p] # "deleteKeys") => Matched(Stored)

RecordsMatch == \A p \in Proc : got[p] # None => Matched(got[p])

LEMMA TablesMatchStep ==
  ASSUME AllWellFormed, AllSigned, LInv, StoreInv, ReadInv, OneFaultInv,
         [FaultyNext]_vars, faults' <= 1
  PROVE  TablesMatch'
<1> USE DEF TypeOK, PCs, Reading, Writing, Storing, Keeping, tables, Goto
<1>0. /\ faults <= 1 /\ TablesMatch /\ faults \in Nat /\ faults' \in Nat
      /\ ~ [Next]_vars => faults = 0
      /\ faults' = 0 => faults = 0
  BY FaultFree, NextTInv, NamesAssumption DEF OneFaultInv, TablesMatch
<1>1. ASSUME UNCHANGED tables,
             \/ faults = 0
             \/ \A p \in Proc : pc[p] = "deleteKeys" => pc'[p] = "deleteKeys"
      PROVE  TablesMatch'
  BY <1>0, <1>1 DEF TablesMatch, Stored, Matched
<1>2. ASSUME keys' = {} PROVE TablesMatch'
  BY <1>2 DEF TablesMatch, Matched, Stored, Held
<1>3. ASSUME ~ [Next]_vars, UNCHANGED tables PROVE TablesMatch'
  BY <1>0, <1>1, <1>3
<1>4. ASSUME NEW p \in Proc,
             \/ Query(p) \/ Acquire(p) \/ Load(p)
             \/ \E a \in Answer, v \in Via : Fetch(p, a, v)
             \/ Check(p) \/ KeepKeys(p) \/ KeepSigs(p)
             \/ KeysInserted(p) \/ StoreDone(p)
             \/ Serve(p) \/ Refuse(p) \/ Finish(p)
      PROVE  TablesMatch'
  BY <1>1, <1>4 DEF Query, Acquire, BeginLoad, BeginStore, BeginInvalidate, Load,
     LoadRow, LoadKeys, LoadSigs, Fetch, Check, KeepKeys, KeepSigs,
     KeysInserted, StoreDone, Serve, Refuse, Finish
<1>5. ASSUME NEW p \in Proc, Upsert(p) PROVE TablesMatch'
  <2>1. job[p] \in Job /\ pc'[p] = "deleteKeys" /\ faults' = faults
    BY <1>5 DEF Upsert, JobInv
  <2>2. CASE faults = 0
    <3>1. Whole(Stored)
      BY <1>5, <2>2, NoLateWriter DEF Upsert, OneFaultInv, WholeInv
    <3>2. Matched(Held(RowOf(job[p].ans, job[p].via), keys, sigs))
      BY <2>1, <3>1, UpsertMatches DEF Job
    <3>3. Stored' = Held(RowOf(job[p].ans, job[p].via), keys, sigs)
      BY <1>5 DEF Upsert, Stored, Held
    <3>4. Matched(Stored')
      BY <3>2, <3>3
    <3> QED
      BY <3>4 DEF TablesMatch, Matched
  <2>3. CASE faults # 0
    BY <2>1, <2>3 DEF TablesMatch
  <2> QED
    BY <2>2, <2>3
<1>6. ASSUME NEW p \in Proc, DeleteKeys(p) \/ DeleteSigs(p) PROVE TablesMatch'
  BY <1>2, <1>6 DEF DeleteKeys, DeleteSigs, StoreInv
<1>7. ASSUME NEW p \in Proc, pc[p] \in {"insertKeys", "insertSigs"},
             keys' \subseteq KeyRows(job[p].ans), row' = row
      PROVE  TablesMatch'
  <2>1. Matched(Held(row, keys', sigs'))
    BY <1>7, InsertingMatches
  <2>2. Matched(Stored')
    BY <1>7, <2>1 DEF Stored, Held
  <2> QED
    BY <2>2 DEF TablesMatch, Matched
<1>8. ASSUME NEW p \in Proc, NEW r \in todo[p], InsertKey(p, r)
      PROVE  TablesMatch'
  BY <1>7, <1>8 DEF InsertKey, NextKey, StoreInv
<1>9. ASSUME NEW p \in Proc, NEW r \in todo[p], InsertSig(p, r)
      PROVE  TablesMatch'
  BY <1>7, <1>9 DEF InsertSig, StoreInv
<1>10. ASSUME NEW p \in Proc, NEW r \in todo[p], DuplicateKey(p, r)
       PROVE  FALSE
  BY <1>10, NoDuplicate
<1>11. ASSUME NEW p \in Proc, InvalidateHeld(p) PROVE TablesMatch'
  <2>1. \A q \in Proc : ~ Late(q)
    BY <1>11, NoLateWriter DEF InvalidateHeld
  <2>2. Matched(Stored)
    BY <1>0, <2>1 DEF TablesMatch, Late
  <2>3. CASE keys = {}
    BY <1>2, <1>11, <2>3 DEF InvalidateHeld
  <2>4. CASE keys # {}
    <3>1. row # NoRow /\ row \in ServerRow
      BY <2>4 DEF ReadInv
    <3>2. row' = [row EXCEPT !.valid = 0] /\ keys' = keys /\ sigs' = sigs
      BY <1>11, <3>1 DEF InvalidateHeld
    <3>3. row' \in ServerRow /\ row'.extra = row.extra /\ row'.valid = 0
      BY <3>1, <3>2 DEF ServerRow
    <3>4. /\ Stored.row = row /\ Stored.keys = keys /\ Stored.sigs = sigs
          /\ Stored'.row = row' /\ Stored'.keys = keys /\ Stored'.sigs = sigs
      BY <3>2 DEF Stored, Held
    <3>5. Matched(Stored')
      BY <2>2, <2>4, <3>3, <3>4, NamesAssumption DEF Matched
    <3> QED
      BY <3>5 DEF TablesMatch, Matched
  <2> QED
    BY <2>3, <2>4
<1>12. CASE NoteOriginFailure
  BY <1>2, <1>12 DEF NoteOriginFailure, ReadInv
<1>13. CASE UNCHANGED vars
  BY <1>1, <1>13 DEF vars
<1>14. CASE [Next]_vars
  BY <1>4, <1>5, <1>6, <1>8, <1>9, <1>10, <1>11, <1>12, <1>13, <1>14
     DEF Next, Step, Store, Answering
<1>15. CASE ~ [Next]_vars
  BY <1>3, <1>15 DEF FaultyNext, Restart, StatementFails, LoadFails, CheckFails,
     StoreFails, AbandonStore, InvalidateFails
<1> QED
  BY <1>14, <1>15
LEMMA RecordsMatchStep ==
  ASSUME LInv, ReadInv, OneFaultInv, [FaultyNext]_vars, faults' <= 1
  PROVE  RecordsMatch'
<1> USE DEF TypeOK, PCs, Reading, Writing, Storing, Keeping, tables, Goto
<1>0. /\ RecordsMatch
      /\ (\A p \in Proc : ~ Late(p)) => Matched(Stored)
  BY FaultFree DEF OneFaultInv, RecordsMatch, Late
<1>1. ASSUME NEW p \in Proc, NEW r, Matched(r), got' = [got EXCEPT ![p] = r]
      PROVE  RecordsMatch'
  BY <1>0, <1>1 DEF RecordsMatch, Matched
<1>2. ASSUME \A p \in Proc : got'[p] \in {got[p], None}
      PROVE  RecordsMatch'
  BY <1>0, <1>2 DEF RecordsMatch, Matched
<1>3. ASSUME NEW p \in Proc, LoadRow(p) PROVE RecordsMatch'
  BY <1>1, <1>2, <1>3, MatchedWhole DEF LoadRow
<1>4. ASSUME NEW p \in Proc, LoadSigs(p) \/ KeepSigs(p) PROVE RecordsMatch'
  <2>1. Matched(Stored)
    BY <1>0, <1>4, NoLateWriter DEF LoadSigs, KeepSigs
  <2>2. got' = [got EXCEPT ![p] = Held(part[p].row, part[p].keys, sigs)]
    BY <1>4 DEF LoadSigs, KeepSigs
  <2>3. pc[p] \in {"readSigs", "keepSigs"} /\ part[p] = Held(row, keys, {})
    BY <1>4 DEF LoadSigs, KeepSigs, ReadInv
  <2>4. got' = [got EXCEPT ![p] = Stored]
    BY <2>2, <2>3 DEF Held, Stored
  <2> QED
    BY <1>1, <2>1, <2>4
<1>5. ASSUME NEW p \in Proc, StoreDone(p) PROVE RecordsMatch'
  <2>1. job[p] \in Job
    BY <1>5 DEF StoreDone, JobInv
  <2>2. Matched(Entry(job[p].ans, job[p].via))
    BY <2>1, MatchedWhole DEF Job
  <2> QED
    BY <1>1, <1>5, <2>2 DEF StoreDone
<1>6. ASSUME NEW p \in Proc,
             \/ Query(p) \/ Acquire(p) \/ LoadKeys(p)
             \/ \E a \in Answer, v \in Via : Fetch(p, a, v)
             \/ Check(p) \/ KeepKeys(p) \/ Upsert(p) \/ DeleteKeys(p)
             \/ DeleteSigs(p) \/ KeysInserted(p)
             \/ \E r \in todo[p] : \/ InsertKey(p, r) \/ DuplicateKey(p, r)
                                   \/ InsertSig(p, r)
      PROVE  RecordsMatch'
  <2>1. got' = got
    BY <1>6 DEF Query, Acquire, BeginLoad, BeginStore, BeginInvalidate, LoadKeys,
       Fetch, Check, KeepKeys, Upsert, DeleteKeys, DeleteSigs, KeysInserted,
       InsertKey, DuplicateKey, InsertSig, AbandonStore
  <2> QED
    BY <1>2, <2>1
<1>7. ASSUME NEW p \in Proc, Answering(p) PROVE RecordsMatch'
  BY <1>2, <1>7 DEF Answering, Serve, Refuse, InvalidateHeld, Finish
<1>8. CASE NoteOriginFailure \/ UNCHANGED vars
  BY <1>2, <1>8 DEF NoteOriginFailure, vars
<1>9. CASE Restart \/ \E p \in Proc : StatementFails(p)
  BY <1>2, <1>9 DEF Restart, StatementFails, LoadFails, CheckFails, StoreFails,
     AbandonStore, InvalidateFails
<1> QED
  BY <1>3, <1>4, <1>5, <1>6, <1>7, <1>8, <1>9
     DEF FaultyNext, Next, Step, Load, Store

LEMMA NextOneFaultInv ==
  ASSUME AllWellFormed, AllSigned
  PROVE  LInv /\ StoreInv /\ ReadInv /\ OneFaultInv /\ [FaultyNext]_vars
           => OneFaultInv'
<1> SUFFICES ASSUME LInv, StoreInv, ReadInv, OneFaultInv, [FaultyNext]_vars
             PROVE  OneFaultInv'
  OBVIOUS
<1>1. faults' = 0 => WholeInv'
  BY FaultFree, NextWholeInv DEF OneFaultInv
<1>2. faults' <= 1 => TablesMatch' /\ RecordsMatch'
  BY TablesMatchStep, RecordsMatchStep
<1> QED
  BY <1>1, <1>2 DEF OneFaultInv, TablesMatch, RecordsMatch

(* A matched record that passes the last-minute check is one answer's.     *)
LEMMA MatchedServes ==
  ASSUME NEW r, Matched(r), Servable(r), r.keys # {}
  PROVE  /\ r.row.extra # None /\ r.keys \subseteq KeyRows(r.row.extra)
         /\ r.row.valid \in {0, ValidUntil[r.row.extra]}
<1>1. Verifies(r)
  BY DEF Servable
<1>2. \A s \in r.sigs : s[1] = r.row.extra
  BY <1>1 DEF Verifies
<1> QED
  BY <1>2, NamesAssumption DEF Matched

(* Through a fault at any statement, and a restart, the keys served belong *)
(* to the answer whose extra fields go with them, if answers are signed    *)
(* (query.go:251, notary.go:432-491).                                      *)
THEOREM OneAnswerThroughAFault ==
  ASSUME AllWellFormed, AllSigned PROVE FaultySpec => []ServedOneAnswer
<1>1. Init => LInv /\ StoreInv /\ ReadInv /\ OneFaultInv
  <2>1. Init => OneFaultInv
    BY InitWholeInv DEF Init, OneFaultInv, Matched, Stored, Held
  <2> QED
    BY <2>1, InitTInv, InitLockInv, InitStoreInv, InitReadInv
<1>2. LInv /\ StoreInv /\ ReadInv /\ OneFaultInv /\ [FaultyNext]_vars
        => (LInv /\ StoreInv /\ ReadInv /\ OneFaultInv)'
  BY NextTInv, NextLockInv, NextStoreInv, NextReadInv, NextOneFaultInv
<1>3. LInv /\ ReadInv /\ OneFaultInv => ServedOneAnswer
  BY MatchedServes, NamesAssumption
     DEF PartInv, ReadInv, OneFaultInv, ServedOneAnswer
<1> QED
  BY <1>1, <1>2, <1>3, PTL DEF FaultySpec
=============================================================================
