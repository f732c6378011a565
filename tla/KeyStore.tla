------------------------------ MODULE KeyStore ------------------------------
(***************************************************************************)
(* The reservoir of one remote server's keys: its remote_servers row, its  *)
(* remote_keys and remote_signatures rows, and the read-write lock         *)
(* (serverLocks, src/keys/notary.go) that serialises storing the record    *)
(* against reading it.  The granularity is one SQL statement per step,     *)
(* because no transaction groups the statements of a store or of a load.   *)
(*                                                                         *)
(* Every statement names one server in its WHERE clause and every lock     *)
(* belongs to one server, so the module models one server; the program is  *)
(* one such machine per server_name.  The scheduling columns (updated_ts,  *)
(* origin_failures, next_origin_attempt_ts) are not covered by signatures  *)
(* and do not interact with the statements below; module KeyResolver has   *)
(* them.                                                                   *)
(***************************************************************************)
EXTENDS Naturals, FiniteSets

CONSTANTS
  Proc,        \* goroutines that serve requests or sweep origins
  Answer,      \* distinct signed key objects the server has published
  KeyID,       \* key identifiers
  KeysIn,      \* the verify_keys and old_verify_keys of each answer
  SignedBy,    \* the keys whose self-signatures each answer carries
  ValidUntil,  \* the valid_until_ts of each answer
  Direct,      \* obtained_via_notary = NULL
  Notary,      \* the trusted notaries
  NoRow,       \* no remote_servers row
  None,        \* no lock owner, no record, '{}' as nonstandard_json
  MaxFaults    \* bound on failed statements and restarts

(* A key is current (verify_keys) or old (old_verify_keys).  remote_keys   *)
(* keeps both kinds under one primary key (server_name, key_id).           *)
KeyEntry == KeyID \X {"current", "old"}
Current(es) == {e \in es : e[2] = "current"}

ASSUME AnswerAssumption ==
  /\ KeysIn \in [Answer -> SUBSET KeyEntry]
  /\ SignedBy \in [Answer -> SUBSET KeyEntry]
  /\ ValidUntil \in [Answer -> Nat]
  /\ \A a \in Answer : /\ SignedBy[a] \subseteq Current(KeysIn[a])
                       /\ Current(KeysIn[a]) # {}

(* An answer that gives each key identifier once.  Nothing in the code     *)
(* rejects one that lists an identifier as both current and old.           *)
WellFormed(a) == \A d, e \in KeysIn[a] : d[1] = e[1] => d = e

Via == {Direct} \cup Notary
TableRow == Answer \X KeyEntry
RowOf(a, v) == [valid |-> ValidUntil[a], extra |-> a, via |-> v]
BlankRow == [valid |-> 0, extra |-> None, via |-> Direct]
ServerRow == [valid : Nat, extra : Answer \cup {None}, via : Via]

KeyRows(a) == {a} \X KeysIn[a]
SigRows(a) == {a} \X SignedBy[a]

(* models.CachedRemoteKeys: a metadata row with the keys and signatures    *)
(* read or written together with it.                                       *)
Record == [row : ServerRow \cup {NoRow}, keys : SUBSET TableRow,
           sigs : SUBSET TableRow]
Held(r, ks, ss) == [row |-> r, keys |-> ks, sigs |-> ss]
Entry(a, v) == Held(RowOf(a, v), KeyRows(a), SigRows(a))
Unknown == Held(NoRow, {}, {})
Blank == Held(BlankRow, {}, {})

(* An answer on its way to the tables.                                     *)
Job == [ans : Answer, via : Via]

ASSUME NamesAssumption ==
  /\ Direct \notin Notary
  /\ None \notin Proc \cup Answer \cup Job \cup Record
  /\ NoRow \notin ServerRow
  /\ MaxFaults \in Nat

VARIABLES
  row,      \* the remote_servers row
  keys,     \* the remote_keys rows
  sigs,     \* the remote_signatures rows
  writer,   \* who holds the lock exclusively
  readers,  \* who holds it shared
  pc,       \* where each goroutine is
  job,      \* the answer a goroutine is storing, and who it came from
  todo,     \* the rows its current insert loop has left
  part,     \* the record it is reading, SELECT by SELECT
  got,      \* the record it has read or stored, to answer with
  faults    \* failed statements and restarts so far

tables == <<row, keys, sigs>>
locks == <<writer, readers>>
vars == <<row, keys, sigs, writer, readers, pc, job, todo, part, got, faults>>

Reading == {"readRow", "readKeys", "readSigs"}
Keeping == {"keepKeys", "keepSigs"}
Storing == {"check", "upsert", "deleteKeys", "deleteSigs", "insertKeys",
            "insertSigs"}
Writing == Storing \cup Keeping \cup {"invalidate"}
PCs == {"idle", "rlock", "loaded", "served", "lock", "wlock"}
         \cup Reading \cup Writing

TypeOK ==
  /\ row \in ServerRow \cup {NoRow}
  /\ keys \in SUBSET TableRow
  /\ sigs \in SUBSET TableRow
  /\ writer \in Proc \cup {None}
  /\ readers \in SUBSET Proc
  /\ pc \in [Proc -> PCs]
  /\ job \in [Proc -> Job \cup {None}]
  /\ todo \in [Proc -> SUBSET TableRow]
  /\ part \in [Proc -> Record \cup {None}]
  /\ got \in [Proc -> Record \cup {None}]
  /\ faults \in 0 .. MaxFaults

Init ==
  /\ row = NoRow
  /\ keys = {}
  /\ sigs = {}
  /\ writer = None
  /\ readers = {}
  /\ pc = [p \in Proc |-> "idle"]
  /\ job = [p \in Proc |-> None]
  /\ todo = [p \in Proc |-> {}]
  /\ part = [p \in Proc |-> None]
  /\ got = [p \in Proc |-> None]
  /\ faults = 0

Goto(p, l) == pc' = [pc EXCEPT ![p] = l]
Stored == Held(row, keys, sigs)

(* The lock, a sync.RWMutex.  Lock waits for every holder to leave; while  *)
(* it waits, RLock blocks; Unlock lets every blocked RLock in at once.     *)
LockFree == writer = None /\ readers = {}
LockWanted == \E q \in Proc : pc[q] \in {"lock", "wlock"}
AcquireLock(p) == LockFree /\ writer' = p /\ UNCHANGED readers
ReleaseLock ==
  /\ writer' = None
  /\ readers' = {q \in Proc : pc[q] = "rlock"}
AcquireRLock(p) ==
  /\ p \in readers \/ (writer = None /\ ~ LockWanted)
  /\ readers' = readers \cup {p}
  /\ UNCHANGED writer
ReleaseRLock(p) == readers' = readers \ {p} /\ UNCHANGED writer
-----------------------------------------------------------------------------
(* Reading: loadHeld and packageCachedKeysFor, one SELECT per step.        *)

(* A request for the server's keys arrives, or a request looks up the keys *)
(* of a notary it is about to trust.                                       *)
Query(p) ==
  /\ pc[p] = "idle"
  /\ Goto(p, "rlock")
  /\ UNCHANGED <<tables, locks, job, todo, part, got, faults>>

(* Mutant: a load that does not take the lock.                             *)
BeginLoadUnlocked(p) ==
  /\ pc[p] = "rlock"
  /\ Goto(p, "readRow")
  /\ UNCHANGED <<tables, locks, job, todo, part, got, faults>>

BeginLoad(p) ==
  /\ pc[p] = "rlock"
  /\ AcquireRLock(p)
  /\ Goto(p, "readRow")
  /\ UNCHANGED <<tables, job, todo, part, got, faults>>

LoadRow(p) ==
  /\ pc[p] = "readRow"
  /\ IF row = NoRow
       THEN /\ got' = [got EXCEPT ![p] = Unknown]
            /\ Goto(p, "loaded")
            /\ ReleaseRLock(p)
            /\ UNCHANGED part
       ELSE /\ part' = [part EXCEPT ![p] = Held(row, {}, {})]
            /\ Goto(p, "readKeys")
            /\ UNCHANGED <<locks, got>>
  /\ UNCHANGED <<tables, job, todo, faults>>

LoadKeys(p) ==
  /\ pc[p] = "readKeys"
  /\ part' = [part EXCEPT ![p] = Held(@.row, keys, {})]
  /\ Goto(p, "readSigs")
  /\ UNCHANGED <<tables, locks, job, todo, got, faults>>

LoadSigs(p) ==
  /\ pc[p] = "readSigs"
  /\ got' = [got EXCEPT ![p] = Held(part[p].row, part[p].keys, sigs)]
  /\ part' = [part EXCEPT ![p] = None]
  /\ Goto(p, "loaded")
  /\ ReleaseRLock(p)
  /\ UNCHANGED <<tables, job, todo, faults>>
-----------------------------------------------------------------------------
(* Storing: storeRemoteKeys, one statement per step.                       *)

(* The origin or a notary delivered a verified answer, to a request that   *)
(* has loaded what is held or to the sweeper, which has not.  A notary's   *)
(* answer is accepted only with the origin's self-signature on it.         *)
Fetch(p, a, v) ==
  /\ pc[p] \in {"idle", "loaded"}
  /\ v \in Notary => SignedBy[a] # {}
  /\ job' = [job EXCEPT ![p] = [ans |-> a, via |-> v]]
  /\ Goto(p, "lock")
  /\ UNCHANGED <<tables, locks, todo, part, got, faults>>

(* Mutant: a store that does not take the lock.                            *)
BeginStoreUnlocked(p) ==
  /\ pc[p] = "lock"
  /\ Goto(p, "check")
  /\ UNCHANGED <<tables, locks, job, todo, part, got, faults>>

BeginStore(p) ==
  /\ pc[p] = "lock"
  /\ AcquireLock(p)
  /\ Goto(p, "check")
  /\ UNCHANGED <<tables, job, todo, part, got, faults>>

(* Mutants: the upgrade rule as the narrower freeze it replaced, and with  *)
(* an answer as long valid as the held one let through.                    *)
KeepsHeldOfNotary(j) ==
  /\ row # NoRow
  /\ j.via # Direct /\ row.via # Direct
  /\ ValidUntil[j.ans] <= row.valid

KeepsHeldIfLonger(j) ==
  /\ row # NoRow
  /\ j.via # Direct
  /\ ValidUntil[j.ans] < row.valid

(* The upgrade rule: a notary must offer something strictly longer valid   *)
(* than what is held.                                                      *)
KeepsHeld(j) ==
  /\ row # NoRow
  /\ j.via # Direct
  /\ ValidUntil[j.ans] <= row.valid

Check(p) ==
  /\ pc[p] = "check"
  /\ IF KeepsHeld(job[p])
       THEN /\ part' = [part EXCEPT ![p] = Held(row, {}, {})]
            /\ Goto(p, "keepKeys")
       ELSE Goto(p, "upsert") /\ UNCHANGED part
  /\ UNCHANGED <<tables, locks, job, todo, got, faults>>

KeepKeys(p) ==
  /\ pc[p] = "keepKeys"
  /\ part' = [part EXCEPT ![p] = Held(@.row, keys, {})]
  /\ Goto(p, "keepSigs")
  /\ UNCHANGED <<tables, locks, job, todo, got, faults>>

KeepSigs(p) ==
  /\ pc[p] = "keepSigs"
  /\ got' = [got EXCEPT ![p] = Held(part[p].row, part[p].keys, sigs)]
  /\ part' = [part EXCEPT ![p] = None]
  /\ job' = [job EXCEPT ![p] = None]
  /\ Goto(p, "loaded")
  /\ ReleaseLock
  /\ UNCHANGED <<tables, todo, faults>>

(* Mutant: the lock is given back before the keys are replaced.            *)
UpsertUnlocks(p) ==
  /\ pc[p] = "upsert"
  /\ row' = RowOf(job[p].ans, job[p].via)
  /\ Goto(p, "deleteKeys")
  /\ ReleaseLock
  /\ UNCHANGED <<keys, sigs, job, todo, part, got, faults>>

Upsert(p) ==
  /\ pc[p] = "upsert"
  /\ row' = RowOf(job[p].ans, job[p].via)
  /\ Goto(p, "deleteKeys")
  /\ UNCHANGED <<keys, sigs, locks, job, todo, part, got, faults>>

DeleteKeys(p) ==
  /\ pc[p] = "deleteKeys"
  /\ keys' = {}
  /\ Goto(p, "deleteSigs")
  /\ UNCHANGED <<row, sigs, locks, job, todo, part, got, faults>>

(* Mutant: the old signatures stay.                                        *)
DeleteSigsForgotten(p) ==
  /\ pc[p] = "deleteSigs"
  /\ todo' = [todo EXCEPT ![p] = KeyRows(job[p].ans)]
  /\ Goto(p, "insertKeys")
  /\ UNCHANGED <<tables, locks, job, part, got, faults>>

DeleteSigs(p) ==
  /\ pc[p] = "deleteSigs"
  /\ sigs' = {}
  /\ todo' = [todo EXCEPT ![p] = KeyRows(job[p].ans)]
  /\ Goto(p, "insertKeys")
  /\ UNCHANGED <<row, keys, locks, job, part, got, faults>>

Ids(rows) == {r[2][1] : r \in rows}

(* The two loops over verify_keys and then old_verify_keys.                *)
NextKey(p, r) ==
  /\ pc[p] = "insertKeys"
  /\ r \in todo[p]
  /\ r[2][2] = "old" => Current({t[2] : t \in todo[p]}) = {}

InsertKey(p, r) ==
  /\ NextKey(p, r)
  /\ r[2][1] \notin Ids(keys)
  /\ keys' = keys \cup {r}
  /\ todo' = [todo EXCEPT ![p] = @ \ {r}]
  /\ UNCHANGED <<row, sigs, locks, pc, job, part, got, faults>>

KeysInserted(p) ==
  /\ pc[p] = "insertKeys"
  /\ todo[p] = {}
  /\ todo' = [todo EXCEPT ![p] = SigRows(job[p].ans)]
  /\ Goto(p, "insertSigs")
  /\ UNCHANGED <<tables, locks, job, part, got, faults>>

InsertSig(p, r) ==
  /\ pc[p] = "insertSigs"
  /\ r \in todo[p]
  /\ sigs' = sigs \cup {r}
  /\ todo' = [todo EXCEPT ![p] = @ \ {r}]
  /\ UNCHANGED <<row, keys, locks, pc, job, part, got, faults>>

(* The record returned is built from the answer, not read back.            *)
StoreDone(p) ==
  /\ pc[p] = "insertSigs"
  /\ todo[p] = {}
  /\ got' = [got EXCEPT ![p] = Entry(job[p].ans, job[p].via)]
  /\ job' = [job EXCEPT ![p] = None]
  /\ Goto(p, "loaded")
  /\ ReleaseLock
  /\ UNCHANGED <<tables, todo, part, faults>>

(* Mutant: an error path without the deferred Unlock.                      *)
AbandonStoreLocked(p) ==
  /\ job' = [job EXCEPT ![p] = None]
  /\ todo' = [todo EXCEPT ![p] = {}]
  /\ part' = [part EXCEPT ![p] = None]
  /\ Goto(p, IF got[p] = None THEN "idle" ELSE "loaded")
  /\ UNCHANGED <<tables, locks, got>>

(* A store whose statement fails returns the error and, by its deferred    *)
(* Unlock, the lock.  The caller falls back on the record it had loaded.   *)
AbandonStore(p) ==
  /\ job' = [job EXCEPT ![p] = None]
  /\ todo' = [todo EXCEPT ![p] = {}]
  /\ part' = [part EXCEPT ![p] = None]
  /\ Goto(p, IF got[p] = None THEN "idle" ELSE "loaded")
  /\ ReleaseLock
  /\ UNCHANGED <<tables, got>>

(* A second row with one (server_name, key_id) violates remote_keys_pkey.  *)
DuplicateKey(p, r) ==
  /\ NextKey(p, r)
  /\ r[2][1] \in Ids(keys)
  /\ AbandonStore(p)
  /\ UNCHANGED faults
-----------------------------------------------------------------------------
(* Serving: the end of findAndPrepareKeys.                                 *)

(* VerifySignatures over the reassembled object: each signature covers the *)
(* validity, the extra fields and the keys of the answer it was made for.  *)
Verifies(rec) ==
  \A s \in rec.sigs : /\ rec.row.valid = ValidUntil[s[1]]
                      /\ rec.row.extra = s[1]
                      /\ rec.keys = KeyRows(s[1])

(* Mutant: no last-minute check.                                           *)
ServableUnchecked(rec) == TRUE

Servable(rec) == rec.keys = {} \/ Verifies(rec)

Serve(p) ==
  /\ pc[p] = "loaded"
  /\ Servable(got[p])
  /\ Goto(p, "served")
  /\ UNCHANGED <<tables, locks, job, todo, part, got, faults>>

(* The last-minute check fails: the reply is an error and the record is to *)
(* be invalidated.                                                         *)
Refuse(p) ==
  /\ pc[p] = "loaded"
  /\ ~ Servable(got[p])
  /\ Goto(p, "wlock")
  /\ UNCHANGED <<tables, locks, job, todo, part, got, faults>>

BeginInvalidate(p) ==
  /\ pc[p] = "wlock"
  /\ AcquireLock(p)
  /\ Goto(p, "invalidate")
  /\ UNCHANGED <<tables, job, todo, part, got, faults>>

InvalidateHeld(p) ==
  /\ pc[p] = "invalidate"
  /\ row' = IF row = NoRow THEN NoRow ELSE [row EXCEPT !.valid = 0]
  /\ got' = [got EXCEPT ![p] = None]
  /\ Goto(p, "idle")
  /\ ReleaseLock
  /\ UNCHANGED <<keys, sigs, job, todo, part, faults>>

(* The reply is out; or the record was only fetched by the sweeper, or     *)
(* read for a notary's own keys, and is not served.                        *)
Finish(p) ==
  /\ pc[p] \in {"loaded", "served"}
  /\ got' = [got EXCEPT ![p] = None]
  /\ Goto(p, "idle")
  /\ UNCHANGED <<tables, locks, job, todo, part, faults>>

(* Mutant: the NULL of a row without provenance is read as it is, without  *)
(* COALESCE.                                                               *)
NoteOriginFailureNull ==
  /\ row = NoRow
  /\ row' = [BlankRow EXCEPT !.via = None]
  /\ UNCHANGED <<keys, sigs, locks, pc, job, todo, part, got, faults>>

(* db.NoteOriginFailure takes no lock.  Of the columns modelled here it    *)
(* only sets those of a row it creates.                                    *)
NoteOriginFailure ==
  /\ row = NoRow
  /\ row' = BlankRow
  /\ UNCHANGED <<keys, sigs, locks, pc, job, todo, part, got, faults>>
-----------------------------------------------------------------------------
(* Faults: a statement fails, the program restarts.                        *)

Fault == faults < MaxFaults /\ faults' = faults + 1

LoadFails(p) ==
  /\ Fault
  /\ pc[p] \in Reading
  /\ part' = [part EXCEPT ![p] = None]
  /\ Goto(p, "idle")
  /\ ReleaseRLock(p)
  /\ UNCHANGED <<tables, job, todo, got>>

(* The upgrade rule reads the held row with "err == nil &&": an error      *)
(* skips the rule.                                                         *)
CheckFails(p) ==
  /\ Fault
  /\ pc[p] = "check"
  /\ Goto(p, "upsert")
  /\ UNCHANGED <<tables, locks, job, todo, part, got>>

StoreFails(p) ==
  /\ Fault
  /\ pc[p] \in (Storing \ {"check"}) \cup Keeping
  /\ pc[p] \in {"insertKeys", "insertSigs"} => todo[p] # {}
  /\ AbandonStore(p)

InvalidateFails(p) ==
  /\ Fault
  /\ pc[p] = "invalidate"
  /\ got' = [got EXCEPT ![p] = None]
  /\ Goto(p, "idle")
  /\ ReleaseLock
  /\ UNCHANGED <<tables, job, todo, part>>

Restart ==
  /\ Fault
  /\ writer' = None
  /\ readers' = {}
  /\ pc' = [p \in Proc |-> "idle"]
  /\ job' = [p \in Proc |-> None]
  /\ todo' = [p \in Proc |-> {}]
  /\ part' = [p \in Proc |-> None]
  /\ got' = [p \in Proc |-> None]
  /\ UNCHANGED tables
-----------------------------------------------------------------------------
Acquire(p) == BeginLoad(p) \/ BeginStore(p) \/ BeginInvalidate(p)

Load(p) == LoadRow(p) \/ LoadKeys(p) \/ LoadSigs(p)

Store(p) ==
  \/ Check(p) \/ KeepKeys(p) \/ KeepSigs(p)
  \/ Upsert(p) \/ DeleteKeys(p) \/ DeleteSigs(p)
  \/ \E r \in todo[p] : InsertKey(p, r) \/ DuplicateKey(p, r)
  \/ KeysInserted(p)
  \/ \E r \in todo[p] : InsertSig(p, r)
  \/ StoreDone(p)

Answering(p) == Serve(p) \/ Refuse(p) \/ InvalidateHeld(p) \/ Finish(p)

Step(p) ==
  \/ Query(p)
  \/ \E a \in Answer, v \in Via : Fetch(p, a, v)
  \/ Acquire(p) \/ Load(p) \/ Store(p) \/ Answering(p)

Next == NoteOriginFailure \/ \E p \in Proc : Step(p)

StatementFails(p) ==
  LoadFails(p) \/ CheckFails(p) \/ StoreFails(p) \/ InvalidateFails(p)

FaultyNext == Next \/ Restart \/ \E p \in Proc : StatementFails(p)

Spec == Init /\ [][Next]_vars
FaultySpec == Init /\ [][FaultyNext]_vars

(* Statements return, and Go's mutexes starve nobody: of several callers   *)
(* blocked in Lock each gets its turn.                                     *)
Fairness ==
  \A p \in Proc : /\ WF_vars(Load(p) \/ Store(p) \/ InvalidateHeld(p))
                  /\ SF_vars(BeginLoad(p)) /\ SF_vars(BeginStore(p))
                  /\ SF_vars(BeginInvalidate(p))
LiveFaultySpec == FaultySpec /\ Fairness
=============================================================================
