--------------------------- MODULE KeyStoreProps ----------------------------
(***************************************************************************)
(* What the stored record of a server must satisfy, with and without       *)
(* faults, and the promise (Reservoir) it keeps without them.              *)
(***************************************************************************)
EXTENDS KeyStore

(* A record that is the whole of one answer, or holds no keys because      *)
(* none were ever stored.                                                  *)
Whole(r) ==
  r \in {Unknown, Blank} \/ \E a \in Answer, v \in Via : r = Entry(a, v)

(* Every record served is the whole of one answer: no read lands inside a  *)
(* store and pairs one answer's keys with another's signatures or validity *)
(* (src/keys/notary.go:331, serverLocks).                                  *)
ServedWhole == \A p \in Proc : pc[p] = "served" => Whole(got[p])

(* While nobody is storing, a row that an answer wrote has keys: the       *)
(* delete-then-reinsert of storeRemoteKeys never loses them                *)
(* (src/keys/notary.go:399).                                               *)
SettledRowsCarryKeys ==
  writer = None /\ row # NoRow /\ row # BlankRow => keys # {}

(* "The reservoir must never lose keys" (src/keys/notary.go:399): while    *)
(* nobody is storing, keys that someone still at work has read or stored   *)
(* have not left the table without others in their place.                  *)
KeysAreNotLost ==
  writer = None /\ (\E p \in Proc : got[p] # None /\ got[p].keys # {})
    => keys # {}

(* A notary's answer never shortens the validity of what is held: only the *)
(* origin, or the invalidation of a broken record, may                     *)
(* (src/keys/notary.go:401, the upgrade rule).                             *)
NotaryNeverDowngrades ==
  [][row # NoRow /\ row'.valid < row.valid
       => row'.via = Direct \/ row'.valid = 0]_vars

(* No insert meets a key already in the table, the failure the lock was    *)
(* introduced for (src/keys/notary.go:333, remote_keys_pkey), unless the   *)
(* answer itself repeats an identifier; it holds through faults, since     *)
(* every store deletes before it inserts.                                  *)
InsertNeverCollides ==
  \A p \in Proc : \A r \in todo[p] :
    NextKey(p, r) /\ WellFormed(job[p].ans) => r[2][1] \notin Ids(keys)

(* At every moment, a table that has both keys and signatures has all the  *)
(* keys of one answer and only signatures of that answer, wherever a store *)
(* was cut short: keys are deleted first and signatures inserted last      *)
(* (src/keys/notary.go:432-491).                                           *)
SignaturesImplyFullKeys ==
  keys # {} /\ sigs # {} =>
    \E a \in Answer : keys = KeyRows(a) /\ sigs \subseteq SigRows(a)

(* Through a fault too, the keys served all belong to the answer whose     *)
(* extra fields are served with them, and the validity is that answer's or *)
(* the zero of an invalidated record (src/api/keys_v2/query.go:251, the    *)
(* last-minute check, with the statement order of storeRemoteKeys).  Two   *)
(* stores cut short one after the other defeat the check: keys without     *)
(* signatures under another answer's row.                                  *)
ServedOneAnswer ==
  faults <= 1 => \A p \in Proc : pc[p] = "served" /\ got[p].keys # {} =>
    /\ got[p].row.extra # None
    /\ got[p].keys \subseteq KeyRows(got[p].row.extra)
    /\ got[p].row.valid \in {0, ValidUntil[got[p].row.extra]}

(* Whoever asks for the lock gets it and gives it back, also on every      *)
(* error path of a load, a store and an invalidation                       *)
(* (src/keys/notary.go:350, 367, 397, the deferred unlocks).               *)
LocksAreReleased ==
  \A p \in Proc :
    pc[p] \in {"rlock", "lock", "wlock"} ~> pc[p] \in {"idle", "loaded"}
-----------------------------------------------------------------------------
(* The refinement.  A store takes effect at its Upsert: from then on, the  *)
(* lock keeps everyone from seeing anything but its completion.            *)
Late(p) == pc[p] \in {"deleteKeys", "deleteSigs", "insertKeys", "insertSigs"}
Stores(p) == Entry(job[p].ans, job[p].via)

recBar ==
  IF writer # None /\ Late(writer) THEN Stores(writer) ELSE Stored
viewBar == [p \in Proc |-> IF Late(p) THEN Stores(p) ELSE got[p]]

Promise == INSTANCE Reservoir WITH
  rec <- recBar, view <- viewBar,
  Validity <- LAMBDA r : r.row.valid

(* The statements of src/keys/notary.go, run under the lock, implement a   *)
(* reservoir whose records are replaced and read in one step each.         *)
KeepsPromise == Promise!RSpec
=============================================================================
