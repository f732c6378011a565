----------------------------- MODULE Reservoir ------------------------------
(***************************************************************************)
(* What the reservoir promises for one server: at any moment it holds      *)
(* nothing, a blank record, or the whole of one answer; a request is given *)
(* what is held at one moment, or the answer it has itself just stored;    *)
(* the origin's answers always replace what is held, and a notary's        *)
(* replace it only with one valid strictly longer.  Module KeyStore shows  *)
(* that the statements of src/keys/notary.go keep this promise.            *)
(***************************************************************************)
EXTENDS Naturals

CONSTANTS
  Proc,            \* goroutines
  Answer,          \* signed key objects
  Via,             \* who an answer came from
  Direct,          \* the origin itself
  None,            \* nothing in hand
  Unknown,         \* the record of a server never heard of
  Blank,           \* the record of a server that never answered
  Entry(_, _),     \* the record of an answer
  Validity(_)      \* until when a record is valid

VARIABLES
  rec,             \* what is held
  view             \* what each goroutine has in hand

rvars == <<rec, view>>

RInit ==
  /\ rec = Unknown
  /\ view = [p \in Proc |-> None]

(* Somebody asks for what is held. *)
Read(p) ==
  /\ view' = [view EXCEPT ![p] = rec]
  /\ UNCHANGED rec

(* An answer arrives and replaces what is held. *)
Replaces(a, v) ==
  \/ v = Direct
  \/ rec \in {Unknown, Blank}
  \/ Validity(Entry(a, v)) > Validity(rec)

Put(p, a, v) ==
  /\ Replaces(a, v)
  /\ rec' = Entry(a, v)
  /\ view' = [view EXCEPT ![p] = Entry(a, v)]

(* The origin of an unknown server could not be asked. *)
Miss ==
  /\ rec = Unknown
  /\ rec' = Blank
  /\ UNCHANGED view

Forget(p) ==
  /\ view' = [view EXCEPT ![p] = None]
  /\ UNCHANGED rec

RNext ==
  \/ Miss
  \/ \E p \in Proc : Read(p) \/ Forget(p)
  \/ \E p \in Proc, a \in Answer, v \in Via : Put(p, a, v)

RSpec == RInit /\ [][RNext]_rvars
=============================================================================
