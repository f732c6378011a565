------------------------------- MODULE Gather -------------------------------
(***************************************************************************)
(* What a batch promises of each of its servers, seen without goroutines,  *)
(* slots and a wait group: every server is looked up on its own, what is   *)
(* found of it is a record that verifies and that was held at some moment  *)
(* since the request came in, or an error, and is final; and the reply,    *)
(* given when all are found, is what was found.  ServeBatch implements it. *)
(***************************************************************************)
CONSTANTS
  Request,  \* handlers of batch requests
  Server,   \* servers
  Record,   \* what may be held of a server
  Spoilt,   \* the records that do not verify
  Nothing,  \* nothing in hand, or not found yet
  Error,    \* the lookup has failed
  None      \* no reply yet

VARIABLES
  copy,   \* what is held of each server
  asked,  \* the servers each request asks for
  hand,   \* the record it has read of each of them
  found,  \* what it has found out of each of them
  out     \* its reply

gvars == <<copy, asked, hand, found, out>>

GInit ==
  /\ copy \in [Server -> Record]
  /\ asked = [r \in Request |-> {}]
  /\ hand = [r \in Request |-> [s \in Server |-> Nothing]]
  /\ found = [r \in Request |-> [s \in Server |-> Nothing]]
  /\ out = [r \in Request |-> <<>>]

(* Stores, faults and time change one record. *)
Change(s) ==
  /\ copy'[s] \in Record
  /\ copy' = [copy EXCEPT ![s] = copy'[s]]

Drift(s) == Change(s) /\ UNCHANGED <<asked, hand, found, out>>

Ask(r, S) ==
  /\ out[r] # None
  /\ asked' = [asked EXCEPT ![r] = S]
  /\ out' = [out EXCEPT ![r] = None]
  /\ UNCHANGED <<copy, hand, found>>

Open(r, s) == out[r] = None /\ s \in asked[r] /\ found[r][s] = Nothing

(* What is held by now is read, perhaps just fetched. *)
Take(r, s) ==
  /\ Open(r, s)
  /\ Change(s)
  /\ hand' = [hand EXCEPT ![r][s] = copy'[s]]
  /\ UNCHANGED <<asked, found, out>>

Refuse(r, s) ==
  /\ Open(r, s)
  /\ hand[r][s] \in Spoilt
  /\ hand' = [hand EXCEPT ![r][s] = Nothing]
  /\ UNCHANGED <<copy, asked, found, out>>

Settle(r, s) ==
  /\ Open(r, s)
  /\ hand[r][s] \in Record \ Spoilt
  /\ found' = [found EXCEPT ![r][s] = hand[r][s]]
  /\ hand' = [hand EXCEPT ![r][s] = Nothing]
  /\ UNCHANGED <<copy, asked, out>>

(* The lookup fails and may spoil the record. *)
Fail(r, s) ==
  /\ Open(r, s)
  /\ Change(s)
  /\ found' = [found EXCEPT ![r][s] = Error]
  /\ hand' = [hand EXCEPT ![r][s] = Nothing]
  /\ UNCHANGED <<asked, out>>

Answer(r) ==
  /\ out[r] = None
  /\ \A s \in asked[r] : found[r][s] # Nothing
  /\ out' = [out EXCEPT ![r] =
       [s \in {z \in asked[r] : found[r][z] # Error} |-> found[r][s]]]
  /\ found' = [found EXCEPT ![r] = [s \in Server |-> Nothing]]
  /\ UNCHANGED <<copy, asked, hand>>

GNext ==
  \/ \E s \in Server : Drift(s)
  \/ \E r \in Request : Answer(r) \/ \E S \in SUBSET Server : Ask(r, S)
  \/ \E r \in Request, s \in Server :
       Take(r, s) \/ Refuse(r, s) \/ Settle(r, s) \/ Fail(r, s)

GSpec == GInit /\ [][GNext]_gvars
=============================================================================
