------------------------------ MODULE Holdings ------------------------------
(***************************************************************************)
(* What the resolver promises of all servers' copies together, seen        *)
(* without schedules, probes and walks: a copy is replaced by any answer   *)
(* of its origin, and by a notary's answer only if that is valid for       *)
(* longer; and what a request has in hand, and replies with, is a copy     *)
(* that was held at some moment since it began.  A mishap is the only      *)
(* other thing that changes a copy: a store that is cut short leaves any   *)
(* copy at all, a notary's answer lands on a longer-valid one, a request   *)
(* finds the copy in its hand spoilt.  KeyResolver implements it.          *)
(***************************************************************************)
EXTENDS Naturals

CONSTANTS
  Proc,     \* requests
  Server,   \* servers
  Direct,   \* who an answer of the origin itself comes from
  Unknown,  \* no copy
  None,     \* nothing in hand
  MaxMishaps

Copy == [valid : Nat, via : Server \cup {Direct}, keys : BOOLEAN]

VARIABLES
  copy,  \* what is held of each server
  hand,  \* what each request has in hand: a copy and whose it is
  mishaps

hvars == <<copy, hand, mishaps>>

HInit ==
  /\ copy = [s \in Server |-> Unknown]
  /\ hand = [p \in Proc |-> None]
  /\ mishaps = 0

(* A request takes the copy that is now held, or lets go of its own.       *)
Takes(p, s) == hand' = [hand EXCEPT ![p] = [server |-> s, copy |-> copy'[s]]]

Read(p, s) ==
  /\ copy[s] # Unknown
  /\ UNCHANGED copy
  /\ Takes(p, s)

LetGo(p) ==
  /\ hand' = [hand EXCEPT ![p] = None]
  /\ UNCHANGED copy

(* Keys arrive, and the request they were got for may take them.           *)
Arrive(s, via) ==
  /\ copy'[s] \in Copy /\ copy'[s].via = via /\ copy'[s].keys
  /\ copy' = [copy EXCEPT ![s] = copy'[s]]
  /\ UNCHANGED hand \/ \E p \in Proc : Takes(p, s)

Refresh(s) == Arrive(s, Direct)

Upgrade(s, notary) ==
  /\ Arrive(s, notary)
  /\ copy[s] = Unknown \/ copy'[s].valid > copy[s].valid

(* An origin that never answered is noted.                                 *)
Miss(s) ==
  /\ copy[s] = Unknown
  /\ copy' = [copy EXCEPT ![s] = [valid |-> 0, via |-> Direct, keys |-> FALSE]]
  /\ UNCHANGED hand

(* A request finds the copy in its hand spoilt.                            *)
Void(p) ==
  /\ hand[p] # None /\ copy[hand[p].server] # Unknown
  /\ copy' = [copy EXCEPT ![hand[p].server].valid = 0]
  /\ hand' = [hand EXCEPT ![p] = None]

(* A store of s is cut short.                                              *)
Tear(s) ==
  /\ copy'[s] \in Copy
  /\ copy' = [copy EXCEPT ![s] = copy'[s]]
  /\ UNCHANGED hand

(* The program stops, and with it the stores it is in.                     *)
Restart ==
  /\ hand' = [p \in Proc |-> None]
  /\ copy' \in [Server -> Copy \cup {Unknown}]
  /\ \A s \in Server : copy[s] # Unknown => copy'[s] # Unknown

Usual ==
  \/ \E p \in Proc : LetGo(p) \/ \E s \in Server : Read(p, s)
  \/ \E s \in Server : \/ Refresh(s) \/ Miss(s)
                       \/ \E notary \in Server : Upgrade(s, notary)

Mishap ==
  /\ mishaps < MaxMishaps
  /\ mishaps' = mishaps + 1
  /\ \/ UNCHANGED <<copy, hand>>
     \/ \E p \in Proc : LetGo(p) \/ Void(p)
     \/ \E s \in Server : \/ Refresh(s) \/ Tear(s)
                          \/ \E notary \in Server : Arrive(s, notary)
     \/ Restart

HNext == (Usual /\ UNCHANGED mishaps) \/ Mishap

HSpec == HInit /\ [][HNext]_hvars
=============================================================================
