---------------------------- MODULE MCServeBatch ----------------------------
(***************************************************************************)
(* Instances of ServeBatch for TLC.                                        *)
(***************************************************************************)
EXTENDS ServeBatchProps, TLC

CONSTANTS a, b, r1, r2

(* One client asks for both servers, for one with two criteria; another    *)
(* for one server alone.                                                   *)
MCBody == (r1 :> {(a :> {1, 3}) @@ (b :> {})}) @@ (r2 :> {a :> {}})

Torn == [kind |-> "bad", valid |-> Longest]
Good == [kind |-> "good", valid |-> Longest]
MCStored == {(a :> Torn) @@ (b :> NoRecord), (a :> Good) @@ (b :> Torn)}

(* Sources of a may answer with a record that has expired.                 *)
MCOffers == (a :> {1, 3}) @@ (b :> {3})
MCReached == {(a :> TRUE) @@ (b :> TRUE), (a :> FALSE) @@ (b :> TRUE)}
=============================================================================
