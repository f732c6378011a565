---------------------------- MODULE MCDiscovery -----------------------------
(***************************************************************************)
(* Instances of Discovery for TLC.                                         *)
(***************************************************************************)
EXTENDS DiscoveryProps, TLC

CONSTANTS s, d, dport, ip, junk, t

MCAddr == {s, d, dport, ip, junk}
MCForm == (s :> "name") @@ (d :> "name") @@ (dport :> "port")
          @@ (ip :> "ip") @@ (junk :> "junk")
MCBare == [a \in MCAddr |-> IF a = dport THEN d ELSE a]

Silent == [status |-> "none", addr |-> junk, cache |-> <<>>]
Gone == [status |-> "gone", addr |-> junk, cache |-> <<>>]
ToName == [status |-> "ok", addr |-> d, cache |-> <<>>]
ToPort == [status |-> "ok", addr |-> dport, cache |-> <<0, NoStore>>]
ToIP == [status |-> "ok", addr |-> ip, cache |-> <<9, 1>>]

MCResponse == {Silent, Gone, ToName, ToPort, ToIP}

MCSymmetry == Permutations(Proc)
=============================================================================
