----------------------------- MODULE MCKeyStore -----------------------------
(***************************************************************************)
(* Instances of KeyStore for TLC.  Three answers: an early and a later one *)
(* with a key rotated between them (the early one's current key is the     *)
(* later one's old key), and one as long valid as the early one but with   *)
(* other keys.                                                             *)
(***************************************************************************)
EXTENDS KeyStoreProps, TLC

CONSTANTS early, later, other, k1, k2

KeysOf == early :> {<<k1, "current">>}
            @@ later :> {<<k2, "current">>, <<k1, "old">>}
            @@ other :> {<<k2, "current">>}

MCKeysIn == [a \in Answer |-> KeysOf[a]]
MCSignedBy == [a \in Answer |-> Current(KeysOf[a])]
MCValidUntil == [a \in Answer |-> IF a = later THEN 2 ELSE 1]

(* The later answer lists one identifier as current and as old.            *)
MCRepeatedKeysIn ==
  [MCKeysIn EXCEPT ![later] = {<<k2, "current">>, <<k2, "old">>}]

MCSymmetry == Permutations(Proc)
=============================================================================
