--------------------------- MODULE MCKeyResolver ----------------------------
(***************************************************************************)
(* Instances of KeyResolver for TLC.                                       *)
(***************************************************************************)
EXTENDS KeyResolverProps, TLC

CONSTANTS n1, n2

MCLadder == <<1, 2>>
NoNotary == <<>>
OneNotary == <<n1>>
TwoNotaries == <<n1, n2>>

(* A minimum_valid_until_ts before now, and one after it.                  *)
PastToo == {-1, 1}

(* An answer that has expired when it comes, and one that has not.         *)
ExpiredToo == {-1, 2}

MCSymmetry == Permutations(Proc)
=============================================================================
