----------------------------- MODULE MCStartup ------------------------------
(***************************************************************************)
(* Instances of Startup for TLC.                                           *)
(***************************************************************************)
EXTENDS StartupProps

CONSTANTS a, b

(* The statements of the four migrations of src/db/migrations. *)
MCStatements == <<1, 3, 1, 2>>

MCLists == {<<a, b>>, <<Blank>>, <<Self, b, Blank, a, b>>}
=============================================================================
