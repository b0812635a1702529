----------------------------- MODULE MCHcGameTx -----------------------------
(***************************************************************************)
(* Instances of HcGameTx for TLC.                                          *)
(***************************************************************************)
EXTENDS HcGameTx, TLC

CONSTANTS ann, bob           \* users
CONSTANT g1                  \* session id
CONSTANTS r1, r2             \* requests being served

RequestSymmetry == Permutations(Requests) \cup Permutations(Users)

OneVerb == {{1}}
=============================================================================
