------------------------------ MODULE MCHcGame ------------------------------
(***************************************************************************)
(* Instances of HcGame for TLC: verbs are small numbers, as in the source. *)
(***************************************************************************)
EXTENDS HcGame, TLC

CONSTANTS ann, bob, cat      \* users
CONSTANT g1                  \* session id

PlayerSymmetry == Permutations(Users)

OneVerb == {{1}}
=============================================================================
