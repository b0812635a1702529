----------------------------- MODULE MCAccounts -----------------------------
(***************************************************************************)
(* Instances of Accounts for TLC.                                          *)
(***************************************************************************)
EXTENDS Accounts, TLC

Alike ==
  Permutations(Browsers) \cup Permutations(Requests)
  \cup Permutations(UserIds) \cup Permutations(Names)
=============================================================================
