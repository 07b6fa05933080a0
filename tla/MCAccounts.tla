------------------------------ MODULE MCAccounts ------------------------------
(* Instances of Accounts: two requests at a time. *)
EXTENDS Accounts, TLC

RequestSymmetry == Permutations(Request)
=============================================================================
