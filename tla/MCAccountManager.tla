-------------------------- MODULE MCAccountManager --------------------------
(* Small instances of AccountManager for TLC. *)
EXTENDS AccountManager, TLC

Symmetric == Permutations(Requests)
=============================================================================
