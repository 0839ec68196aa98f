---------------------------- MODULE MCRelisting ----------------------------
(* Small instances of Relisting for TLC. *)
EXTENDS Relisting, TLC

\* A save and a mishap, two mishaps, or three saves.
SmallBudgets == {<<1, 1>>, <<0, 2>>, <<3, 0>>}
=============================================================================
