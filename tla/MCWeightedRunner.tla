-------------------------- MODULE MCWeightedRunner --------------------------
(* A small instance of WeightedRunner for TLC. *)
EXTENDS WeightedRunner

(* Local twice as often as remote, and the reverse.                         *)
Ratios == {[local |-> 2, remote |-> 1], [local |-> 1, remote |-> 2]}
=============================================================================
