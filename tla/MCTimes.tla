------------------------------ MODULE MCTimes ------------------------------
(* Instances of Times for TLC. *)
EXTENDS Times, TLC

Symmetry == Permutations(Pcb)

=============================================================================
