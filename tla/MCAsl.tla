------------------------------- MODULE MCAsl -------------------------------
(* Instances of Asl for TLC: the keys up to 2 collide, 3 does not. *)
EXTENDS Asl

SomeHash       == [k \in Key |-> IF k <= 2 THEN 0 ELSE 1]
SomePriorities == [p \in Pcb |-> IF p = 1 THEN 1 ELSE 0]

=============================================================================
