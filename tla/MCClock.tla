------------------------------ MODULE MCClock ------------------------------
(* Instances of Clock for TLC. *)
EXTENDS Clock

Times == 0..(UINT - 1)

=============================================================================
