------------------------------ MODULE MCP2test ------------------------------
(* The test of p2test.c for TLC. *)
EXTENDS P2test

\* print() of p2test.c
MCMutex == [d \in Device |-> term_mutex]
=============================================================================
