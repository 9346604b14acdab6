----------------------------- MODULE MCTerminal -----------------------------
(* One terminal for TLC. *)
EXTENDS Terminal
=============================================================================
