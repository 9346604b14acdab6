-------------------------- MODULE KernelRefinement --------------------------
(***************************************************************************)
(* Module Kernel implements module Nucleus: links become sequences and     *)
(* sets, and the steps of liberaTutti after the first are stutters, the    *)
(* processes that it has still to free being dead already.                 *)
(***************************************************************************)
EXTENDS KernelInvariant

\* what is being terminated no longer exists for Nucleus
Alive == Live \ Doomed
Ready == OnReady \ Doomed

\* the nodes from which a walk finds all the list's nodes but the first i - 1
At(nx, h, i) ==
  {p \in Reach(nx, h) : Cardinality(Reach(nx, p)) = Cardinality(Reach(nx, h)) - i + 1}

\* the list that starts at h, as a sequence
AsSeq(nx, h) == [i \in 1..Cardinality(Reach(nx, h)) |-> CHOOSE p \in At(nx, h, i) : TRUE]

ParentOf   == [p \in Alive |-> p_parent[p]]
PriorityOf == [p \in Alive |-> start_priority[p]]
ReadyNow   == [p \in Ready |-> p_priority[p]]
Waiters    == [k \in Key |-> AsSeq(p_next, s_procQ[k])]
StoppedBy  == IF pc \in {"halt", "panic"} THEN pc ELSE "no"

Abstract ==
  INSTANCE Nucleus WITH
    Proc     <- Pcb,
    NONE     <- NULL,
    EventSem <- SoftKey,
    parent   <- ParentOf,
    priority <- PriorityOf,
    ready    <- ReadyNow,
    current  <- currentPcb,
    value    <- semval,
    queue    <- Waiters,
    stopped  <- StoppedBy

(* The kernel keeps the promise of Nucleus: whatever system calls,         *)
(* interrupts and decisions of the scheduler do to the lists, in the order *)
(* the handlers do it, is one of its steps, or none.                       *)
ImplementsNucleus == Abstract!Spec

=============================================================================
