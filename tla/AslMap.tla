------------------------------- MODULE AslMap -------------------------------
(***************************************************************************)
(* What the active semaphore list promises, and what module Kernel takes   *)
(* it to be: a map from the keys of semaphores to queues of PCBs, in which *)
(* no more than MAXSEMD keys have waiters at a time.                       *)
(***************************************************************************)
EXTENDS PcbLists, FiniteSets

CONSTANTS
  Key,         \* the addresses of semaphores
  MAXSEMD,     \* number of semaphores that can have waiters
  p_priority   \* of each PCB

VARIABLES
  p_next,
  s_procQ,     \* the queue of each key; NULL: no waiters
  ret          \* what the last call returned

map == <<p_next, s_procQ, ret>>

Waiting == UNION {Reach(p_next, s_procQ[k]) : k \in Key}

Init ==
  /\ p_next = [p \in Pcb |-> NULL]
  /\ s_procQ = [k \in Key |-> NULL]
  /\ ret = 0

\* A process that does not wait is put on the queue of k, or refused because
\* that would be one key too many.
Insert(k, p) ==
  /\ p \notin Waiting
  /\ LET full == /\ s_procQ[k] = NULL
                 /\ Cardinality({j \in Key : s_procQ[j] # NULL}) >= MAXSEMD
         nx   == [p_next EXCEPT ![p] = NULL]
         q    == InsertProcQ(nx, p_priority, s_procQ[k], p)
     IN  /\ p_next' = IF full THEN nx ELSE q.next
         /\ s_procQ' = IF full THEN s_procQ ELSE [s_procQ EXCEPT ![k] = q.head]
         /\ ret' = IF full THEN -1 ELSE 0

\* The first waiter is told.
Head(k) ==
  /\ ret' = s_procQ[k]
  /\ UNCHANGED <<p_next, s_procQ>>

\* The first waiter is removed, if there is one.
Remove(k) ==
  /\ s_procQ' = IF s_procQ[k] = NULL THEN s_procQ
                ELSE [s_procQ EXCEPT ![k] = p_next[s_procQ[k]]]
  /\ ret' = s_procQ[k]
  /\ UNCHANGED p_next

Next == \E k \in Key : (\E p \in Pcb : Insert(k, p)) \/ Head(k) \/ Remove(k)

Spec == Init /\ [][Next]_map

=============================================================================
