------------------------------ MODULE PcbLists ------------------------------
(***************************************************************************)
(* The linked lists of process control blocks of yaeos (coda.c).           *)
(*                                                                         *)
(* A PCB has ONE link field, p_next, and every list it can be on is        *)
(* threaded through it: the free list, the ready queue and the queue of a  *)
(* semaphore.  The lists are therefore modelled as the code keeps them, a  *)
(* function from PCBs to their successors and the head of each list; two   *)
(* lists that share a PCB share its successor too.  The same operators     *)
(* serve the lists of siblings of alberi.c, whose link is p_sib.           *)
(*                                                                         *)
(* The recursive walks of the code become statements about the set of      *)
(* nodes reached.  A walk over a cyclic list never returns: Ends says      *)
(* whether a walk does, and where it does not the operators return an      *)
(* arbitrary node for a caller that is lost in any case.                   *)
(***************************************************************************)
EXTENDS Integers

CONSTANT MAXPROC        \* number of PCBs in pcbfree_table (20 in const.h)

ASSUME MaxprocAssumption == MAXPROC \in Nat \ {0}

Pcb  == 1..MAXPROC      \* &pcbfree_table[i - 1]
NULL == 0
Link == Pcb \cup {NULL}

-----------------------------------------------------------------------------
(***************************************************************************)
(* Walks.  Reach(nx, h) holds the nodes that MAXPROC steps along nx lead   *)
(* to from h, hence all the nodes that any walk finds; Ends(nx, h) holds   *)
(* when the walk from h meets a NULL link.                                 *)
(***************************************************************************)
Reach(nx, h) ==
  LET within[i \in 0..MAXPROC] ==
        IF i = 0 THEN {h}
        ELSE UNION {{n, IF n = NULL THEN NULL ELSE nx[n]} : n \in within[i - 1]}
  IN  Pcb \cap within[MAXPROC]

Ends(nx, h) == h = NULL \/ \E n \in Reach(nx, h) : nx[n] = NULL

\* lastNode(head), for a head that is not NULL
LastNode(nx, h) ==
  IF Ends(nx, h) THEN CHOOSE n \in Reach(nx, h) : nx[n] = NULL ELSE h

\* the list as a walk sees it that stops at the first node of S
CutAt(nx, S) == [x \in Pcb |-> IF x \in S THEN NULL ELSE nx[x]]

\* previous(head, p): the node p is linked from; it is not linked from any
\* node of the list when the result's successor is not p
PreviousCut(nx, p)  == CutAt(nx, {x \in Pcb : nx[x] = p})
Previous(nx, h, p) == LastNode(PreviousCut(nx, p), h)

\* mutant: p goes before its equals
PriorityCutEqual(nx, pri, p) ==
  CutAt(nx, {x \in Pcb : nx[x] # NULL /\ pri[nx[x]] <= pri[p]})

\* priorityPrevious(head, p): the first node with a successor of smaller
\* priority than p, or else the last node
PriorityCut(nx, pri, p) ==
  CutAt(nx, {x \in Pcb : nx[x] # NULL /\ pri[nx[x]] < pri[p]})
PriorityPrevious(nx, pri, h, p) == LastNode(PriorityCut(nx, pri, p), h)

-----------------------------------------------------------------------------
(***************************************************************************)
(* Process queues.  A result is a record of the links and of the head.     *)
(***************************************************************************)
\* mutant: p is never put before the head
InsertProcQBehind(nx, pri, h, p) ==
  IF h = NULL
  THEN [next |-> [nx EXCEPT ![p] = NULL], head |-> p]
  ELSE LET q == PriorityPrevious(nx, pri, h, p)
       IN  [next |-> [nx EXCEPT ![p] = nx[q], ![q] = p], head |-> h]

InsertProcQ(nx, pri, h, p) ==
  IF h = NULL
  THEN [next |-> [nx EXCEPT ![p] = NULL], head |-> p]
  ELSE IF pri[p] > pri[h]
  THEN [next |-> [nx EXCEPT ![p] = h], head |-> p]
  ELSE LET q == PriorityPrevious(nx, pri, h, p)
       IN  [next |-> [nx EXCEPT ![p] = nx[q], ![q] = p], head |-> h]

InsertEnds(nx, pri, h, p) ==
  (h # NULL /\ pri[p] <= pri[h]) => Ends(PriorityCut(nx, pri, p), h)

\* mutant: only the head is removed
OutProcQHead(nx, h, p) ==
  [next |-> nx, head |-> IF h # NULL /\ h = p THEN nx[p] ELSE h]

OutProcQ(nx, h, p) ==
  IF h = NULL THEN [next |-> nx, head |-> NULL]
  ELSE IF h = p THEN [next |-> nx, head |-> nx[p]]
  ELSE LET q == Previous(nx, h, p)
       IN  [next |-> IF nx[q] = p THEN [nx EXCEPT ![q] = nx[p]] ELSE nx,
            head |-> h]

OutEnds(nx, h, p) == h # p => Ends(PreviousCut(nx, p), h)

-----------------------------------------------------------------------------
(***************************************************************************)
(* The free list: allocPcb takes its LAST element and freePcb appends, so  *)
(* that the PCB freed last is the first to be used again.                  *)
(***************************************************************************)
LastButOne(nx, h) ==
  LastNode(CutAt(nx, {x \in Pcb : nx[x] # NULL /\ nx[nx[x]] = NULL}), h)

\* the PCB allocPcb takes from a free list that is not empty
AllocNode(nx, h) == LastNode(nx, h)

\* the free list without it; startPcb has cleared its link
AllocPcb(nx, h) ==
  IF nx[h] = NULL \/ ~Ends(nx, h)
  THEN [next |-> nx, head |-> NULL]
  ELSE [next |-> [nx EXCEPT ![LastButOne(nx, h)] = NULL], head |-> h]

\* mutant: p is put before the head
FreePcbHead(nx, h, p) == [next |-> [nx EXCEPT ![p] = h], head |-> p]

FreePcb(nx, h, p) ==
  IF h = NULL
  THEN [next |-> [nx EXCEPT ![p] = NULL], head |-> p]
  ELSE [next |-> [nx EXCEPT ![LastNode(nx, h)] = p, ![p] = NULL], head |-> h]

=============================================================================
