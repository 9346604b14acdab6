--------------------------- MODULE KernelInvariant ---------------------------
(***************************************************************************)
(* What the safety properties of KernelProperties rest on: an invariant    *)
(* that every step of the kernel preserves, if programs terminate only     *)
(* processes that do not wait.  Its parts are stated for the lists, as the *)
(* sets of PCBs that walks over them find, and for the pending calls of    *)
(* liberaTutti.                                                            *)
(***************************************************************************)
EXTENDS KernelProperties

Free    == Reach(p_next, pcbfree_h)
OnReady == Reach(p_next, readyQueue)

\* the processes that liberaTutti is about to free, or will come to
Doomed == UNION {Subtree(p) : p \in Dying}

(* Every list ends: no walk of the kernel is lost.                         *)
ListsEnd ==
  /\ pc # "lost"
  /\ Ends(p_next, pcbfree_h) /\ Ends(p_next, readyQueue)
  /\ \A k \in Key : Ends(p_next, s_procQ[k])

(* The lists have no PCB in common, the current process is on none of      *)
(* them, and only a dying process can be nowhere.                          *)
ListsApart ==
  /\ Free \cap OnReady = {}
  /\ currentPcb \notin Free \cup OnReady
  /\ \A k \in Key : Queue(k) \cap (Free \cup OnReady \cup {currentPcb}) = {}
  /\ \A j, k \in Key : j # k => Queue(j) \cap Queue(k) = {}
  /\ Pcb \ Dying \subseteq Free \cup OnReady \cup {currentPcb} \cup Blocked

(* liberaTutti has a pending call for a process once at most, has unlinked *)
(* all of them but the first from their parents, and what it terminates is *)
(* alive, does not run and does not wait.                                  *)
DyingSound ==
  /\ pc # "liberaTutti" => stack = << >>
  /\ \A p \in Doomed : p \notin Free \cup Blocked \cup {currentPcb}
  /\ \A i, j \in 1..Len(stack) : stack[i] = stack[j] => i = j
  /\ \A i \in 2..Len(stack) : p_parent[stack[i]] = NULL
  /\ stack # << >> => p_parent[stack[1]] \notin Doomed

(* All the live processes but one that have no parent are dying.           *)
OneRoot ==
  \A p, q \in Live \ Dying : p_parent[p] = NULL /\ p_parent[q] = NULL => p = q

(* The process that waits for a device waits on the semaphore getDeviceNi  *)
(* found for it, until the command is acknowledged.  While an interrupt    *)
(* that nobody waits for is raised (a terminal failed) no system call is   *)
(* made, and the process it was for is ready or runs.                      *)
RequestQueued ==
  /\ \A d \in Device :
       /\ dev[d] \in {"busy", "pending"} => s_procQ[GetDeviceNi(DevReg(d, 1))] # NULL
       /\ dev[d] = "failed" => \/ s_procQ[GetDeviceNi(DevReg(d, 1))] # NULL
                               \/ currentPcb # NULL \/ readyQueue # NULL
       /\ Raised(d) => stack = << >>
  /\ \A k \in DevSem : s_procQ[k] # NULL => \E d \in Device : k = GetDeviceNi(DevReg(d, 1))

(* An idle machine has nothing to run, and waits for a device or the       *)
(* pseudo-clock.                                                           *)
IdleSound ==
  pc = "wait" => /\ currentPcb = NULL /\ readyQueue = NULL
                 /\ \E k \in SoftKey : s_procQ[k] # NULL

(* What holds beside the properties of KernelProperties, and makes them    *)
(* inductive: the pending calls of liberaTutti, the requests, and what the *)
(* machine waits for.  ListsEnd and ListsApart say by sets what OnePlace   *)
(* says by counting.                                                       *)
Supported == DyingSound /\ OneRoot /\ RequestQueued /\ IdleSound

Inductive ==
  /\ TypeOK /\ SemaphoresSound /\ Supported
  /\ ListsEnd /\ ListsApart /\ TreeSound
  /\ ActiveCounts /\ SoftblockCounts /\ ReadySorted /\ PriorityKept
=============================================================================
