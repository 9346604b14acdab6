-------------------------- MODULE KernelProperties --------------------------
(***************************************************************************)
(* What the nucleus of module Kernel is checked against.                   *)
(***************************************************************************)
EXTENDS Kernel

(* Type invariant: links lead to PCBs, counters keep the width of an       *)
(* unsigned int.                                                           *)
TypeOK ==
  /\ p_next \in [Pcb -> Link] /\ p_parent \in [Pcb -> Link]
  /\ p_first_child \in [Pcb -> Link] /\ p_sib \in [Pcb -> Link]
  /\ p_priority \in [Pcb -> Int] /\ start_priority \in [Pcb -> Int]
  /\ last_priority \in [Pcb -> Int]
  /\ pcbfree_h \in Link /\ readyQueue \in Link /\ currentPcb \in Link
  /\ s_procQ \in [Key -> Link]
  /\ semval \in [Key -> Int]
  /\ activeProcesses \in 0..(UINT - 1) /\ softblockProcesses \in 0..(UINT - 1)
  /\ stack \in Seq(Pcb)
  /\ dev \in [Device -> DevState]
  /\ pids \subseteq Pcb
  /\ pc \in PC
  /\ pc = "user" => currentPcb # NULL
  /\ pc = "liberaTutti" => stack # << >>

(* No semaphore ever has both waiters and a positive value, none becomes   *)
(* negative, and no V is ever banked on a semaphore of the kernel (devices,*)
(* pseudo-clock, WAITCHLD): SYS7, SYS8 and SYS10 wait for an event that is *)
(* still to come (semp, semv, and the headBlocked tests that guard semv in *)
(* terminateprocess, timerHandler and deviceHandler).                      *)
SemaphoresSound ==
  /\ \A k \in Key : semval[k] >= 0 /\ (semval[k] > 0 => s_procQ[k] = NULL)
  /\ \A k \in Key \ UserSem : semval[k] = 0

-----------------------------------------------------------------------------
In(S, p) == IF p \in S THEN 1 ELSE 0

\* how many lists a PCB is on, being current counting as one
Places(p) ==
  Cardinality({k \in Key : p \in Queue(k)}) + In(Reach(p_next, pcbfree_h), p)
    + In(Reach(p_next, readyQueue), p) + In({currentPcb}, p)

Dying == {stack[i] : i \in 1..Len(stack)}

(* Every PCB is in exactly one place: free, ready, running or waiting on   *)
(* one semaphore, although one p_next links all those lists; and no walk   *)
(* of the kernel over them fails to return.  A process being terminated is *)
(* in one place at most until freePcb has it.                              *)
OnePlace ==
  /\ pc # "lost"
  /\ \A p \in Pcb : IF p \in Dying THEN Places(p) <= 1 ELSE Places(p) = 1
  /\ \A h \in {pcbfree_h, readyQueue} \cup {s_procQ[k] : k \in Key} : Ends(p_next, h)

(* activeProcesses counts the PCBs in use and softblockProcesses those     *)
(* that wait for a device or the pseudo-clock, through every creation,     *)
(* termination of a subtree, block and wake-up.                            *)
ActiveCounts == activeProcesses = Cardinality(Live)

SoftblockCounts ==
  softblockProcesses = Cardinality(UNION {Queue(k) : k \in DevSem \cup {timerSem}})

(* The ready queue stays ordered by decreasing priority, so that removing  *)
(* its head dispatches a process of the highest priority, although aging   *)
(* changes priorities in place (updatePriority) and never moves a PCB.     *)
ReadySorted ==
  \A p \in Reach(p_next, readyQueue) :
    p_next[p] # NULL => p_priority[p_next[p]] <= p_priority[p]

(* Waiting and aging never lower a process below the priority it was       *)
(* created with: it runs with that priority, waits on a semaphore at 0 but *)
(* keeps it aside, and is at least at it in the ready queue.               *)
PriorityKept ==
  /\ currentPcb # NULL => p_priority[currentPcb] = start_priority[currentPcb]
  /\ \A p \in Reach(p_next, readyQueue) : p_priority[p] >= start_priority[p]
  /\ \A p \in Blocked : p_priority[p] = 0 /\ last_priority[p] = start_priority[p]

(* The tree of alberi.c is a forest of live processes: the children a walk *)
(* from p_first_child finds are those whose p_parent is p, each is found   *)
(* once, and no process is its own ancestor.                               *)
TreeSound ==
  \A p \in Pcb :
    /\ Ends(p_sib, p_first_child[p])
    /\ Reach(p_sib, p_first_child[p]) = {q \in Pcb : p_parent[q] = p}
    /\ p \notin Reach(p_parent, p_parent[p])
    /\ p_parent[p] # NULL => {p, p_parent[p]} \subseteq Live

(* Termination takes the whole subtree: once liberaTutti is over, no live   *)
(* process but the first one is without a parent.                          *)
NoOrphan ==
  stack = << >> => Cardinality({p \in Live : p_parent[p] = NULL}) <= 1

(* The kernel halts only when no process is left, panics only when every   *)
(* process waits for another one (a deadlock, no device being at work),    *)
(* and idles only when an interrupt is going to wake a process.            *)
StopsRight ==
  /\ pc = "halt" => Live = {}
  /\ pc = "panic" => /\ Live # {}
                     /\ Live \subseteq UNION {Queue(k) : k \in UserSem \cup {childSem}}
                     /\ \A d \in Device : dev[d] = "idle"
  /\ pc = "wait" => \E k \in Device \cup {timerSem} : s_procQ[k] # NULL

(* A device at work, or whose interrupt is raised, has a process waiting   *)
(* on the semaphore that deviceHandler will V, so that the interrupt is    *)
(* acknowledged and the result has a taker: for all devices but the last,  *)
(* whose index getDeviceNi gets wrong, whatever the programs do, processes *)
(* they terminate while these wait for the device included.                *)
RequestHasWaiter ==
  \A d \in Device \ {NDEV - 1} : dev[d] \in {"busy", "pending"} => s_procQ[d] # NULL

(* Semaphores are first come, first served: only the head leaves a queue,  *)
(* and whoever comes in comes in after all those that stay.                *)
NoOvertaking ==
  [][\A k \in Key :
       /\ \A p \in Queue(k) : p \notin Queue(k)' => p = s_procQ[k]
       /\ \A p \in Queue(k) \cap Queue(k)', q \in Queue(k)' \ Queue(k) :
            q \in Reach(p_next, p)']_vars

\* the turns that a handler has left at most: one for each process that lives and
\* one for each that liberaTutti has yet to be called for, or one for each process
\* that the tick wakes, and what follows
Turns ==
  CASE pc = "liberaTutti" -> 1 + Cardinality(Live) + Cardinality(Live \ Dying)
    [] pc = "pseudoTick" -> 3 + Cardinality(Queue(timerSem))
    [] pc = "preempt" -> 2
    [] pc = "scheduler" -> 1
    [] OTHER -> 0

(* No handler goes on for ever: every turn of the recursion of liberaTutti *)
(* and of the loop on headBlocked(&timerSem) brings it nearer to its end,  *)
(* however large the subtree that ends and however many wait for the tick. *)
HandlersEnd == [][Turns > 0 => Turns' < Turns]_vars

(* Every request to a device completes: the process that waits for it is   *)
(* woken.                                                                  *)
IoCompletes == \A d \in Device : dev[d] = "busy" ~> dev[d] = "idle"

(* So it is on machines whose devices complete their commands and whose    *)
(* interrupts are taken, for all devices but the last.                     *)
RequestsComplete == Fairness => IoCompletes

(* No ready process starves behind others, if no program uses a priority   *)
(* above MAXPRIO and programs let the timer fire (SliceFairness): aging in *)
(* place brings it up to them, and insertProcQ puts whoever is preempted   *)
(* or woken behind its equals.                                             *)
NoStarvation ==
  SliceFairness =>
    \A p \in Pcb : p \in Reach(p_next, readyQueue) ~> (p = currentPcb \/ p \notin Live)

(* An idle machine always gets back to running a process, if the devices  *)
(* complete their commands and the timer of an idle machine goes on firing.*)
IdleResumes == Fairness => (pc = "wait" ~> pc = "user")

-----------------------------------------------------------------------------
(* What the comments and the tests say, and the kernel does not do.        *)

(* A terminated process does not run again (p2test.c:80).                  *)
TerminatedNeverRuns == pc = "user" => currentPcb \in Live

(* Termination wakes the parent of the process, if it is waiting, and no   *)
(* other process (systemcalls.c:85).                                       *)
WakesOwnParent ==
  [][pc = "user" /\ pc' = "liberaTutti" /\ s_procQ'[childSem] # s_procQ[childSem]
       => s_procQ[childSem] = p_parent[stack'[1]]]_vars

=============================================================================
