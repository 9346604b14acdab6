------------------------------- MODULE Kernel -------------------------------
(***************************************************************************)
(* The nucleus of yaeos: process creation and termination, semaphores, the *)
(* pseudo-clock, device requests, the scheduler and the interrupt handlers *)
(* (systemcalls.c, traphandlers.c, scheduler.c, interrupt.c, init.c), over *)
(* the PCB lists of PcbLists and the process tree of alberi.c.             *)
(*                                                                         *)
(* One CPU runs either a process (pc = "user"), a handler, or nothing (pc  *)
(* = "wait").  Handlers run with interrupts disabled, so a handler is      *)
(* atomic; what it does before it calls scheduler(), each turn of its      *)
(* loops, and scheduler() are consecutive steps, ordered by pc, between    *)
(* which no process and no interrupt can come.                             *)
(*                                                                         *)
(* Processes are arbitrary programs: whichever process is current may make *)
(* any system call.  The program's own hazards are bounded by Discipline   *)
(* (see MayTerminate).  Time is abstract here: a handler may or may not    *)
(* find that the 10 ms of aging or the 100 ms of the pseudo-clock are over.*)
(***************************************************************************)
EXTENDS PcbLists, FiniteSets, Sequences

CONSTANTS
  MAXPRIO,     \* priority at which aging stops (4)
  MAXSEMD,     \* number of semaphore descriptors (60)
  NDEV,        \* number of devices (40); semaphores[0 .. NDEV] are used
  TERM,        \* the devices from here on are terminals (32, line 7)
  UINT,        \* 2^32: the range of an unsigned int
  Priorities,  \* the priorities that programs pass to CREATEPROCESS
  UserSem,     \* addresses of the programs' own semaphores
  timerSem,    \* &timerSem, the semaphore of WAITCLOCK
  childSem,    \* the address 0: p_semKey of every PCB, never assigned
  Device,      \* the devices that programs use, a subset of 0 .. NDEV - 1
  SEMCAP,      \* bound: programs do not V a semaphore beyond this value
  Discipline   \* which processes programs terminate: "any", "others", "unblocked"

DevSem == 0..NDEV
Key    == UserSem \cup DevSem \cup {timerSem, childSem}

ASSUME KernelAssumption ==
  /\ MAXPRIO \in Int /\ MAXSEMD \in Nat /\ NDEV \in Nat \ {0} /\ TERM \in Nat
  /\ UINT \in Nat \ {0} /\ SEMCAP \in Nat
  /\ Priorities \subseteq Int
  /\ Device \subseteq 0..(NDEV - 1)
  /\ timerSem # childSem
  /\ {timerSem, childSem} \cap (UserSem \cup DevSem) = {}
  /\ UserSem \cap DevSem = {}
  /\ Discipline \in {"any", "others", "unblocked"}

VARIABLES
  p_next, p_parent, p_first_child, p_sib,         \* links of the PCBs
  p_priority, start_priority, last_priority,
  pcbfree_h, readyQueue, currentPcb,
  s_procQ,            \* head of the queue of each semaphore; NULL: not active
  semval,             \* value of the integer at each semaphore's address
  activeProcesses, softblockProcesses,
  stack,              \* the arguments of the pending calls of liberaTutti
  dev,                \* the state of each device
  pids,               \* the pids that programs have been given (SYS1, SYS9)
  pc                  \* what the CPU is doing

tree  == <<p_parent, p_first_child, p_sib>>
prios == <<p_priority, start_priority, last_priority>>
sems  == <<s_procQ, semval, softblockProcesses>>
vars  == <<p_next, tree, prios, pcbfree_h, readyQueue, currentPcb, sems,
           activeProcesses, stack, dev, pids, pc>>

\* pc = "lost": the kernel is in a walk that never returns (a cyclic list, or
\* past the end of a list of siblings)
Stopped == {"halt", "panic", "lost"}
PC == {"user", "wait", "scheduler", "liberaTutti", "pseudoTick", "preempt"}
        \cup Stopped

\* "pending", "failed": the command is over, the interrupt is raised; "failed":
\* that of a terminal, with another status than 5 (character transmitted)
DevState  == {"idle", "busy", "pending", "failed"}
Raised(d) == dev[d] \in {"pending", "failed"}

Live      == Pcb \ Reach(p_next, pcbfree_h)
Queue(k)  == Reach(p_next, s_procQ[k])
Blocked   == UNION {Queue(k) : k \in Key}
\* mutant: semp and semv forget the test on &timerSem
SoftKeyDev == DevSem

SoftKey   == DevSem \cup {timerSem}

-----------------------------------------------------------------------------
(***************************************************************************)
(* Boot: initPcbs, initASL and the first process, which is the last PCB of *)
(* the free list.                                                          *)
(***************************************************************************)
Init ==
  /\ p_next = [p \in Pcb |-> IF p < MAXPROC - 1 THEN p + 1 ELSE NULL]
  /\ p_parent = [p \in Pcb |-> NULL]
  /\ p_first_child = [p \in Pcb |-> NULL]
  /\ p_sib = [p \in Pcb |-> NULL]
  /\ p_priority = [p \in Pcb |-> 0]
  /\ start_priority = [p \in Pcb |-> 0]
  /\ last_priority = [p \in Pcb |-> 0]
  /\ pcbfree_h = IF MAXPROC = 1 THEN NULL ELSE 1
  /\ readyQueue = MAXPROC
  /\ currentPcb = NULL
  /\ s_procQ = [k \in Key |-> NULL]
  /\ semval \in [Key -> 0..SEMCAP]
  /\ \A k \in Key \ UserSem : semval[k] = 0
  /\ activeProcesses = 1 % UINT
  /\ softblockProcesses = 0
  /\ stack = << >>
  /\ dev = [d \in Device |-> "idle"]
  /\ pids = {MAXPROC}
  /\ pc = "scheduler"

-----------------------------------------------------------------------------
(***************************************************************************)
(* Helpers of the handlers.                                                *)
(***************************************************************************)
\* A process makes a system call: interrupts that are pending come first.
SysCall == pc = "user" /\ \A d \in Device : ~Raised(d)

\* insertProcQ(&readyQueue, p) over the links nx, then on to step next
InsertReady(nx, pri, p, next) ==
  LET q == InsertProcQ(nx, pri, readyQueue, p)
  IN  /\ p_next' = q.next
      /\ readyQueue' = q.head
      /\ pc' = IF InsertEnds(nx, pri, readyQueue, p) THEN next ELSE "lost"

\* insertBlocked(k, p): p is lost to every list when no descriptor is free
InsertBlocked(k, p) ==
  LET nx   == [p_next EXCEPT ![p] = NULL]
      pri  == [p_priority EXCEPT ![p] = 0]
      q    == InsertProcQ(nx, pri, s_procQ[k], p)
      full == /\ s_procQ[k] = NULL
              /\ Cardinality({j \in Key : s_procQ[j] # NULL}) >= MAXSEMD
  IN  /\ p_next' = IF full THEN nx ELSE q.next
      /\ s_procQ' = IF full THEN s_procQ ELSE [s_procQ EXCEPT ![k] = q.head]
      /\ p_priority' = pri
      /\ pc' = IF InsertEnds(nx, pri, s_procQ[k], p) THEN "scheduler" ELSE "lost"

\* mutant: the value is allowed to go down to -1
SemPBelow(k) ==
  \/ /\ semval[k] < 0
     /\ last_priority' = [last_priority EXCEPT ![currentPcb] = p_priority[currentPcb]]
     /\ InsertBlocked(k, currentPcb)
     /\ softblockProcesses' = IF k \in SoftKey THEN (softblockProcesses + 1) % UINT
                                               ELSE softblockProcesses
     /\ currentPcb' = NULL
     /\ UNCHANGED <<start_priority, semval>>
  \/ /\ semval[k] >= 0
     /\ semval' = [semval EXCEPT ![k] = @ - 1]
     /\ pc' = "scheduler"
     /\ UNCHANGED <<p_next, prios, s_procQ, softblockProcesses, currentPcb>>

\* semp(k) on behalf of the current process
SemP(k) ==
  \/ /\ semval[k] <= 0
     /\ last_priority' = [last_priority EXCEPT ![currentPcb] = p_priority[currentPcb]]
     /\ InsertBlocked(k, currentPcb)
     /\ softblockProcesses' = IF k \in SoftKey THEN (softblockProcesses + 1) % UINT
                                               ELSE softblockProcesses
     /\ currentPcb' = NULL
     /\ UNCHANGED <<start_priority, semval>>
  \/ /\ semval[k] > 0
     /\ semval' = [semval EXCEPT ![k] = @ - 1]
     /\ pc' = "scheduler"
     /\ UNCHANGED <<p_next, prios, s_procQ, softblockProcesses, currentPcb>>

\* semv(k), then on to step next
SemV(k, next) ==
  \/ /\ s_procQ[k] # NULL
     /\ LET b   == s_procQ[k]
            pri == [p_priority EXCEPT ![b] = last_priority[b]]
        IN  /\ s_procQ' = [s_procQ EXCEPT ![k] = p_next[b]]
            /\ p_priority' = pri
            /\ InsertReady(p_next, pri, b, next)
     /\ softblockProcesses' = IF k \in SoftKey THEN (softblockProcesses - 1) % UINT
                                               ELSE softblockProcesses
     /\ UNCHANGED semval
  \/ /\ s_procQ[k] = NULL
     /\ semval' = [semval EXCEPT ![k] = @ + 1]
     /\ pc' = next
     /\ UNCHANGED <<p_next, readyQueue, p_priority, s_procQ, softblockProcesses>>

-----------------------------------------------------------------------------
(***************************************************************************)
(* Processes and their tree.                                               *)
(***************************************************************************)
\* mutant: the process is counted before allocPcb is known to succeed
CreateFailsCounted ==
  /\ SysCall
  /\ pcbfree_h = NULL
  /\ pc' = "scheduler"
  /\ activeProcesses' = (activeProcesses + 1) % UINT
  /\ UNCHANGED <<p_next, tree, prios, pcbfree_h, readyQueue, currentPcb, sems,
                 stack, dev, pids>>

\* createprocess fails: there is no free PCB
CreateFails ==
  /\ SysCall
  /\ pcbfree_h = NULL
  /\ pc' = "scheduler"
  /\ UNCHANGED <<p_next, tree, prios, pcbfree_h, readyQueue, currentPcb, sems,
                 activeProcesses, stack, dev, pids>>

\* insertChild(currentPcb, p), p_first_child and p_sib of p being cleared first
InsertChild(p) ==
  LET first == [p_first_child EXCEPT ![p] = NULL]
      sib   == [p_sib EXCEPT ![p] = NULL]
      c     == currentPcb
  IN  /\ p_parent' = [p_parent EXCEPT ![p] = c]
      /\ \/ /\ first[c] = NULL
            /\ p_first_child' = [first EXCEPT ![c] = p]
            /\ p_sib' = sib
         \/ /\ first[c] # NULL
            /\ p_first_child' = first
            /\ p_sib' = [sib EXCEPT ![LastNode(sib, first[c])] = p]

\* the walks of allocPcb and of insertLastSib return
CreateEnds(p) ==
  LET first == [p_first_child EXCEPT ![p] = NULL]
      sib   == [p_sib EXCEPT ![p] = NULL]
  IN  Ends(p_next, pcbfree_h) /\ Ends(sib, first[currentPcb])

CreateProcess(priority) ==
  /\ SysCall
  /\ pcbfree_h # NULL
  /\ LET p   == AllocNode(p_next, pcbfree_h)
         f   == AllocPcb(p_next, pcbfree_h)
         pri == [p_priority EXCEPT ![p] = priority]
     IN  /\ pcbfree_h' = f.head
         /\ semval' = [semval EXCEPT ![childSem] = 0]      \* *(p)->p_semKey = 0
         /\ InsertChild(p)
         /\ p_priority' = pri
         /\ start_priority' = [start_priority EXCEPT ![p] = priority]
         /\ InsertReady(f.next, pri, p, IF CreateEnds(p) THEN "scheduler" ELSE "lost")
         /\ pids' = pids \cup {p}
  /\ activeProcesses' = (activeProcesses + 1) % UINT
  /\ UNCHANGED <<last_priority, currentPcb, s_procQ, softblockProcesses, stack, dev>>

\* p and its offspring
Subtree(p) == {q \in Pcb : p \in Reach(p_parent, q)}

(***************************************************************************)
(* What programs terminate.  The kernel checks nothing, so Discipline says *)
(* how careful they are:                                                   *)
(*   "any"        any pid they were ever given, stale ones and their own   *)
(*                included;                                                *)
(*   "others"     only live processes; themselves and their ancestors only *)
(*                by SYS2 NULL;                                            *)
(*   "unblocked"  besides, no process that, itself or by a descendant,     *)
(*                waits on a semaphore.                                    *)
(***************************************************************************)
MayTerminate(pid, p) ==
  /\ Discipline # "any" => /\ p \in Live
                           /\ pid # NULL => currentPcb \notin Subtree(p)
  /\ Discipline = "unblocked" => Subtree(p) \cap Blocked = {}

\* terminateprocess(pid), also what a trap without a handler does (pid NULL)
TerminateProcess(pid) ==
  LET p == IF pid = NULL THEN currentPcb ELSE pid
  IN  /\ SysCall
      /\ MayTerminate(pid, p)
      /\ currentPcb' = IF pid = NULL THEN NULL ELSE currentPcb
      /\ \/ /\ p_parent[p] # NULL /\ s_procQ[childSem] # NULL
            /\ SemV(childSem, "liberaTutti")
         \/ /\ p_parent[p] = NULL \/ s_procQ[childSem] = NULL
            /\ pc' = "liberaTutti"
            /\ UNCHANGED <<p_next, readyQueue, p_priority, sems>>
      /\ stack' = <<p>>
      /\ UNCHANGED <<tree, start_priority, last_priority, pcbfree_h,
                     activeProcesses, dev, pids>>

Top == stack[Len(stack)]

\* mutant: while (p->p_first_child) removeChild(p), the offspring survive
RemoveChildOnly ==
  /\ pc = "liberaTutti"
  /\ p_first_child[Top] # NULL
  /\ LET c == p_first_child[Top]
     IN  /\ p_first_child' = [p_first_child EXCEPT ![Top] = p_sib[c]]
         /\ p_parent' = [p_parent EXCEPT ![c] = NULL]
  /\ UNCHANGED <<p_next, p_sib, prios, pcbfree_h, readyQueue, currentPcb, sems,
                 activeProcesses, stack, dev, pids, pc>>

\* while (p->p_first_child) liberaTutti(removeChild(p))
RemoveChild ==
  /\ pc = "liberaTutti"
  /\ p_first_child[Top] # NULL
  /\ LET c == p_first_child[Top]
     IN  /\ p_first_child' = [p_first_child EXCEPT ![Top] = p_sib[c]]
         /\ p_parent' = [p_parent EXCEPT ![c] = NULL]
         /\ stack' = Append(stack, c)
  /\ UNCHANGED <<p_next, p_sib, prios, pcbfree_h, readyQueue, currentPcb, sems,
                 activeProcesses, dev, pids, pc>>

\* mutant: outChild without searchChild, p stays among its siblings
OutChildFirstOnly(p) ==
  LET par == p_parent[p]
  IN  IF par = NULL THEN UNCHANGED tree
      ELSE /\ p_parent' = [p_parent EXCEPT ![p] = NULL]
           /\ p_first_child' = IF p_first_child[par] = p
                               THEN [p_first_child EXCEPT ![par] = p_sib[p]]
                               ELSE p_first_child
           /\ UNCHANGED p_sib

\* outChild(p)
OutChild(p) ==
  LET par == p_parent[p]
      q   == Previous(p_sib, p_first_child[par], p)
  IN  IF par = NULL THEN UNCHANGED tree
      ELSE /\ p_parent' = [p_parent EXCEPT ![p] = NULL]
           /\ IF p_first_child[par] = p
              THEN /\ p_first_child' = [p_first_child EXCEPT ![par] = p_sib[p]]
                   /\ UNCHANGED p_sib
              ELSE IF p_first_child[par] = NULL THEN UNCHANGED <<p_first_child, p_sib>>
              ELSE /\ p_sib' = [p_sib EXCEPT ![q] = p_sib[p]]
                   /\ UNCHANGED p_first_child

\* searchChild finds p among its siblings
OutChildEnds(p) ==
  LET par == p_parent[p]
  IN  par # NULL =>
        \/ p_first_child[par] = p
        \/ /\ p_first_child[par] # NULL
           /\ p_sib[Previous(p_sib, p_first_child[par], p)] = p

\* the rest of liberaTutti(p), once p has no child
Release ==
  LET p == Top
      r == OutProcQ(p_next, readyQueue, p)
      f == FreePcb(r.next, pcbfree_h, p)
  IN  /\ pc = "liberaTutti"
      /\ p_first_child[p] = NULL
      /\ readyQueue' = r.head
      /\ activeProcesses' = (activeProcesses - 1) % UINT
      /\ OutChild(p)
      /\ p_next' = f.next
      /\ pcbfree_h' = f.head
      /\ stack' = SubSeq(stack, 1, Len(stack) - 1)
      /\ pc' = IF ~ /\ OutEnds(p_next, readyQueue, p)
                    /\ OutChildEnds(p)
                    /\ Ends(r.next, pcbfree_h) THEN "lost"
               ELSE IF Len(stack) = 1 THEN "scheduler" ELSE pc
      /\ UNCHANGED <<prios, currentPcb, sems, dev, pids>>

-----------------------------------------------------------------------------
(***************************************************************************)
(* The other system calls.                                                 *)
(***************************************************************************)
CallFrame == <<tree, pcbfree_h, activeProcesses, stack, pids>>

SemPCall(k) ==
  /\ SysCall
  /\ SemP(k)
  /\ UNCHANGED <<readyQueue, start_priority, dev, CallFrame>>

SemVCall(k) ==
  /\ SysCall
  /\ semval[k] < SEMCAP
  /\ SemV(k, "scheduler")
  /\ UNCHANGED <<start_priority, last_priority, currentPcb, dev, CallFrame>>

WaitClock ==
  /\ SysCall
  /\ SemP(timerSem)
  /\ UNCHANGED <<readyQueue, start_priority, dev, CallFrame>>

\* mutant: no test for a child
WaitChildAlways ==
  /\ SysCall
  /\ SemP(childSem)
  /\ UNCHANGED <<readyQueue, start_priority, dev, CallFrame>>

\* no child: return at once; else wait on p_semKey, the same for every process
WaitChild ==
  /\ SysCall
  /\ \/ /\ p_first_child[currentPcb] # NULL
        /\ SemP(childSem)
     \/ /\ p_first_child[currentPcb] = NULL
        /\ pc' = "scheduler"
        /\ UNCHANGED <<p_next, prios, s_procQ, semval, softblockProcesses, currentPcb>>
  /\ UNCHANGED <<readyQueue, start_priority, dev, CallFrame>>

\* spechdl, gettime and getpids change nothing that is modelled here
OtherCall ==
  /\ SysCall
  /\ pc' = "scheduler"
  /\ UNCHANGED <<p_next, prios, readyQueue, currentPcb, sems, dev, CallFrame>>

\* address of the registers of device d, and of its n-th word
DevReg(d, n) == 64 + 16 * d + 4 * n

\* mutant: the loop returns i
GetDeviceNiOff(base) ==
  IF base < DevReg(NDEV - 1, 0)
  THEN CHOOSE i \in 0..(NDEV - 1) : /\ base < DevReg(i, 0)
                                    /\ \A j \in 0..(i - 1) : base >= DevReg(j, 0)
  ELSE NDEV

\* the semaphore of a device register: i - 1 for the first i whose registers
\* start beyond it, and the loop's last i when there is none
GetDeviceNi(base) ==
  IF base < DevReg(NDEV - 1, 0)
  THEN (CHOOSE i \in 0..(NDEV - 1) : /\ base < DevReg(i, 0)
                                     /\ \A j \in 0..(i - 1) : base >= DevReg(j, 0)) - 1
  ELSE NDEV

\* A command is written to the register after the process has been queued.
\* Programs serialize the requests to a device, as print() does in p2test.c.
IoDevOp(d) ==
  /\ SysCall
  /\ dev[d] = "idle"
  /\ SemP(GetDeviceNi(DevReg(d, 1)))
  /\ dev' = [dev EXCEPT ![d] = "busy"]
  /\ UNCHANGED <<readyQueue, start_priority, CallFrame>>

-----------------------------------------------------------------------------
(***************************************************************************)
(* Scheduler.                                                              *)
(***************************************************************************)
\* mutant: aging stops one short of MAXPRIO
AgedShort(aging) ==
  [p \in Pcb |-> IF aging /\ p \in Reach(p_next, readyQueue) /\ p_priority[p] < MAXPRIO - 1
                 THEN p_priority[p] + 1 ELSE p_priority[p]]

Aged(aging) ==
  [p \in Pcb |-> IF aging /\ p \in Reach(p_next, readyQueue) /\ p_priority[p] < MAXPRIO
                 THEN p_priority[p] + 1 ELSE p_priority[p]]

SchedulerFrame == <<p_next, tree, start_priority, last_priority, pcbfree_h, sems,
                    activeProcesses, stack, dev, pids>>

\* aging of a cyclic ready queue never returns
AgingLost ==
  /\ pc = "scheduler"
  /\ ~Ends(p_next, readyQueue)
  /\ pc' = "lost"
  /\ UNCHANGED <<p_priority, readyQueue, currentPcb, SchedulerFrame>>

\* mutant: the process is resumed without the test on currentPcb
ResumeAny(aging) ==
  /\ pc = "scheduler"
  /\ aging => Ends(p_next, readyQueue)
  /\ p_priority' = Aged(aging)
  /\ pc' = "user"
  /\ UNCHANGED <<readyQueue, currentPcb, SchedulerFrame>>

Resume(aging) ==
  /\ pc = "scheduler"
  /\ aging => Ends(p_next, readyQueue)
  /\ currentPcb # NULL
  /\ p_priority' = Aged(aging)
  /\ pc' = "user"
  /\ UNCHANGED <<readyQueue, currentPcb, SchedulerFrame>>

\* mutant: start_priority is not restored
DispatchAged(aging) ==
  /\ pc = "scheduler"
  /\ aging => Ends(p_next, readyQueue)
  /\ currentPcb = NULL
  /\ readyQueue # NULL
  /\ currentPcb' = readyQueue
  /\ readyQueue' = p_next[readyQueue]
  /\ p_priority' = Aged(aging)
  /\ pc' = "user"
  /\ UNCHANGED SchedulerFrame

Dispatch(aging) ==
  /\ pc = "scheduler"
  /\ aging => Ends(p_next, readyQueue)
  /\ currentPcb = NULL
  /\ readyQueue # NULL
  /\ currentPcb' = readyQueue
  /\ readyQueue' = p_next[readyQueue]
  /\ p_priority' = [Aged(aging) EXCEPT ![readyQueue] = start_priority[readyQueue]]
  /\ pc' = "user"
  /\ UNCHANGED SchedulerFrame

\* mutant: softblockProcesses is not looked at
IdleAlways ==
  /\ pc = "scheduler"
  /\ currentPcb = NULL
  /\ readyQueue = NULL
  /\ pc' = IF activeProcesses = 0 THEN "halt" ELSE "wait"
  /\ UNCHANGED <<p_priority, readyQueue, currentPcb, SchedulerFrame>>

Idle ==
  /\ pc = "scheduler"
  /\ currentPcb = NULL
  /\ readyQueue = NULL
  /\ pc' = IF activeProcesses = 0 THEN "halt"
           ELSE IF softblockProcesses > 0 THEN "wait" ELSE "panic"
  /\ UNCHANGED <<p_priority, readyQueue, currentPcb, SchedulerFrame>>

-----------------------------------------------------------------------------
(***************************************************************************)
(* Interrupts.                                                             *)
(***************************************************************************)
\* interval timer; with tick, 100 ms have passed since the last tick
TimerInterrupt(tick) ==
  /\ pc \in {"user", "wait"}
  /\ pc' = IF tick THEN "pseudoTick" ELSE "preempt"
  /\ UNCHANGED <<p_priority, readyQueue, currentPcb, SchedulerFrame>>

\* mutant: one semv(&timerSem) for the tick, whoever waits
PseudoTickOnce ==
  /\ pc = "pseudoTick"
  /\ SemV(timerSem, "preempt")
  /\ UNCHANGED <<start_priority, last_priority, currentPcb, dev, CallFrame>>

\* mutant: the loop Vs another semaphore than the one it tests
PseudoTickOther ==
  /\ pc = "pseudoTick"
  /\ \/ /\ s_procQ[timerSem] # NULL
        /\ SemV(childSem, "pseudoTick")
     \/ /\ s_procQ[timerSem] = NULL
        /\ pc' = "preempt"
        /\ UNCHANGED <<p_next, readyQueue, p_priority, sems>>
  /\ UNCHANGED <<start_priority, last_priority, currentPcb, dev, CallFrame>>

\* while (headBlocked(&timerSem)) semv(&timerSem)
PseudoTick ==
  /\ pc = "pseudoTick"
  /\ \/ /\ s_procQ[timerSem] # NULL
        /\ SemV(timerSem, "pseudoTick")
     \/ /\ s_procQ[timerSem] = NULL
        /\ pc' = "preempt"
        /\ UNCHANGED <<p_next, readyQueue, p_priority, sems>>
  /\ UNCHANGED <<start_priority, last_priority, currentPcb, dev, CallFrame>>

\* the rest of timerHandler
Preempt ==
  /\ pc = "preempt"
  /\ \/ /\ currentPcb # NULL
        /\ InsertReady(p_next, p_priority, currentPcb, "scheduler")
        /\ currentPcb' = NULL
     \/ /\ currentPcb = NULL
        /\ pc' = "scheduler"
        /\ UNCHANGED <<p_next, readyQueue, currentPcb>>
  /\ UNCHANGED <<prios, sems, dev, CallFrame>>

\* deviceHandler for the first device, by line and number, whose interrupt is
\* raised; only one that has a waiter is acknowledged, unless a terminal failed
DeviceInterrupt(d) ==
  /\ pc \in {"user", "wait"}
  /\ Raised(d)
  /\ \A e \in Device : e < d => ~Raised(e)
  /\ \/ /\ s_procQ[d] # NULL
        /\ dev' = IF dev[d] = "failed" THEN dev ELSE [dev EXCEPT ![d] = "idle"]
        /\ SemV(d, "scheduler")
     \/ /\ s_procQ[d] = NULL
        /\ pc' = "scheduler"
        /\ UNCHANGED <<p_next, readyQueue, p_priority, sems, dev>>
  /\ UNCHANGED <<start_priority, last_priority, currentPcb, CallFrame>>

\* The device completes its command and raises its interrupt.  While a handler
\* runs this has no effect that is visible before the handler returns.
DeviceDone(d) ==
  /\ pc \in {"user", "wait"}
  /\ dev[d] = "busy"
  /\ \E s \in {"pending", "failed"} : /\ s = "failed" => d >= TERM
                                      /\ dev' = [dev EXCEPT ![d] = s]
  /\ UNCHANGED <<p_next, prios, readyQueue, currentPcb, sems, CallFrame, pc>>

Stop == pc \in Stopped /\ UNCHANGED vars

-----------------------------------------------------------------------------
SystemCall ==
  \/ CreateFails
  \/ \E priority \in Priorities : CreateProcess(priority)
  \/ \E pid \in pids \cup {NULL} : TerminateProcess(pid)
  \/ \E k \in UserSem : SemPCall(k)
  \/ \E k \in UserSem : SemVCall(k)
  \/ WaitClock
  \/ WaitChild
  \/ \E d \in Device : IoDevOp(d)
  \/ OtherCall

Scheduler == \/ AgingLost
             \/ \E aging \in BOOLEAN : Resume(aging) \/ Dispatch(aging)
             \/ Idle

Handler == RemoveChild \/ Release \/ PseudoTick \/ Preempt \/ Scheduler

Interrupt == \/ \E tick \in BOOLEAN : TimerInterrupt(tick)
             \/ \E d \in Device : DeviceInterrupt(d)

Next == SystemCall \/ Handler \/ Interrupt \/ (\E d \in Device : DeviceDone(d)) \/ Stop

Spec == Init /\ [][Next]_vars

(* Whatever the devices, the timer and the programs do, a handler that has *)
(* started goes on: it runs with interrupts disabled.                      *)
HandlerSpec == Spec /\ WF_vars(Handler)

(***************************************************************************)
(* Fairness.  A handler that has started goes on; a device completes its   *)
(* command; a pending interrupt is taken, the timer having just been set   *)
(* again when it was served first.  The timer of an idle machine keeps     *)
(* firing, so that it finds the pseudo-clock expired some day, unless      *)
(* processes run again and again: dispatching one sets the timer anew, and *)
(* so does every system call, so that the timer need never fire.           *)
(***************************************************************************)
Fairness ==
  /\ WF_vars(Handler)
  /\ \A d \in Device : SF_vars(DeviceDone(d)) /\ SF_vars(DeviceInterrupt(d))
  /\ ([]<>(pc = "user")) \/ SF_vars(pc = "wait" /\ TimerInterrupt(TRUE))

FairSpec == Spec /\ Fairness

(***************************************************************************)
(* Fairness for the ready queue, on machines whose programs let the timer  *)
(* fire: each process computes for a whole slice, waits or ends sooner or  *)
(* later.  Scheduling that never ceases finds the 10 ms of aging over      *)
(* again and again, since time passes.                                     *)
(***************************************************************************)
SliceFairness ==
  /\ WF_vars(Handler)
  /\ SF_vars(pc = "user" /\ \E tick \in BOOLEAN : TimerInterrupt(tick))
  /\ SF_vars(Resume(TRUE) \/ Dispatch(TRUE))

=============================================================================
