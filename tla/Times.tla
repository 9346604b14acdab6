------------------------------- MODULE Times -------------------------------
(***************************************************************************)
(* The CPU times that yaeos keeps of its processes and gives them by       *)
(* GETTIME: the fields start, kernel_start, total_time, kernel_time and    *)
(* wall_start of a PCB, as traphandlers.c, systemcalls.c, scheduler.c and  *)
(* interrupt.c update them.  (The field user_time, always set to the       *)
(* difference of two of them, is read nowhere and left out.)               *)
(*                                                                         *)
(* A process is charged when it leaves the CPU and when a handler returns  *)
(* to it, each time from several reads of the clock, between which time    *)
(* goes on by a member of Gap.  PCBs are allocated, freed and used again;  *)
(* which process is ready when is module Kernel's matter.                  *)
(***************************************************************************)
EXTENDS Integers, FiniteSetsExt

CONSTANTS
  UINT,        \* 2^32
  MAXTIME,     \* bound: the clock is not followed beyond this time after boot
  Gap,         \* what can pass between two reads of the clock in a handler
  Boots,       \* what the clock may hold when the nucleus starts
  HANDLER,     \* the address of the function getTODLO
  Pcb, NULL

ASSUME TimesAssumption ==
  /\ UINT \in Nat \ {0} /\ MAXTIME \in Nat /\ MAXTIME < UINT
  /\ Gap \subseteq Nat /\ Gap # {} /\ IsFiniteSet(Gap)
  /\ Boots \subseteq 0..(UINT - 1) /\ HANDLER \in 0..(UINT - 1)
  /\ NULL \notin Pcb /\ IsFiniteSet(Pcb)

VARIABLES
  elapsed, boot,                \* the clock holds boot + elapsed
  start, kernel_start,          \* of currentPcb: each process sets its own
                                \* when it is dispatched, or traps
  total_time, kernel_time, wall_start,
  currentPcb, ready, blocked,
  pc,                           \* "user", "handler" (of a call), "scheduler", "wait"
  told,         \* what GETTIME last told each process
  used,         \* the PCBs that were ever in use
  spoiled       \* those used for a second time, or whose process passed a trap up

starts == <<boot, start, kernel_start>>
times  == <<total_time, kernel_time, wall_start>>
queues == <<currentPcb, ready, blocked>>
seen   == <<told, used, spoiled>>
vars   == <<elapsed, starts, times, queues, pc, seen>>

Free == Pcb \ (ready \cup blocked \cup {currentPcb})

\* getTODLO(), d later
TOD(d) == (boot + elapsed + d) % UINT

\* the sum and the difference of unsigned ints
Plus(a, b)  == (a + b) % UINT
Minus(a, b) == (a - b) % UINT

Elapse(d) == elapsed + d <= MAXTIME /\ elapsed' = elapsed + d

NotTold == [cpu |-> 0, wall |-> 0, known |-> FALSE]
Zeros   == [p \in Pcb |-> 0]

Init ==
  /\ elapsed = 0 /\ boot \in Boots
  /\ start = 0 /\ kernel_start = 0 /\ wall_start = Zeros
  /\ total_time = Zeros /\ kernel_time = Zeros
  /\ currentPcb = NULL /\ blocked = {}
  /\ \E p \in Pcb : ready = {p}
  /\ pc = "scheduler"
  /\ told = [p \in Pcb |-> NotTold]
  /\ used = ready
  /\ spoiled = {}

-----------------------------------------------------------------------------
(***************************************************************************)
(* Charges.  c is the current process, d how late the clock is read.       *)
(***************************************************************************)
c == currentPcb

ChargeKernel(d) ==
  kernel_time' = [kernel_time EXCEPT ![c] = Plus(@, Minus(TOD(d), kernel_start))]

ChargeTotal(d) ==
  total_time' = [total_time EXCEPT ![c] = Plus(@, Minus(TOD(d), start))]

-----------------------------------------------------------------------------
\* A process computes, or the machine is idle.
Compute ==
  /\ pc \in {"user", "wait"}
  /\ Elapse(1)
  /\ UNCHANGED <<pc, seen, times, queues, starts>>

\* The trap of a system call; its instructions have taken some time.
SysCall ==
  /\ pc = "user" /\ TOD(0) # start
  /\ kernel_start' = TOD(0)
  /\ pc' = "handler"
  /\ UNCHANGED <<elapsed, boot, start, seen, times, queues>>

\* what sysHandler does after a call that does not take the CPU from c
Served(d) ==
  /\ pc = "handler" /\ Elapse(d)
  /\ ChargeKernel(d)
  /\ pc' = "scheduler"
  /\ UNCHANGED <<wall_start, currentPcb, starts>>

\* SYS1: startPcb clears total_time, and no other time
Create(p) ==
  /\ p \in Free
  /\ \E d \in Gap : Served(d)
  /\ ready' = ready \cup {p}
  /\ total_time' = [total_time EXCEPT ![p] = 0]
  /\ told' = [told EXCEPT ![p] = NotTold]
  /\ used' = used \cup {p}
  /\ spoiled' = spoiled \cup ({p} \cap used)
  /\ UNCHANGED blocked

\* whom a semv may wake: nobody, or one process
Woken == {{}} \cup {{p} : p \in blocked}

Wakes == \E P \in Woken : ready' = ready \cup P /\ blocked' = blocked \ P

\* The V for a parent that waits, and the end of a process and its descendants:
\* the processes in D, which do not wait.
Ends(D) ==
  \E P \in Woken : /\ D \subseteq ready \cup P
                   /\ ready' = (ready \cup P) \ D
                   /\ blocked' = blocked \ P

\* SYS2 on another process
Terminate(D) ==
  /\ \E d \in Gap : Served(d)
  /\ D # {} /\ Ends(D)
  /\ UNCHANGED <<total_time, seen>>

\* SYS4 and any other call that returns
Other ==
  /\ \E d \in Gap : Served(d)
  /\ Wakes
  /\ UNCHANGED <<total_time, seen>>

\* SYS6, which reads the clock three times, and sysHandler a fourth one
GetTime ==
  /\ \E d1, d2, d3 \in Gap :
       LET kernel == Plus(Minus(TOD(0), kernel_start), kernel_time[c])
           user   == Minus(Plus(total_time[c], Minus(TOD(d1), start)), kernel)
           wall   == Minus(TOD(d1 + d2), wall_start[c])
       IN  /\ Served(d1 + d2 + d3)
           /\ told' = [told EXCEPT ![c] = [cpu   |-> Plus(user, kernel),
                                           wall  |-> wall,
                                           known |-> TRUE]]
  /\ UNCHANGED <<total_time, ready, blocked, used, spoiled>>

\* mutant: the process that blocks is not charged
BlockUncharged ==
  /\ pc = "handler"
  /\ \E d1, d2 \in Gap : /\ Elapse(d1 + d2)
                         /\ ChargeKernel(d1)
  /\ blocked' = blocked \cup {c}
  /\ currentPcb' = NULL
  /\ pc' = "scheduler"
  /\ UNCHANGED <<total_time, wall_start, ready, seen, starts>>

\* a call that ends in semp's queue
Block ==
  /\ pc = "handler"
  /\ \E d1, d2 \in Gap : /\ Elapse(d1 + d2)
                         /\ ChargeKernel(d1)
                         /\ ChargeTotal(d1 + d2)
  /\ blocked' = blocked \cup {c}
  /\ currentPcb' = NULL
  /\ pc' = "scheduler"
  /\ UNCHANGED <<wall_start, ready, seen, starts>>

\* SYS2 on itself; D are its descendants
Exit(D) ==
  /\ pc = "handler"
  /\ Ends(D)
  /\ currentPcb' = NULL
  /\ pc' = "scheduler"
  /\ UNCHANGED <<elapsed, seen, times, starts>>

\* A trap that the process handles itself: kernel_time grows by the difference
\* of an address and a time, since the code lacks the parentheses of getTODLO().
\* Bound: once for each process.
PassUp ==
  /\ pc = "user" /\ c \notin spoiled
  /\ kernel_start' = TOD(0)
  /\ kernel_time' = [kernel_time EXCEPT ![c] = Plus(@, Minus(HANDLER, TOD(0)))]
  /\ spoiled' = spoiled \cup {c}
  /\ UNCHANGED <<elapsed, boot, start, total_time, wall_start, pc, told,
                 used, queues>>

-----------------------------------------------------------------------------
\* deviceHandler leaves the times alone
DeviceInterrupt ==
  /\ pc \in {"user", "wait"}
  /\ Wakes
  /\ pc' = "scheduler"
  /\ UNCHANGED <<elapsed, currentPcb, seen, times, starts>>

\* timerHandler; the timer was set after start was read
TimerInterrupt ==
  /\ pc = "user" /\ TOD(0) # start
  /\ ChargeTotal(0)
  /\ ready' = ready \cup {c}
  /\ currentPcb' = NULL
  /\ pc' = "scheduler"
  /\ UNCHANGED <<elapsed, kernel_time, wall_start, blocked, seen, starts>>

\* mutant: start is not moved on, the next charge counts this one again
ResumeTwice ==
  /\ pc = "scheduler" /\ c # NULL
  /\ ChargeTotal(0)
  /\ pc' = "user"
  /\ UNCHANGED <<elapsed, kernel_time, wall_start, seen, queues, starts>>

\* scheduler() with a current process
Resume ==
  /\ pc = "scheduler" /\ c # NULL
  /\ ChargeTotal(0)
  /\ \E d \in Gap : Elapse(d) /\ start' = TOD(d)
  /\ pc' = "user"
  /\ UNCHANGED <<boot, kernel_start, kernel_time, wall_start, seen, queues>>

Dispatch(p) ==
  /\ pc = "scheduler" /\ c = NULL /\ p \in ready
  /\ currentPcb' = p
  /\ ready' = ready \ {p}
  /\ start' = TOD(0)
  /\ \E d \in Gap :
       /\ Elapse(d)
       /\ wall_start' = IF total_time[p] = 0 THEN [wall_start EXCEPT ![p] = TOD(d)]
                                             ELSE wall_start
  /\ pc' = "user"
  /\ UNCHANGED <<boot, kernel_start, total_time, kernel_time, blocked, seen>>

Idle ==
  /\ pc = "scheduler" /\ c = NULL /\ ready = {} /\ blocked # {}
  /\ pc' = "wait"
  /\ UNCHANGED <<elapsed, seen, times, queues, starts>>

Next ==
  \/ Compute
  \/ SysCall
  \/ \E p \in Pcb : Create(p)
  \/ \E D \in SUBSET Pcb : Terminate(D) \/ Exit(D)
  \/ Other \/ GetTime \/ Block
  \/ PassUp
  \/ DeviceInterrupt \/ TimerInterrupt
  \/ Resume \/ (\E p \in Pcb : Dispatch(p)) \/ Idle

Spec == Init /\ [][Next]_vars

-----------------------------------------------------------------------------
(* No moment is charged to two processes, nor twice to one: what the       *)
(* processes were charged in all is never more than what has passed since  *)
(* boot, though each charge is made of two reads of the clock that other   *)
(* handlers make (semp, timerHandler, scheduler).                          *)
ChargedOnce == MapThenSumSet(LAMBDA p : total_time[p], Pcb) <= elapsed

(* Kernel time is part of the total time, so that their difference, the    *)
(* user time, is not that of a negative number: for each process on a PCB  *)
(* used for the first time that has passed no trap up.                     *)
KernelWithinTotal ==
  \A p \in Pcb \ (Free \cup spoiled) :
    (p = c /\ pc = "scheduler") \/ kernel_time[p] <= total_time[p]

(* Of two GETTIMEs of a process the second tells no less CPU time than the *)
(* first, and the difference is within that of the wall clock, up to the   *)
(* time between two reads (the test of p2test.c:112).                      *)
CpuWithinWall ==
  [][\A p \in Pcb :
       told[p].known /\ told'[p].known =>
         /\ told'[p].cpu >= told[p].cpu
         /\ told'[p].cpu - told[p].cpu
              <= told'[p].wall - told[p].wall + Max(Gap)]_vars

=============================================================================
