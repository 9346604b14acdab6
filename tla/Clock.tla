------------------------------- MODULE Clock -------------------------------
(***************************************************************************)
(* The interval timer, the time slice and the pseudo-clock of yaeos        *)
(* (scheduler.c, timerHandler in interrupt.c), in the arithmetic of        *)
(* unsigned int that the code computes them with.                          *)
(*                                                                         *)
(* The machine has a clock, read by getTODLO(), and a timer that counts    *)
(* down and raises an interrupt when it passes 0.  The code reads the      *)
(* clock several times in one handler, and time goes on between two reads: *)
(* Gap says by how much it can, Work how long a handler takes before it    *)
(* calls scheduler().  Which process is ready when is module Kernel's      *)
(* matter: processes here block, wait for the pseudo-clock and are woken   *)
(* freely, and any ready one may be dispatched.                            *)
(***************************************************************************)
EXTENDS Integers

CONSTANTS
  UINT,        \* 2^32, the range of an unsigned int
  PERIOD,      \* of the pseudo-clock (100 * 1000)
  TIMESLICE,   \* 3000
  Gap,         \* what can pass between two reads of the clock in scheduler()
  Work,        \* what a handler can take before it calls scheduler()
  Boots,       \* what the clock may hold when the nucleus starts
  Proc,        \* processes
  NULL

ASSUME ClockAssumption ==
  /\ UINT \in Nat /\ PERIOD \in Nat /\ TIMESLICE \in Nat
  /\ 0 < TIMESLICE /\ TIMESLICE < PERIOD /\ 2 * PERIOD <= UINT
  /\ Gap \subseteq Nat /\ Work \subseteq Nat /\ Boots \subseteq 0..(UINT - 1)
  /\ NULL \notin Proc

VARIABLES
  TOD,          \* what getTODLO() returns
  timer,        \* what the interval timer holds
  expired,      \* its interrupt is pending
  tickPerWait,
  start,        \* currentPcb->start
  currentPcb,
  ready,        \* the processes of the ready queue
  waiting,      \* those that wait on timerSem
  pc,           \* "user", "scheduler" or "wait"
  agreed,       \* the value of the timer comes from reads of the clock that
                \* agreed where the code takes them for the same
  lag           \* the time since the moment tickPerWait stands for, kept
                \* outside the machine and without wrapping; UINT: as much or more

vars == <<TOD, timer, expired, tickPerWait, start, currentPcb, ready, waiting, pc,
          agreed, lag>>

Init ==
  /\ TOD \in Boots
  /\ timer = UINT - 1 /\ expired = FALSE
  /\ tickPerWait = TOD
  /\ start = 0
  /\ currentPcb = NULL
  /\ \E p \in Proc : ready = {p}
  /\ waiting = {}
  /\ pc = "scheduler"
  /\ agreed = TRUE
  /\ lag = 0

-----------------------------------------------------------------------------
\* mutant: the difference of two signed ints
MinusSigned(a, b) == a - b

\* the difference of two unsigned ints
Minus(a, b) == (a - b) % UINT

Later(d) == (TOD + d) % UINT

Lag(d) == IF lag + d >= UINT THEN UINT ELSE lag + d

\* d passes and the timer runs
Elapse(d) ==
  /\ TOD' = Later(d)
  /\ timer' = Minus(timer, d)
  /\ expired' = (expired \/ d > timer)
  /\ lag' = Lag(d)

\* setTIMER(v) after d; an interrupt that was pending is cleared
SetTimer(v, d) ==
  /\ TOD' = Later(d)
  /\ timer' = v
  /\ expired' = FALSE
  /\ lag' = Lag(d)

\* A process computes, or the machine is idle: the timer's interrupt is taken
\* as soon as it comes.
Compute ==
  /\ pc \in {"user", "wait"} /\ ~expired
  /\ Elapse(1)
  /\ UNCHANGED <<tickPerWait, start, currentPcb, ready, waiting, pc, agreed>>

-----------------------------------------------------------------------------
(***************************************************************************)
(* System calls and interrupts of devices, up to scheduler().              *)
(***************************************************************************)
Handler ==
  /\ ~expired
  /\ \E w \in Work : Elapse(w)
  /\ pc' = "scheduler"
  /\ UNCHANGED agreed

\* a system call, or an interrupt, after which the process goes on
Return ==
  /\ pc = "user" /\ Handler
  /\ UNCHANGED <<tickPerWait, start, currentPcb, ready, waiting>>

\* SYS3, SYS8, SYS10 or SYS2
Block ==
  /\ pc = "user" /\ Handler
  /\ currentPcb' = NULL
  /\ UNCHANGED <<tickPerWait, start, ready, waiting>>

\* SYS7
WaitClock ==
  /\ pc = "user" /\ Handler
  /\ waiting' = waiting \cup {currentPcb}
  /\ currentPcb' = NULL
  /\ UNCHANGED <<tickPerWait, start, ready>>

\* SYS4, SYS1, or the interrupt of a device
Wake(p) ==
  /\ pc \in {"user", "wait"} /\ Handler
  /\ p \notin ready \cup waiting \cup {currentPcb}
  /\ ready' = ready \cup {p}
  /\ UNCHANGED <<tickPerWait, start, currentPcb, waiting>>

\* mutant: the sum wraps
TickDueSum(t) == t >= (tickPerWait + PERIOD) % UINT

\* mutant: only the exact end of the period counts
TickDueExact(t) == Minus(t, tickPerWait) = PERIOD

\* getTODLO() - tickPerWait >= 100 * 1000
TickDue(t) == Minus(t, tickPerWait) >= PERIOD

TimerInterrupt(w) ==
  /\ pc \in {"user", "wait"} /\ expired
  /\ \/ /\ TickDue(TOD)
        /\ TOD' = Later(w) /\ timer' = TIMESLICE /\ expired' = FALSE
        /\ lag' = IF Lag(w) = UINT THEN UINT ELSE Lag(w) - PERIOD
        /\ tickPerWait' = (tickPerWait + PERIOD) % UINT
        /\ ready' = ready \cup waiting \cup ({currentPcb} \ {NULL})
        /\ waiting' = {}
     \/ /\ ~TickDue(TOD)
        /\ SetTimer(TIMESLICE, w)
        /\ ready' = ready \cup ({currentPcb} \ {NULL})
        /\ UNCHANGED <<tickPerWait, waiting>>
  /\ currentPcb' = NULL
  /\ pc' = "scheduler"
  /\ agreed' = TRUE
  /\ UNCHANGED start

-----------------------------------------------------------------------------
(***************************************************************************)
(* scheduler().                                                            *)
(***************************************************************************)
\* mutant: the test against TIMESLICE is missing
MulRemainingBare(t1, t2) == Minus(TIMESLICE, Minus(t2, start))

\* what is left of the slice: start is compared with t1, subtracted from t2
MulRemaining(t1, t2) ==
  IF TIMESLICE > Minus(t1, start) THEN Minus(TIMESLICE, Minus(t2, start)) ELSE 1

\* (100 * 1000) - getTODLO() - tickPerWait
ToTick(t) == Minus(PERIOD - t, tickPerWait)

\* the argument of setTIMER: ToTick is compared at t1 and computed again at t2
TimerValue(remaining, t1, t2) ==
  IF ToTick(t1) < remaining THEN ToTick(t2) ELSE remaining

Resume ==
  /\ pc = "scheduler" /\ currentPcb # NULL
  /\ \E a, b, c, d \in Gap :
       LET remaining == MulRemaining(TOD, Later(a))
       IN  /\ start' = Later(a + b)
           /\ SetTimer(TimerValue(remaining, Later(a + b + c), Later(a + b + c + d)),
                       a + b + c + d)
           /\ agreed' = (a = 0 /\ d = 0)
  /\ pc' = "user"
  /\ UNCHANGED <<tickPerWait, currentPcb, ready, waiting>>

Dispatch(p) ==
  /\ pc = "scheduler" /\ currentPcb = NULL /\ p \in ready
  /\ currentPcb' = p
  /\ ready' = ready \ {p}
  /\ start' = TOD
  /\ \E a, b \in Gap :
       /\ SetTimer(TimerValue(TIMESLICE, Later(a), Later(a + b)), a + b)
       /\ agreed' = (b = 0)
  /\ pc' = "user"
  /\ UNCHANGED <<tickPerWait, waiting>>

\* Some process waits for an interrupt (or the nucleus halts or panics, which
\* Kernel is about): the timer goes on with what it holds.
Idle ==
  /\ pc = "scheduler" /\ currentPcb = NULL /\ ready = {}
  /\ pc' = "wait"
  /\ UNCHANGED <<TOD, timer, expired, lag, tickPerWait, start, currentPcb, ready,
                 waiting, agreed>>

Scheduler == Resume \/ (\E p \in Proc : Dispatch(p)) \/ Idle

Timer == \E w \in Work : TimerInterrupt(w)

Next ==
  \/ Compute
  \/ Return \/ Block \/ WaitClock \/ (\E p \in Proc : Wake(p))
  \/ Timer
  \/ Scheduler

Spec == Init /\ [][Next]_vars

(***************************************************************************)
(* Time passes, scheduler() returns, an interrupt that is pending is       *)
(* taken.  The other conjuncts are about programs: they let the timer fire *)
(* again and again, and not only at moments when no period is over.        *)
(* scheduler() sets the timer anew at every system call, and the pseudo-   *)
(* clock is looked at by the timer's handler alone, so that programs which *)
(* never compute for a slice, nor wait, stop the pseudo-clock; and once a  *)
(* range of the clock has passed, the period seems to have just begun.     *)
(***************************************************************************)
PeriodOver == Minus(TOD, tickPerWait) >= PERIOD

Fairness ==
  /\ WF_vars(Compute) /\ WF_vars(Scheduler) /\ WF_vars(Timer)
  /\ []<><<Timer>>_vars
  /\ []<>PeriodOver => []<><<Timer /\ PeriodOver>>_vars

FairSpec == Spec /\ Fairness

-----------------------------------------------------------------------------
TypeOK ==
  /\ {TOD, timer, tickPerWait, start} \subseteq 0..(UINT - 1)
  /\ expired \in BOOLEAN
  /\ currentPcb \in Proc \cup {NULL}
  /\ ready \subseteq Proc /\ waiting \subseteq Proc
  /\ pc \in {"user", "scheduler", "wait"} /\ agreed \in BOOLEAN
  /\ lag \in Int /\ lag <= UINT

(* The pseudo-clock never runs ahead of the time: no tick comes before its *)
(* period is over, however late the ticks before it were and wherever      *)
(* the clock wraps (timerHandler).                                         *)
NeverEarly == lag >= 0

(* Every WAITCLOCK ends, whatever the two reads of the clock in            *)
(* scheduler() make of the timer, if programs let the timer fire.          *)
WaitersWoken == \A p \in Proc : p \in waiting ~> p \notin waiting

(* A process that computes, or an idle machine, is interrupted within a    *)
(* time slice: the timer never holds more (scheduler.c:83-87), if          *)
(* scheduler() set it from reads of the clock between which no time        *)
(* passed.                                                                 *)
WithinSlice ==
  pc \in {"user", "wait"} /\ agreed => expired \/ timer <= TIMESLICE

(* The same, whatever passed between the reads.                            *)
SliceKept == pc \in {"user", "wait"} => expired \/ timer <= TIMESLICE

=============================================================================
