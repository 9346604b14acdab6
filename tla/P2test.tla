------------------------------- MODULE P2test -------------------------------
(***************************************************************************)
(* The test of the nucleus (p2test.c): its programs, run on the modules    *)
(* Kernel, Traps and Printing.  A program is a sequence of instructions:   *)
(* its system calls, its traps, its assignments to shared variables, and   *)
(* the checks that end in PANIC().  Messages are one character long and    *)
(* terminal 0 transmits them without errors.  The first process finds the  *)
(* variable NULL that GETPIDS leaves as it is when there is no parent      *)
(* (p0paddr).                                                              *)
(***************************************************************************)
EXTENDS Traps, Printing

CONSTANTS
  term_mutex, p1sem, p1ok, synp3, blkp3, testp5, stack_mutex, p5p6_mutex,
  p7ok, p7lock,    \* the addresses of the semaphores
  CLOCKLOOP,       \* WAITCLOCKs of p2 (10)
  PREEMPTIONS      \* bound: preemptions of processes that do not compute for long

ASSUME P2testAssumption ==
  /\ {term_mutex, p1sem, p1ok, synp3, blkp3, testp5, stack_mutex, p5p6_mutex,
      p7ok, p7lock} = UserSem
  /\ {CLOCKLOOP, PREEMPTIONS} \subseteq Nat

VARIABLES
  at,           \* where each process is: a program and the number of an instruction
  p1pids,       \* what GETPIDS gave p1: its pid and its parent's
  p1addr,       \* the pid of the process created for p1
  p3inc, p5p6race,
  preempted     \* preemptions of processes that do not compute for long

shared == <<p1pids, p1addr, p3inc, p5p6race>>
memory == <<shared, asked>>
all    == <<vars, trapVars, memory, at, preempted>>

root == MAXPROC      \* the PCB that boot gives the first process

-----------------------------------------------------------------------------
(***************************************************************************)
(* Instructions.                                                           *)
(***************************************************************************)
P(k)          == [op |-> "semp", sem |-> k]
V(k)          == [op |-> "semv", sem |-> k]
Create(pr, n) == [op |-> "create", prog |-> pr, prio |-> n]
Handle(t, R)  == [op |-> "spechdl", type |-> t, results |-> R]   \* R pass its check
Trap(k, pr)   == [op |-> "trap", kind |-> k, handler |-> pr]
LdSt(pr, m)   == [op |-> "ldst", prog |-> pr, mode |-> m]
Race(n)       == [op |-> "race", value |-> n]
Check(c)      == [op |-> "check", cond |-> c]
Do(name)      == [op |-> name]

print     == <<P(term_mutex), Do("iodevop"), V(term_mutex)>>
StackArea == <<P(stack_mutex), V(stack_mutex)>>
Repeat(n, i) == [j \in 1..n |-> i]
Survived  == print \o <<Do("panic")>>

-----------------------------------------------------------------------------
(***************************************************************************)
(* Programs.                                                               *)
(***************************************************************************)
p1 == <<Do("getpids"), V(p1sem), P(p1sem), V(p1ok), P(p1sem)>> \o Survived

p1a == <<V(p1ok), P(p1sem)>> \o print \o <<Do("exit")>> \o Survived

\* the loop ends with a wait of half a tick, the first or the second one; it
\* may end before, as it starts by testing variables that are not set
p2 == <<Do("maybe"), Do("waitclock"), Do("maybe"), Do("waitclock")>> \o print
      \o <<Do("gettime")>> \o Repeat(CLOCKLOOP, Do("waitclock")) \o <<Do("gettime")>>
      \o print \o <<Do("exit")>> \o Survived

p3 == <<Do("p3inc")>> \o print \o <<V(synp3), P(blkp3), Check("p3inc"), P(synp3)>>
      \o StackArea \o <<Create("p3", 5), P(synp3), Do("exit")>> \o Survived

\* p4 and its handlers; p4c is what p4b does after SYS 13
p4 == print \o StackArea \o StackArea \o StackArea
      \o <<Handle("pgm", {0, -1}), Handle("tlb", {0, -1}), Handle("sys", {0, -1})>>
      \o print \o <<Trap("pgm", "p4pgm")>> \o Survived
p4pgm == print \o <<LdSt("p4a", "kernel")>>
p4a   == print \o <<Trap("tlb", "p4tlb")>> \o Survived
p4tlb == print \o print \o <<LdSt("p4b", "user")>>
p4b   == <<Trap("sys", "p4sys")>>
p4sys == print \o print \o <<LdSt("p4c", "user")>>
p4c   == <<P(testp5), Handle("pgm", {-1}), Do("exit")>> \o Survived

p5 == <<Do("loop"), P(p5p6_mutex), Race(5), V(p5p6_mutex)>> \o print
      \o <<Trap("sys", "p5")>> \o Survived
p6 == <<Do("loop"), P(p5p6_mutex), Race(6), V(p5p6_mutex)>> \o print
      \o <<Trap("pgm", "p6")>> \o Survived

p7gc == <<V(p7ok), P(p7lock)>>
p7c  == StackArea \o <<Create("p7gc", 5)>> \o StackArea \o <<Create("p7gc", 5)>>
        \o <<V(p7ok), P(p7lock)>>
p7   == StackArea \o <<Create("p7c", 5)>> \o StackArea \o <<Create("p7c", 5)>>
        \o Repeat(6, P(p7ok)) \o <<Do("exit")>>

p0 == StackArea \o StackArea \o StackArea \o StackArea \o StackArea \o StackArea
      \o StackArea \o print
      \o <<Create("p1", 10), Do("getpids"), P(p1ok), Check("pids"), Do("kill"), Do("waitchld"),
           Create("p1a", 10), P(p1ok), V(p1sem)>>
      \o print \o <<Do("waitchld"), Create("p2", 10), Do("waitchld")>>
      \o print \o <<Create("p3", 1), Create("p4", 3), Create("p5", 5), Create("p6", 7)>>
      \o Repeat(4, Do("waitchld")) \o <<Check("race"), Create("p7", 1), Do("waitchld")>>
      \o print \o <<Do("halt")>>

Program ==
  [p0 |-> p0, p1 |-> p1, p1a |-> p1a, p2 |-> p2, p3 |-> p3, p4 |-> p4, p4pgm |-> p4pgm,
   p4a |-> p4a, p4tlb |-> p4tlb, p4b |-> p4b, p4sys |-> p4sys, p4c |-> p4c, p5 |-> p5,
   p6 |-> p6, p7 |-> p7, p7c |-> p7c, p7gc |-> p7gc, panic |-> <<Do("panic")>>]

Instr(p)  == Program[at[p].prog][at[p].n]
Start(pr) == [prog |-> pr, n |-> 1]
After(p)  == [at[p] EXCEPT !.n = @ + 1]

\* the instruction the CPU is at, and where the process goes from it
I         == Instr(currentPcb)
GoTo(pos) == at' = [at EXCEPT ![currentPcb] = pos]
GoOn      == GoTo(After(currentPcb))

P2Init ==
  /\ semval = [k \in Key |->
                 IF k \in {term_mutex, blkp3, testp5, stack_mutex, p5p6_mutex} THEN 1 ELSE 0]
  /\ Init
  /\ TrapsInit
  /\ asked = [p \in Pcb |-> {}]
  /\ at = [p \in Pcb |-> Start("p0")]
  /\ p1pids = <<NULL, NULL>>
  /\ p1addr = NULL
  /\ p3inc = 0
  /\ p5p6race = 0
  /\ preempted = 0

-----------------------------------------------------------------------------
(***************************************************************************)
(* Steps of the current process.                                           *)
(***************************************************************************)
\* a step in which the nucleus takes no part
Local == SysCall /\ UNCHANGED <<vars, trapVars, asked>>

\* HALT() and PANIC() called by a program
Stops(how) ==
  /\ SysCall
  /\ pc' = how
  /\ UNCHANGED <<p_next, prios, readyQueue, currentPcb, sems, dev, CallFrame,
                 trapVars, at, memory>>

PlainCall ==
  /\ MayCall
  /\ \/ I.op = "semp" /\ AskFor(I.sem)
     \/ I.op = "semv" /\ GiveBack(I.sem)
     \/ I.op = "iodevop" /\ Command(0)
     \/ /\ \/ I.op = "waitclock" /\ WaitClock
           \/ I.op = "waitchld" /\ WaitChild
           \/ I.op = "gettime" /\ OtherCall
           \/ I.op = "kill" /\ TerminateProcess(p1addr)
           \/ I.op = "exit" /\ TerminateProcess(NULL)
        /\ UNCHANGED asked
  /\ GoOn
  /\ UNCHANGED <<trapVars, shared>>

GetPids ==
  /\ MayCall
  /\ I.op = "getpids"
  /\ OtherCall
  /\ p1pids' = IF at[currentPcb].prog = "p1" THEN <<currentPcb, p_parent[currentPcb]>>
                                              ELSE p1pids
  /\ GoOn
  /\ UNCHANGED <<trapVars, p1addr, p3inc, p5p6race, asked>>

CreateCall ==
  /\ MayCall
  /\ I.op = "create"
  /\ CreateTrapFree(I.prio)
  /\ LET p == AllocNode(p_next, pcbfree_h)
     IN  /\ at' = [at EXCEPT ![currentPcb] = After(currentPcb), ![p] = Start(I.prog)]
         /\ p1addr' = IF I.prog = "p1" THEN p ELSE p1addr
         /\ asked' = [asked EXCEPT ![p] = {}]
  /\ UNCHANGED <<p1pids, p3inc, p5p6race>>

SpecHdlCall ==
  /\ MayCall
  /\ I.op = "spechdl"
  /\ SpecHdl(I.type)
  /\ GoTo(IF SpecHdlResult(I.type) \in I.results THEN After(currentPcb) ELSE Start("panic"))
  /\ UNCHANGED memory

TrapTaken ==
  /\ I.op = "trap"
  /\ \/ PassUp(I.kind) /\ GoTo(Start(I.handler))
     \/ TrapEnds(I.kind) /\ GoOn
  /\ UNCHANGED memory

LdStOld ==
  /\ I.op = "ldst"
  /\ ReturnTo(I.mode)
  /\ GoTo(Start(I.prog))
  /\ UNCHANGED memory

Assign ==
  /\ \/ I.op = "race" /\ p5p6race' = I.value /\ UNCHANGED p3inc
     \/ I.op = "p3inc" /\ p3inc' = p3inc + 1 /\ UNCHANGED p5p6race
  /\ Local
  /\ GoOn
  /\ UNCHANGED <<p1pids, p1addr>>

\* "maybe": the next instruction may be skipped
Branch ==
  /\ \/ I.op \in {"maybe", "loop"} /\ GoOn
     \/ I.op = "maybe" /\ GoTo([After(currentPcb) EXCEPT !.n = @ + 1])
  /\ Local
  /\ UNCHANGED shared

Holds(cond) ==
  CASE cond = "pids"  -> p1pids = <<p1addr, root>>
    [] cond = "p3inc" -> p3inc <= 2
    [] cond = "race"  -> p5p6race = 5

CheckCond ==
  /\ I.op = "check"
  /\ Local
  /\ GoTo(IF Holds(I.cond) THEN After(currentPcb) ELSE Start("panic"))
  /\ UNCHANGED shared

Stopping == I.op \in {"halt", "panic"} /\ Stops(I.op)

ProgramStep ==
  /\ pc = "user"
  /\ \/ PlainCall \/ GetPids \/ CreateCall \/ SpecHdlCall
     \/ TrapTaken \/ LdStOld \/ Assign \/ Branch \/ CheckCond \/ Stopping
  /\ UNCHANGED preempted

-----------------------------------------------------------------------------
(***************************************************************************)
(* The rest of the machine.  Every return from a system call starts a new  *)
(* slice, so that the timer mostly finds processes in a loop.  It may find *)
(* them anywhere, PREEMPTIONS times in all, save that the first process    *)
(* goes on to create p3, p4, p5 and p6 without being preempted.            *)
(***************************************************************************)
Early    == pc = "user" /\ I.op # "loop"
Creating == pc = "user" /\ I.op = "create" /\ at[currentPcb].prog = "p0"

Timer(tick) ==
  /\ Early => preempted < PREEMPTIONS /\ ~Creating
  /\ TimerInterrupt(tick)
  /\ preempted' = preempted + (IF Early THEN 1 ELSE 0)
  /\ UNCHANGED <<trapVars, at, memory>>

NoProgram == UNCHANGED <<trapVars, at, memory, preempted>>

P2Next ==
  \/ ProgramStep
  \/ \E tick \in BOOLEAN : Timer(tick)
  \/ Handler /\ NoProgram
  \/ DeviceInterrupt(0) /\ NoProgram
  \/ DeviceDone(0) /\ NoProgram
  \/ Stop /\ NoProgram

(***************************************************************************)
(* Fairness, as in module Kernel; and programs go on, however often they   *)
(* are preempted: strong fairness of ProgramStep, which can be taken       *)
(* whenever a process runs and no interrupt comes first.                   *)
(***************************************************************************)
P2Fairness ==
  /\ []<>(pc = "user" /\ ~Raised(0)) => []<><<ProgramStep>>_all
  /\ WF_all(Handler /\ NoProgram)
  /\ SF_all(DeviceInterrupt(0) /\ NoProgram)
  /\ SF_all(DeviceDone(0) /\ NoProgram)
  /\ SF_all(pc = "wait" /\ Timer(TRUE))

P2Spec == P2Init /\ [][P2Next]_all /\ P2Fairness

-----------------------------------------------------------------------------
(* No check of the test fails, no process goes on after its termination,   *)
(* a trap without handler or an error, and the kernel neither panics nor   *)
(* gets lost in a list: although p1, the second p3 and the six processes   *)
(* below p7 are terminated while they wait, which leaves freed PCBs in the *)
(* queues of semaphores.                                                   *)
TestPasses == pc \notin {"panic", "lost"}

(* A PCB that was freed while it was in the queue of a semaphore, and has  *)
(* not been used again since, never runs in this test.                     *)
TerminatedNeverRuns == pc = "user" => currentPcb \in Live

(* When the test ends, no process that it created is left and the counters *)
(* say so, terminated subtrees and processes that had no handler included. *)
(* (The freed PCBs of those that waited stay in the queues of p1sem,       *)
(* blkp3 and p7lock.)                                                      *)
CleanEnd ==
  pc = "halt" => /\ Live = {root}
                 /\ currentPcb = root
                 /\ activeProcesses = 1
                 /\ softblockProcesses = 0

(* The test comes to its end.                                              *)
TestEnds == <>(pc = "halt")

(* A process in user mode cannot P or V: the system call is a reserved     *)
(* instruction there (traphandlers.c:79-83, p2test.c:166 and 207).         *)
UserModeTraps ==
  [][\A k \in UserSem :
       pc = "user" /\ mode[currentPcb] = "user" =>
         semval'[k] = semval[k] /\ s_procQ'[k] = s_procQ[k]]_all

=============================================================================
