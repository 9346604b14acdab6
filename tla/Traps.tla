-------------------------------- MODULE Traps --------------------------------
(***************************************************************************)
(* What a process may do besides its system calls: traps, and the handlers *)
(* that it sets for them with SPECHDL (traphandlers.c, systemcalls.c), on  *)
(* top of the nucleus of module Kernel.  A trap that has a handler is      *)
(* passed up: the handler runs in place of the process, without scheduler()*)
(* being called.  One that has none ends the process.                      *)
(***************************************************************************)
EXTENDS Kernel

VARIABLES
  handlers,   \* the kinds of trap whose xxx_new field is set, per PCB
  mode        \* the mode each process runs in

TrapKind == {"sys", "tlb", "pgm"}
trapVars == <<handlers, mode>>

TrapsInit == /\ handlers = [p \in Pcb |-> {}]
             /\ mode = [p \in Pcb |-> "kernel"]

-----------------------------------------------------------------------------
\* The cpsr that boot puts in the new area of system calls: system mode,
\* interrupts disabled.  It is what getSTATUS() reads in sysHandler.
HandlerStatus == 31 + 128 + 64

\* sysHandler's test for system mode, whose other branch can never be taken
MayCall == HandlerStatus % 32 = 31

\* mutant: startPcb leaves the handlers of the PCB's previous life
CreateTrapKept(priority) ==
  LET p == AllocNode(p_next, pcbfree_h)
  IN  /\ CreateProcess(priority)
      /\ mode' = [mode EXCEPT ![p] = mode[currentPcb]]
      /\ UNCHANGED handlers

\* createprocess: startPcb clears the handlers; the state is a copy of the
\* creator's (STST)
CreateTrapFree(priority) ==
  LET p == AllocNode(p_next, pcbfree_h)
  IN  /\ CreateProcess(priority)
      /\ handlers' = [handlers EXCEPT ![p] = {}]
      /\ mode' = [mode EXCEPT ![p] = mode[currentPcb]]

\* spechdl(type, old, new), and the result it returns
SpecHdlResult(type) == IF type \in handlers[currentPcb] THEN -1 ELSE 0

SpecHdl(type) ==
  /\ OtherCall
  /\ handlers' = [handlers EXCEPT ![currentPcb] = @ \cup {type}]
  /\ UNCHANGED mode

\* the handler, which runs in the mode of the state it was given
PassUp(kind) ==
  /\ SysCall
  /\ kind \in handlers[currentPcb]
  /\ mode' = [mode EXCEPT ![currentPcb] = "kernel"]
  /\ UNCHANGED <<vars, handlers>>

\* no handler: terminateprocess(NULL)
TrapEnds(kind) ==
  /\ kind \notin handlers[currentPcb]
  /\ TerminateProcess(NULL)
  /\ UNCHANGED trapVars

\* LDST of the old area by a handler that has set the mode in it
ReturnTo(m) ==
  /\ SysCall
  /\ mode' = [mode EXCEPT ![currentPcb] = m]
  /\ UNCHANGED <<vars, handlers>>

-----------------------------------------------------------------------------
(***************************************************************************)
(* Processes that run any programs: module P2test runs those of the test.  *)
(***************************************************************************)
\* the system calls that leave handlers and modes alone
UntrappedCall ==
  \/ CreateFails
  \/ \E pid \in pids \cup {NULL} : TerminateProcess(pid)
  \/ \E k \in UserSem : SemPCall(k) \/ SemVCall(k)
  \/ WaitClock
  \/ WaitChild
  \/ \E d \in Device : IoDevOp(d)
  \/ OtherCall

\* sysHandler, tlbHandler and pgmHandler
TrapStep ==
  \/ MayCall /\ \/ \E priority \in Priorities : CreateTrapFree(priority)
                \/ \E type \in TrapKind : SpecHdl(type)
                \/ UntrappedCall /\ UNCHANGED trapVars
  \/ \E kind \in TrapKind : PassUp(kind) \/ TrapEnds(kind)
  \/ \E m \in {"kernel", "user"} : ReturnTo(m)

TrapsNext ==
  \/ TrapStep
  \/ /\ Handler \/ Interrupt \/ (\E d \in Device : DeviceDone(d)) \/ Stop
     /\ UNCHANGED trapVars

TrapsSpec == Init /\ TrapsInit /\ [][TrapsNext]_<<vars, trapVars>>

(* A life of a PCB starts without handlers and in its creator's mode, and  *)
(* as long as it lasts nobody but the process itself sets one (startPcb,   *)
(* spechdl): whatever order PCBs are freed and used again in, no trap runs *)
(* the handler of another process or of an earlier life.                   *)
FreshHandlers ==
  [][\A p \in Live' :
       IF p \in Live
       THEN \/ handlers'[p] = handlers[p]
            \/ p = currentPcb /\ pc = "user" /\ handlers[p] \subseteq handlers'[p]
       ELSE handlers'[p] = {} /\ mode'[p] = mode[currentPcb]]_<<vars, trapVars>>

=============================================================================
