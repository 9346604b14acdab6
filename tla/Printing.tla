------------------------------ MODULE Printing ------------------------------
(***************************************************************************)
(* Programs that share devices as print() of p2test.c does, on the nucleus *)
(* of module Kernel: whoever uses a device makes a P on the device's mutex *)
(* first, and only then its V.  SYS8 itself asks for nothing: here a       *)
(* request may be made to a device that is at work, and that none is shows *)
(* that the guard of Kernel's IoDevOp asks no more of programs than this.  *)
(***************************************************************************)
EXTENDS Kernel

CONSTANT
  Mutex       \* the mutex of each device (term_mutex)

ASSUME MutexAssumption == Mutex \in [Device -> UserSem]

VARIABLE
  asked       \* the mutexes on which each process made a P, and not yet a V

Mutexes  == {Mutex[d] : d \in Device}
printing == <<vars, asked>>

\* those that have made their P on k and do not wait for it to return
Holders(k) == {p \in Pcb : k \in asked[p]} \ Queue(k)

PrintingInit ==
  /\ Init
  /\ \A k \in Mutexes : semval[k] = 1
  /\ asked = [p \in Pcb |-> {}]

-----------------------------------------------------------------------------
AskFor(k) ==
  /\ SemPCall(k)
  /\ asked' = [asked EXCEPT ![currentPcb] = @ \cup ({k} \cap Mutexes)]

GiveBack(k) ==
  /\ SemVCall(k)
  /\ asked' = [asked EXCEPT ![currentPcb] = @ \ {k}]

\* iodevop, whatever the device is doing
Command(d) ==
  /\ SysCall
  /\ SemP(GetDeviceNi(DevReg(d, 1)))
  /\ dev' = [dev EXCEPT ![d] = "busy"]
  /\ UNCHANGED <<readyQueue, start_priority, CallFrame, asked>>

\* a new program starts from its beginning
Spawn(priority) ==
  /\ CreateProcess(priority)
  /\ asked' = [asked EXCEPT ![AllocNode(p_next, pcbfree_h)] = {}]

\* what has nothing to do with mutexes
Aside ==
  \/ CreateFails
  \/ \E pid \in pids \cup {NULL} : TerminateProcess(pid)
  \/ WaitClock
  \/ WaitChild
  \/ OtherCall
  \/ Handler
  \/ Interrupt
  \/ \E d \in Device : DeviceDone(d)
  \/ Stop

Call ==
  \/ \E k \in UserSem : \/ AskFor(k)
                        \/ (k \in Mutexes => k \in asked[currentPcb]) /\ GiveBack(k)
  \/ \E d \in Device : Mutex[d] \in asked[currentPcb] /\ Command(d)
  \/ \E priority \in Priorities : Spawn(priority)

PrintingNext == (SysCall /\ Call) \/ (Aside /\ UNCHANGED asked)

PrintingSpec == PrintingInit /\ [][PrintingNext]_printing

-----------------------------------------------------------------------------
(* A mutex has one holder at most, and none while its value is positive,   *)
(* through preemptions, processes that are woken while others run, and     *)
(* PCBs that are used again (semp, semv).                                  *)
MutualExclusion ==
  \A k \in Mutexes : /\ \A p, q \in Holders(k) : p = q
                     /\ semval[k] > 0 => Holders(k) = {}

(* Whoever has made the P on the mutex of a device, and makes a system     *)
(* call, finds the device idle: no command is lost and no process takes    *)
(* the answer to another's (print, iodevop, deviceHandler).                *)
Serialized ==
  \A d \in Device : SysCall /\ Mutex[d] \in asked[currentPcb] => dev[d] = "idle"

=============================================================================
