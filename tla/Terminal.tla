------------------------------ MODULE Terminal ------------------------------
(***************************************************************************)
(* A terminal: two halves, each with a status and a command register,      *)
(* behind one semaphore and one interrupt (iodevop in systemcalls.c,       *)
(* deviceHandler in interrupt.c).  The queue of the semaphore is first     *)
(* come, first served, and its value is always 0 (NoOvertaking and         *)
(* SemaphoresSound of module KernelProperties), so that a request always   *)
(* blocks.  Programs share the terminal by mutexes, as print() does in     *)
(* p2test.c: one for the terminal, or one for each half.                   *)
(***************************************************************************)
EXTENDS Naturals, FiniteSets, Sequences

CONSTANTS Proc, NONE

VARIABLES
  sharing,   \* what a mutex is for: "terminal" or "half"; never changes
  status,    \* the status of each half: "ok" is 5, "error" any other result
  by,        \* whose command a half executes, or has executed last
  queue,     \* the processes that wait on the semaphore
  asked,     \* the half each process has given a command to, until it goes on
  a1         \* what a process finds in a1: the status of a half, NONE if not set

vars == <<sharing, status, by, queue, asked, a1>>

Half   == {"transm", "recv"}
Status == {"ready", "busy", "ok", "error"}
Result == [half : Half, by : Proc]

ASSUME TerminalAssumption == NONE \notin Proc \cup Half \cup Result

Raised  == \E h \in Half : status[h] \in {"ok", "error"}
Waiting == {queue[i] : i \in 1..Len(queue)}

Init ==
  /\ sharing \in {"terminal", "half"}
  /\ status = [h \in Half |-> "ready"]
  /\ by = [h \in Half |-> NONE]
  /\ queue = << >>
  /\ asked = [p \in Proc |-> NONE]
  /\ a1 = [p \in Proc |-> NONE]

-----------------------------------------------------------------------------
\* mutant: a mutex for each half is all there is
TakenHalf(h) == \E p \in Proc : asked[p] = h

\* a process holds the mutex for half h
Taken(h) ==
  \E p \in Proc : asked[p] # NONE /\ (sharing = "half" => asked[p] = h)

\* iodevop: semp, then the command, which a half that is busy ignores.  A
\* process runs only when no interrupt is raised.  a1 is that of the call.
IoDevOp(p, h) ==
  /\ ~Raised
  /\ asked[p] = NONE
  /\ ~Taken(h)
  /\ queue' = Append(queue, p)
  /\ asked' = [asked EXCEPT ![p] = h]
  /\ a1' = [a1 EXCEPT ![p] = NONE]
  /\ IF status[h] = "busy" THEN UNCHANGED <<status, by>>
     ELSE /\ status' = [status EXCEPT ![h] = "busy"]
          /\ by' = [by EXCEPT ![h] = p]
  /\ UNCHANGED sharing

\* the process runs again, and releases the mutex
GoOn(p) ==
  /\ ~Raised
  /\ asked[p] # NONE
  /\ p \notin Waiting
  /\ asked' = [asked EXCEPT ![p] = NONE]
  /\ UNCHANGED <<sharing, status, by, queue, a1>>

\* mutant: whatever the result, the halves that have one are acknowledged
AnswerAll ==
  /\ status' = [h \in Half |-> IF status[h] = "busy" THEN "busy" ELSE "ready"]
  /\ a1' = [a1 EXCEPT ![Head(queue)] =
              IF status["transm"] = "ok" THEN [half |-> "transm", by |-> by["transm"]]
              ELSE IF status["recv"] = "ok" THEN [half |-> "recv", by |-> by["recv"]]
              ELSE @]

\* mutant: the receiver's status is never the answer
AnswerTransm ==
  /\ status' = [status EXCEPT !["transm"] = "ready"]
  /\ a1' = [a1 EXCEPT ![Head(queue)] = [half |-> "transm", by |-> by["transm"]]]

\* The first waiter gets the status of the transmitter if that is done, else
\* that of the receiver if that is; the half is acknowledged.  An error is
\* neither answered nor acknowledged.
Answer ==
  LET give(h) == /\ status' = [status EXCEPT ![h] = "ready"]
                 /\ a1' = [a1 EXCEPT ![Head(queue)] = [half |-> h, by |-> by[h]]]
  IN  \/ status["transm"] = "ok" /\ give("transm")
      \/ status["transm"] # "ok" /\ status["recv"] = "ok" /\ give("recv")
      \/ "ok" \notin {status[h] : h \in Half} /\ UNCHANGED <<status, a1>>

\* deviceHandler: the first waiter is woken in every case; with no waiter,
\* the interrupt is left as it is
DeviceHandler ==
  /\ Raised
  /\ \/ /\ queue # << >>
        /\ Answer
        /\ queue' = Tail(queue)
     \/ /\ queue = << >>
        /\ UNCHANGED <<status, a1, queue>>
  /\ UNCHANGED <<sharing, by, asked>>

\* the terminal completes the command of a half
Completes(h) ==
  /\ status[h] = "busy"
  /\ \E s \in {"ok", "error"} : status' = [status EXCEPT ![h] = s]
  /\ UNCHANGED <<sharing, by, queue, asked, a1>>

Next ==
  \/ \E p \in Proc, h \in Half : IoDevOp(p, h)
  \/ \E p \in Proc : GoOn(p)
  \/ DeviceHandler
  \/ \E h \in Half : Completes(h)

(***************************************************************************)
(* A half completes its commands (somebody types), and interrupts are      *)
(* taken.                                                                  *)
(***************************************************************************)
Fairness ==
  /\ WF_vars(DeviceHandler)
  /\ \A h \in Half : WF_vars(Completes(h))

Spec == Init /\ [][Next]_vars /\ Fairness

-----------------------------------------------------------------------------
(* Type invariant; no process waits twice.                                 *)
TypeOK ==
  /\ sharing \in {"terminal", "half"}
  /\ status \in [Half -> Status]
  /\ by \in [Half -> Proc \cup {NONE}]
  /\ queue \in Seq(Proc)
  /\ Cardinality(Waiting) = Len(queue)
  /\ asked \in [Proc -> Half \cup {NONE}]
  /\ a1 \in [Proc -> Result \cup {NONE}]

(* With one mutex for the terminal, a process never goes on with the       *)
(* status of another half than the one it used, or of another command than *)
(* its own, although deviceHandler guesses which half the first waiter has *)
(* used.                                                                   *)
OwnResult ==
  \A p \in Proc :
    sharing = "terminal" /\ asked[p] # NONE /\ a1[p] # NONE =>
      a1[p] = [half |-> asked[p], by |-> p]

(* With one mutex for the terminal, and as long as no command has failed,  *)
(* every interrupt finds a process to wake, and every process that waits   *)
(* has one to come: no command was given to a half that was busy.          *)
Matched ==
  sharing = "terminal" /\ (\A h \in Half : status[h] # "error") =>
    Len(queue) = Cardinality({h \in Half : status[h] # "ready"})

(* No process goes on without a status, although a failed command leaves   *)
(* a1 as it is and wakes a process: its interrupt is not acknowledged, and *)
(* comes again before the process can run.                                 *)
NoneGoesOnUnset ==
  [][\A p \in Proc : asked[p] # NONE /\ asked'[p] = NONE => a1[p] # NONE]_vars

(* With one mutex for the terminal, every process that waits for it is     *)
(* woken, those whose command fails included.                              *)
RequestsAnswered ==
  sharing = "terminal" => \A p \in Proc : p \in Waiting ~> p \notin Waiting

=============================================================================
