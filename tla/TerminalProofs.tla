--------------------------- MODULE TerminalProofs ---------------------------
(***************************************************************************)
(* Proofs about module Terminal, for any number of processes: with one     *)
(* mutex for the terminal a process gets the result of its own command,    *)
(* and requests and interrupts match; under either way of sharing none     *)
(* goes on without a result.                                               *)
(***************************************************************************)
EXTENDS Terminal, FiniteSetTheorems, TLAPS

USE TerminalAssumption

Failed == \E h \in Half : status[h] = "error"

(* The queue is that of different processes, all of which have given a     *)
(* command.                                                                *)
QueueSound ==
  /\ \A i, j \in 1..Len(queue) : queue[i] = queue[j] => i = j
  /\ \A p \in Waiting : asked[p] # NONE
  /\ IsFiniteSet(Waiting)

(* What a half has executed, or executes, is the command of a process.     *)
Commanded == \A h \in Half : status[h] # "ready" => by[h] \in Proc

(* Who was woken without a status was so by an interrupt that stays.       *)
WokenSet ==
  \A p \in Proc : asked[p] # NONE /\ p \notin Waiting => a1[p] # NONE \/ Failed

Sound == TypeOK /\ QueueSound /\ Commanded /\ WokenSet

(* With one mutex for the terminal: who has it, ...                        *)
OneAsks == \A p, q \in Proc : asked[p] # NONE /\ asked[q] # NONE => p = q

(* ... whose command the terminal is busy with, or has done, ...           *)
HeadsCommand ==
  \A h \in Half : status[h] \in {"busy", "ok"} =>
    queue # << >> /\ asked[Head(queue)] = h /\ by[h] = Head(queue)

(* ... that nothing runs beside a command that failed, ...                 *)
FailedAlone == \A h, k \in Half : status[h] = "error" /\ k # h => status[k] = "ready"

(* ... and that the command of the process which waits is not lost.        *)
HeadServed ==
  queue # << >> /\ ~Failed => status[asked[Head(queue)]] \in {"busy", "ok"}

Shared == sharing = "terminal" => OneAsks /\ HeadsCommand /\ FailedAlone /\ HeadServed

Inv == Sound /\ Shared /\ OwnResult

-----------------------------------------------------------------------------
(***************************************************************************)
(* Queues.                                                                 *)
(***************************************************************************)
\* processes wait
LEMMA WaitingProc == TypeOK => Waiting \subseteq Proc
<1> SUFFICES ASSUME TypeOK, NEW i \in 1..Len(queue) PROVE queue[i] \in Proc
  BY DEF Waiting
<1>1. queue \in Seq(Proc)
  BY DEF TypeOK
<1> QED
  BY <1>1

(* Who is in the queue after one more process, and after one less.         *)
LEMMA AppendWaiting ==
  ASSUME TypeOK, QueueSound, NEW p \in Proc, queue' = Append(queue, p), p \notin Waiting
  PROVE  /\ queue' \in Seq(Proc)
         /\ Waiting' = Waiting \cup {p}
         /\ \A i, j \in 1..Len(queue') : queue'[i] = queue'[j] => i = j
         /\ IsFiniteSet(Waiting') /\ Cardinality(Waiting') = Len(queue')
         /\ queue' # << >>
         /\ Head(queue') = IF queue = << >> THEN p ELSE Head(queue)
<1>1. queue \in Seq(Proc)
  BY DEF TypeOK
<1>2. /\ queue' \in Seq(Proc) /\ Len(queue') = Len(queue) + 1
      /\ Len(queue) \in Nat
      /\ queue'[Len(queue) + 1] = p
      /\ \A i \in 1..Len(queue) : queue'[i] = queue[i]
  BY <1>1
<1>3. Waiting' = Waiting \cup {p}
  <2>1. \A i \in 1..Len(queue') : i \in 1..Len(queue) \/ i = Len(queue) + 1
    BY <1>2
  <2>2. \A i \in 1..Len(queue) : i \in 1..Len(queue')
    BY <1>2
  <2>3. Len(queue) + 1 \in 1..Len(queue')
    BY <1>2
  <2> QED
    BY <1>2, <2>1, <2>2, <2>3 DEF Waiting
<1>4. \A i, j \in 1..Len(queue') : queue'[i] = queue'[j] => i = j
  <2> SUFFICES ASSUME NEW i \in 1..Len(queue'), NEW j \in 1..Len(queue'),
                      queue'[i] = queue'[j]
               PROVE  i = j
    OBVIOUS
  <2>1. \A k \in 1..Len(queue) : queue[k] # p
    BY DEF Waiting
  <2>2. i \in 1..Len(queue) \/ i = Len(queue) + 1
    BY <1>2
  <2>3. j \in 1..Len(queue) \/ j = Len(queue) + 1
    BY <1>2
  <2>4. i \in 1..Len(queue) => queue'[i] = queue[i] /\ queue[i] # p
    BY <1>2, <2>1
  <2>5. j \in 1..Len(queue) => queue'[j] = queue[j] /\ queue[j] # p
    BY <1>2, <2>1
  <2>6. i \in 1..Len(queue) /\ j \in 1..Len(queue) => i = j
    BY <2>4, <2>5 DEF QueueSound
  <2> QED
    BY <1>2, <2>2, <2>3, <2>4, <2>5, <2>6
<1>5. IsFiniteSet(Waiting') /\ Cardinality(Waiting') = Len(queue')
  <2>1. IsFiniteSet(Waiting)
    BY DEF QueueSound
  <2>2. /\ IsFiniteSet(Waiting \cup {p})
        /\ Cardinality(Waiting \cup {p}) = Cardinality(Waiting) + 1
    BY <2>1, FS_AddElement
  <2>3. Cardinality(Waiting) = Len(queue)
    BY DEF TypeOK
  <2> QED
    BY <1>2, <1>3, <2>2, <2>3
<1>6. queue' # << >>
  BY <1>2
<1>7. Head(queue') = IF queue = << >> THEN p ELSE Head(queue)
  BY <1>1, <1>2
<1> QED
  BY <1>2, <1>3, <1>4, <1>5, <1>6, <1>7

(* deviceHandler takes the first waiter off: the others keep their order.  *)
LEMMA TailWaiting ==
  ASSUME TypeOK, QueueSound, queue # << >>, queue' = Tail(queue)
  PROVE  /\ queue' \in Seq(Proc)
         /\ Head(queue) \in Waiting /\ Head(queue) \in Proc
         /\ Waiting' = Waiting \ {Head(queue)}
         /\ \A i, j \in 1..Len(queue') : queue'[i] = queue'[j] => i = j
         /\ IsFiniteSet(Waiting') /\ Cardinality(Waiting') = Len(queue')
<1>1. queue \in Seq(Proc) /\ Len(queue) \in Nat /\ Len(queue) > 0
  BY DEF TypeOK
<1>2. /\ queue' \in Seq(Proc) /\ Len(queue') = Len(queue) - 1
      /\ \A i \in 1..Len(queue') : queue'[i] = queue[i + 1]
      /\ Head(queue) = queue[1]
  BY <1>1
<1>3. Head(queue) \in Waiting /\ Head(queue) \in Proc
  BY <1>1, <1>2 DEF Waiting
<1>4. \A i, j \in 1..Len(queue') : queue'[i] = queue'[j] => i = j
  <2> SUFFICES ASSUME NEW i \in 1..Len(queue'), NEW j \in 1..Len(queue'),
                      queue'[i] = queue'[j]
               PROVE  i = j
    OBVIOUS
  <2>1. i + 1 \in 1..Len(queue) /\ j + 1 \in 1..Len(queue)
    BY <1>1, <1>2
  <2>2. i + 1 = j + 1
    BY <1>2, <2>1 DEF QueueSound
  <2> QED
    BY <2>2, <1>1, <1>2
<1>5. Waiting' = Waiting \ {Head(queue)}
  <2>1. \A i \in 1..Len(queue') : i + 1 \in 1..Len(queue) /\ i + 1 # 1
    BY <1>1, <1>2
  <2>2. \A i \in 1..Len(queue) : i # 1 => i - 1 \in 1..Len(queue') /\ i = (i - 1) + 1
    BY <1>1, <1>2
  <2>3. 1 \in 1..Len(queue)
    BY <1>1
  <2>4. ASSUME NEW x \in Waiting' PROVE x \in Waiting \ {Head(queue)}
    <3>1. PICK i \in 1..Len(queue') : x = queue'[i]
      BY DEF Waiting
    <3>2. x = queue[i + 1] /\ i + 1 \in 1..Len(queue) /\ i + 1 # 1
      BY <3>1, <1>2, <2>1
    <3> QED
      BY <3>2, <2>3, <1>2 DEF Waiting, QueueSound
  <2>5. ASSUME NEW x \in Waiting \ {Head(queue)} PROVE x \in Waiting'
    <3>1. PICK i \in 1..Len(queue) : x = queue[i]
      BY DEF Waiting
    <3>2. i - 1 \in 1..Len(queue') /\ queue'[i - 1] = x
      BY <3>1, <1>2, <2>2
    <3> QED
      BY <3>2 DEF Waiting
  <2> QED
    BY <2>4, <2>5
<1>6. IsFiniteSet(Waiting') /\ Cardinality(Waiting') = Len(queue')
  BY <1>2, <1>3, <1>5, FS_RemoveElement DEF TypeOK, QueueSound
<1> QED
  BY <1>2, <1>3, <1>4, <1>5, <1>6

-----------------------------------------------------------------------------
(***************************************************************************)
(* Types, and results that are not missing.                                *)
(***************************************************************************)
\* a terminal at rest
LEMMA InitSound == Init => Inv
<1> SUFFICES ASSUME Init PROVE Inv
  OBVIOUS
<1>1. queue = << >> /\ Waiting = {} /\ Len(queue) = 0
  BY DEF Init, Waiting
<1>2. IsFiniteSet(Waiting) /\ Cardinality(Waiting) = 0
  BY <1>1, FS_EmptySet
<1>3. TypeOK
  BY <1>1, <1>2 DEF Init, TypeOK, Status
<1>4. QueueSound /\ Commanded /\ WokenSet
  BY <1>1, <1>2 DEF Init, QueueSound, Commanded, WokenSet
<1>5. OneAsks /\ HeadsCommand /\ FailedAlone /\ HeadServed /\ OwnResult
  BY <1>1 DEF Init, OneAsks, HeadsCommand, FailedAlone, HeadServed, OwnResult
<1> QED
  BY <1>3, <1>4, <1>5 DEF Inv, Sound, Shared

(* A request: the process was not waiting.                                 *)
LEMMA IoDevOpSound ==
  ASSUME Sound, NEW p \in Proc, NEW h \in Half, IoDevOp(p, h)
  PROVE  Sound'
<1> USE DEF Sound
<1>1. p \notin Waiting
  BY DEF IoDevOp, QueueSound
<1>2. queue' = Append(queue, p)
  BY DEF IoDevOp
<1>3. /\ queue' \in Seq(Proc) /\ Waiting' = Waiting \cup {p}
      /\ \A i, j \in 1..Len(queue') : queue'[i] = queue'[j] => i = j
      /\ IsFiniteSet(Waiting') /\ Cardinality(Waiting') = Len(queue')
  BY <1>1, <1>2, AppendWaiting
<1>4. /\ status' \in [Half -> Status] /\ by' \in [Half -> Proc \cup {NONE}]
      /\ asked' \in [Proc -> Half \cup {NONE}]
      /\ a1' \in [Proc -> Result \cup {NONE}]
      /\ sharing' \in {"terminal", "half"}
  BY DEF IoDevOp, TypeOK, Status
<1>5. /\ asked'[p] = h /\ h # NONE
      /\ \A q \in Proc : q # p => asked'[q] = asked[q] /\ a1'[q] = a1[q]
  BY DEF IoDevOp, TypeOK
<1>6. TypeOK'
  BY <1>3, <1>4 DEF TypeOK
<1>7. Waiting \subseteq Proc
  BY WaitingProc
<1>8. QueueSound'
  BY <1>3, <1>5, <1>7 DEF QueueSound
<1>9. Commanded'
  BY DEF IoDevOp, Commanded, TypeOK
<1>10. ~Failed
  BY DEF IoDevOp, Failed, Raised, Half
<1> QED
  BY <1>3, <1>5, <1>6, <1>8, <1>9 DEF WokenSet, Failed, IoDevOp, Raised

(* A process that was woken goes on with its result.                       *)
LEMMA GoOnSound ==
  ASSUME Sound, NEW p \in Proc, GoOn(p)
  PROVE  Sound'
<1> USE DEF Sound
<1>1. Waiting' = Waiting /\ p \notin Waiting
  BY DEF GoOn, Waiting
<1>2. TypeOK'
  BY <1>1 DEF GoOn, TypeOK
<1>3. \A q \in Proc : q # p => asked'[q] = asked[q]
  BY DEF GoOn, TypeOK
<1>4. asked'[p] = NONE
  BY DEF GoOn, TypeOK
<1>5. Waiting \subseteq Proc
  BY WaitingProc
<1>6. QueueSound'
  BY <1>1, <1>3, <1>5 DEF GoOn, QueueSound
<1>7. Commanded'
  BY DEF GoOn, Commanded
<1>8. WokenSet'
  BY <1>1, <1>3, <1>4 DEF GoOn, WokenSet, Failed
<1> QED
  BY <1>2, <1>6, <1>7, <1>8

(* An interrupt: who is woken without a status leaves one that failed.     *)
LEMMA DeviceHandlerSound ==
  ASSUME Sound, DeviceHandler
  PROVE  Sound'
<1> USE DEF Sound
<1>1. CASE queue = << >>
  <2>1. UNCHANGED vars
    BY <1>1 DEF DeviceHandler, vars
  <2>2. Waiting' = Waiting /\ Failed' = Failed
    BY <2>1 DEF vars, Waiting, Failed
  <2> QED
    BY <2>1, <2>2 DEF vars, TypeOK, QueueSound, Commanded, WokenSet
<1>2. CASE queue # << >>
  <2>1. queue' = Tail(queue) /\ Answer /\ Raised /\ UNCHANGED <<sharing, by, asked>>
    BY <1>2 DEF DeviceHandler
  <2> DEFINE u == Head(queue)
  <2>2. /\ queue' \in Seq(Proc) /\ Waiting' = Waiting \ {u}
        /\ u \in Waiting /\ u \in Proc
        /\ \A i, j \in 1..Len(queue') : queue'[i] = queue'[j] => i = j
        /\ IsFiniteSet(Waiting') /\ Cardinality(Waiting') = Len(queue')
    BY <1>2, <2>1, TailWaiting
  <2> HIDE DEF u
  <2>3. \/ \E h \in Half : /\ status[h] = "ok"
                           /\ status' = [status EXCEPT ![h] = "ready"]
                           /\ a1' = [a1 EXCEPT ![u] = [half |-> h, by |-> by[h]]]
        \/ Failed /\ UNCHANGED <<status, a1>>
    BY <2>1 DEF Answer, Half, Failed, Raised, u
  <2>4. TypeOK' /\ Commanded' /\ (a1'[u] # NONE \/ Failed')
        /\ (Failed => Failed') /\ (\A q \in Proc : q # u => a1'[q] = a1[q])
    <3>1. CASE Failed /\ UNCHANGED <<status, a1>>
      BY <3>1, <2>1, <2>2 DEF TypeOK, Commanded, Failed
    <3>2. CASE \E h \in Half : /\ status[h] = "ok"
                               /\ status' = [status EXCEPT ![h] = "ready"]
                               /\ a1' = [a1 EXCEPT ![u] = [half |-> h, by |-> by[h]]]
      <4>1. PICK h \in Half : /\ status[h] = "ok"
                              /\ status' = [status EXCEPT ![h] = "ready"]
                              /\ a1' = [a1 EXCEPT ![u] = [half |-> h, by |-> by[h]]]
        BY <3>2
      <4>2. by[h] \in Proc
        BY <4>1 DEF Commanded
      <4>3. [half |-> h, by |-> by[h]] \in Result
        BY <4>2 DEF Result
      <4>4. TypeOK'
        BY <4>1, <4>3, <2>1, <2>2 DEF TypeOK, Status
      <4>5. Commanded'
        BY <4>1, <2>1 DEF Commanded, TypeOK
      <4>6. a1'[u] # NONE /\ (\A q \in Proc : q # u => a1'[q] = a1[q])
        BY <4>1, <4>3, <2>2 DEF TypeOK
      <4>7. Failed => Failed'
        BY <4>1 DEF Failed, TypeOK
      <4> QED
        BY <4>4, <4>5, <4>6, <4>7
    <3> QED
      BY <2>3, <3>1, <3>2
  <2>5. QueueSound'
    BY <2>1, <2>2 DEF QueueSound
  <2>6. WokenSet'
    BY <2>1, <2>2, <2>4 DEF WokenSet
  <2> QED
    BY <2>4, <2>5, <2>6
<1> QED
  BY <1>1, <1>2

(* A half completes or fails its command: nobody's place changes.          *)
LEMMA CompletesSound ==
  ASSUME Sound, NEW h \in Half, Completes(h)
  PROVE  Sound'
<1> USE DEF Sound
<1>1. Waiting' = Waiting
  BY DEF Completes, Waiting
<1>2. TypeOK'
  BY <1>1 DEF Completes, TypeOK, Status
<1>3. QueueSound'
  BY <1>1 DEF Completes, QueueSound
<1>4. Commanded'
  BY DEF Completes, Commanded, TypeOK
<1>5. Failed => Failed'
  BY DEF Completes, Failed, TypeOK
<1>6. WokenSet'
  BY <1>1, <1>5 DEF Completes, WokenSet
<1> QED
  BY <1>2, <1>3, <1>4, <1>6

-----------------------------------------------------------------------------
(***************************************************************************)
(* One mutex for the terminal.                                             *)
(***************************************************************************)
(* At most one process waits.                                              *)
LEMMA OneWaits ==
  ASSUME Sound, OneAsks, queue # << >>
  PROVE  Len(queue) = 1 /\ Head(queue) \in Proc /\ asked[Head(queue)] \in Half
<1>1. queue \in Seq(Proc) /\ Len(queue) \in Nat /\ Len(queue) > 0
  BY DEF Sound, TypeOK
<1>2. Head(queue) = queue[1] /\ 1 \in 1..Len(queue) /\ queue[1] \in Proc
  BY <1>1
<1>3. queue[1] \in Waiting
  BY <1>2 DEF Waiting
<1>4. asked[Head(queue)] \in Half
  BY <1>2, <1>3 DEF Sound, QueueSound, TypeOK
<1>5. ASSUME Len(queue) # 1 PROVE FALSE
  <2>1. 2 \in 1..Len(queue) /\ queue[2] \in Proc
    BY <1>1, <1>5
  <2>2. queue[2] \in Waiting
    BY <2>1 DEF Waiting
  <2>3. queue[1] = queue[2]
    BY <1>2, <1>3, <2>1, <2>2 DEF OneAsks, Sound, QueueSound
  <2>4. 1 = 2
    BY <1>2, <2>1, <2>3 DEF Sound, QueueSound
  <2> QED
    BY <2>4
<1> QED
  BY <1>2, <1>4, <1>5

(* A request is made with the terminal at rest and nobody waiting.         *)
LEMMA IoDevOpShared ==
  ASSUME Inv, sharing = "terminal", NEW p \in Proc, NEW h \in Half, IoDevOp(p, h)
  PROVE  (OneAsks /\ HeadsCommand /\ FailedAlone /\ HeadServed)'
<1>1. OneAsks /\ HeadsCommand /\ FailedAlone /\ HeadServed /\ Sound
  BY DEF Inv, Shared
<1>2. \A q \in Proc : asked[q] = NONE
  BY DEF IoDevOp, Taken
<1>3. queue = << >>
  BY <1>1, <1>2, OneWaits
<1>4. \A k \in Half : status[k] = "ready"
  BY <1>1, <1>3 DEF IoDevOp, Raised, HeadsCommand, Sound, TypeOK, Status
<1>5. /\ status' = [status EXCEPT ![h] = "busy"] /\ by' = [by EXCEPT ![h] = p]
      /\ asked' = [asked EXCEPT ![p] = h] /\ queue' = Append(queue, p)
  BY <1>4 DEF IoDevOp
<1>6. queue' = <<p>> /\ queue' # << >> /\ Head(queue') = p
  BY <1>3, <1>5
<1>7. /\ asked'[p] = h /\ status'[h] = "busy" /\ by'[h] = p
      /\ \A k \in Half : k # h => status'[k] = "ready"
      /\ \A q \in Proc : q # p => asked'[q] = NONE
  BY <1>1, <1>2, <1>4, <1>5 DEF Sound, TypeOK
<1>8. OneAsks'
  BY <1>7 DEF OneAsks
<1>9. HeadsCommand'
  BY <1>6, <1>7 DEF HeadsCommand
<1>10. FailedAlone'
  BY <1>7 DEF FailedAlone
<1>11. HeadServed'
  BY <1>6, <1>7 DEF HeadServed
<1> QED
  BY <1>8, <1>9, <1>10, <1>11

(* Who goes on was not waiting: nobody is.                                 *)
LEMMA GoOnShared ==
  ASSUME Inv, sharing = "terminal", NEW p \in Proc, GoOn(p)
  PROVE  (OneAsks /\ HeadsCommand /\ FailedAlone /\ HeadServed)'
<1>1. OneAsks /\ HeadsCommand /\ FailedAlone /\ HeadServed /\ Sound
  BY DEF Inv, Shared
<1>2. queue = << >>
  <2>1. SUFFICES ASSUME queue # << >> PROVE FALSE
    OBVIOUS
  <2>2. Head(queue) \in Proc /\ asked[Head(queue)] # NONE
    BY <1>1, <2>1, OneWaits
  <2>3. Head(queue) = p
    BY <1>1, <2>2 DEF OneAsks, GoOn
  <2>4. Head(queue) = queue[1] /\ 1 \in 1..Len(queue)
    BY <1>1, <2>1, OneWaits
  <2> QED
    BY <2>3, <2>4 DEF GoOn, Waiting
<1>3. \A k \in Half : status[k] = "ready"
  BY <1>1, <1>2 DEF GoOn, Raised, HeadsCommand, Sound, TypeOK, Status
<1>4. status' = status /\ by' = by /\ queue' = queue
  BY DEF GoOn
<1>5. \A q \in Proc : asked'[q] = NONE
  BY <1>1 DEF GoOn, OneAsks, Sound, TypeOK
<1>6. HeadServed' /\ HeadsCommand'
  BY <1>2, <1>3, <1>4 DEF HeadServed, HeadsCommand
<1> QED
  BY <1>3, <1>4, <1>5, <1>6 DEF OneAsks, FailedAlone

(* The handler answers the one who waits, and the terminal is at rest, or  *)
(* has a command that failed and no other.                                 *)
LEMMA DeviceHandlerShared ==
  ASSUME Inv, sharing = "terminal", DeviceHandler, queue # << >>
  PROVE  /\ (OneAsks /\ HeadsCommand /\ FailedAlone /\ HeadServed)'
         /\ \/ a1' = a1
            \/ \E h \in Half : /\ h = asked[Head(queue)]
                               /\ a1' = [a1 EXCEPT ![Head(queue)] =
                                           [half |-> h, by |-> Head(queue)]]
<1>1. OneAsks /\ HeadsCommand /\ FailedAlone /\ HeadServed /\ Sound
  BY DEF Inv, Shared
<1>2. queue' = Tail(queue) /\ Answer /\ Raised /\ UNCHANGED <<sharing, by, asked>>
  BY DEF DeviceHandler
<1>3. Len(queue) = 1 /\ queue \in Seq(Proc)
  BY <1>1, OneWaits DEF Sound, TypeOK
<1>4. queue' = << >>
  BY <1>2, <1>3
<1> DEFINE u == Head(queue)
<1>5. u \in Proc /\ asked[u] \in Half
  BY <1>1, OneWaits
<1>6. HeadServed' /\ OneAsks'
  BY <1>1, <1>2, <1>4 DEF HeadServed, OneAsks
<1>7. \/ \E h \in Half : /\ status[h] = "ok"
                         /\ status' = [status EXCEPT ![h] = "ready"]
                         /\ a1' = [a1 EXCEPT ![u] = [half |-> h, by |-> by[h]]]
      \/ /\ "ok" \notin {status[h] : h \in Half} /\ Failed
         /\ UNCHANGED <<status, a1>>
  BY <1>2 DEF Answer, Half, Failed, Raised
<1> HIDE DEF u
<1>8. CASE /\ "ok" \notin {status[h] : h \in Half} /\ Failed
           /\ UNCHANGED <<status, a1>>
  <2>1. PICK h \in Half : status[h] = "error"
    BY <1>8 DEF Failed
  <2>2. \A k \in Half : status[k] \notin {"busy", "ok"}
    BY <1>1, <2>1 DEF FailedAlone
  <2>3. HeadsCommand' /\ FailedAlone'
    BY <1>1, <1>8, <2>2 DEF HeadsCommand, FailedAlone
  <2> QED
    BY <1>6, <1>8, <2>3
<1>9. CASE \E h \in Half : /\ status[h] = "ok"
                           /\ status' = [status EXCEPT ![h] = "ready"]
                           /\ a1' = [a1 EXCEPT ![u] = [half |-> h, by |-> by[h]]]
  <2>1. PICK h \in Half : /\ status[h] = "ok"
                          /\ status' = [status EXCEPT ![h] = "ready"]
                          /\ a1' = [a1 EXCEPT ![u] = [half |-> h, by |-> by[h]]]
    BY <1>9
  <2>2. asked[u] = h /\ by[h] = u
    BY <1>1, <2>1 DEF HeadsCommand, u
  <2>3. \A k \in Half : k # h => status[k] \notin {"busy", "ok"}
    BY <1>1, <2>2 DEF HeadsCommand, u
  <2>4. /\ status'[h] = "ready"
        /\ \A k \in Half : k # h => status'[k] = status[k]
    BY <2>1, <1>1 DEF Sound, TypeOK
  <2>5. HeadsCommand'
    BY <2>3, <2>4 DEF HeadsCommand
  <2>6. FailedAlone'
    BY <1>1, <2>4 DEF FailedAlone
  <2>7. a1' = [a1 EXCEPT ![u] = [half |-> h, by |-> u]]
    BY <2>1, <2>2
  <2> QED
    BY <1>6, <2>2, <2>5, <2>6, <2>7 DEF u
<1> QED
  BY <1>7, <1>8, <1>9

(* With one mutex the half that completes is the head's.                   *)
LEMMA CompletesShared ==
  ASSUME Inv, sharing = "terminal", NEW h \in Half, Completes(h)
  PROVE  (OneAsks /\ HeadsCommand /\ FailedAlone /\ HeadServed)'
<1>1. OneAsks /\ HeadsCommand /\ FailedAlone /\ HeadServed /\ Sound
  BY DEF Inv, Shared
<1>2. PICK s \in {"ok", "error"} : status' = [status EXCEPT ![h] = s]
  BY DEF Completes
<1>3. /\ status[h] = "busy" /\ status'[h] = s
      /\ \A k \in Half : k # h => status'[k] = status[k]
      /\ asked' = asked /\ by' = by /\ queue' = queue
  BY <1>1, <1>2 DEF Completes, Sound, TypeOK
<1>4. queue # << >> /\ asked[Head(queue)] = h /\ by[h] = Head(queue)
  BY <1>1, <1>3 DEF HeadsCommand
<1>5. \A k \in Half : k # h => status[k] = "ready"
  <2> SUFFICES ASSUME NEW k \in Half, k # h PROVE status[k] = "ready"
    OBVIOUS
  <2>1. status[k] \notin {"busy", "ok"}
    BY <1>1, <1>4 DEF HeadsCommand
  <2>2. status[k] # "error"
    BY <1>1, <1>3 DEF FailedAlone
  <2> QED
    BY <1>1, <2>1, <2>2 DEF Sound, TypeOK, Status
<1>6. OneAsks'
  BY <1>1, <1>3 DEF OneAsks
<1>7. HeadsCommand'
  BY <1>3, <1>4, <1>5 DEF HeadsCommand
<1>8. FailedAlone'
  BY <1>3, <1>5 DEF FailedAlone
<1>9. HeadServed'
  BY <1>3, <1>4 DEF HeadServed, Failed
<1> QED
  BY <1>6, <1>7, <1>8, <1>9

-----------------------------------------------------------------------------
(***************************************************************************)
(* The invariant.                                                          *)
(***************************************************************************)
(* Every step keeps the invariant.                                         *)
LEMMA InvNext == Inv /\ [Next]_vars => Inv'
<1> SUFFICES ASSUME Inv, [Next]_vars PROVE Inv'
  OBVIOUS
<1>1. TypeOK /\ Sound /\ OwnResult /\ Shared
  BY DEF Inv, Sound
<1>2. ASSUME NEW p \in Proc, NEW h \in Half, IoDevOp(p, h) PROVE Inv'
  <2>1. Sound' /\ sharing' = sharing
    BY <1>1, <1>2, IoDevOpSound DEF IoDevOp
  <2>2. Shared'
    BY <2>1, <1>2, IoDevOpShared DEF Shared
  <2>3. a1'[p] = NONE
    BY <1>1, <1>2 DEF IoDevOp, TypeOK
  <2>4. \A q \in Proc : q # p => a1'[q] = a1[q] /\ asked'[q] = asked[q]
    BY <1>1, <1>2 DEF IoDevOp, TypeOK
  <2>5. OwnResult'
    BY <1>1, <2>1, <2>3, <2>4 DEF OwnResult
  <2> QED
    BY <2>1, <2>2, <2>5 DEF Inv
<1>3. ASSUME NEW p \in Proc, GoOn(p) PROVE Inv'
  <2>1. Sound' /\ sharing' = sharing /\ a1' = a1
    BY <1>1, <1>3, GoOnSound DEF GoOn
  <2>2. Shared'
    BY <2>1, <1>3, GoOnShared DEF Shared
  <2>3. \A q \in Proc : asked'[q] # NONE => asked'[q] = asked[q]
    BY <1>1, <1>3 DEF GoOn, TypeOK
  <2>4. OwnResult'
    BY <1>1, <2>1, <2>3 DEF OwnResult
  <2> QED
    BY <2>1, <2>2, <2>4 DEF Inv
<1>4. ASSUME DeviceHandler, queue # << >> PROVE Inv'
  <2>1. Sound' /\ sharing' = sharing /\ asked' = asked
    BY <1>1, <1>4, DeviceHandlerSound DEF DeviceHandler
  <2>2. Shared'
    BY <2>1, <1>4, DeviceHandlerShared DEF Shared
  <2>3. OwnResult'
    <3> SUFFICES ASSUME sharing = "terminal", NEW q \in Proc, asked[q] # NONE,
                        a1'[q] # NONE
                 PROVE  a1'[q] = [half |-> asked[q], by |-> q]
      BY <2>1 DEF OwnResult
    <3>1. CASE a1'[q] = a1[q]
      BY <1>1, <3>1 DEF OwnResult
    <3>2. CASE a1'[q] # a1[q]
      <4> DEFINE u == Head(queue)
      <4>1. \/ a1' = a1
            \/ \E h \in Half : h = asked[u] /\ a1' = [a1 EXCEPT ![u] = [half |-> h, by |-> u]]
        BY <1>4, DeviceHandlerShared
      <4> HIDE DEF u
      <4> QED
        BY <4>1, <3>2, <1>1 DEF TypeOK
    <3> QED
      BY <3>1, <3>2
  <2> QED
    BY <2>1, <2>2, <2>3 DEF Inv
<1>5. ASSUME UNCHANGED vars PROVE Inv'
  <2>1. /\ status' = status /\ by' = by /\ queue' = queue /\ asked' = asked
        /\ a1' = a1 /\ sharing' = sharing
    BY <1>5 DEF vars
  <2>2. Waiting' = Waiting /\ Failed' = Failed
    BY <2>1 DEF Waiting, Failed
  <2>3. Sound'
    BY <1>1, <2>1, <2>2 DEF Sound, TypeOK, QueueSound, Commanded, WokenSet
  <2>4. Shared'
    BY <1>1, <2>1, <2>2
       DEF Shared, OneAsks, HeadsCommand, FailedAlone, HeadServed
  <2> QED
    BY <1>1, <2>1, <2>3, <2>4 DEF Inv, OwnResult
<1>6. ASSUME DeviceHandler, queue = << >> PROVE Inv'
  BY <1>5, <1>6 DEF DeviceHandler, vars
<1>7. ASSUME NEW h \in Half, Completes(h) PROVE Inv'
  <2>1. Sound' /\ sharing' = sharing /\ a1' = a1 /\ asked' = asked
    BY <1>1, <1>7, CompletesSound DEF Completes
  <2>2. Shared'
    BY <2>1, <1>7, CompletesShared DEF Shared
  <2> QED
    BY <1>1, <2>1, <2>2 DEF Inv, OwnResult
<1> QED
  BY <1>2, <1>3, <1>4, <1>5, <1>6, <1>7 DEF Next

(* The invariant holds in every reachable state.                           *)
LEMMA Invariant == Spec => []Inv
BY InitSound, InvNext, PTL DEF Spec

(* The types; no process is in the queue twice (TypeOK).                   *)
THEOREM TypeCorrect == Spec => []TypeOK
<1>1. Inv => TypeOK
  BY DEF Inv, Sound
<1> QED
  BY <1>1, Invariant, PTL

(* With one mutex for the terminal, no process goes on with the status of  *)
(* another half than its own, nor with that of another command, though     *)
(* deviceHandler guesses the half (interrupt.c).                           *)
THEOREM OwnResultCorrect == Spec => []OwnResult
<1>1. Inv => OwnResult
  BY DEF Inv
<1> QED
  BY <1>1, Invariant, PTL

(* With one mutex for the terminal and no command failed, there are as     *)
(* many processes waiting as halves with something to report.              *)
LEMMA InvMatched == Inv => Matched
<1> SUFFICES ASSUME Inv, sharing = "terminal", ~Failed
             PROVE  Len(queue) = Cardinality({h \in Half : status[h] # "ready"})
  BY DEF Matched, Failed
<1>1. OneAsks /\ HeadsCommand /\ HeadServed /\ Sound
  BY DEF Inv, Shared
<1>2. \A h \in Half : status[h] # "ready" => status[h] \in {"busy", "ok"}
  BY <1>1 DEF Failed, Sound, TypeOK, Status
<1>3. CASE queue = << >>
  <2>1. {h \in Half : status[h] # "ready"} = {}
    BY <1>1, <1>2, <1>3 DEF HeadsCommand
  <2> QED
    BY <1>3, <2>1, FS_EmptySet
<1>4. CASE queue # << >>
  <2> DEFINE k == asked[Head(queue)]
  <2>1. Len(queue) = 1 /\ k \in Half
    BY <1>1, <1>4, OneWaits
  <2>2. status[k] # "ready"
    BY <1>1, <1>4 DEF HeadServed
  <2>3. {h \in Half : status[h] # "ready"} = {k}
    BY <1>1, <1>2, <2>1, <2>2 DEF HeadsCommand
  <2> QED
    BY <2>1, <2>3, FS_Singleton
<1> QED
  BY <1>3, <1>4

(* With one mutex for the terminal every waiter has an interrupt to come,  *)
(* and no interrupt comes for nobody: iodevop blocks whenever it commands. *)
THEOREM MatchedCorrect == Spec => []Matched
BY InvMatched, Invariant, PTL

(* No process goes on without a status, under either way of sharing: one   *)
(* that is woken without has left an interrupt behind which nobody runs.   *)
THEOREM NoneGoesOnUnsetCorrect == Spec => NoneGoesOnUnset
<1>1. ASSUME Inv, [Next]_vars
      PROVE  [\A p \in Proc : asked[p] # NONE /\ asked'[p] = NONE => a1[p] # NONE]_vars
  <2> SUFFICES ASSUME Next, NEW p \in Proc, asked[p] # NONE, asked'[p] = NONE
               PROVE  a1[p] # NONE
    BY <1>1
  <2>1. Sound /\ TypeOK
    BY <1>1 DEF Inv, Sound
  <2>2. GoOn(p)
    <3>1. ASSUME NEW q \in Proc, GoOn(q) PROVE q = p
      BY <2>1, <3>1 DEF GoOn, TypeOK
    <3>2. ASSUME NEW q \in Proc, NEW h \in Half, IoDevOp(q, h) PROVE FALSE
      BY <2>1, <3>2 DEF IoDevOp, TypeOK
    <3>3. ASSUME DeviceHandler \/ \E h \in Half : Completes(h) PROVE FALSE
      BY <3>3 DEF DeviceHandler, Completes
    <3> QED
      BY <3>1, <3>2, <3>3 DEF Next
  <2> QED
    BY <2>1, <2>2 DEF Sound, WokenSet, GoOn, Failed, Raised
<1> QED
  BY <1>1, Invariant, PTL DEF Spec, NoneGoesOnUnset

=============================================================================
