-------------------------- MODULE KernelStateProofs --------------------------
(***************************************************************************)
(* What the kernel keeps beside its lists, proved from the invariant of    *)
(* KernelProofs: the two counters, the processes without a parent, the     *)
(* order of the queues, the priorities, what the scheduler concludes from  *)
(* them when it finds nothing to run, and that handlers end.  On top of    *)
(* it: what programs with handlers for their traps can rely on (module     *)
(* Traps), and those that share devices by mutexes (module Printing).      *)
(***************************************************************************)
EXTENDS KernelProofs, Traps, Printing

USE MaxprocAssumption, KernelAssumption

\* activeProcesses and softblockProcesses are unsigned int, the PCBs are 20
Width == MAXPROC < UINT

-----------------------------------------------------------------------------
(***************************************************************************)
(* What the steps do to the sets of PCBs.                                  *)
(***************************************************************************)
\* no PCB changes place
SamePlaces ==
  /\ Free' = Free /\ OnReady' = OnReady /\ \A k \in Key : Queue(k)' = Queue(k)
  /\ UNCHANGED currentPcb

\* the head of the queue of k becomes ready
Woken(k) ==
  /\ s_procQ[k] \in Queue(k) /\ Free' = Free
  /\ OnReady' = OnReady \cup {s_procQ[k]}
  /\ Queue(k)' = Queue(k) \ {s_procQ[k]}
  /\ \A j \in Key \ {k} : Queue(j)' = Queue(j)

\* PCBs stay where they are
LEMMA QuietPlaces ==
  ASSUME Structure, Quiet
  PROVE  SamePlaces
  BY ListsUnchanged DEF Quiet, SamePlaces

\* the current process moves to a queue
LEMMA BlockPlaces ==
  ASSUME TypeOK, Structure, Careful, NEW k \in Key, Block(k)
  PROVE  /\ currentPcb \in Pcb /\ Free' = Free /\ OnReady' = OnReady
         /\ Queue(k)' = Queue(k) \cup {currentPcb}
         /\ \A j \in Key \ {k} : Queue(j)' = Queue(j)
         /\ currentPcb' = NULL /\ stack = << >> /\ stack' = << >>
         /\ UNCHANGED <<tree, activeProcesses>>
         /\ softblockProcesses' = IF k \in SoftKey THEN (softblockProcesses + 1) % UINT
                                                   ELSE softblockProcesses
<1>1. /\ pc = "user" /\ currentPcb # NULL /\ semval[k] <= 0 /\ SemP(k)
      /\ UNCHANGED <<pcbfree_h, readyQueue, tree, stack, activeProcesses>>
  BY DEF Block, CallFrame, TypeOK, SysCall
<1>2. ~(semval[k] > 0)
  BY <1>1 DEF TypeOK
<1>3. /\ currentPcb' = NULL
      /\ softblockProcesses' = IF k \in SoftKey THEN (softblockProcesses + 1) % UINT
                                                ELSE softblockProcesses
  BY <1>1, <1>2 DEF SemP
<1>4. stack = << >> /\ stack' = << >>
  BY <1>1 DEF Structure, DyingSound
<1> QED
  BY <1>1, <1>3, <1>4, BlockLists, CurrentLive DEF Structure

\* the head of a queue moves to the ready queue
LEMMA WakeUpPlaces ==
  ASSUME TypeOK, Structure, NEW k \in Key, WakeUp(k)
  PROVE  /\ Woken(k) /\ stack = << >> /\ stack' = << >>
         /\ UNCHANGED <<currentPcb, tree, activeProcesses>>
         /\ softblockProcesses' = IF k \in SoftKey THEN (softblockProcesses - 1) % UINT
                                                   ELSE softblockProcesses
<1>1. PICK next \in {"scheduler", "pseudoTick"} : SemV(k, next)
  BY DEF WakeUp
<1>2. /\ s_procQ[k] # NULL
      /\ UNCHANGED <<currentPcb, pcbfree_h, tree, stack, activeProcesses>> /\ stack = << >>
  BY DEF WakeUp, CallFrame, Structure, DyingSound
<1>3. softblockProcesses' = IF k \in SoftKey THEN (softblockProcesses - 1) % UINT
                                             ELSE softblockProcesses
  BY <1>1, <1>2 DEF SemV
<1> QED
  BY <1>1, <1>2, <1>3, WakeLists DEF Structure, Woken

\* the end of a process may wake the head of childSem
LEMMA TerminatePlaces ==
  ASSUME TypeOK, Structure, Careful, NEW pid \in pids \cup {NULL}, TerminateProcess(pid)
  PROVE  /\ Woken(childSem) \/ (Free' = Free /\ OnReady' = OnReady
                                /\ \A k \in Key : Queue(k)' = Queue(k))
         /\ stack = << >> /\ \E p \in Live : stack' = <<p>>
         /\ currentPcb' \in {currentPcb, NULL}
         /\ UNCHANGED <<tree, activeProcesses, softblockProcesses, start_priority, last_priority>>
<1> DEFINE p == IF pid = NULL THEN currentPcb ELSE pid
<1>1. /\ pc = "user" /\ p \in Live /\ stack' = <<p>>
      /\ UNCHANGED <<tree, pcbfree_h, activeProcesses, start_priority, last_priority>>
      /\ currentPcb' \in {currentPcb, NULL}
      /\ \/ s_procQ[childSem] # NULL /\ SemV(childSem, "liberaTutti")
         \/ UNCHANGED <<p_next, readyQueue, p_priority, sems>>
  BY DEF TerminateProcess, SysCall, MayTerminate, Careful
<1>2. stack = << >>
  BY <1>1 DEF Structure, DyingSound
<1>3. childSem \notin SoftKey /\ childSem \in Key
  BY KeyFacts DEF SoftKey
<1>4. CASE s_procQ[childSem] # NULL /\ SemV(childSem, "liberaTutti")
  <2>1. Woken(childSem)
    BY <1>1, <1>3, <1>4, WakeLists DEF Structure, Woken
  <2>2. softblockProcesses' = softblockProcesses
    BY <1>3, <1>4 DEF SemV
  <2> QED
    BY <1>1, <1>2, <2>1, <2>2
<1>5. CASE UNCHANGED <<p_next, readyQueue, p_priority, sems>>
  <2>1. UNCHANGED <<p_next, pcbfree_h, readyQueue, s_procQ>> /\ UNCHANGED softblockProcesses
    BY <1>1, <1>5 DEF sems
  <2> QED
    BY <1>1, <1>2, <2>1, ListsUnchanged
<1> QED
  BY <1>1, <1>4, <1>5

\* a free PCB moves to the ready queue
LEMMA CreatePlaces ==
  ASSUME TypeOK, Structure, NEW priority, CreateProcess(priority)
  PROVE  /\ currentPcb # NULL /\ currentPcb \in Live
         /\ stack = << >> /\ stack' = << >> /\ UNCHANGED <<currentPcb, softblockProcesses>>
         /\ activeProcesses' = (activeProcesses + 1) % UINT
         /\ \E p \in Free : /\ Free' = Free \ {p} /\ OnReady' = OnReady \cup {p}
                            /\ p_parent' = [p_parent EXCEPT ![p] = currentPcb]
         /\ \A k \in Key : Queue(k)' = Queue(k)
<1> DEFINE p == AllocNode(p_next, pcbfree_h)
<1>1. /\ pc = "user" /\ UNCHANGED <<stack, currentPcb, softblockProcesses>>
      /\ activeProcesses' = (activeProcesses + 1) % UINT
      /\ InsertChild(p)
  BY DEF CreateProcess, SysCall
<1>2. p_parent' = [p_parent EXCEPT ![p] = currentPcb]
  BY <1>1 DEF InsertChild
<1>3. /\ p \in Free /\ Free' = Free \ {p} /\ OnReady' = OnReady \cup {p}
      /\ \A k \in Key : Queue(k)' = Queue(k)
  BY CreateStructure
<1>4. stack = << >> /\ currentPcb # NULL /\ currentPcb \in Live
  BY <1>1, CurrentLive DEF TypeOK, Structure, DyingSound
<1> QED
  BY <1>1, <1>2, <1>3, <1>4

\* liberaTutti unlinks a child: no PCB moves
LEMMA RemoveChildPlaces ==
  ASSUME TypeOK, Structure, RemoveChild
  PROVE  /\ SamePlaces /\ UNCHANGED <<activeProcesses, softblockProcesses>>
         /\ Dying' = Dying \cup {p_first_child[Top]} /\ stack' # << >>
         /\ p_parent' = [p_parent EXCEPT ![p_first_child[Top]] = NULL]
<1> DEFINE c == p_first_child[Top]
<1>1. /\ UNCHANGED <<p_next, pcbfree_h, readyQueue, currentPcb, s_procQ,
                     activeProcesses, softblockProcesses>>
      /\ stack' = Append(stack, c) /\ pc = "liberaTutti" /\ stack # << >>
      /\ p_first_child[Top] # NULL
      /\ p_parent' = [p_parent EXCEPT ![p_first_child[Top]] = NULL]
  BY DEF RemoveChild, sems, TypeOK
<1>2. SamePlaces
  BY <1>1, ListsUnchanged DEF SamePlaces
<1>3. stack \in Seq(Pcb) /\ c \in Pcb
  BY <1>1, StackFacts DEF TypeOK, Link
<1>4. Dying' = Dying \cup {c} /\ stack' # << >>
  <2>1. /\ Len(stack') = Len(stack) + 1 /\ stack'[Len(stack) + 1] = c /\ Len(stack) \in Nat
        /\ \A i \in 1..Len(stack) : stack'[i] = stack[i]
    BY <1>1, <1>3
  <2> HIDE DEF c
  <2>2. \A x : (\E i \in 1..Len(stack') : x = stack'[i]) <=> (x = c \/ \E i \in 1..Len(stack) : x = stack[i])
    BY <2>1
  <2> QED
    BY <1>1, <2>1, <2>2 DEF Dying
<1> QED
  BY <1>1, <1>2, <1>4

\* a dying process moves to the free list
LEMMA ReleasePlaces ==
  ASSUME TypeOK, Structure, Release
  PROVE  /\ activeProcesses' = (activeProcesses - 1) % UINT
         /\ UNCHANGED <<currentPcb, softblockProcesses>>
  BY DEF Release, sems

\* the head of the ready queue becomes current
LEMMA DispatchPlaces ==
  ASSUME TypeOK, Structure, NEW aging, Dispatch(aging)
  PROVE  /\ currentPcb = NULL /\ currentPcb' = readyQueue /\ readyQueue \in OnReady
         /\ OnReady' = OnReady \ {readyQueue} /\ Free' = Free
         /\ \A k \in Key : Queue(k)' = Queue(k)
         /\ stack' = stack /\ stack = << >>
         /\ UNCHANGED <<tree, activeProcesses, softblockProcesses>>
<1>1. /\ currentPcb = NULL /\ currentPcb' = readyQueue /\ pc = "scheduler"
      /\ UNCHANGED <<tree, activeProcesses, softblockProcesses, stack>>
  BY DEF Dispatch, SchedulerFrame, sems
<1> QED
  BY <1>1, DispatchLists DEF Structure, DyingSound

\* the current process moves to the ready queue
LEMMA PreemptPlaces ==
  ASSUME TypeOK, Structure, PreemptRun
  PROVE  /\ currentPcb # NULL /\ currentPcb' = NULL
         /\ OnReady' = OnReady \cup {currentPcb} /\ Free' = Free
         /\ \A k \in Key : Queue(k)' = Queue(k)
         /\ stack' = stack /\ stack = << >>
         /\ UNCHANGED <<tree, activeProcesses, softblockProcesses>>
<1>1. /\ currentPcb # NULL /\ currentPcb' = NULL /\ pc = "preempt" /\ Preempt
      /\ UNCHANGED <<tree, activeProcesses, softblockProcesses, stack>>
  BY DEF Preempt, PreemptRun, CallFrame, sems
<1> QED
  BY <1>1, PreemptLists DEF Structure, DyingSound

-----------------------------------------------------------------------------
(***************************************************************************)
(* The counters.                                                           *)
(***************************************************************************)
LEMMA PcbSubsets ==
  ASSUME NEW S \in SUBSET Pcb
  PROVE  IsFiniteSet(S) /\ Cardinality(S) \in 0..MAXPROC
  BY PcbFinite, FS_Subset, FS_CardinalityType

\* a counter that is right stays so when a PCB is added or removed
LEMMA CountUp ==
  ASSUME Width, NEW S \in SUBSET Pcb, NEW x \in Pcb \ S, NEW c, c = Cardinality(S)
  PROVE  (c + 1) % UINT = Cardinality(S \cup {x})
<1>1. IsFiniteSet(S) /\ Cardinality(S \cup {x}) = Cardinality(S) + 1
  BY PcbSubsets, FS_AddElement
<1>2. Cardinality(S) \in Nat /\ Cardinality(S \cup {x}) \in 0..MAXPROC
  BY PcbSubsets
<1>3. c + 1 \in 0..(UINT - 1)
  BY <1>1, <1>2 DEF Width
<1> QED
  BY <1>1, <1>3

\* a counter above 0 goes down without wrapping
LEMMA CountDown ==
  ASSUME Width, NEW S \in SUBSET Pcb, NEW x \in S, NEW c, c = Cardinality(S)
  PROVE  (c - 1) % UINT = Cardinality(S \ {x})
<1>1. IsFiniteSet(S) /\ Cardinality(S \ {x}) = Cardinality(S) - 1
  BY PcbSubsets, FS_RemoveElement
<1>2. Cardinality(S) \in 0..MAXPROC /\ Cardinality(S \ {x}) \in 0..MAXPROC
  BY PcbSubsets
<1>3. c - 1 \in 0..(UINT - 1)
  BY <1>1, <1>2 DEF Width
<1> QED
  BY <1>1, <1>3

\* each step preserves ActiveCounts
LEMMA NextActive ==
  ASSUME Careful, Width, TypeOK, Structure, ActiveCounts, [Next]_vars
  PROVE  ActiveCounts'
<1>1. Kind
  BY StepKind DEF Structure
<1>2. Live = Pcb \ Free /\ Live' = Pcb \ Free' /\ Free \subseteq Pcb
  BY ListTypes DEF Live, Free
<1>3. ASSUME Free' = Free, activeProcesses' = activeProcesses
      PROVE  ActiveCounts'
  BY <1>2, <1>3 DEF ActiveCounts
<1>4. ASSUME NEW priority, CreateProcess(priority)
      PROVE  ActiveCounts'
  <2>1. PICK p \in Free : Free' = Free \ {p}
    BY <1>4, CreatePlaces
  <2>2. Live' = Live \cup {p} /\ p \in Pcb \ Live
    BY <1>2, <2>1
  <2>3. activeProcesses' = (activeProcesses + 1) % UINT
    BY <1>4, CreatePlaces
  <2>4. Live \in SUBSET Pcb
    BY <1>2
  <2> QED
    BY <2>2, <2>3, <2>4, CountUp DEF ActiveCounts
<1>5. CASE Release
  <2>1. Top \in Live /\ Free' = Free \cup {Top}
    BY <1>5, ReleaseStructure
  <2>2. Live' = Live \ {Top} /\ Live \in SUBSET Pcb
    BY <1>2, <2>1
  <2>3. activeProcesses' = (activeProcesses - 1) % UINT
    BY <1>5, ReleasePlaces
  <2> QED
    BY <2>1, <2>2, <2>3, CountDown DEF ActiveCounts
<1>6. CASE Quiet
  BY <1>3, <1>6, QuietPlaces DEF Quiet, SamePlaces
<1>7. CASE RemoveChild
  BY <1>3, <1>7, RemoveChildPlaces DEF SamePlaces
<1>8. ASSUME NEW k \in Key, Block(k) \/ WakeUp(k)
      PROVE  ActiveCounts'
  BY <1>3, <1>8, BlockPlaces, WakeUpPlaces DEF Woken
<1>9. ASSUME NEW pid \in pids \cup {NULL}, TerminateProcess(pid)
      PROVE  ActiveCounts'
  BY <1>3, <1>9, TerminatePlaces DEF Woken
<1>10. ASSUME (\E aging \in BOOLEAN : Dispatch(aging)) \/ PreemptRun
       PROVE  ActiveCounts'
  BY <1>3, <1>10, DispatchPlaces, PreemptPlaces
<1> QED
  BY <1>1, <1>4, <1>5, <1>6, <1>7, <1>8, <1>9, <1>10 DEF Kind

(* ActiveCounts holds: activeProcesses is the number of PCBs in use, so    *)
(* that the scheduler halts exactly when the last process has ended.       *)
THEOREM ActiveCountsCorrect ==
  ASSUME Careful, Width
  PROVE  Spec => []ActiveCounts
<1>1. Init => ActiveCounts
  <2> SUFFICES ASSUME Init PROVE ActiveCounts
    OBVIOUS
  <2>1. Live = {MAXPROC} /\ activeProcesses = 1 % UINT
    BY InitLists DEF Init
  <2>2. 1 % UINT = 1
    BY DEF Width
  <2> QED
    BY <2>1, <2>2, FS_Singleton DEF ActiveCounts
<1>2. TypeOK /\ Structure /\ ActiveCounts /\ [Next]_vars => ActiveCounts'
  BY NextActive
<1> QED
  BY <1>1, <1>2, TypeCorrect, StructureCorrect, PTL DEF Spec

\* the processes that wait for a device or the pseudo-clock
Soft == UNION {Queue(k) : k \in SoftKey}

\* SoftblockCounts is about the set Soft
LEMMA SoftFacts ==
  ASSUME TypeOK
  PROVE  /\ SoftKey \subseteq Key /\ Soft \in SUBSET Pcb
         /\ SoftblockCounts <=> softblockProcesses = Cardinality(Soft)
         /\ SoftblockCounts' <=> softblockProcesses' = Cardinality(Soft')
<1>1. SoftKey \subseteq Key
  BY KeyFacts DEF SoftKey
<1>2. \A k \in SoftKey : Queue(k) \subseteq Pcb
  BY <1>1, ListTypes
<1> QED
  BY <1>1, <1>2 DEF Soft, SoftblockCounts, SoftKey

\* they are the same if those queues are
LEMMA SoftFrame ==
  ASSUME TypeOK, SoftblockCounts, UNCHANGED softblockProcesses,
         \A k \in SoftKey : Queue(k)' = Queue(k)
  PROVE  SoftblockCounts'
<1>1. Soft' = Soft
  BY DEF Soft, SoftKey
<1> QED
  BY <1>1, SoftFacts

\* each step preserves SoftblockCounts
LEMMA NextSoftblock ==
  ASSUME Careful, Width, TypeOK, Structure, SoftblockCounts, [Next]_vars
  PROVE  SoftblockCounts'
<1>1. Kind
  BY StepKind DEF Structure
<1>2. SoftKey \subseteq Key /\ Soft \in SUBSET Pcb /\ softblockProcesses = Cardinality(Soft)
  BY SoftFacts
<1>3. childSem \notin SoftKey
  BY DEF SoftKey
<1>4. ASSUME NEW k \in Key, Block(k)
      PROVE  SoftblockCounts'
  <2>1. /\ currentPcb \in Pcb /\ Queue(k)' = Queue(k) \cup {currentPcb}
        /\ \A j \in Key \ {k} : Queue(j)' = Queue(j)
        /\ softblockProcesses' = IF k \in SoftKey THEN (softblockProcesses + 1) % UINT
                                                  ELSE softblockProcesses
    BY <1>4, BlockPlaces
  <2>2. CASE k \in SoftKey
    <3>1. currentPcb \notin Soft
      BY <1>2 DEF Soft, Structure, ListsApart
    <3>2. Soft' = Soft \cup {currentPcb}
      <4>1. Soft' = UNION {Queue(j)' : j \in SoftKey}
        BY DEF Soft, SoftKey
      <4> QED
        BY <1>2, <2>1, <2>2, <4>1 DEF Soft
    <3>3. (softblockProcesses + 1) % UINT = Cardinality(Soft \cup {currentPcb})
      BY <1>2, <2>1, <3>1, CountUp
    <3> QED
      BY <2>1, <2>2, <3>2, <3>3, SoftFacts
  <2>3. CASE k \notin SoftKey
    <3>1. \A j \in SoftKey : Queue(j)' = Queue(j)
      BY <1>2, <2>1, <2>3
    <3> QED
      BY <2>1, <2>3, <3>1, SoftFrame
  <2> QED
    BY <2>2, <2>3
<1>5. ASSUME NEW k \in Key, WakeUp(k)
      PROVE  SoftblockCounts'
  <2>1. /\ s_procQ[k] \in Queue(k) /\ Queue(k)' = Queue(k) \ {s_procQ[k]}
        /\ \A j \in Key \ {k} : Queue(j)' = Queue(j)
        /\ softblockProcesses' = IF k \in SoftKey THEN (softblockProcesses - 1) % UINT
                                                  ELSE softblockProcesses
    BY <1>5, WakeUpPlaces DEF Woken
  <2>2. CASE k \in SoftKey
    <3>1. s_procQ[k] \in Soft /\ \A j \in Key \ {k} : s_procQ[k] \notin Queue(j)
      BY <2>1, <2>2 DEF Soft, Structure, ListsApart
    <3>2. Soft' = Soft \ {s_procQ[k]}
      <4>1. Soft' = UNION {Queue(j)' : j \in SoftKey}
        BY DEF Soft, SoftKey
      <4> QED
        BY <1>2, <2>1, <2>2, <3>1, <4>1 DEF Soft
    <3>3. (softblockProcesses - 1) % UINT = Cardinality(Soft \ {s_procQ[k]})
      BY <1>2, <3>1, CountDown
    <3> QED
      BY <2>1, <2>2, <3>2, <3>3, SoftFacts
  <2>3. CASE k \notin SoftKey
    <3>1. \A j \in SoftKey : Queue(j)' = Queue(j)
      BY <1>2, <2>1, <2>3
    <3> QED
      BY <2>1, <2>3, <3>1, SoftFrame
  <2> QED
    BY <2>2, <2>3
<1>6. ASSUME NEW pid \in pids \cup {NULL}, TerminateProcess(pid)
      PROVE  SoftblockCounts'
  <2>1. \A j \in SoftKey : Queue(j)' = Queue(j)
    BY <1>2, <1>3, <1>6, TerminatePlaces DEF Woken
  <2> QED
    BY <1>6, <2>1, TerminatePlaces, SoftFrame
<1>7. CASE Quiet
  BY <1>2, <1>7, QuietPlaces, SoftFrame DEF Quiet, SamePlaces
<1>8. CASE RemoveChild
  BY <1>2, <1>8, RemoveChildPlaces, SoftFrame DEF SamePlaces
<1>9. CASE Release
  BY <1>2, <1>9, ReleasePlaces, ReleaseStructure, SoftFrame
<1>10. ASSUME NEW priority, CreateProcess(priority)
       PROVE  SoftblockCounts'
  BY <1>2, <1>10, CreatePlaces, SoftFrame
<1>11. ASSUME (\E aging \in BOOLEAN : Dispatch(aging)) \/ PreemptRun
       PROVE  SoftblockCounts'
  BY <1>2, <1>11, DispatchPlaces, PreemptPlaces, SoftFrame
<1> QED
  BY <1>1, <1>4, <1>5, <1>6, <1>7, <1>8, <1>9, <1>10, <1>11 DEF Kind

(* SoftblockCounts holds: softblockProcesses is the number of processes an *)
(* interrupt is going to wake, which tells waiting from deadlock.          *)
THEOREM SoftblockCountsCorrect ==
  ASSUME Careful, Width
  PROVE  Spec => []SoftblockCounts
<1>1. Init => SoftblockCounts
  <2> SUFFICES ASSUME Init PROVE SoftblockCounts
    OBVIOUS
  <2>1. Soft = {} /\ softblockProcesses = 0
    BY InitLists, KeyFacts DEF Init, Soft, SoftKey
  <2> QED
    BY <2>1, FS_EmptySet DEF SoftblockCounts, Soft, SoftKey
<1>2. TypeOK /\ Structure /\ SoftblockCounts /\ [Next]_vars => SoftblockCounts'
  BY NextSoftblock
<1> QED
  BY <1>1, <1>2, TypeCorrect, StructureCorrect, PTL DEF Spec

-----------------------------------------------------------------------------
(***************************************************************************)
(* No orphans.                                                             *)
(***************************************************************************)
LEMMA OneRootFrame ==
  ASSUME OneRoot, Live' \ Dying' \subseteq Live \ Dying,
         \A p \in Live' \ Dying' : p_parent'[p] = p_parent[p]
  PROVE  OneRoot'
  BY DEF OneRoot

\* each step preserves OneRoot
LEMMA NextOneRoot ==
  ASSUME Careful, TypeOK, Structure, OneRoot, [Next]_vars
  PROVE  OneRoot'
<1>1. Kind
  BY StepKind DEF Structure
<1>2. Live = Pcb \ Free /\ Live' = Pcb \ Free' /\ p_parent \in [Pcb -> Link]
  BY DEF Live, Free, TypeOK
<1>3. ASSUME UNCHANGED stack
      PROVE  Dying' = Dying
  BY <1>3 DEF Dying
<1>4. ASSUME Free' = Free, UNCHANGED <<p_parent, stack>>
      PROVE  OneRoot'
  BY <1>2, <1>3, <1>4, OneRootFrame
<1>5. ASSUME NEW priority, CreateProcess(priority)
      PROVE  OneRoot'
  <2>1. /\ stack = << >> /\ stack' = << >> /\ currentPcb # NULL
        /\ \E p \in Free : /\ Free' = Free \ {p}
                           /\ p_parent' = [p_parent EXCEPT ![p] = currentPcb]
    BY <1>5, CreatePlaces
  <2>2. PICK p \in Free : /\ Free' = Free \ {p}
                          /\ p_parent' = [p_parent EXCEPT ![p] = currentPcb]
    BY <2>1
  <2>3. /\ p \in Pcb /\ p_parent'[p] = currentPcb
        /\ \A q \in Pcb \ {p} : p_parent'[q] = p_parent[q]
    BY <1>2, <2>2, ListTypes
  <2>4. Dying' = {} /\ Dying = {}
    BY <2>1 DEF Dying
  <2> QED
    BY <1>2, <2>1, <2>2, <2>3, <2>4 DEF OneRoot
<1>6. ASSUME NEW pid \in pids \cup {NULL}, TerminateProcess(pid)
      PROVE  OneRoot'
  <2>1. /\ Free' = Free /\ UNCHANGED p_parent /\ stack = << >>
    BY <1>6, TerminatePlaces DEF Woken, tree
  <2>2. Dying = {}
    BY <2>1 DEF Dying
  <2> QED
    BY <1>2, <2>1, <2>2, OneRootFrame
<1>7. CASE RemoveChild
  <2>1. /\ Free' = Free /\ Dying' = Dying \cup {p_first_child[Top]}
        /\ p_parent' = [p_parent EXCEPT ![p_first_child[Top]] = NULL]
    BY <1>7, RemoveChildPlaces DEF SamePlaces
  <2>2. \A p \in Live' \ Dying' : p_parent'[p] = p_parent[p]
    BY <1>2, <2>1
  <2> QED
    BY <1>2, <2>1, <2>2, OneRootFrame
<1>8. CASE Release
  <2>1. /\ Free' = Free \cup {Top} /\ Dying' = Dying \ {Top}
        /\ p_parent' = [p_parent EXCEPT ![Top] = NULL]
    BY <1>8, ReleaseStructure
  <2>2. \A p \in Live' \ Dying' : p_parent'[p] = p_parent[p]
    BY <1>2, <2>1
  <2> QED
    BY <1>2, <2>1, <2>2, OneRootFrame
<1>9. CASE Quiet
  BY <1>4, <1>9, QuietPlaces DEF Quiet, SamePlaces, tree
<1>10. ASSUME NEW k \in Key, Block(k) \/ WakeUp(k)
       PROVE  OneRoot'
  BY <1>4, <1>10, BlockPlaces, WakeUpPlaces DEF Woken, tree
<1>11. ASSUME (\E aging \in BOOLEAN : Dispatch(aging)) \/ PreemptRun
       PROVE  OneRoot'
  BY <1>4, <1>11, DispatchPlaces, PreemptPlaces DEF tree
<1> QED
  BY <1>1, <1>5, <1>6, <1>7, <1>8, <1>9, <1>10, <1>11 DEF Kind

(* Every process without a parent, but one, is being terminated.           *)
THEOREM OneRootCorrect ==
  ASSUME Careful
  PROVE  Spec => []OneRoot
<1>1. Init => OneRoot
  BY InitLists DEF OneRoot
<1>2. TypeOK /\ Structure /\ OneRoot /\ [Next]_vars => OneRoot'
  BY NextOneRoot
<1> QED
  BY <1>1, <1>2, TypeCorrect, StructureCorrect, PTL DEF Spec

(* NoOrphan holds: terminating a process leaves nobody of its subtree, for *)
(* OneRoot says that whoever has lost its parent is among the pending calls*)
(* of liberaTutti.                                                         *)
THEOREM NoOrphanCorrect ==
  ASSUME Careful
  PROVE  Spec => []NoOrphan
<1>1. OneRoot => NoOrphan
  <2> SUFFICES ASSUME OneRoot, stack = << >>
               PROVE  Cardinality({p \in Live : p_parent[p] = NULL}) <= 1
    BY DEF NoOrphan
  <2> DEFINE R == {p \in Live : p_parent[p] = NULL}
  <2>1. \A p, q \in R : p = q
    BY DEF OneRoot, Dying
  <2>2. R = {} \/ \E x : R = {x}
    BY <2>1
  <2>3. Cardinality(R) = 0 \/ Cardinality(R) = 1
    BY <2>2, FS_EmptySet, FS_Singleton
  <2> QED
    BY <2>3
<1> QED
  BY <1>1, OneRootCorrect, PTL

-----------------------------------------------------------------------------
(***************************************************************************)
(* Requests to devices, and where the scheduler stops.                     *)
(***************************************************************************)
LEMMA HeadOfQueue ==
  ASSUME TypeOK
  PROVE  /\ \A k \in Key : s_procQ[k] = NULL <=> Queue(k) = {}
         /\ readyQueue = NULL <=> OnReady = {}
<1>1. \A h \in Link : h = NULL <=> Reach(p_next, h) = {}
  BY ListTypes, ReachNull, ReachHead DEF Link
<1> QED
  BY <1>1, ListTypes DEF Queue, OnReady

\* the semaphore that a request to device d waits on
Request(d) == GetDeviceNi(DevReg(d, 1))

\* the semaphore that a request waits on
LEMMA RequestFacts ==
  /\ \A d \in Device : Request(d) \in DevSem /\ (Request(d) = IF d = NDEV - 1 THEN NDEV ELSE d)
  /\ \A d \in Device : d \in DevSem
  /\ \A c, d \in Device : Request(c) = Request(d) => c = d
<1>1. \A d \in Device : Request(d) = IF d = NDEV - 1 THEN NDEV ELSE d
  BY DeviceSemaphore DEF Request
<1>2. \A d \in Device : d \in 0..(NDEV - 1)
  OBVIOUS
<1> QED
  BY <1>1, <1>2 DEF DevSem

Someone == currentPcb # NULL \/ readyQueue # NULL

\* a step that no request is concerned by
LEMMA RequestQueuedFrame ==
  ASSUME RequestQueued, UNCHANGED dev, \A k \in DevSem : s_procQ'[k] = s_procQ[k],
         (\A d \in Device : ~Raised(d)) \/ (stack' = << >> /\ (Someone => Someone'))
  PROVE  RequestQueued'
<1>1. \A d \in Device : Request(d) \in DevSem
  BY RequestFacts
<1>2. \A d \in Device : dev'[d] = "failed" => (Request(d))' = Request(d)
  BY DEF Request, GetDeviceNi, DevReg
<1> QED
  BY <1>1 DEF RequestQueued, Request, Someone, Raised

\* the semaphores that no request waits on are keys
LEMMA NotDevSem == \A k \in UserSem \cup {timerSem, childSem} : k \in Key /\ k \notin DevSem
  BY DEF Key

\* a system call, which finds no interrupt raised
LEMMA CallRequests ==
  ASSUME Careful, TypeOK, SemaphoresSound, Structure, RequestQueued, SystemCall
  PROVE  RequestQueued'
<1>1. SysCall /\ \A d \in Device : ~Raised(d)
  BY DEF SystemCall, CreateFails, CreateProcess, TerminateProcess, SemPCall, SemVCall,
         WaitClock, WaitChild, IoDevOp, OtherCall, SysCall
<1>2. pc = "user" /\ currentPcb # NULL
  BY <1>1 DEF SysCall, TypeOK
<1>3. ASSUME UNCHANGED dev, \A k \in DevSem : s_procQ'[k] = s_procQ[k]
      PROVE  RequestQueued'
  BY <1>1, <1>3, RequestQueuedFrame
<1>4. ASSUME NEW k \in UserSem \cup {timerSem, childSem}, SemP(k), UNCHANGED dev
      PROVE  RequestQueued'
  <2>1. \A j \in DevSem : s_procQ'[j] = s_procQ[j]
    BY <1>2, <1>4, NotDevSem, SemPQueues, KeyFacts
  <2> QED
    BY <1>3, <1>4, <2>1
<1>5. ASSUME NEW k \in UserSem \cup {timerSem, childSem}, NEW next, SemV(k, next), UNCHANGED dev
      PROVE  RequestQueued'
  <2>1. \A j \in DevSem : s_procQ'[j] = s_procQ[j]
    BY <1>5, NotDevSem, SemVQueues, KeyFacts
  <2> QED
    BY <1>3, <1>5, <2>1
<1>6. CASE CreateFails \/ OtherCall \/ \E priority \in Priorities : CreateProcess(priority)
  BY <1>3, <1>6 DEF CreateFails, OtherCall, CreateProcess, sems
<1>7. ASSUME NEW pid \in pids \cup {NULL}, TerminateProcess(pid)
      PROVE  RequestQueued'
  <2>1. UNCHANGED dev /\ (SemV(childSem, "liberaTutti") \/ UNCHANGED sems)
    BY <1>7 DEF TerminateProcess
  <2> QED
    BY <1>3, <1>5, <2>1 DEF sems
<1>8. ASSUME NEW k \in UserSem, SemPCall(k) \/ SemVCall(k)
      PROVE  RequestQueued'
  BY <1>4, <1>5, <1>8 DEF SemPCall, SemVCall
<1>9. CASE WaitClock \/ WaitChild
  <2>1. UNCHANGED dev /\ (SemP(timerSem) \/ SemP(childSem) \/ UNCHANGED s_procQ)
    BY <1>9 DEF WaitClock, WaitChild
  <2> QED
    BY <1>3, <1>4, <2>1
<1>10. ASSUME NEW d \in Device, IoDevOp(d)
       PROVE  RequestQueued'
  <2> DEFINE k == Request(d)
  <2>1. /\ SemP(k) /\ dev' = [dev EXCEPT ![d] = "busy"]
        /\ UNCHANGED <<readyQueue, start_priority, CallFrame>>
    BY <1>10 DEF IoDevOp, Request
  <2>2. k \in DevSem /\ k \in Key /\ semval[k] = 0
    BY RequestFacts, KeyFacts DEF SemaphoresSound, Key
  <2> HIDE DEF k
  <2>3. Block(k)
    BY <1>1, <2>1, <2>2 DEF Block
  <2>4. currentPcb \in Queue(k)' /\ TypeOK'
    <3>1. dev' \in [Device -> DevState]
      BY <2>1 DEF TypeOK, DevState
    <3> QED
      BY <1>2, <2>1, <2>2, <2>3, <3>1, BlockPlaces, SemPKeepsType DEF CallFrame
  <2>5. s_procQ'[k] # NULL
    <3>1. Queue(k)' = Reach(p_next', s_procQ'[k]) /\ p_next' \in [Pcb -> Link]
      BY <2>4 DEF Queue, TypeOK
    <3> QED
      BY <2>4, <3>1, ReachNull
  <2>6. \A j \in DevSem \ {k} : s_procQ'[j] = s_procQ[j]
    BY <1>2, <2>1, <2>2, SemPQueues, KeyFacts
  <2>7. /\ dev'[d] = "busy" /\ \A c \in Device \ {d} : dev'[c] = dev[c]
        /\ k = Request(d) /\ \A c \in Device \ {d} : Request(c) # k /\ Request(c) \in DevSem
    BY <2>1, RequestFacts DEF TypeOK, k
  <2> QED
    BY <1>1, <2>5, <2>6, <2>7 DEF RequestQueued, Request, Raised
<1> QED
  BY <1>6, <1>7, <1>8, <1>9, <1>10 DEF SystemCall

\* with a process in the ready queue someone can run
LEMMA SomeoneReady ==
  ASSUME TypeOK', OnReady' # {}
  PROVE  Someone'
<1>1. OnReady' = Reach(p_next', readyQueue') /\ p_next' \in [Pcb -> Link]
  BY DEF OnReady, TypeOK
<1> QED
  BY <1>1, ReachNull DEF Someone

\* deviceHandler wakes the process that waits for the device, and no other
LEMMA InterruptRequests ==
  ASSUME TypeOK, TypeOK', SemaphoresSound, Structure, RequestQueued,
         NEW d \in Device, DeviceInterrupt(d)
  PROVE  RequestQueued'
<1>1. /\ stack = << >> /\ UNCHANGED stack
  BY DEF DeviceInterrupt, CallFrame, Structure, DyingSound
<1>2. CASE s_procQ[d] = NULL
  <2>1. UNCHANGED <<p_next, readyQueue, currentPcb, s_procQ, dev>>
    BY <1>2 DEF DeviceInterrupt, sems
  <2> QED
    BY <1>1, <2>1, RequestQueuedFrame DEF Someone
<1>3. CASE s_procQ[d] # NULL
  <2>1. /\ SemV(d, "scheduler") /\ UNCHANGED <<start_priority, last_priority, currentPcb, CallFrame>>
        /\ dev' = IF dev[d] = "failed" THEN dev ELSE [dev EXCEPT ![d] = "idle"]
        /\ pc \in {"user", "wait"}
    BY <1>3 DEF DeviceInterrupt
  <2>2. d \in Key /\ d \in DevSem /\ Request(d) = d
    <3>1. PICK c \in Device : d = Request(c)
      BY <1>3, RequestFacts DEF RequestQueued, Request
    <3>2. d \in 0..(NDEV - 1)
      OBVIOUS
    <3> QED
      BY <3>1, <3>2, RequestFacts, KeyFacts
  <2>3. \A j \in DevSem \ {d} : s_procQ'[j] = s_procQ[j]
    BY <2>1, <2>2, SemVQueues, KeyFacts
  <2>4. WakeUp(d)
    BY <1>3, <2>1 DEF WakeUp
  <2>5. Someone'
    <3>1. OnReady' # {}
      BY <2>2, <2>4, WakeUpPlaces DEF Woken
    <3> QED
      BY <3>1, SomeoneReady
  <2>6. /\ dev'[d] \in {"idle", "failed"} /\ \A c \in Device \ {d} : dev'[c] = dev[c]
        /\ \A c \in Device \ {d} : Request(c) # d /\ Request(c) \in DevSem
    BY <2>1, <2>2, RequestFacts DEF TypeOK
  <2>7. currentPcb' # NULL \/ readyQueue' # NULL
    BY <2>5 DEF Someone
  <2> QED
    BY <1>1, <2>2, <2>3, <2>6, <2>7 DEF RequestQueued, Request, Raised
<1> QED
  BY <1>2, <1>3

\* each step preserves RequestQueued
LEMMA NextRequestQueued ==
  ASSUME Careful, TypeOK, TypeOK', SemaphoresSound, Structure, RequestQueued, [Next]_vars
  PROVE  RequestQueued'
<1>1. ASSUME UNCHANGED <<dev, s_procQ>>, \A d \in Device : ~Raised(d)
      PROVE  RequestQueued'
  BY <1>1, RequestQueuedFrame
<1>2. ASSUME UNCHANGED <<dev, s_procQ, stack>>, stack = << >>, Someone => Someone'
      PROVE  RequestQueued'
  BY <1>2, RequestQueuedFrame
<1>3. pc # "liberaTutti" => stack = << >>
  BY DEF Structure, DyingSound
<1>4. ASSUME RemoveChild \/ Release
      PROVE  RequestQueued'
  <2>1. pc = "liberaTutti" /\ UNCHANGED <<dev, s_procQ>>
    BY <1>4 DEF RemoveChild, Release, sems
  <2>2. stack # << >>
    BY <2>1 DEF TypeOK
  <2> QED
    BY <1>1, <2>1, <2>2 DEF RequestQueued
<1>5. CASE PseudoTick
  <2>1. /\ pc = "pseudoTick" /\ UNCHANGED <<dev, stack, currentPcb>>
        /\ UNCHANGED <<start_priority, last_priority, currentPcb, CallFrame>>
    BY <1>5 DEF PseudoTick, CallFrame
  <2>2. CASE s_procQ[timerSem] = NULL
    <3>1. UNCHANGED <<s_procQ, readyQueue>>
      BY <1>5, <2>2 DEF PseudoTick, sems
    <3> QED
      BY <1>2, <1>3, <2>1, <3>1 DEF Someone
  <2>3. CASE s_procQ[timerSem] # NULL
    <3>1. SemV(timerSem, "pseudoTick") /\ timerSem \in Key
      BY <1>5, <2>3, KeyFacts DEF PseudoTick
    <3>2. WakeUp(timerSem)
      BY <2>1, <2>3, <3>1 DEF WakeUp
    <3>3. Someone'
      <4>1. OnReady' # {}
        BY <3>1, <3>2, WakeUpPlaces DEF Woken
      <4> QED
        BY <4>1, SomeoneReady
    <3>4. \A j \in DevSem : s_procQ'[j] = s_procQ[j]
      BY <3>1, NotDevSem, SemVQueues, KeyFacts
    <3> QED
      BY <1>3, <2>1, <3>3, <3>4, RequestQueuedFrame
  <2> QED
    BY <2>2, <2>3
<1>6. CASE Preempt
  <2>1. pc = "preempt" /\ UNCHANGED <<dev, stack, s_procQ>>
    BY <1>6 DEF Preempt, CallFrame, sems
  <2>2. Someone => Someone'
    <3>1. CASE currentPcb = NULL
      BY <1>6, <3>1 DEF Preempt, Someone
    <3>2. CASE currentPcb # NULL
      <4>1. OnReady' # {}
        BY <1>6, <3>2, PreemptPlaces DEF PreemptRun
      <4> QED
        BY <4>1, SomeoneReady
    <3> QED
      BY <3>1, <3>2
  <2> QED
    BY <1>2, <1>3, <2>1, <2>2
<1>7. CASE Scheduler
  <2>1. pc = "scheduler" /\ UNCHANGED <<dev, stack, s_procQ>>
    BY <1>7 DEF Scheduler, AgingLost, Resume, Dispatch, Idle, SchedulerFrame, sems
  <2>2. UNCHANGED <<currentPcb, readyQueue>> \/ (currentPcb' = readyQueue /\ readyQueue # NULL)
    BY <1>7 DEF Scheduler, AgingLost, Resume, Dispatch, Idle
  <2>3. Someone => Someone'
    BY <2>2 DEF Someone
  <2> QED
    BY <1>2, <1>3, <2>1, <2>3
<1>8. CASE \E tick \in BOOLEAN : TimerInterrupt(tick)
  <2>1. pc # "liberaTutti" /\ UNCHANGED <<dev, stack, s_procQ, currentPcb, readyQueue>>
    BY <1>8 DEF TimerInterrupt, SchedulerFrame, sems
  <2> QED
    BY <1>2, <1>3, <2>1 DEF Someone
<1>9. ASSUME NEW d \in Device, DeviceDone(d)
      PROVE  RequestQueued'
  <2>1. /\ dev[d] = "busy" /\ UNCHANGED <<s_procQ, currentPcb, readyQueue, stack>>
        /\ stack = << >>
        /\ \E s \in {"pending", "failed"} : dev' = [dev EXCEPT ![d] = s]
    BY <1>3, <1>9 DEF DeviceDone, sems, CallFrame
  <2>2. dev'[d] \in {"pending", "failed"} /\ \A c \in Device \ {d} : dev'[c] = dev[c]
    BY <2>1 DEF TypeOK
  <2> QED
    BY <2>1, <2>2 DEF RequestQueued, Raised
<1>10. ASSUME UNCHANGED vars
       PROVE  RequestQueued'
  BY <1>10 DEF vars, sems, RequestQueued, Raised
<1> QED
  BY <1>4, <1>5, <1>6, <1>7, <1>8, <1>9, <1>10, CallRequests, InterruptRequests
     DEF Next, Handler, Interrupt, Stop

\* only the scheduler stops the machine, or lets it idle
LEMMA StopStep ==
  ASSUME TypeOK, [Next]_vars, pc' \in {"wait", "halt", "panic"}
  PROVE  \/ Idle
         \/ /\ pc' = pc /\ UNCHANGED <<p_next, pcbfree_h, readyQueue, currentPcb, s_procQ>>
            /\ pc # "wait" => UNCHANGED dev
<1>1. ASSUME NEW k \in Key, SysCall, SemP(k)
      PROVE  FALSE
  BY <1>1, SemPType DEF SysCall, TypeOK
<1>2. ASSUME NEW k \in Key, NEW next \in {"scheduler", "liberaTutti", "pseudoTick"}, SemV(k, next)
      PROVE  FALSE
  BY <1>2, SemVType
<1>3. ASSUME SystemCall
      PROVE  FALSE
  <2>1. CASE CreateFails \/ OtherCall
    BY <2>1 DEF CreateFails, OtherCall
  <2>2. ASSUME NEW priority \in Priorities, CreateProcess(priority)
        PROVE  FALSE
    BY <2>2 DEF CreateProcess, InsertReady
  <2>3. ASSUME NEW pid \in pids \cup {NULL}, TerminateProcess(pid)
        PROVE  FALSE
    BY <1>2, <2>3, KeyFacts DEF TerminateProcess
  <2>4. ASSUME NEW k \in UserSem, SemPCall(k) \/ SemVCall(k)
        PROVE  FALSE
    BY <1>1, <1>2, <2>4, KeyFacts DEF SemPCall, SemVCall
  <2>5. CASE WaitClock \/ WaitChild
    BY <1>1, <2>5, KeyFacts DEF WaitClock, WaitChild
  <2>6. ASSUME NEW d \in Device, IoDevOp(d)
        PROVE  FALSE
    BY <1>1, <2>6, DeviceSemaphoreKey DEF IoDevOp
  <2> QED
    BY <1>3, <2>1, <2>2, <2>3, <2>4, <2>5, <2>6 DEF SystemCall
<1>4. CASE RemoveChild \/ Release
  BY <1>4 DEF RemoveChild, Release
<1>5. CASE PseudoTick
  BY <1>2, <1>5, KeyFacts DEF PseudoTick
<1>6. CASE Preempt
  BY <1>6 DEF Preempt, InsertReady
<1>7. CASE Scheduler
  BY <1>7 DEF Scheduler, AgingLost, Resume, Dispatch
<1>8. ASSUME NEW tick, TimerInterrupt(tick)
      PROVE  FALSE
  BY <1>8 DEF TimerInterrupt
<1>9. ASSUME NEW d \in Device, DeviceInterrupt(d)
      PROVE  FALSE
  BY <1>2, <1>9, KeyFacts DEF DeviceInterrupt
<1>10. ASSUME NEW d \in Device, DeviceDone(d)
       PROVE  /\ pc' = pc /\ UNCHANGED <<p_next, pcbfree_h, readyQueue, currentPcb, s_procQ>>
              /\ pc = "wait"
  BY <1>10 DEF DeviceDone, CallFrame, sems
<1>11. ASSUME UNCHANGED vars
       PROVE  pc' = pc /\ UNCHANGED <<p_next, pcbfree_h, readyQueue, currentPcb, s_procQ, dev>>
  BY <1>11 DEF vars, sems
<1> QED
  BY <1>3, <1>4, <1>5, <1>6, <1>7, <1>8, <1>9, <1>10, <1>11
     DEF Next, Handler, Interrupt, Stop

\* what the scheduler knows when it finds nothing to run
LEMMA IdleFacts ==
  ASSUME TypeOK, Structure, ActiveCounts, SoftblockCounts, Idle
  PROVE  /\ pc' = IF Live = {} THEN "halt" ELSE IF Soft # {} THEN "wait" ELSE "panic"
         /\ currentPcb = NULL /\ readyQueue = NULL /\ Live \subseteq Blocked
         /\ UNCHANGED <<p_next, pcbfree_h, readyQueue, currentPcb, s_procQ, dev>>
<1>1. /\ currentPcb = NULL /\ readyQueue = NULL /\ pc = "scheduler"
      /\ UNCHANGED <<p_next, pcbfree_h, readyQueue, currentPcb, s_procQ, dev>>
      /\ pc' = IF activeProcesses = 0 THEN "halt"
               ELSE IF softblockProcesses > 0 THEN "wait" ELSE "panic"
  BY DEF Idle, SchedulerFrame, sems
<1>2. activeProcesses = 0 <=> Live = {}
  <2>1. Live \in SUBSET Pcb
    BY DEF Live
  <2> QED
    BY <2>1, PcbSubsets, FS_EmptySet DEF ActiveCounts
<1>3. softblockProcesses > 0 <=> Soft # {}
  <2>1. Soft \in SUBSET Pcb /\ softblockProcesses = Cardinality(Soft)
    BY SoftFacts
  <2>2. Cardinality(Soft) = 0 <=> Soft = {}
    BY <2>1, PcbSubsets, FS_EmptySet
  <2>3. Cardinality(Soft) \in 0..MAXPROC
    BY <2>1, PcbSubsets
  <2> QED
    BY <2>1, <2>2, <2>3
<1>4. Live \subseteq Blocked
  <2>1. stack = << >> /\ OnReady = {}
    BY <1>1, HeadOfQueue DEF Structure, DyingSound
  <2> QED
    BY <1>1, <2>1, ApartFacts, PcbFinite DEF Live, Free
<1> QED
  BY <1>1, <1>2, <1>3, <1>4

\* each step preserves IdleSound
LEMMA NextIdle ==
  ASSUME TypeOK, Structure, ActiveCounts, SoftblockCounts, IdleSound, [Next]_vars
  PROVE  IdleSound'
<1> SUFFICES ASSUME pc' = "wait"
             PROVE  /\ currentPcb' = NULL /\ readyQueue' = NULL
                    /\ \E k \in SoftKey : s_procQ'[k] # NULL
  BY DEF IdleSound, SoftKey
<1>1. CASE Idle
  <2>1. Soft # {}
    BY <1>1, IdleFacts
  <2>2. PICK k \in SoftKey : Queue(k) # {}
    BY <2>1 DEF Soft
  <2>3. s_procQ[k] # NULL
    BY <2>2, HeadOfQueue, SoftFacts
  <2> QED
    BY <1>1, <2>3, IdleFacts
<1>2. CASE ~Idle
  BY <1>2, StopStep DEF IdleSound
<1> QED
  BY <1>1, <1>2

\* each step preserves StopsRight
LEMMA NextStops ==
  ASSUME TypeOK, Structure, ActiveCounts, SoftblockCounts, RequestQueued,
         RequestQueued', IdleSound', NDEV - 1 \notin Device, StopsRight, [Next]_vars
  PROVE  StopsRight'
<1>1. pc' = "wait" => \E k \in Device \cup {timerSem} : s_procQ'[k] # NULL
  <2> SUFFICES ASSUME pc' = "wait"
               PROVE  \E k \in Device \cup {timerSem} : s_procQ'[k] # NULL
    OBVIOUS
  <2>1. PICK k \in SoftKey : s_procQ'[k] # NULL
    BY DEF IdleSound, SoftKey
  <2>2. CASE k \in DevSem
    <3>1. PICK d \in Device : k = Request(d)
      BY <2>1, <2>2 DEF RequestQueued, Request, GetDeviceNi, DevReg
    <3> QED
      BY <2>1, <3>1, RequestFacts
  <2> QED
    BY <2>1, <2>2 DEF SoftKey
<1>2. CASE Idle
  <2>1. /\ pc' = "halt" => Live = {}
        /\ pc' = "panic" => Live # {} /\ Soft = {}
        /\ currentPcb = NULL /\ readyQueue = NULL /\ Live \subseteq Blocked
        /\ UNCHANGED <<p_next, pcbfree_h, s_procQ, dev>>
    BY <1>2, IdleFacts
  <2>2. Live' = Live /\ \A k \in Key : Queue(k)' = Queue(k)
    BY <2>1 DEF Live, Queue
  <2>3. Soft = {} => Live \subseteq UNION {Queue(k) : k \in UserSem \cup {childSem}}
    BY <2>1 DEF Soft, SoftKey, Blocked, Key
  <2>4. UNION {Queue(k)' : k \in UserSem \cup {childSem}}
          = UNION {Queue(k) : k \in UserSem \cup {childSem}}
    BY <2>2, KeyFacts
  <2>5. Soft = {} => \A d \in Device : dev[d] = "idle"
    <3> SUFFICES ASSUME Soft = {}, NEW d \in Device
                 PROVE  dev[d] = "idle"
      OBVIOUS
    <3>1. Request(d) \in DevSem /\ Request(d) \in Key
      BY RequestFacts, KeyFacts
    <3>2. s_procQ[Request(d)] = NULL
      BY <3>1, HeadOfQueue DEF Soft, SoftKey
    <3> QED
      BY <2>1, <3>2 DEF RequestQueued, Request, TypeOK, DevState
  <2> QED
    BY <1>1, <2>1, <2>2, <2>3, <2>4, <2>5 DEF StopsRight
<1>3. CASE pc' \in {"halt", "panic"} /\ ~Idle
  <2>1. pc' = pc /\ UNCHANGED <<p_next, pcbfree_h, s_procQ, dev>>
    BY <1>3, StopStep
  <2>2. Live' = Live /\ \A k \in Key : Queue(k)' = Queue(k)
    BY <2>1 DEF Live, Queue
  <2>3. UNION {Queue(k)' : k \in UserSem \cup {childSem}}
          = UNION {Queue(k) : k \in UserSem \cup {childSem}}
    BY <2>2, KeyFacts
  <2> QED
    BY <1>1, <2>1, <2>2, <2>3 DEF StopsRight
<1>4. CASE pc' \notin {"halt", "panic"}
  BY <1>1, <1>4 DEF StopsRight
<1> QED
  BY <1>2, <1>3, <1>4

(* RequestQueued and IdleSound hold, of the last device too: a request has *)
(* its waiter, on the semaphore getDeviceNi found, until it is answered;   *)
(* and an idle machine waits for an interrupt that wakes somebody.         *)
THEOREM RequestsCorrect ==
  ASSUME Careful, Width
  PROVE  Spec => [](RequestQueued /\ IdleSound)
<1>1. Init => RequestQueued /\ IdleSound
  <2> SUFFICES ASSUME Init PROVE RequestQueued /\ IdleSound
    OBVIOUS
  <2>1. /\ dev = [d \in Device |-> "idle"] /\ stack = << >> /\ pc = "scheduler"
        /\ s_procQ = [k \in Key |-> NULL]
    BY DEF Init
  <2>2. \A k \in DevSem : s_procQ[k] = NULL
    BY <2>1, KeyFacts
  <2> QED
    BY <2>1, <2>2 DEF RequestQueued, IdleSound, Raised
<1>2. /\ TypeOK /\ TypeOK' /\ SemaphoresSound /\ Structure
      /\ ActiveCounts /\ SoftblockCounts
      /\ RequestQueued /\ IdleSound /\ [Next]_vars
      => RequestQueued' /\ IdleSound'
  BY NextRequestQueued, NextIdle
<1> QED
  BY <1>1, <1>2, TypeCorrect, SemaphoresCorrect, StructureCorrect, ActiveCountsCorrect,
     SoftblockCountsCorrect, PTL DEF Spec

(* StopsRight holds, if programs do not use the last device, the one that  *)
(* getDeviceNi gets wrong: the kernel halts only when no process is left,  *)
(* panics only in a deadlock, and idles only when an interrupt will come.  *)
THEOREM StopsRightCorrect ==
  ASSUME Careful, Width, NDEV - 1 \notin Device
  PROVE  Spec => []StopsRight
<1>1. Init => StopsRight
  BY DEF Init, StopsRight
<1>2. /\ TypeOK /\ Structure /\ ActiveCounts /\ SoftblockCounts
      /\ RequestQueued /\ RequestQueued' /\ IdleSound' /\ StopsRight /\ [Next]_vars
      => StopsRight'
  BY NextStops
<1> QED
  BY <1>1, <1>2, TypeCorrect, StructureCorrect, ActiveCountsCorrect,
     SoftblockCountsCorrect, RequestsCorrect, PTL DEF Spec

-----------------------------------------------------------------------------
(***************************************************************************)
(* The order of the ready queue.                                           *)
(***************************************************************************)
LEMMA ReadySortedIs == ReadySorted <=> Sorted(p_next, p_priority, readyQueue)
  BY DEF ReadySorted, Sorted

\* insertProcQ into a ready queue that is in order, whatever list p was on
LEMMA InsertReadySorted ==
  ASSUME readyQueue \in Link, NEW nx \in [Pcb -> Link], Ends(nx, readyQueue),
         NEW p \in Pcb, p \notin Reach(nx, readyQueue),
         NEW pri \in [Pcb -> Int], Sorted(nx, pri, readyQueue), p_priority' = pri,
         NEW next, InsertReady(nx, pri, p, next)
  PROVE  ReadySorted'
<1>1. Sorted(p_next', pri, readyQueue')
  BY InsertSorted DEF InsertReady
<1> QED
  BY <1>1 DEF ReadySorted, Sorted

\* semv, whose process takes back the priority it had
LEMMA WakeSorted ==
  ASSUME TypeOK, Structure, ReadySorted, NEW k \in Key, NEW next,
         SemV(k, next), s_procQ[k] # NULL
  PROVE  ReadySorted'
<1> DEFINE b   == s_procQ[k]
           pri == [p_priority EXCEPT ![b] = last_priority[b]]
<1>1. /\ b \in Pcb /\ b \in Queue(k) /\ p_next \in [Pcb -> Link] /\ readyQueue \in Link
  BY ListTypes, ReachHead DEF Queue, Link
<1>2. InsertReady(p_next, pri, b, next) /\ p_priority' = pri
  BY DEF SemV
<1>3. pri \in [Pcb -> Int] /\ \A n \in Pcb \ {b} : pri[n] = p_priority[n]
  BY <1>1 DEF TypeOK
<1> HIDE DEF pri, b
<1>4. b \notin OnReady /\ Ends(p_next, readyQueue)
  BY <1>1 DEF Structure, ListsApart, ListsEnd
<1>5. Sorted(p_next, pri, readyQueue)
  <2>1. \A n \in Reach(p_next, readyQueue) : pri[n] = p_priority[n]
    BY <1>3, <1>4, ReachType DEF OnReady
  <2> QED
    BY <1>1, <2>1, SortedFrame, ReadySortedIs
<1> QED
  BY <1>1, <1>2, <1>3, <1>4, <1>5, InsertReadySorted DEF OnReady

\* Aging raises the priorities of the ready queue alone, the smaller ones first.
LEMMA AgedFacts ==
  ASSUME TypeOK, NEW aging \in BOOLEAN
  PROVE  /\ Aged(aging) \in [Pcb -> Int]
         /\ \A n \in Pcb : Aged(aging)[n] >= p_priority[n]
         /\ \A n \in Pcb \ OnReady : Aged(aging)[n] = p_priority[n]
         /\ \A m, n \in OnReady : p_priority[m] <= p_priority[n]
                                   => Aged(aging)[m] <= Aged(aging)[n]
<1>1. \A n \in Pcb : Aged(aging)[n] = IF aging /\ n \in OnReady /\ p_priority[n] < MAXPRIO
                                      THEN p_priority[n] + 1 ELSE p_priority[n]
  BY DEF Aged, OnReady
<1>2. \A n \in Pcb : p_priority[n] \in Int
  BY DEF TypeOK
<1>3. Aged(aging) \in [Pcb -> Int]
  BY <1>2 DEF Aged
<1>4. OnReady \subseteq Pcb
  BY ListTypes
<1>5. \A n \in Pcb : Aged(aging)[n] >= p_priority[n]
  BY <1>1, <1>2
<1>6. ASSUME NEW m \in OnReady, NEW n \in OnReady, p_priority[m] <= p_priority[n]
      PROVE  Aged(aging)[m] <= Aged(aging)[n]
  <2>1. m \in Pcb /\ n \in Pcb
    BY <1>4
  <2>2. CASE p_priority[n] < MAXPRIO
    <3>1. p_priority[m] < MAXPRIO
      BY <1>2, <1>6, <2>1, <2>2
    <3> QED
      BY <1>1, <1>2, <1>6, <2>1, <2>2, <3>1
  <2>3. CASE ~(p_priority[n] < MAXPRIO)
    BY <1>1, <1>2, <1>6, <2>1, <2>3
  <2> QED
    BY <2>2, <2>3
<1> QED
  BY <1>1, <1>3, <1>4, <1>5, <1>6

\* aging keeps a sorted queue sorted
LEMMA AgedSorted ==
  ASSUME TypeOK, ReadySorted, NEW aging \in BOOLEAN
  PROVE  Sorted(p_next, Aged(aging), readyQueue)
<1> SUFFICES ASSUME NEW n \in OnReady, p_next[n] # NULL
             PROVE  Aged(aging)[p_next[n]] <= Aged(aging)[n]
  BY DEF Sorted, OnReady
<1>1. n \in Pcb /\ p_next[n] \in Pcb /\ p_next \in [Pcb -> Link] /\ readyQueue \in Link
  BY ListTypes DEF Link
<1>2. p_next[n] \in OnReady
  BY <1>1, ReachClosed DEF OnReady
<1>3. p_priority[p_next[n]] <= p_priority[n]
  BY DEF ReadySorted, OnReady
<1> QED
  BY <1>2, <1>3, AgedFacts

\* what semp does to the links and priorities, when it blocks
LEMMA BlockLinks ==
  ASSUME TypeOK, Structure, Careful, NEW k \in Key, Block(k)
  PROVE  LET c   == currentPcb
             nx  == [p_next EXCEPT ![c] = NULL]
             pri == [p_priority EXCEPT ![c] = 0]
             r   == InsertProcQ(nx, pri, s_procQ[k], c)
         IN  /\ p_next' = r.next /\ s_procQ' = [s_procQ EXCEPT ![k] = r.head]
             /\ p_priority' = pri /\ start_priority' = start_priority
             /\ last_priority' = [last_priority EXCEPT ![c] = p_priority[c]]
             /\ nx \in [Pcb -> Link] /\ Reach(nx, s_procQ[k]) = Queue(k)
             /\ Ends(nx, s_procQ[k]) /\ c \notin Queue(k) /\ c \in Pcb
             /\ AgreeOutside(p_next, r.next, {c} \cup Queue(k))
<1> DEFINE c   == currentPcb
           nx  == [p_next EXCEPT ![c] = NULL]
           pri == [p_priority EXCEPT ![c] = 0]
           h   == s_procQ[k]
           r   == InsertProcQ(nx, pri, h, c)
<1>1. /\ SemP(k) /\ semval[k] <= 0 /\ currentPcb # NULL /\ start_priority' = start_priority
  BY DEF Block, SysCall, TypeOK
<1>2. /\ c \in Pcb /\ p_next \in [Pcb -> Link] /\ h \in Link /\ nx \in [Pcb -> Link]
      /\ \A n \in Pcb \ {c} : nx[n] = p_next[n]
  BY <1>1, ListTypes DEF Link
<1>3. /\ InsertBlocked(k, c)
      /\ last_priority' = [last_priority EXCEPT ![c] = p_priority[c]]
  <2>1. ~(semval[k] > 0)
    BY <1>1 DEF TypeOK
  <2> QED
    BY <1>1, <2>1 DEF SemP
<1>4. ~(s_procQ[k] = NULL /\ Cardinality({j \in Key : s_procQ[j] # NULL}) >= MAXSEMD)
  BY <1>1, DescriptorLeft DEF Structure
<1>5. p_next' = r.next /\ s_procQ' = [s_procQ EXCEPT ![k] = r.head] /\ p_priority' = pri
  BY <1>3, <1>4 DEF InsertBlocked
<1> HIDE DEF nx, pri, r
<1>6. AgreeOutside(p_next, nx, {c})
  BY <1>2 DEF AgreeOutside
<1>7. c \notin Queue(k) /\ Ends(p_next, h)
  BY DEF Structure, ListsApart, ListsEnd
<1>8. Reach(nx, h) = Queue(k) /\ Ends(nx, h)
  <2>1. Queue(k) \cap {c} = {}
    BY <1>7
  <2> QED
    BY <1>2, <1>6, <1>7, <2>1, ApartFrame DEF Queue
<1>9. AgreeOutside(nx, r.next, {c} \cup Reach(nx, h))
  <2>1. c \notin Reach(nx, h)
    BY <1>7, <1>8
  <2> QED
    BY <1>2, <1>8, <2>1, InsertProcQFacts DEF r
<1>10. AgreeOutside(p_next, r.next, {c} \cup Queue(k))
  BY <1>6, <1>8, <1>9 DEF AgreeOutside
<1> QED
  BY <1>1, <1>2, <1>3, <1>5, <1>7, <1>8, <1>10 DEF nx, pri, r

\* a process that waits leaves the ready queue sorted
LEMMA BlockSorted ==
  ASSUME TypeOK, Structure, ReadySorted, Careful, NEW k \in Key, Block(k)
  PROVE  ReadySorted'
<1>1. /\ AgreeOutside(p_next, p_next', {currentPcb} \cup Queue(k))
      /\ p_priority' = [p_priority EXCEPT ![currentPcb] = 0]
  BY BlockLinks
<1>2. p_next' \in [Pcb -> Link] /\ readyQueue' = readyQueue
  <2>1. SemP(k) /\ currentPcb # NULL /\ readyQueue' = readyQueue
    BY DEF Block, SysCall, TypeOK
  <2> QED
    BY <2>1, SemPType
<1>3. OnReady \subseteq Pcb \ ({currentPcb} \cup Queue(k))
  BY ListTypes DEF Structure, ListsApart
<1>4. \A n \in OnReady : p_next'[n] = p_next[n] /\ p_priority'[n] = p_priority[n]
  BY <1>1, <1>3 DEF AgreeOutside, TypeOK
<1>5. Sorted(p_next', p_priority', readyQueue)
  BY <1>2, <1>4, ListTypes, SortedFrame, ReadySortedIs DEF OnReady
<1> QED
  BY <1>2, <1>5 DEF ReadySorted, Sorted

\* a new process is inserted in order
LEMMA CreateSorted ==
  ASSUME TypeOK, Structure, ReadySorted, NEW priority \in Priorities, CreateProcess(priority)
  PROVE  ReadySorted'
<1> DEFINE p   == AllocNode(p_next, pcbfree_h)
           f   == AllocPcb(p_next, pcbfree_h)
           pri == [p_priority EXCEPT ![p] = priority]
<1>1. pcbfree_h \in Pcb /\ p_next \in [Pcb -> Link] /\ readyQueue \in Link
  BY ListTypes DEF CreateProcess, Link
<1>2. p_priority' = pri /\ \E next : InsertReady(f.next, pri, p, next)
  BY DEF CreateProcess
<1>3. /\ p \in Free /\ p \in Pcb /\ f.next \in [Pcb -> Link]
      /\ AgreeOutside(p_next, f.next, Free)
  BY <1>1, AllocPcbFacts DEF Free, Structure, ListsEnd
<1>4. pri \in [Pcb -> Int] /\ \A n \in Pcb \ {p} : pri[n] = p_priority[n]
  <2>1. priority \in Int
    OBVIOUS
  <2> QED
    BY <1>3, <2>1 DEF TypeOK
<1> HIDE DEF p, f, pri
<1>5. OnReady \cap Free = {} /\ Ends(p_next, readyQueue) /\ OnReady \subseteq Pcb
  BY ListTypes DEF Structure, ListsApart, ListsEnd
<1>6. Reach(f.next, readyQueue) = OnReady /\ Ends(f.next, readyQueue)
  BY <1>1, <1>3, <1>5, ApartFrame DEF OnReady
<1>7. Sorted(f.next, pri, readyQueue)
  <2>1. \A n \in Reach(p_next, readyQueue) : f.next[n] = p_next[n] /\ pri[n] = p_priority[n]
    BY <1>3, <1>4, <1>5 DEF OnReady, AgreeOutside
  <2> QED
    BY <1>1, <1>3, <2>1, SortedFrame, ReadySortedIs
<1>8. p \notin Reach(f.next, readyQueue)
  BY <1>3, <1>5, <1>6
<1> QED
  BY <1>1, <1>2, <1>3, <1>4, <1>6, <1>7, <1>8, InsertReadySorted

\* a terminated process is taken out in order
LEMMA ReleaseSorted ==
  ASSUME TypeOK, Structure, ReadySorted, Release
  PROVE  ReadySorted'
<1> DEFINE p == Top
           r == OutProcQ(p_next, readyQueue, p)
           f == FreePcb(r.next, pcbfree_h, p)
<1>1. /\ p_next \in [Pcb -> Link] /\ readyQueue \in Link /\ pcbfree_h \in Link
      /\ p \in Live /\ p \in Pcb
  BY ListTypes, ReleaseStructure DEF Live
<1>2. /\ readyQueue' = r.head /\ p_next' = f.next /\ p_priority' = p_priority
  BY DEF Release, prios
<1>3. /\ r.next \in [Pcb -> Link] /\ r.head \in Link
      /\ Reach(r.next, r.head) = OnReady \ {p}
      /\ AgreeOutside(p_next, r.next, OnReady)
  BY <1>1, OutProcQFacts DEF OnReady, Structure, ListsEnd
<1>4. Sorted(r.next, p_priority, r.head)
  BY <1>1, OutSorted, ReadySortedIs DEF Structure, ListsEnd, TypeOK
<1> HIDE DEF r, f, p
<1>5. Reach(r.next, pcbfree_h) = Free /\ Ends(r.next, pcbfree_h)
  <2>1. Free \cap OnReady = {} /\ Ends(p_next, pcbfree_h)
    BY DEF Structure, ListsApart, ListsEnd
  <2> QED
    BY <1>1, <1>3, <2>1, ApartFrame DEF Free
<1>6. f.next \in [Pcb -> Link] /\ AgreeOutside(r.next, f.next, {p} \cup Free)
  <2>1. p \notin Reach(r.next, pcbfree_h)
    BY <1>1, <1>5 DEF Live, Free
  <2>2. /\ f.next \in [Pcb -> Link]
        /\ AgreeOutside(r.next, f.next, {p} \cup Reach(r.next, pcbfree_h))
    BY <1>1, <1>3, <1>5, <2>1, FreePcbFacts DEF f
  <2> QED
    BY <1>5, <2>2
<1>7. Sorted(f.next, p_priority, r.head)
  <2>1. OnReady \cap Free = {} /\ OnReady \subseteq Pcb
    BY ListTypes DEF Structure, ListsApart
  <2>2. \A n \in Reach(r.next, r.head) : f.next[n] = r.next[n]
    BY <1>3, <1>6, <2>1 DEF AgreeOutside
  <2> QED
    BY <1>3, <1>4, <1>6, <2>2, SortedFrame
<1> QED
  BY <1>2, <1>7 DEF ReadySorted, Sorted

\* the ready queue without its head is sorted
LEMMA DispatchSorted ==
  ASSUME TypeOK, Structure, ReadySorted, NEW aging \in BOOLEAN, Dispatch(aging)
  PROVE  ReadySorted'
<1>1. /\ UNCHANGED p_next /\ readyQueue' = p_next[readyQueue] /\ readyQueue # NULL
      /\ p_priority' = [Aged(aging) EXCEPT ![readyQueue] = start_priority[readyQueue]]
  BY DEF Dispatch, SchedulerFrame
<1>2. OnReady' = OnReady \ {readyQueue} /\ readyQueue \in Pcb
  BY DispatchLists DEF Structure
<1>3. \A n \in OnReady \ {readyQueue} : p_priority'[n] = Aged(aging)[n]
  BY <1>1, <1>2, AgedFacts, ListTypes
<1>4. ASSUME NEW n \in OnReady', p_next[n] # NULL
      PROVE  p_priority'[p_next[n]] <= p_priority'[n]
  <2>1. p_next[n] \in OnReady' /\ n \in OnReady
    <3>1. n \in Pcb /\ p_next[n] \in Pcb /\ p_next \in [Pcb -> Link] /\ readyQueue' \in Link
      BY <1>1, <1>2, <1>4, ListTypes DEF Link
    <3>2. OnReady' = Reach(p_next, p_next[readyQueue])
      BY <1>1 DEF OnReady
    <3> QED
      BY <1>1, <1>2, <1>4, <3>1, <3>2, ReachClosed
  <2>2. Aged(aging)[p_next[n]] <= Aged(aging)[n]
    BY <1>4, <2>1, AgedSorted DEF Sorted, OnReady
  <2> QED
    BY <1>2, <1>3, <1>4, <2>1, <2>2
<1> QED
  BY <1>1, <1>4 DEF ReadySorted, OnReady

\* each step preserves ReadySorted
LEMMA NextSorted ==
  ASSUME Careful, TypeOK, Structure, ReadySorted, [Next]_vars
  PROVE  ReadySorted'
<1>1. Kind
  BY StepKind DEF Structure
<1>2. ASSUME UNCHANGED <<p_next, readyQueue, p_priority>>
      PROVE  ReadySorted'
  BY <1>2 DEF ReadySorted
<1>3. CASE Quiet
  <2>1. ASSUME NEW aging \in BOOLEAN, p_priority' = Aged(aging)
        PROVE  ReadySorted'
    <3>1. UNCHANGED <<p_next, readyQueue>>
      BY <1>3 DEF Quiet
    <3>2. Sorted(p_next', p_priority', readyQueue')
      BY <2>1, <3>1, AgedSorted
    <3> QED
      BY <3>2 DEF ReadySorted, Sorted
  <2> QED
    BY <1>2, <1>3, <2>1 DEF Quiet
<1>4. ASSUME NEW k \in Key, WakeUp(k)
      PROVE  ReadySorted'
  BY <1>4, WakeSorted DEF WakeUp
<1>5. ASSUME NEW pid \in pids \cup {NULL}, TerminateProcess(pid)
      PROVE  ReadySorted'
  <2>1. \/ s_procQ[childSem] # NULL /\ SemV(childSem, "liberaTutti")
        \/ UNCHANGED <<p_next, readyQueue, p_priority>>
    BY <1>5 DEF TerminateProcess
  <2> QED
    BY <1>2, <2>1, WakeSorted, KeyFacts
<1>6. CASE RemoveChild
  BY <1>2, <1>6 DEF RemoveChild, prios
<1>7. CASE PreemptRun
  <2>1. /\ InsertReady(p_next, p_priority, currentPcb, "scheduler") /\ p_priority' = p_priority
        /\ currentPcb \in Pcb
    BY <1>7, ListTypes DEF PreemptRun, Preempt, prios, Link
  <2>2. /\ p_next \in [Pcb -> Link] /\ readyQueue \in Link /\ p_priority \in [Pcb -> Int]
        /\ currentPcb \notin OnReady /\ Ends(p_next, readyQueue)
    BY DEF TypeOK, Structure, ListsApart, ListsEnd
  <2> QED
    BY <2>1, <2>2, InsertReadySorted, ReadySortedIs DEF OnReady
<1> QED
  BY <1>1, <1>3, <1>4, <1>5, <1>6, <1>7, BlockSorted, CreateSorted, ReleaseSorted,
     DispatchSorted DEF Kind

(* ReadySorted holds: aging in place and insertion behind the equals keep  *)
(* the ready queue in order, so the scheduler takes a process of the       *)
(* highest priority.                                                       *)
THEOREM ReadySortedCorrect ==
  ASSUME Careful
  PROVE  Spec => []ReadySorted
<1>1. Init => ReadySorted
  <2> SUFFICES ASSUME Init PROVE ReadySorted
    OBVIOUS
  <2>1. OnReady = {MAXPROC} /\ p_next[MAXPROC] = NULL
    BY InitLists DEF Init, Pcb
  <2> QED
    BY <2>1 DEF ReadySorted, OnReady
<1>2. TypeOK /\ Structure /\ ReadySorted /\ [Next]_vars => ReadySorted'
  BY NextSorted
<1> QED
  BY <1>1, <1>2, TypeCorrect, StructureCorrect, PTL DEF Spec

-----------------------------------------------------------------------------
(***************************************************************************)
(* Priorities, and the order of the semaphores' queues.                    *)
(***************************************************************************)
LEMMA PlacesDisjoint ==
  ASSUME TypeOK, Structure
  PROVE  /\ Free \cap OnReady = {} /\ Blocked \cap (Free \cup OnReady \cup {currentPcb}) = {}
         /\ currentPcb \notin Free \cup OnReady
         /\ OnReady \subseteq Pcb /\ Blocked \subseteq Pcb
  BY ListTypes DEF Structure, ListsApart, Blocked

\* a step after which no more processes are ready, wait or run keeps PriorityKept, aging or not
LEMMA PriorityFrame ==
  ASSUME TypeOK, PriorityKept, UNCHANGED <<start_priority, last_priority>>,
         UNCHANGED p_priority \/ \E aging \in BOOLEAN : p_priority' = Aged(aging),
         Structure, currentPcb' \in {currentPcb, NULL}, OnReady' \subseteq OnReady,
         Blocked' \subseteq Blocked
  PROVE  PriorityKept'
<1>1. /\ \A n \in Pcb : p_priority'[n] >= p_priority[n]
      /\ \A n \in Pcb \ OnReady : p_priority'[n] = p_priority[n]
  BY AgedFacts DEF TypeOK
<1>2. /\ currentPcb # NULL => /\ currentPcb \in Pcb \ OnReady
                              /\ p_priority[currentPcb] = start_priority[currentPcb]
      /\ \A p \in OnReady : p \in Pcb /\ p_priority[p] >= start_priority[p]
      /\ \A p \in Blocked : /\ p \in Pcb \ OnReady
                            /\ p_priority[p] = 0 /\ last_priority[p] = start_priority[p]
  BY PlacesDisjoint DEF PriorityKept, OnReady, TypeOK, Link
<1>3. \A p \in OnReady : p_priority'[p] >= start_priority[p]
  <2> SUFFICES ASSUME NEW p \in OnReady
               PROVE  p_priority'[p] >= start_priority[p]
    OBVIOUS
  <2>1. p_priority[p] \in Int /\ start_priority[p] \in Int /\ p_priority'[p] \in Int
    BY <1>2, AgedFacts DEF TypeOK
  <2> QED
    BY <1>1, <1>2, <2>1
<1> QED
  BY <1>1, <1>2, <1>3 DEF PriorityKept, OnReady

\* waiting puts the priority aside
LEMMA BlockPriority ==
  ASSUME TypeOK, Structure, PriorityKept, Careful, NEW k \in Key, Block(k)
  PROVE  PriorityKept'
<1> DEFINE c == currentPcb
<1>1. /\ p_priority' = [p_priority EXCEPT ![c] = 0] /\ start_priority' = start_priority
      /\ last_priority' = [last_priority EXCEPT ![c] = p_priority[c]] /\ c \in Pcb
  BY BlockLinks
<1>2. /\ OnReady' = OnReady /\ currentPcb' = NULL
      /\ \A j \in Key : Queue(j)' \subseteq Queue(j) \cup {c}
  BY BlockPlaces
<1>3. /\ p_priority'[c] = 0 /\ last_priority'[c] = p_priority[c]
      /\ \A n \in Pcb \ {c} : p_priority'[n] = p_priority[n] /\ last_priority'[n] = last_priority[n]
  BY <1>1 DEF TypeOK
<1>4. Blocked' \subseteq Blocked \cup {c}
  BY <1>2 DEF Blocked
<1>5. c # NULL /\ c \notin OnReady /\ OnReady \subseteq Pcb /\ Blocked \subseteq Pcb \ {c}
  BY <1>1, PlacesDisjoint, PcbFinite
<1>6. /\ p_priority[c] = start_priority[c]
      /\ \A p \in OnReady : p_priority[p] >= start_priority[p]
      /\ \A p \in Blocked : p_priority[p] = 0 /\ last_priority[p] = start_priority[p]
  BY <1>5 DEF PriorityKept, OnReady
<1> HIDE DEF c
<1>7. \A p \in OnReady' : p_priority'[p] >= start_priority'[p]
  BY <1>1, <1>2, <1>3, <1>5, <1>6
<1>8. \A p \in Blocked' : p_priority'[p] = 0 /\ last_priority'[p] = start_priority'[p]
  BY <1>1, <1>3, <1>4, <1>5, <1>6
<1> QED
  BY <1>2, <1>7, <1>8 DEF PriorityKept, OnReady

\* waking up restores it
LEMMA WakePriority ==
  ASSUME TypeOK, Structure, PriorityKept, NEW k \in Key, NEW next, SemV(k, next),
         s_procQ[k] # NULL, Woken(k), UNCHANGED <<start_priority, last_priority>>,
         currentPcb' \in {currentPcb, NULL}
  PROVE  PriorityKept'
<1> DEFINE b == s_procQ[k]
<1>1. /\ p_priority' = [p_priority EXCEPT ![b] = last_priority[b]]
      /\ b \in Queue(k) /\ b \in Blocked /\ b \in Pcb
  BY PlacesDisjoint DEF SemV, Woken, Blocked
<1>2. /\ OnReady' = OnReady \cup {b}
      /\ Queue(k)' = Queue(k) \ {b} /\ \A j \in Key \ {k} : Queue(j)' = Queue(j)
  BY DEF Woken
<1>3. p_priority'[b] = last_priority[b] /\ \A n \in Pcb \ {b} : p_priority'[n] = p_priority[n]
  BY <1>1 DEF TypeOK
<1>4. Blocked' \subseteq Blocked \ {b}
  BY <1>1, <1>2 DEF Blocked, Structure, ListsApart
<1>5. /\ b # currentPcb /\ b \notin OnReady /\ OnReady \subseteq Pcb /\ Blocked \subseteq Pcb
      /\ currentPcb # NULL => currentPcb \in Pcb
  BY <1>1, PlacesDisjoint DEF TypeOK, Link
<1>6. /\ currentPcb # NULL => p_priority[currentPcb] = start_priority[currentPcb]
      /\ \A p \in OnReady : p_priority[p] >= start_priority[p]
      /\ \A p \in Blocked : p_priority[p] = 0 /\ last_priority[p] = start_priority[p]
  BY DEF PriorityKept, OnReady
<1> HIDE DEF b
<1>7. \A p \in OnReady' : p_priority'[p] >= start_priority'[p]
  <2>1. last_priority[b] = start_priority[b] /\ start_priority[b] \in Int
    BY <1>1, <1>6 DEF TypeOK
  <2> QED
    BY <1>2, <1>3, <1>5, <1>6, <2>1
<1>8. \A p \in Blocked' : p_priority'[p] = 0 /\ last_priority'[p] = start_priority'[p]
  BY <1>3, <1>4, <1>5, <1>6
<1>9. currentPcb' # NULL => p_priority'[currentPcb'] = start_priority'[currentPcb']
  BY <1>3, <1>5, <1>6
<1> QED
  BY <1>7, <1>8, <1>9 DEF PriorityKept, OnReady

\* a new process has the priority it is given
LEMMA CreatePriority ==
  ASSUME TypeOK, Structure, PriorityKept, NEW priority \in Priorities, CreateProcess(priority)
  PROVE  PriorityKept'
<1> DEFINE p == AllocNode(p_next, pcbfree_h)
<1>1. /\ p_priority' = [p_priority EXCEPT ![p] = priority]
      /\ start_priority' = [start_priority EXCEPT ![p] = priority]
      /\ last_priority' = last_priority /\ currentPcb' = currentPcb
  BY DEF CreateProcess
<1>2. p \in Free /\ OnReady' = OnReady \cup {p} /\ \A k \in Key : Queue(k)' = Queue(k)
  BY CreateStructure
<1> HIDE DEF p
<1>3. p \in Pcb /\ p # currentPcb /\ p \notin OnReady /\ p \notin Blocked
        /\ OnReady \subseteq Pcb /\ Blocked \subseteq Pcb /\ Blocked' = Blocked
        /\ (currentPcb # NULL => currentPcb \in Pcb)
  BY <1>2, ListTypes, PlacesDisjoint DEF Blocked, Link
<1>4. /\ p_priority'[p] = priority /\ start_priority'[p] = priority
      /\ \A n \in Pcb \ {p} : p_priority'[n] = p_priority[n] /\ start_priority'[n] = start_priority[n]
  BY <1>1, <1>3 DEF TypeOK
<1>5. /\ currentPcb # NULL => p_priority[currentPcb] = start_priority[currentPcb]
      /\ \A n \in OnReady : p_priority[n] >= start_priority[n]
      /\ \A n \in Blocked : p_priority[n] = 0 /\ last_priority[n] = start_priority[n]
  BY DEF PriorityKept, OnReady
<1>6. \A n \in OnReady' : p_priority'[n] >= start_priority'[n]
  <2>1. priority \in Int
    OBVIOUS
  <2> QED
    BY <1>2, <1>3, <1>4, <1>5, <2>1
<1>7. \A n \in Blocked' : p_priority'[n] = 0 /\ last_priority'[n] = start_priority'[n]
  BY <1>1, <1>3, <1>4, <1>5
<1>8. currentPcb' # NULL => p_priority'[currentPcb'] = start_priority'[currentPcb']
  BY <1>1, <1>3, <1>4, <1>5
<1> QED
  BY <1>6, <1>7, <1>8 DEF PriorityKept, OnReady

\* a dispatched process has its own priority again
LEMMA DispatchPriority ==
  ASSUME TypeOK, Structure, PriorityKept, NEW aging \in BOOLEAN, Dispatch(aging)
  PROVE  PriorityKept'
<1> DEFINE h == readyQueue
<1>1. /\ p_priority' = [Aged(aging) EXCEPT ![h] = start_priority[h]]
      /\ UNCHANGED <<start_priority, last_priority>>
  BY DEF Dispatch, SchedulerFrame
<1>2. /\ currentPcb' = h /\ h \in OnReady /\ OnReady' = OnReady \ {h}
      /\ \A k \in Key : Queue(k)' = Queue(k)
  BY DispatchPlaces
<1> HIDE DEF h
<1>3. /\ h \in Pcb /\ OnReady \subseteq Pcb /\ Blocked \subseteq Pcb /\ Blocked' = Blocked
      /\ h \notin Blocked /\ OnReady \cap Blocked = {}
  BY <1>2, PlacesDisjoint DEF Blocked
<1>4. /\ p_priority'[h] = start_priority[h]
      /\ \A n \in Pcb \ {h} : p_priority'[n] = Aged(aging)[n]
  BY <1>1, <1>3, AgedFacts
<1>5. /\ \A n \in OnReady : p_priority[n] >= start_priority[n]
      /\ \A n \in Blocked : p_priority[n] = 0 /\ last_priority[n] = start_priority[n]
  BY DEF PriorityKept, OnReady
<1>6. ASSUME NEW n \in OnReady'
      PROVE  p_priority'[n] >= start_priority'[n]
  <2>1. /\ n \in Pcb \ {h} /\ p_priority'[n] = Aged(aging)[n]
        /\ p_priority[n] >= start_priority[n]
    BY <1>2, <1>3, <1>4, <1>5
  <2>2. p_priority[n] \in Int /\ start_priority[n] \in Int /\ Aged(aging)[n] \in Int
        /\ Aged(aging)[n] >= p_priority[n]
    BY <2>1, AgedFacts DEF TypeOK
  <2> QED
    BY <1>1, <2>1, <2>2
<1>7. ASSUME NEW n \in Blocked'
      PROVE  p_priority'[n] = 0 /\ last_priority'[n] = start_priority'[n]
  <2>1. n \in Pcb \ {h} /\ n \notin OnReady /\ n \in Blocked
    BY <1>3
  <2>2. p_priority'[n] = p_priority[n]
    BY <1>4, <2>1, AgedFacts
  <2> QED
    BY <1>1, <1>5, <2>1, <2>2
<1> QED
  BY <1>1, <1>2, <1>4, <1>6, <1>7 DEF PriorityKept, OnReady

\* so has a process that is preempted
LEMMA PreemptPriority ==
  ASSUME TypeOK, Structure, PriorityKept, PreemptRun
  PROVE  PriorityKept'
<1>1. UNCHANGED prios
  BY DEF PreemptRun, Preempt
<1>2. /\ currentPcb # NULL /\ currentPcb' = NULL /\ OnReady' = OnReady \cup {currentPcb}
      /\ \A k \in Key : Queue(k)' = Queue(k)
  BY PreemptPlaces
<1>3. Blocked' = Blocked
  BY <1>2 DEF Blocked
<1>4. start_priority[currentPcb] \in Int
  BY <1>2 DEF TypeOK, Link
<1> QED
  BY <1>1, <1>2, <1>3, <1>4 DEF PriorityKept, OnReady, prios

\* each step preserves PriorityKept
LEMMA NextPriority ==
  ASSUME Careful, TypeOK, Structure, PriorityKept, [Next]_vars
  PROVE  PriorityKept'
<1>1. Kind
  BY StepKind DEF Structure
<1>2. ASSUME UNCHANGED <<start_priority, last_priority, p_priority>>,
             currentPcb' \in {currentPcb, NULL}, OnReady' \subseteq OnReady,
             \A k \in Key : Queue(k)' = Queue(k)
      PROVE  PriorityKept'
  BY <1>2, PriorityFrame DEF Blocked
<1>3. CASE Quiet
  <2>1. OnReady' = OnReady /\ Blocked' = Blocked
    BY <1>3, QuietPlaces DEF SamePlaces, Blocked
  <2> QED
    BY <1>3, <2>1, PriorityFrame DEF Quiet
<1>4. ASSUME NEW k \in Key, WakeUp(k)
      PROVE  PriorityKept'
  BY <1>4, WakeUpPlaces, WakePriority DEF WakeUp
<1>5. ASSUME NEW pid \in pids \cup {NULL}, TerminateProcess(pid)
      PROVE  PriorityKept'
  <2>1. /\ \/ s_procQ[childSem] # NULL /\ SemV(childSem, "liberaTutti")
           \/ UNCHANGED <<p_next, readyQueue, s_procQ, p_priority>>
        /\ UNCHANGED <<start_priority, last_priority, pcbfree_h>>
        /\ currentPcb' \in {currentPcb, NULL}
    BY <1>5 DEF TerminateProcess, sems
  <2>2. CASE s_procQ[childSem] # NULL /\ SemV(childSem, "liberaTutti")
    <3>1. Woken(childSem)
      BY <2>1, <2>2, WakeLists, KeyFacts DEF Structure, Woken
    <3> QED
      BY <2>1, <2>2, <3>1, WakePriority, KeyFacts
  <2>3. CASE UNCHANGED <<p_next, readyQueue, s_procQ, p_priority>>
    BY <1>2, <2>1, <2>3, ListsUnchanged
  <2> QED
    BY <2>1, <2>2, <2>3
<1>6. CASE RemoveChild
  <2>1. UNCHANGED prios
    BY <1>6 DEF RemoveChild
  <2> QED
    BY <1>2, <1>6, <2>1, RemoveChildPlaces DEF SamePlaces, prios
<1>7. CASE Release
  <2>1. UNCHANGED prios
    BY <1>7 DEF Release
  <2> QED
    BY <1>2, <1>7, <2>1, ReleasePlaces, ReleaseStructure DEF prios
<1> QED
  BY <1>1, <1>3, <1>4, <1>5, <1>6, <1>7, BlockPriority, CreatePriority, DispatchPriority,
     PreemptPriority DEF Kind

(* PriorityKept holds: a process runs at the priority it was created with, *)
(* and neither waiting nor aging ever takes it below.                      *)
THEOREM PriorityKeptCorrect ==
  ASSUME Careful
  PROVE  Spec => []PriorityKept
<1>1. Init => PriorityKept
  <2> SUFFICES ASSUME Init PROVE PriorityKept
    OBVIOUS
  <2>1. OnReady = {MAXPROC} /\ Blocked = {} /\ MAXPROC \in Pcb
    BY InitLists DEF Pcb
  <2>2. /\ currentPcb = NULL /\ p_priority = [p \in Pcb |-> 0]
        /\ start_priority = [p \in Pcb |-> 0]
    BY DEF Init
  <2> QED
    BY <2>1, <2>2 DEF PriorityKept, OnReady
<1>2. TypeOK /\ Structure /\ PriorityKept /\ [Next]_vars => PriorityKept'
  BY NextPriority
<1> QED
  BY <1>1, <1>2, TypeCorrect, StructureCorrect, PTL DEF Spec

\* All that wait have priority 0, so that insertProcQ puts the next one last.
LEMMA BlockOrder ==
  ASSUME TypeOK, Structure, PriorityKept, Careful, NEW k \in Key, Block(k)
  PROVE  \A p \in Queue(k) : currentPcb \in Reach(p_next', p)
<1> DEFINE c   == currentPcb
           nx  == [p_next EXCEPT ![c] = NULL]
           pri == [p_priority EXCEPT ![c] = 0]
           h   == s_procQ[k]
           r   == InsertProcQ(nx, pri, h, c)
<1>1. /\ p_next' = r.next /\ nx \in [Pcb -> Link] /\ Reach(nx, h) = Queue(k) /\ Ends(nx, h)
      /\ c \notin Queue(k) /\ c \in Pcb
  BY BlockLinks
<1>2. pri \in [Pcb -> Int] /\ pri[c] = 0 /\ \A n \in Pcb \ {c} : pri[n] = p_priority[n]
  BY <1>1 DEF TypeOK
<1> HIDE DEF nx, pri, r, h
<1>3. \A n \in Queue(k) : pri[n] = pri[c]
  <2>1. Queue(k) \subseteq Pcb /\ Queue(k) \subseteq Blocked
    BY ListTypes DEF Blocked
  <2> QED
    BY <1>1, <1>2, <2>1 DEF PriorityKept
<1>4. h \in Link /\ c \notin Reach(nx, h)
  BY <1>1, ListTypes DEF h
<1>5. \A n \in Reach(nx, h) : c \in Reach(r.next, n)
  BY <1>1, <1>2, <1>3, <1>4, InsertLast DEF r
<1> QED
  BY <1>1, <1>5

\* no step overtakes in a queue
LEMMA StepOrder ==
  ASSUME Careful, TypeOK, Structure, PriorityKept, [Next]_vars, NEW k \in Key
  PROVE  /\ \A p \in Queue(k) : p \notin Queue(k)' => p = s_procQ[k]
         /\ \A p \in Queue(k) \cap Queue(k)', q \in Queue(k)' \ Queue(k) :
              q \in Reach(p_next, p)'
<1>1. Kind
  BY StepKind DEF Structure
<1>2. CASE Queue(k)' = Queue(k)
  BY <1>2
<1>3. ASSUME NEW j \in Key, Woken(j)
      PROVE  /\ Queue(k)' \subseteq Queue(k)
             /\ \A p \in Queue(k) : p \notin Queue(k)' => p = s_procQ[k]
  BY <1>3 DEF Woken
<1>4. ASSUME NEW j \in Key, Block(j), Queue(k)' # Queue(k)
      PROVE  /\ Queue(k)' = Queue(k) \cup {currentPcb}
             /\ \A p \in Queue(k) : currentPcb \in Reach(p_next', p)
  <2>1. j = k /\ Queue(k)' = Queue(k) \cup {currentPcb}
    BY <1>4, BlockPlaces
  <2> QED
    BY <1>4, <2>1, BlockOrder
<1>5. CASE \E j \in Key : Block(j)
  BY <1>2, <1>4, <1>5
<1>6. CASE \E j \in Key : WakeUp(j)
  BY <1>3, <1>6, WakeUpPlaces
<1>7. CASE \E pid \in pids \cup {NULL} : TerminateProcess(pid)
  BY <1>2, <1>3, <1>7, TerminatePlaces, KeyFacts
<1>8. CASE Quiet \/ RemoveChild \/ Release \/ PreemptRun
  BY <1>2, <1>8, QuietPlaces, RemoveChildPlaces, ReleaseStructure, PreemptPlaces DEF SamePlaces
<1>9. CASE (\E priority \in Priorities : CreateProcess(priority))
             \/ \E aging \in BOOLEAN : Dispatch(aging)
  BY <1>2, <1>9, CreatePlaces, DispatchPlaces
<1> QED
  BY <1>1, <1>5, <1>6, <1>7, <1>8, <1>9 DEF Kind

(* NoOvertaking holds of every step: no process enters the queue of a      *)
(* semaphore in front of one that was there before, and only the head ever *)
(* leaves it, through semp, semv and the terminations of others.           *)
THEOREM NoOvertakingCorrect ==
  ASSUME Careful
  PROVE  Spec => NoOvertaking
<1>1. TypeOK /\ Structure /\ PriorityKept /\ [Next]_vars
        => [\A k \in Key :
              /\ \A p \in Queue(k) : p \notin Queue(k)' => p = s_procQ[k]
              /\ \A p \in Queue(k) \cap Queue(k)', q \in Queue(k)' \ Queue(k) :
                   q \in Reach(p_next, p)']_vars
  BY StepOrder
<1> QED
  BY <1>1, TypeCorrect, StructureCorrect, PriorityKeptCorrect, PTL DEF Spec, NoOvertaking

-----------------------------------------------------------------------------
(***************************************************************************)
(* Every handler comes to its end.                                         *)
(***************************************************************************)
\* what Turns is, for each kind of handler
LEMMA TurnsIs ==
  /\ pc = "liberaTutti" => Turns = 1 + Cardinality(Live) + Cardinality(Live \ Dying)
  /\ pc = "pseudoTick" => Turns = 3 + Cardinality(Queue(timerSem))
  /\ pc = "preempt" => Turns = 2
  /\ pc = "scheduler" => Turns = 1
  /\ pc \in {"user", "wait"} \cup Stopped => Turns = 0
BY DEF Turns, Stopped

\* Turns of the state after a step
LEMMA TurnsNext ==
  /\ pc' = "liberaTutti" => Turns' = 1 + Cardinality(Live') + Cardinality(Live' \ Dying')
  /\ pc' = "pseudoTick" => Turns' = 3 + Cardinality(Queue(timerSem)')
  /\ pc' = "preempt" => Turns' = 2
  /\ pc' = "scheduler" => Turns' = 1
  /\ pc' \in {"user", "wait"} \cup Stopped => Turns' = 0
BY DEF Turns, Stopped

\* an element less is one less
LEMMA OneLess ==
  ASSUME NEW S \in SUBSET Pcb, NEW x \in S
  PROVE  /\ Cardinality(S) \in Nat /\ Cardinality(S \ {x}) \in Nat
         /\ Cardinality(S \ {x}) = Cardinality(S) - 1
  BY PcbSubsets, FS_RemoveElement

\* a turn of liberaTutti
LEMMA LiberaTuttiTurns ==
  ASSUME TypeOK, Structure, RemoveChild \/ Release
  PROVE  Turns' < Turns
<1>1. pc = "liberaTutti" /\ stack # << >>
  BY DEF RemoveChild, Release, TypeOK
<1>2. Turns = 1 + Cardinality(Live) + Cardinality(Live \ Dying)
  BY <1>1, TurnsIs
<1>3. Live \in SUBSET Pcb /\ Cardinality(Live) \in Nat /\ Cardinality(Live \ Dying) \in Nat
  <2>1. Live \in SUBSET Pcb /\ Live \ Dying \in SUBSET Pcb
    BY DEF Live
  <2> QED
    BY <2>1, PcbSubsets
<1>4. CASE RemoveChild
  <2> DEFINE c == p_first_child[Top]
  <2>1. SamePlaces /\ Dying' = Dying \cup {c} /\ pc' = "liberaTutti"
    BY <1>1, <1>4, RemoveChildPlaces DEF RemoveChild
  <2>2. Live' = Live
    BY <2>1 DEF SamePlaces, Live, Free
  <2>3. c \in Live /\ c \notin Dying
    <3>1. Top \in Pcb /\ Top \in Dying /\ Dying \subseteq Doomed /\ NULL \notin Pcb
      BY <1>1, StackFacts, PcbFinite
    <3>2. c \in Pcb /\ p_parent[c] = Top
      BY <1>4, <2>2, <3>1, RemoveChildTree DEF Structure
    <3>3. c \in Live
      BY <3>1, <3>2 DEF Structure, TreeSound
    <3>4. p_parent[stack[1]] \notin Doomed /\ \A i \in 2..Len(stack) : p_parent[stack[i]] = NULL
      BY <1>1 DEF Structure, DyingSound
    <3>5. Len(stack) \in Nat
      BY <1>1, StackFacts
    <3>6. ASSUME NEW i \in 1..Len(stack), stack[i] = c
          PROVE  FALSE
      <4>1. i = 1 \/ i \in 2..Len(stack)
        BY <3>5
      <4> QED
        BY <3>1, <3>2, <3>4, <3>6, <4>1
    <3> QED
      BY <3>3, <3>6 DEF Dying
  <2> HIDE DEF c
  <2>4. Live' \ Dying' = (Live \ Dying) \ {c} /\ c \in Live \ Dying /\ Live \ Dying \in SUBSET Pcb
    BY <1>3, <2>1, <2>2, <2>3
  <2>5. Turns' = 1 + Cardinality(Live) + Cardinality((Live \ Dying) \ {c})
    BY <2>1, <2>2, <2>4, TurnsNext
  <2>6. /\ Cardinality((Live \ Dying) \ {c}) = Cardinality(Live \ Dying) - 1
        /\ Cardinality((Live \ Dying) \ {c}) \in Nat
    BY <2>4, OneLess
  <2> QED
    BY <1>2, <1>3, <2>5, <2>6
<1>5. CASE Release
  <2>1. /\ Top \in Live /\ Free' = Free \cup {Top} /\ Dying' = Dying \ {Top}
        /\ pc' \in {"liberaTutti", "scheduler"}
    BY <1>1, <1>5, ReleaseStructure
  <2>2. Live' = Live \ {Top}
    BY <2>1 DEF Live, Free
  <2>3. Top \in Dying
    BY <1>1, StackFacts
  <2>4. Live' \ Dying' = Live \ Dying
    BY <2>1, <2>2, <2>3
  <2>5. Cardinality(Live') = Cardinality(Live) - 1 /\ Cardinality(Live') \in Nat
    BY <1>3, <2>1, <2>2, OneLess
  <2>6. Turns' = 1 \/ Turns' = 1 + Cardinality(Live') + Cardinality(Live \ Dying)
    BY <2>1, <2>4, TurnsNext
  <2> QED
    BY <1>2, <1>3, <2>5, <2>6
<1> QED
  BY <1>4, <1>5

\* a turn of the loop of timerHandler
LEMMA PseudoTickTurns ==
  ASSUME TypeOK, Structure, PseudoTick
  PROVE  Turns' < Turns
<1> DEFINE Q == Queue(timerSem)
<1>1. pc = "pseudoTick" /\ timerSem \in Key /\ Q \in SUBSET Pcb
  BY ListTypes, KeyFacts DEF PseudoTick
<1>2. Turns = 3 + Cardinality(Q) /\ Cardinality(Q) \in Nat
  BY <1>1, TurnsIs, PcbSubsets
<1>3. CASE s_procQ[timerSem] = NULL
  <2>1. pc' = "preempt"
    BY <1>3 DEF PseudoTick
  <2>2. Turns' = 2
    BY <2>1, TurnsNext
  <2> QED
    BY <1>2, <2>2
<1>4. CASE s_procQ[timerSem] # NULL
  <2>1. SemV(timerSem, "pseudoTick") /\ pcbfree_h' = pcbfree_h
    BY <1>4 DEF PseudoTick, CallFrame
  <2>2. s_procQ[timerSem] \in Q /\ Q' = Q \ {s_procQ[timerSem]} /\ pc' = "pseudoTick"
    BY <1>1, <1>4, <2>1, WakeLists DEF Structure
  <2>3. Turns' = 3 + Cardinality(Q')
    BY <2>2, TurnsNext
  <2> HIDE DEF Q
  <2>4. Cardinality(Q') = Cardinality(Q) - 1 /\ Cardinality(Q') \in Nat
    BY <1>1, <2>2, OneLess
  <2> QED
    BY <1>2, <2>3, <2>4
<1> QED
  BY <1>3, <1>4

\* each step of a handler brings it nearer to its end
LEMMA NextTurns ==
  ASSUME TypeOK, Structure, Next, Turns > 0
  PROVE  Turns' < Turns \/ UNCHANGED vars
<1>1. pc \in {"liberaTutti", "pseudoTick", "preempt", "scheduler"}
  BY TurnsIs DEF TypeOK, PC
<1>2. ~SystemCall /\ ~Interrupt /\ \A d \in Device : ~DeviceDone(d)
  BY <1>1 DEF SystemCall, CreateFails, CreateProcess, TerminateProcess, SemPCall, SemVCall,
              WaitClock, WaitChild, IoDevOp, OtherCall, SysCall, Interrupt, TimerInterrupt,
              DeviceInterrupt, DeviceDone
<1>3. CASE RemoveChild \/ Release
  BY <1>3, LiberaTuttiTurns
<1>4. CASE PseudoTick
  BY <1>4, PseudoTickTurns
<1>5. CASE Preempt
  <2>1. pc = "preempt" /\ pc' = "scheduler"
    BY <1>5, PreemptLists DEF Preempt, Structure
  <2>2. Turns = 2 /\ Turns' = 1
    BY <2>1, TurnsIs, TurnsNext
  <2> QED
    BY <2>2
<1>6. CASE Scheduler
  <2>1. pc = "scheduler" /\ pc' \in {"user", "wait"} \cup Stopped
    BY <1>6 DEF Scheduler, AgingLost, Resume, Dispatch, Idle, Stopped
  <2>2. Turns = 1 /\ Turns' = 0
    BY <2>1, TurnsIs, TurnsNext
  <2> QED
    BY <2>2
<1> QED
  BY <1>2, <1>3, <1>4, <1>5, <1>6 DEF Next, Handler, Stop

(* HandlersEnd holds of every step: the recursion of liberaTutti and the   *)
(* loop of timerHandler make progress at every turn, and the kernel comes  *)
(* back from each call and interrupt, for every number of processes.       *)
THEOREM HandlersEndCorrect ==
  ASSUME Careful
  PROVE  Spec => HandlersEnd
<1>1. TypeOK /\ Structure /\ [Next]_vars => [Turns > 0 => Turns' < Turns]_vars
  BY NextTurns
<1> QED
  BY <1>1, TypeCorrect, StructureCorrect, PTL DEF Spec, HandlersEnd

-----------------------------------------------------------------------------
(***************************************************************************)
(* Traps and their handlers.                                               *)
(***************************************************************************)
TrapsType == /\ handlers \in [Pcb -> SUBSET TrapKind]
             /\ mode \in [Pcb -> {"kernel", "user"}]

\* a system call that sets no handler and creates no process leaves the tree alone
LEMMA UntrappedTree ==
  ASSUME UntrappedCall
  PROVE  SystemCall /\ UNCHANGED tree
  BY DEF UntrappedCall, SystemCall, CreateFails, TerminateProcess, SemPCall, SemVCall,
         WaitClock, WaitChild, IoDevOp, OtherCall, CallFrame

\* what a step of a program with traps is for the nucleus
LEMMA TrapStepKind ==
  ASSUME TrapStep
  PROVE  \/ \E priority \in Priorities : CreateTrapFree(priority)
         \/ \E type \in TrapKind : SpecHdl(type)
         \/ UNCHANGED trapVars /\ UntrappedCall
         \/ SysCall /\ UNCHANGED <<vars, handlers>>
            /\ \E m \in {"kernel", "user"} : mode' = [mode EXCEPT ![currentPcb] = m]
<1>1. ASSUME NEW kind \in TrapKind, TrapEnds(kind)
      PROVE  UNCHANGED trapVars /\ UntrappedCall
  BY <1>1 DEF TrapEnds, UntrappedCall
<1> QED
  BY <1>1 DEF TrapStep, PassUp, ReturnTo

\* traps leave the nucleus as it is, or make one of its calls
LEMMA TrapsNextIsNext ==
  ASSUME TrapsNext
  PROVE  [Next]_vars
<1>1. CASE TrapStep
  <2>1. CASE \E priority \in Priorities : CreateTrapFree(priority)
    BY <2>1 DEF CreateTrapFree, Next, SystemCall
  <2>2. CASE \E type \in TrapKind : SpecHdl(type)
    BY <2>2 DEF SpecHdl, Next, SystemCall
  <2>3. CASE UntrappedCall
    BY <2>3, UntrappedTree DEF Next
  <2> QED
    BY <1>1, <2>1, <2>2, <2>3, TrapStepKind
<1>2. CASE Handler \/ Interrupt \/ (\E d \in Device : DeviceDone(d)) \/ Stop
  BY <1>2 DEF Next
<1> QED
  BY <1>1, <1>2 DEF TrapsNext

(* Whatever handlers programs set and whatever traps they make, what the   *)
(* nucleus does is a behaviour of Kernel, and all that is proved of Kernel *)
(* holds of it.                                                            *)
THEOREM TrapsImplementKernel == TrapsSpec => Spec
<1>1. [TrapsNext]_<<vars, trapVars>> => [Next]_vars
  <2>1. UNCHANGED <<vars, trapVars>> => UNCHANGED vars
    BY DEF vars
  <2> QED
    BY <2>1, TrapsNextIsNext
<1> QED
  BY <1>1, PTL DEF TrapsSpec, Spec

\* handlers and modes are functions, which the steps change at PCBs
LEMMA NextTrapsType ==
  ASSUME TypeOK, Structure, TrapsType, [TrapsNext]_<<vars, trapVars>>
  PROVE  TrapsType'
<1>1. ASSUME NEW priority \in Priorities, CreateTrapFree(priority)
      PROVE  TrapsType'
  <2>1. currentPcb \in Pcb /\ AllocNode(p_next, pcbfree_h) \in Pcb
    <3>1. CreateProcess(priority) /\ currentPcb # NULL
      BY <1>1 DEF CreateTrapFree, CreateProcess, SysCall, TypeOK
    <3> QED
      BY <3>1, CreateStructure, CurrentLive, ListTypes DEF Structure
  <2> QED
    BY <1>1, <2>1 DEF CreateTrapFree, TrapsType
<1>2. ASSUME NEW type \in TrapKind, SpecHdl(type)
      PROVE  TrapsType'
  BY <1>2 DEF SpecHdl, TrapsType
<1>3. ASSUME NEW m \in {"kernel", "user"}, UNCHANGED handlers,
             mode' = [mode EXCEPT ![currentPcb] = m]
      PROVE  TrapsType'
  BY <1>3 DEF TrapsType
<1>4. CASE UNCHANGED trapVars
  BY <1>4 DEF TrapsType, trapVars
<1> QED
  BY <1>1, <1>2, <1>3, <1>4, TrapStepKind DEF TrapsNext

\* only createprocess brings a PCB to life, and it links it to its parent
LEMMA NoneBorn ==
  ASSUME Careful, TypeOK, Structure, [Next]_vars, UNCHANGED tree \/ pc # "user"
  PROVE  Live' \subseteq Live
<1>1. Kind
  BY StepKind DEF Structure
<1>2. Free \subseteq Free' => Live' \subseteq Live
  BY DEF Live, Free
<1>3. CASE Quiet
  BY <1>2, <1>3, QuietPlaces DEF SamePlaces
<1>4. CASE \E k \in Key : Block(k)
  BY <1>2, <1>4, BlockPlaces
<1>5. CASE \E k \in Key : WakeUp(k)
  BY <1>2, <1>5, WakeUpPlaces DEF Woken
<1>6. ASSUME NEW priority \in Priorities, CreateProcess(priority)
      PROVE  FALSE
  <2>1. pc = "user" /\ currentPcb # NULL
    BY <1>6 DEF CreateProcess, SysCall, TypeOK
  <2>2. PICK p \in Free : p_parent' = [p_parent EXCEPT ![p] = currentPcb]
    BY <1>6, CreatePlaces
  <2>3. p \in Pcb /\ p \notin Live
    BY ListTypes DEF Live, Free
  <2>4. p_parent[p] = NULL
    BY <2>3, TreeFacts DEF Structure
  <2>5. p_parent'[p] = currentPcb
    BY <2>2, <2>3 DEF TypeOK
  <2> QED
    BY <2>1, <2>4, <2>5 DEF tree
<1>7. CASE \E pid \in pids \cup {NULL} : TerminateProcess(pid)
  BY <1>2, <1>7, TerminatePlaces DEF Woken
<1>8. CASE RemoveChild
  BY <1>2, <1>8, RemoveChildPlaces DEF SamePlaces
<1>9. CASE Release
  BY <1>2, <1>9, ReleaseStructure
<1>10. CASE \E aging \in BOOLEAN : Dispatch(aging)
  BY <1>2, <1>10, DispatchPlaces
<1>11. CASE PreemptRun
  BY <1>2, <1>11, PreemptPlaces
<1> QED
  BY <1>1, <1>3, <1>4, <1>5, <1>6, <1>7, <1>8, <1>9, <1>10, <1>11 DEF Kind

\* what FreshHandlers says of a step
Fresh ==
  \A p \in Live' :
    IF p \in Live
    THEN \/ handlers'[p] = handlers[p]
         \/ p = currentPcb /\ pc = "user" /\ handlers[p] \subseteq handlers'[p]
    ELSE handlers'[p] = {} /\ mode'[p] = mode[currentPcb]

\* a step that sets no handler and brings nobody to life
LEMMA FreshStutter ==
  ASSUME Live' \subseteq Live, UNCHANGED handlers
  PROVE  Fresh
  BY DEF Fresh

\* createprocess clears the handlers of the PCB that it takes, and of no other
LEMMA CreateFresh ==
  ASSUME TypeOK, Structure, TrapsType, NEW priority, CreateTrapFree(priority)
  PROVE  Fresh
<1> DEFINE p == AllocNode(p_next, pcbfree_h)
<1>1. /\ handlers' = [handlers EXCEPT ![p] = {}]
      /\ mode' = [mode EXCEPT ![p] = mode[currentPcb]]
      /\ CreateProcess(priority)
  BY DEF CreateTrapFree
<1>2. p \in Free /\ Free' = Free \ {p}
  BY <1>1, CreateStructure
<1>3. p \in Pcb /\ p \notin Live /\ Live' = Live \cup {p} /\ Live \subseteq Pcb
  BY <1>2, ListTypes DEF Live, Free
<1> HIDE DEF p
<1>4. /\ handlers'[p] = {} /\ mode'[p] = mode[currentPcb]
      /\ \A q \in Live : handlers'[q] = handlers[q]
  BY <1>1, <1>3 DEF TrapsType
<1> QED
  BY <1>3, <1>4 DEF Fresh

\* every step
LEMMA NextFresh ==
  ASSUME Careful, TypeOK, Structure, TrapsType, TrapsNext
  PROVE  Fresh
<1>1. ASSUME NEW type \in TrapKind, SpecHdl(type)
      PROVE  Fresh
  <2>1. /\ pc = "user" /\ Live' = Live
        /\ handlers' = [handlers EXCEPT ![currentPcb] = @ \cup {type}]
    BY <1>1 DEF SpecHdl, OtherCall, SysCall, CallFrame, Live
  <2>2. \A p \in Live : \/ handlers'[p] = handlers[p]
                        \/ p = currentPcb /\ handlers[p] \subseteq handlers'[p]
    BY <2>1 DEF TrapsType, Live
  <2> QED
    BY <2>1, <2>2 DEF Fresh
<1>2. CASE UNCHANGED trapVars /\ UntrappedCall
  <2>1. [Next]_vars /\ UNCHANGED tree
    BY <1>2, UntrappedTree DEF Next
  <2> QED
    BY <1>2, <2>1, NoneBorn, FreshStutter DEF trapVars
<1>3. CASE UNCHANGED <<vars, handlers>>
  <2>1. Live' = Live
    BY <1>3 DEF Live, vars
  <2> QED
    BY <1>3, <2>1, FreshStutter
<1>4. CASE /\ Handler \/ Interrupt \/ (\E d \in Device : DeviceDone(d)) \/ Stop
           /\ UNCHANGED trapVars
  <2>1. [Next]_vars
    BY <1>4 DEF Next
  <2>2. UNCHANGED tree \/ pc # "user"
    BY <1>4 DEF Handler, RemoveChild, Release, PseudoTick, Preempt, Scheduler, AgingLost,
                Resume, Dispatch, Idle, Interrupt, TimerInterrupt, DeviceInterrupt, DeviceDone,
                Stop, vars, CallFrame, SchedulerFrame
  <2> QED
    BY <1>4, <2>1, <2>2, NoneBorn, FreshStutter DEF trapVars
<1> QED
  BY <1>1, <1>2, <1>3, <1>4, CreateFresh, TrapStepKind DEF TrapsNext

(* FreshHandlers holds of every step: a PCB that is used again brings no   *)
(* handler of its earlier life with it, and no process sets another's, for *)
(* every number of processes and every program that terminates only        *)
(* processes that do not wait.                                             *)
THEOREM FreshHandlersCorrect ==
  ASSUME Careful
  PROVE  TrapsSpec => FreshHandlers
<1>1. TrapsInit => TrapsType
  BY DEF TrapsInit, TrapsType
<1>2. TypeOK /\ Structure /\ TrapsType /\ [TrapsNext]_<<vars, trapVars>> => TrapsType'
  BY NextTrapsType
<1>3. TypeOK /\ Structure /\ TrapsType /\ [TrapsNext]_<<vars, trapVars>>
      => [Fresh]_<<vars, trapVars>>
  BY NextFresh
<1>4. FreshHandlers <=> [][Fresh]_<<vars, trapVars>>
  BY DEF FreshHandlers, Fresh
<1> QED
  BY <1>1, <1>2, <1>3, <1>4, TrapsImplementKernel, TypeCorrect, StructureCorrect, PTL
     DEF TrapsSpec

-----------------------------------------------------------------------------
(***************************************************************************)
(* Programs that serialize their requests by mutexes.                      *)
(***************************************************************************)
\* what MutualExclusion says of one mutex, and that its value is 0 or 1
Binary(k) ==
  /\ \A p, q \in Holders(k) : p = q
  /\ semval[k] > 0 => Holders(k) = {}
  /\ semval[k] <= 1

\* the process whose command a device executes waits for it, with the mutex
RequesterWaits ==
  \A d \in Device :
    dev[d] \in {"busy", "pending"} =>
      \E p \in Queue(GetDeviceNi(DevReg(d, 1))) : Mutex[d] \in asked[p]

(* The inductive invariant: MutualExclusion says nothing of devices, and   *)
(* Serialized nothing of processes that do not run.                        *)
PrintingInv ==
  /\ asked \in [Pcb -> SUBSET Mutexes]
  /\ \A k \in Mutexes : Binary(k)
  /\ RequesterWaits

\* the semaphore of k is left alone
Kept(k) == Queue(k)' = Queue(k) /\ semval'[k] = semval[k]

\* a mutex is a semaphore of programs, and none of the kernel's
LEMMA MutexFacts ==
  /\ Mutexes \subseteq UserSem /\ Mutexes \subseteq Key
  /\ \A d \in Device : Mutex[d] \in Mutexes
  /\ \A k \in Mutexes : k # timerSem /\ k # childSem
  BY MutexAssumption DEF Mutexes, Key

\* a device's semaphore is another than those of the other devices and of programs
LEMMA DeviceSemaphores ==
  ASSUME NEW d \in Device
  PROVE  LET i == GetDeviceNi(DevReg(d, 1))
         IN  /\ i \in DevSem /\ i \in Key /\ i \notin Mutexes /\ i # timerSem /\ i # childSem
             /\ \A e \in Device : i = GetDeviceNi(DevReg(e, 1)) \/ i = e => d = e
<1>1. \A e \in Device : e \in 0..(NDEV - 1)
                        /\ GetDeviceNi(DevReg(e, 1)) = IF e = NDEV - 1 THEN NDEV ELSE e
  BY DeviceSemaphore
<1>2. GetDeviceNi(DevReg(d, 1)) \in DevSem
  BY <1>1 DEF DevSem
<1>3. \A e \in Device : GetDeviceNi(DevReg(d, 1)) = GetDeviceNi(DevReg(e, 1))
                        \/ GetDeviceNi(DevReg(d, 1)) = e => d = e
  BY <1>1
<1> HIDE DEF GetDeviceNi
<1> QED
  BY <1>2, <1>3, MutexFacts DEF Key

\* who makes a system call with the mutex of a device finds it idle
LEMMA SerializedIs ==
  ASSUME TypeOK, Structure, PrintingInv
  PROVE  Serialized
<1> SUFFICES ASSUME NEW d \in Device, SysCall, Mutex[d] \in asked[currentPcb]
             PROVE  dev[d] = "idle"
  BY DEF Serialized
<1>1. currentPcb \in Pcb /\ dev[d] \in {"idle", "busy"}
  BY DEF SysCall, TypeOK, Link, Raised, DevState
<1>2. CASE dev[d] = "busy"
  <2> DEFINE i == GetDeviceNi(DevReg(d, 1))
             k == Mutex[d]
  <2>1. PICK p \in Queue(i) : k \in asked[p]
    BY <1>2 DEF PrintingInv, RequesterWaits
  <2>2. i \in Key /\ k \in Key /\ k \in Mutexes /\ i # k
    BY DeviceSemaphores, MutexFacts
  <2> HIDE DEF i
  <2>3. p \in Pcb /\ p # currentPcb /\ p \notin Queue(k) /\ currentPcb \notin Queue(k)
    BY <2>1, <2>2, ListTypes DEF Structure, ListsApart
  <2>4. p \in Holders(k) /\ currentPcb \in Holders(k)
    BY <1>1, <2>1, <2>3 DEF Holders
  <2>5. Binary(k)
    BY <2>2 DEF PrintingInv
  <2> QED
    BY <2>3, <2>4, <2>5 DEF Binary
<1> QED
  BY <1>1, <1>2

\* semp and semv leave all semaphores but their own alone
LEMMA SemPElsewhere ==
  ASSUME TypeOK, Structure, Careful, NEW j \in Key, SysCall, SemP(j),
         UNCHANGED <<readyQueue, start_priority, CallFrame>>, NEW k \in Key, k # j
  PROVE  Kept(k)
<1>1. semval'[k] = semval[k]
  BY DEF SemP, TypeOK
<1>2. Quiet \/ Block(j)
  BY SemPKind
<1>3. CASE Quiet
  BY <1>1, <1>3, QuietPlaces DEF SamePlaces, Kept
<1>4. CASE Block(j)
  BY <1>1, <1>4, BlockPlaces DEF Kept
<1> QED
  BY <1>2, <1>3, <1>4

\* a V leaves the semaphores with other keys alone (semv)
LEMMA SemVElsewhere ==
  ASSUME TypeOK, Structure, NEW j \in Key, NEW next \in {"scheduler", "pseudoTick"},
         SemV(j, next), pc # "liberaTutti",
         UNCHANGED <<start_priority, last_priority, currentPcb, CallFrame>>,
         NEW k \in Key, k # j
  PROVE  Kept(k)
<1>1. semval'[k] = semval[k]
  BY DEF SemV, TypeOK
<1>2. Quiet \/ WakeUp(j)
  BY SemVKind
<1>3. CASE Quiet
  BY <1>1, <1>3, QuietPlaces DEF SamePlaces, Kept
<1>4. CASE WakeUp(j)
  BY <1>1, <1>4, WakeUpPlaces DEF Woken, Kept
<1> QED
  BY <1>2, <1>3, <1>4

\* what changes neither links, queues nor values
LEMMA StillKept ==
  ASSUME UNCHANGED <<p_next, s_procQ, semval>>, NEW k \in Key
  PROVE  Kept(k)
  BY DEF Kept, Queue

\* the rest of the nucleus leaves the mutexes alone, and every semaphore of a
\* device but that of the interrupt it serves
LEMMA AsideKeeps ==
  ASSUME Careful, TypeOK, Structure, Aside, NEW k \in Key, k # timerSem, k # childSem,
         \A d \in Device : DeviceInterrupt(d) => k # d
  PROVE  Kept(k)
<1>1. CASE CreateFails \/ OtherCall
  <2>1. UNCHANGED <<p_next, s_procQ, semval>>
    BY <1>1 DEF CreateFails, OtherCall, sems
  <2> QED
    BY <2>1, StillKept
<1>2. ASSUME NEW pid \in pids \cup {NULL}, TerminateProcess(pid)
      PROVE  Kept(k)
  <2>1. Queue(k)' = Queue(k)
    BY <1>2, TerminatePlaces DEF Woken
  <2>2. semval' = semval
    BY <1>2 DEF TerminateProcess, SemV, sems
  <2> QED
    BY <2>1, <2>2 DEF Kept
<1>3. CASE WaitClock
  BY <1>3, SemPElsewhere, KeyFacts DEF WaitClock
<1>4. CASE WaitChild
  <2>1. CASE SemP(childSem)
    BY <1>4, <2>1, SemPElsewhere, KeyFacts DEF WaitChild
  <2>2. CASE UNCHANGED <<p_next, s_procQ, semval>>
    BY <2>2, StillKept
  <2> QED
    BY <1>4, <2>1, <2>2 DEF WaitChild
<1>5. CASE RemoveChild \/ Scheduler
  <2>1. UNCHANGED <<p_next, s_procQ, semval>>
    BY <1>5 DEF RemoveChild, Scheduler, AgingLost, Resume, Dispatch, Idle, SchedulerFrame, sems
  <2> QED
    BY <2>1, StillKept
<1>6. CASE Release
  BY <1>6, ReleaseStructure DEF Release, sems, Kept
<1>7. CASE PseudoTick
  <2>1. CASE s_procQ[timerSem] # NULL
    <3>1. SemV(timerSem, "pseudoTick") /\ pc # "liberaTutti"
          /\ UNCHANGED <<start_priority, last_priority, currentPcb, CallFrame>>
      BY <1>7, <2>1 DEF PseudoTick
    <3> QED
      BY <3>1, SemVElsewhere, KeyFacts
  <2>2. CASE s_procQ[timerSem] = NULL
    <3>1. UNCHANGED <<p_next, s_procQ, semval>>
      BY <1>7, <2>2 DEF PseudoTick, sems
    <3> QED
      BY <3>1, StillKept
  <2> QED
    BY <2>1, <2>2
<1>8. CASE Preempt
  <2>1. UNCHANGED <<s_procQ, semval>>
    BY <1>8 DEF Preempt, sems
  <2>2. CASE currentPcb # NULL
    BY <1>8, <2>1, <2>2, PreemptPlaces DEF PreemptRun, Kept
  <2>3. CASE currentPcb = NULL
    BY <1>8, <2>1, <2>3, StillKept DEF Preempt
  <2> QED
    BY <2>2, <2>3
<1>9. CASE (\E tick \in BOOLEAN : TimerInterrupt(tick)) \/ (\E d \in Device : DeviceDone(d))
  <2>1. UNCHANGED <<p_next, s_procQ, semval>>
    BY <1>9 DEF TimerInterrupt, DeviceDone, SchedulerFrame, sems
  <2> QED
    BY <2>1, StillKept
<1>10. ASSUME NEW d \in Device, DeviceInterrupt(d)
       PROVE  Kept(k)
  <2>1. CASE s_procQ[d] # NULL
    <3>1. SemV(d, "scheduler") /\ pc # "liberaTutti"
          /\ UNCHANGED <<start_priority, last_priority, currentPcb, CallFrame>>
      BY <1>10, <2>1 DEF DeviceInterrupt
    <3> QED
      BY <1>10, <3>1, SemVElsewhere, KeyFacts
  <2>2. CASE s_procQ[d] = NULL
    <3>1. UNCHANGED <<p_next, s_procQ, semval>>
      BY <1>10, <2>2 DEF DeviceInterrupt, sems
    <3> QED
      BY <3>1, StillKept
  <2> QED
    BY <2>1, <2>2
<1>11. CASE Stop
  <2>1. UNCHANGED <<p_next, s_procQ, semval>>
    BY <1>11 DEF Stop, vars, sems
  <2> QED
    BY <2>1, StillKept
<1> QED
  BY <1>1, <1>2, <1>3, <1>4, <1>5, <1>6, <1>7, <1>8, <1>9, <1>10, <1>11
     DEF Aside, Handler, Interrupt

\* a mutex whose value stays and that nobody gets
LEMMA BinaryKept ==
  ASSUME NEW k, Binary(k), semval'[k] = semval[k], Holders(k)' \subseteq Holders(k)
  PROVE  Binary(k)'
  BY DEF Binary

\* the commands of devices that go on, for whoever waits for them
LEMMA WaitsOn ==
  ASSUME RequesterWaits,
         \A d \in Device : dev'[d] \in {"busy", "pending"} =>
           /\ dev[d] \in {"busy", "pending"}
           /\ \A p \in Queue(GetDeviceNi(DevReg(d, 1))) :
                p \in Queue(GetDeviceNi(DevReg(d, 1)))' /\ asked'[p] = asked[p]
  PROVE  RequesterWaits'
  BY DEF RequesterWaits

\* P on a user's semaphore
LEMMA AskForKeeps ==
  ASSUME Careful, TypeOK, SemaphoresSound, Structure, PrintingInv, NEW k \in UserSem, AskFor(k)
  PROVE  Next /\ PrintingInv'
<1> DEFINE c == currentPcb
<1>1. /\ SemPCall(k) /\ SysCall /\ SemP(k) /\ k \in Key
      /\ UNCHANGED <<readyQueue, start_priority, dev, CallFrame>>
      /\ asked' = [asked EXCEPT ![c] = @ \cup ({k} \cap Mutexes)]
      /\ asked \in [Pcb -> SUBSET Mutexes]
  BY KeyFacts DEF AskFor, SemPCall, PrintingInv
<1>2. c \in Pcb /\ \A j \in Key : c \notin Queue(j) /\ Queue(j) \subseteq Pcb
  BY <1>1, ListTypes DEF SysCall, TypeOK, Link, Structure, ListsApart
<1>3. \A j \in Key : j # k => Kept(j)
  BY <1>1, SemPElsewhere
<1>4. /\ asked' \in [Pcb -> SUBSET Mutexes]
      /\ \A p \in Pcb \ {c} : asked'[p] = asked[p]
      /\ \A j \in Mutexes : j # k => (j \in asked'[c] <=> j \in asked[c])
  BY <1>1, <1>2
<1>5. \A j \in Key : Queue(j) \subseteq Queue(j)'
  <2>1. Quiet \/ Block(k)
    BY <1>1, SemPKind
  <2>2. CASE Quiet
    BY <2>2, QuietPlaces DEF SamePlaces
  <2>3. CASE Block(k)
    BY <1>1, <2>3, BlockPlaces
  <2> QED
    BY <2>1, <2>2, <2>3
<1>6. RequesterWaits'
  <2>1. \A d \in Device : GetDeviceNi(DevReg(d, 1)) \in Key
    BY DeviceSemaphores
  <2>2. \A d \in Device : \A p \in Queue(GetDeviceNi(DevReg(d, 1))) :
          p \in Queue(GetDeviceNi(DevReg(d, 1)))' /\ asked'[p] = asked[p]
    BY <1>2, <1>4, <1>5, <2>1
  <2> QED
    BY <1>1, <2>2, WaitsOn DEF PrintingInv
<1>7. ASSUME NEW j \in Mutexes, j # k
      PROVE  Binary(j)'
  <2>1. Kept(j) /\ Binary(j)
    BY <1>3, <1>7, MutexFacts DEF PrintingInv
  <2>2. Holders(j)' \subseteq Holders(j)
    BY <1>4, <1>7, <2>1 DEF Holders, Kept
  <2> QED
    BY <2>1, <2>2, BinaryKept DEF Kept
<1>8. ASSUME k \in Mutexes
      PROVE  Binary(k)'
  <2>1. Binary(k)
    BY <1>8 DEF PrintingInv
  <2>2. CASE semval[k] <= 0
    <3>1. Block(k) /\ semval[k] = 0 /\ semval' = semval
      <4>1. semval[k] = 0
        BY <1>1, <2>2 DEF SemaphoresSound, TypeOK
      <4> QED
        BY <1>1, <4>1 DEF SemP, Block
    <3>2. Queue(k)' = Queue(k) \cup {c}
      BY <1>1, <3>1, BlockPlaces
    <3>3. Holders(k)' \subseteq Holders(k)
      BY <1>4, <3>2 DEF Holders
    <3> QED
      BY <2>1, <3>1, <3>3, BinaryKept
  <2>3. CASE semval[k] > 0
    <3>1. /\ semval[k] \in Int /\ semval'[k] = semval[k] - 1
          /\ UNCHANGED <<p_next, s_procQ>>
      BY <1>1, <2>3 DEF SemP, TypeOK
    <3>2. semval'[k] = 0 /\ Holders(k) = {}
      BY <2>1, <2>3, <3>1 DEF Binary
    <3>3. Queue(k)' = Queue(k)
      BY <3>1 DEF Queue
    <3>4. Holders(k)' \subseteq {c}
      BY <1>4, <3>2, <3>3 DEF Holders
    <3> QED
      BY <3>2, <3>4 DEF Binary
  <2> QED
    BY <1>1, <2>2, <2>3 DEF TypeOK
<1> QED
  BY <1>1, <1>4, <1>6, <1>7, <1>8 DEF PrintingInv, Next, SystemCall

\* V by whoever has the mutex
LEMMA GiveBackKeeps ==
  ASSUME Careful, TypeOK, SemaphoresSound, Structure, PrintingInv, NEW k \in UserSem,
         k \in Mutexes => k \in asked[currentPcb], GiveBack(k)
  PROVE  Next /\ PrintingInv'
<1> DEFINE c == currentPcb
<1>1. /\ SemVCall(k) /\ SysCall /\ SemV(k, "scheduler") /\ k \in Key
      /\ UNCHANGED <<start_priority, last_priority, currentPcb, dev, CallFrame>>
      /\ asked' = [asked EXCEPT ![c] = @ \ {k}]
      /\ asked \in [Pcb -> SUBSET Mutexes] /\ pc # "liberaTutti"
  BY KeyFacts DEF GiveBack, SemVCall, PrintingInv, SysCall
<1>2. c \in Pcb /\ \A j \in Key : c \notin Queue(j) /\ Queue(j) \subseteq Pcb
  BY <1>1, ListTypes DEF SysCall, TypeOK, Link, Structure, ListsApart
<1>3. \A j \in Key : j # k => Kept(j)
  BY <1>1, SemVElsewhere
<1>4. /\ asked' \in [Pcb -> SUBSET Mutexes]
      /\ \A p \in Pcb \ {c} : asked'[p] = asked[p]
      /\ asked'[c] = asked[c] \ {k}
  BY <1>1, <1>2
<1>5. RequesterWaits'
  <2>1. \A d \in Device : GetDeviceNi(DevReg(d, 1)) \in Key /\ GetDeviceNi(DevReg(d, 1)) # k
    <3>1. k \notin DevSem
      BY KernelAssumption
    <3> QED
      BY <3>1, DeviceSemaphores
  <2>2. \A d \in Device : \A p \in Queue(GetDeviceNi(DevReg(d, 1))) :
          p \in Queue(GetDeviceNi(DevReg(d, 1)))' /\ asked'[p] = asked[p]
    BY <1>2, <1>3, <1>4, <2>1 DEF Kept
  <2> QED
    BY <1>1, <2>2, WaitsOn DEF PrintingInv
<1>6. ASSUME NEW j \in Mutexes, j # k
      PROVE  Binary(j)'
  <2>1. Kept(j) /\ Binary(j)
    BY <1>3, <1>6, MutexFacts DEF PrintingInv
  <2>2. Holders(j)' \subseteq Holders(j)
    BY <1>4, <1>6, <2>1 DEF Holders, Kept
  <2> QED
    BY <2>1, <2>2, BinaryKept DEF Kept
<1>7. ASSUME k \in Mutexes
      PROVE  Binary(k)'
  <2>1. Binary(k) /\ c \in Holders(k)
    BY <1>2, <1>7, <1>1 DEF PrintingInv, Holders
  <2>2. semval[k] = 0 /\ Holders(k) = {c}
    BY <1>1, <2>1 DEF Binary, SemaphoresSound, TypeOK
  <2>3. CASE s_procQ[k] # NULL
    <3>1. WakeUp(k) /\ semval' = semval
      BY <1>1, <2>3 DEF WakeUp, SemV
    <3>2. Queue(k)' = Queue(k) \ {s_procQ[k]}
      BY <1>1, <3>1, WakeUpPlaces DEF Woken
    <3>3. Holders(k)' \subseteq {s_procQ[k]}
      BY <1>4, <2>2, <3>2 DEF Holders
    <3> QED
      BY <2>2, <3>1, <3>3 DEF Binary
  <2>4. CASE s_procQ[k] = NULL
    <3>1. semval'[k] = 1 /\ UNCHANGED <<p_next, s_procQ>>
      BY <1>1, <2>2, <2>4 DEF SemV, TypeOK
    <3>2. Queue(k)' = Queue(k)
      BY <3>1 DEF Queue
    <3>3. Holders(k)' = {}
      BY <1>4, <2>2, <3>2 DEF Holders
    <3> QED
      BY <3>1, <3>3 DEF Binary
  <2> QED
    BY <2>3, <2>4
<1> QED
  BY <1>1, <1>4, <1>5, <1>6, <1>7 DEF PrintingInv, Next, SystemCall

\* a request, to a device that is idle
LEMMA CommandKeeps ==
  ASSUME Careful, TypeOK, SemaphoresSound, Structure, PrintingInv, NEW d \in Device,
         Mutex[d] \in asked[currentPcb], Command(d)
  PROVE  Next /\ PrintingInv'
<1> DEFINE c == currentPcb
           i == GetDeviceNi(DevReg(d, 1))
<1>1. /\ SysCall /\ SemP(i) /\ dev' = [dev EXCEPT ![d] = "busy"]
      /\ UNCHANGED <<readyQueue, start_priority, CallFrame, asked>>
  BY DEF Command
<1>2. dev[d] = "idle"
  BY <1>1, SerializedIs DEF Serialized
<1>3. IoDevOp(d)
  BY <1>1, <1>2 DEF IoDevOp
<1>4. i \in DevSem /\ i \in Key /\ i \notin Mutexes
  BY DeviceSemaphores
<1> HIDE DEF i
<1>5. \A k \in Key : k # i => Kept(k)
  BY <1>1, <1>4, SemPElsewhere
<1>6. Queue(i)' = Queue(i) \cup {c}
  <2>1. i \notin UserSem
    BY <1>4, KernelAssumption
  <2>2. semval[i] = 0
    BY <1>4, <2>1 DEF SemaphoresSound
  <2>3. Block(i)
    BY <1>1, <1>4, <2>2 DEF Block
  <2> QED
    BY <1>4, <2>3, BlockPlaces
<1>7. \A k \in Mutexes : Binary(k)'
  <2> SUFFICES ASSUME NEW k \in Mutexes
               PROVE  Binary(k)'
    OBVIOUS
  <2>1. Kept(k) /\ Binary(k)
    BY <1>4, <1>5, MutexFacts DEF PrintingInv
  <2>2. Holders(k)' = Holders(k)
    BY <1>1, <2>1 DEF Holders, Kept
  <2> QED
    BY <2>1, <2>2, BinaryKept DEF Kept
<1>8. RequesterWaits'
  <2>1. ASSUME NEW e \in Device, dev'[e] \in {"busy", "pending"}
        PROVE  \E p \in Queue(GetDeviceNi(DevReg(e, 1)))' : Mutex[e] \in asked'[p]
    <3>1. CASE e = d
      BY <1>1, <1>6, <3>1 DEF i
    <3>2. CASE e # d
      <4>1. dev[e] \in {"busy", "pending"}
        BY <1>1, <2>1, <3>2 DEF TypeOK
      <4>2. Queue(GetDeviceNi(DevReg(e, 1)))' = Queue(GetDeviceNi(DevReg(e, 1)))
        BY <1>5, <3>2, DeviceSemaphores DEF i, Kept
      <4> QED
        BY <1>1, <4>1, <4>2 DEF PrintingInv, RequesterWaits
    <3> QED
      BY <3>1, <3>2
  <2> QED
    BY <2>1 DEF RequesterWaits
<1> QED
  BY <1>1, <1>3, <1>7, <1>8 DEF PrintingInv, Next, SystemCall

\* a PCB that is used again waits for nothing and holds nothing
LEMMA SpawnKeeps ==
  ASSUME TypeOK, Structure, PrintingInv, NEW priority \in Priorities, Spawn(priority)
  PROVE  Next /\ PrintingInv'
<1> DEFINE b == AllocNode(p_next, pcbfree_h)
<1>1. /\ CreateProcess(priority) /\ asked' = [asked EXCEPT ![b] = {}]
      /\ asked \in [Pcb -> SUBSET Mutexes]
  BY DEF Spawn, PrintingInv
<1>2. b \in Free /\ \A k \in Key : Queue(k)' = Queue(k)
  BY <1>1, CreateStructure
<1>3. /\ dev' = dev /\ \A k \in Key : k # childSem => semval'[k] = semval[k]
  BY <1>1 DEF CreateProcess, TypeOK
<1> HIDE DEF b
<1>4. b \in Pcb /\ \A k \in Key : b \notin Queue(k) /\ Queue(k) \subseteq Pcb
  BY <1>2, ListTypes DEF Structure, ListsApart
<1>5. /\ asked' \in [Pcb -> SUBSET Mutexes] /\ asked'[b] = {}
      /\ \A p \in Pcb \ {b} : asked'[p] = asked[p]
  BY <1>1, <1>4
<1>6. ASSUME NEW k \in Mutexes
      PROVE  Binary(k)'
  <2>1. semval'[k] = semval[k] /\ Queue(k)' = Queue(k) /\ Binary(k)
    BY <1>2, <1>3, MutexFacts DEF PrintingInv
  <2>2. Holders(k)' \subseteq Holders(k)
    BY <1>5, <2>1 DEF Holders
  <2> QED
    BY <2>1, <2>2, BinaryKept
<1>7. RequesterWaits'
  <2>1. \A d \in Device : GetDeviceNi(DevReg(d, 1)) \in Key
    BY DeviceSemaphores
  <2>2. \A d \in Device : \A p \in Queue(GetDeviceNi(DevReg(d, 1))) :
          p \in Queue(GetDeviceNi(DevReg(d, 1)))' /\ asked'[p] = asked[p]
    BY <1>2, <1>4, <1>5, <2>1
  <2> QED
    BY <1>3, <2>2, WaitsOn DEF PrintingInv
<1> QED
  BY <1>1, <1>5, <1>6, <1>7 DEF PrintingInv, Next, SystemCall

\* everything else: an interrupt that wakes the process it is for, above all
LEMMA AsidePrinting ==
  ASSUME Careful, TypeOK, Structure, PrintingInv, Aside, UNCHANGED asked
  PROVE  Next /\ PrintingInv'
<1>1. Next
  BY DEF Aside, Next, SystemCall
<1>2. \A k \in Mutexes : Binary(k)'
  <2> SUFFICES ASSUME NEW k \in Mutexes
               PROVE  Binary(k)'
    OBVIOUS
  <2>1. \A d \in Device : k # d
    BY MutexFacts, KernelAssumption DEF DevSem
  <2>2. Kept(k) /\ Binary(k)
    BY <2>1, AsideKeeps, MutexFacts DEF PrintingInv
  <2>3. Holders(k)' = Holders(k)
    BY <2>2 DEF Holders, Kept
  <2> QED
    BY <2>2, <2>3, BinaryKept DEF Kept
<1>3. \A d \in Device : dev'[d] \in {"busy", "pending"} =>
        dev[d] \in {"busy", "pending"} /\ Kept(GetDeviceNi(DevReg(d, 1)))
  <2> SUFFICES ASSUME NEW d \in Device, dev'[d] \in {"busy", "pending"}
               PROVE  dev[d] \in {"busy", "pending"} /\ Kept(GetDeviceNi(DevReg(d, 1)))
    OBVIOUS
  <2> DEFINE i == GetDeviceNi(DevReg(d, 1))
  <2>1. i \in Key /\ i # timerSem /\ i # childSem /\ \A e \in Device : i = e => d = e
    BY DeviceSemaphores
  <2> HIDE DEF i
  <2>2. CASE \E e \in Device : DeviceInterrupt(e) /\ s_procQ[e] = NULL
    <3>1. UNCHANGED <<p_next, s_procQ, semval, dev>>
      BY <2>2 DEF DeviceInterrupt, sems
    <3>2. Kept(i)
      BY <2>1, <3>1, StillKept
    <3> QED
      BY <3>1, <3>2 DEF i
  <2>3. CASE \A e \in Device : DeviceInterrupt(e) => s_procQ[e] # NULL
    <3>1. ASSUME NEW e \in Device, DeviceInterrupt(e)
          PROVE  e # d /\ dev'[d] = dev[d]
      <4>1. dev[e] \in {"pending", "failed"} /\ dev' = IF dev[e] = "failed" THEN dev
                                                       ELSE [dev EXCEPT ![e] = "idle"]
        BY <2>3, <3>1 DEF DeviceInterrupt, Raised
      <4> QED
        BY <4>1 DEF TypeOK
    <3>2. Kept(i)
      BY <2>1, <3>1, AsideKeeps
    <3>3. ASSUME NEW e \in Device, DeviceDone(e)
          PROVE  dev[d] \in {"busy", "pending"}
      BY <3>3 DEF DeviceDone, TypeOK
    <3>4. dev' = dev => dev[d] \in {"busy", "pending"}
      OBVIOUS
    <3>5. ASSUME ~(\E e \in Device : DeviceInterrupt(e) \/ DeviceDone(e))
          PROVE  UNCHANGED dev
      BY <3>5 DEF Aside, CreateFails, TerminateProcess, WaitClock, WaitChild, OtherCall, Handler,
                  RemoveChild, Release, PseudoTick, Preempt, Scheduler, AgingLost, Resume, Dispatch,
                  Idle, Interrupt, TimerInterrupt, Stop, vars, SchedulerFrame
    <3>6. dev[d] \in {"busy", "pending"}
      BY <3>1, <3>3, <3>4, <3>5
    <3> QED
      BY <3>2, <3>6 DEF i
  <2> QED
    BY <2>2, <2>3
<1>4. RequesterWaits'
  <2>1. \A d \in Device : dev'[d] \in {"busy", "pending"} =>
           /\ dev[d] \in {"busy", "pending"}
           /\ \A p \in Queue(GetDeviceNi(DevReg(d, 1))) :
                p \in Queue(GetDeviceNi(DevReg(d, 1)))' /\ asked'[p] = asked[p]
    BY <1>3 DEF Kept
  <2> QED
    BY <2>1, WaitsOn DEF PrintingInv
<1> QED
  BY <1>1, <1>2, <1>4 DEF PrintingInv

\* every step is one of Kernel, and keeps the mutexes right
LEMMA NextPrinting ==
  ASSUME Careful, TypeOK, SemaphoresSound, Structure, PrintingInv, [PrintingNext]_printing
  PROVE  [Next]_vars /\ PrintingInv'
<1>1. CASE Call
  <2>1. ASSUME NEW k \in UserSem, AskFor(k)
        PROVE  Next /\ PrintingInv'
    BY <2>1, AskForKeeps
  <2>2. ASSUME NEW k \in UserSem, k \in Mutexes => k \in asked[currentPcb], GiveBack(k)
        PROVE  Next /\ PrintingInv'
    BY <2>2, GiveBackKeeps
  <2>3. ASSUME NEW d \in Device, Mutex[d] \in asked[currentPcb], Command(d)
        PROVE  Next /\ PrintingInv'
    BY <2>3, CommandKeeps
  <2>4. ASSUME NEW priority \in Priorities, Spawn(priority)
        PROVE  Next /\ PrintingInv'
    BY <2>4, SpawnKeeps
  <2> QED
    BY <1>1, <2>1, <2>2, <2>3, <2>4 DEF Call
<1>2. CASE Aside /\ UNCHANGED asked
  BY <1>2, AsidePrinting
<1>3. CASE UNCHANGED printing
  <2>1. UNCHANGED <<p_next, s_procQ, semval, dev, asked>> /\ UNCHANGED vars
    BY <1>3 DEF printing, vars, sems
  <2>2. \A k : Queue(k)' = Queue(k)
    BY <2>1 DEF Queue
  <2>3. \A k \in Mutexes : Binary(k)'
    BY <2>1, <2>2 DEF PrintingInv, Binary, Holders
  <2>4. RequesterWaits'
    BY <2>1, <2>2 DEF PrintingInv, RequesterWaits
  <2> QED
    BY <2>1, <2>3, <2>4 DEF PrintingInv
<1> QED
  BY <1>1, <1>2, <1>3 DEF PrintingNext

\* at first nobody has asked for a mutex and all are 1 (PrintingInit)
LEMMA InitPrinting == PrintingInit => PrintingInv
<1> SUFFICES ASSUME PrintingInit
             PROVE  PrintingInv
  OBVIOUS
<1>1. Init /\ asked = [p \in Pcb |-> {}] /\ \A k \in Mutexes : semval[k] = 1
  BY DEF PrintingInit
<1>2. \A k \in Mutexes : Holders(k) = {}
  BY <1>1 DEF Holders
<1>3. RequesterWaits
  BY <1>1 DEF RequesterWaits, Init
<1> QED
  BY <1>1, <1>2, <1>3 DEF PrintingInv, Binary

\* the invariants of Kernel, which hold before it is known that its steps are taken
LEMMA PrintingInductive ==
  ASSUME Careful
  PROVE  PrintingSpec => [](TypeOK /\ SemaphoresSound /\ Structure /\ PrintingInv)
<1>1. PrintingInit => TypeOK /\ SemaphoresSound /\ Structure /\ PrintingInv
  <2>1. Init => SemaphoresSound
    BY DEF Init, SemaphoresSound, TypeOK
  <2> QED
    BY <2>1, InitType, InitStructure, InitPrinting DEF PrintingInit
<1>2. TypeOK /\ SemaphoresSound /\ Structure /\ PrintingInv /\ [PrintingNext]_printing
      => (TypeOK /\ SemaphoresSound /\ Structure /\ PrintingInv)'
  BY NextPrinting, NextType, NextSound, NextStructure
<1> QED
  BY <1>1, <1>2, PTL DEF PrintingSpec

(* Programs that use devices as print() does never make a request to a     *)
(* device that is at work: what they do on the nucleus is a behaviour of   *)
(* Kernel, whose IoDevOp takes that for granted.                           *)
THEOREM PrintingImplementsKernel ==
  ASSUME Careful
  PROVE  PrintingSpec => Spec
<1>1. PrintingInit => Init
  BY DEF PrintingInit
<1>2. TypeOK /\ SemaphoresSound /\ Structure /\ PrintingInv /\ [PrintingNext]_printing
      => [Next]_vars
  BY NextPrinting
<1> QED
  BY <1>1, <1>2, PrintingInductive, PTL DEF PrintingSpec, Spec

(* MutualExclusion holds: one process at a time is between the P and the V *)
(* of a mutex, for every number of processes, mutexes and devices.         *)
THEOREM MutualExclusionCorrect ==
  ASSUME Careful
  PROVE  PrintingSpec => []MutualExclusion
<1>1. PrintingInv => MutualExclusion
  BY DEF PrintingInv, Binary, MutualExclusion
<1> QED
  BY <1>1, PrintingInductive, PTL

(* Serialized holds: the mutex that print() uses is enough for a device to *)
(* be idle whenever a command is given to it, though a device is used      *)
(* across system calls, preemptions and interrupts.                        *)
THEOREM SerializedCorrect ==
  ASSUME Careful
  PROVE  PrintingSpec => []Serialized
<1>1. TypeOK /\ Structure /\ PrintingInv => Serialized
  BY SerializedIs
<1> QED
  BY <1>1, PrintingInductive, PTL

-----------------------------------------------------------------------------
(* TerminatedNeverRuns holds, if no process is terminated while it waits:  *)
(* that is all that keeps a freed PCB from being dispatched, whatever else *)
(* programs terminate and in whatever order PCBs are used again.           *)
THEOREM TerminatedNeverRunsCorrect ==
  ASSUME Careful
  PROVE  Spec => []TerminatedNeverRuns
<1>1. TypeOK /\ Structure => TerminatedNeverRuns
  BY CurrentLive DEF TypeOK, Structure, TerminatedNeverRuns
<1> QED
  BY <1>1, TypeCorrect, StructureCorrect, PTL

(* Supported holds: what liberaTutti is about to terminate is alive and     *)
(* waits for nothing, at most one live process is without a parent, every  *)
(* request has its waiter until it is acknowledged, and the machine waits  *)
(* only with nothing to run.                                               *)
THEOREM SupportedCorrect ==
  ASSUME Careful, Width
  PROVE  Spec => []Supported
<1>1. Structure /\ OneRoot /\ RequestQueued /\ IdleSound => Supported
  BY DEF Structure, Supported
<1> QED
  BY <1>1, StructureCorrect, OneRootCorrect, RequestsCorrect, PTL

(* Inductive holds: the conjunction of all that the proofs of the kernel's *)
(* safety properties rest on.                                              *)
THEOREM InductiveCorrect ==
  ASSUME Careful, Width
  PROVE  Spec => []Inductive
<1>1. /\ TypeOK /\ SemaphoresSound /\ Structure /\ Supported /\ ActiveCounts
      /\ SoftblockCounts /\ ReadySorted /\ PriorityKept
      => Inductive
  BY DEF Inductive, Structure
<1> QED
  BY <1>1, TypeCorrect, SemaphoresCorrect, StructureCorrect, SupportedCorrect,
     ActiveCountsCorrect, SoftblockCountsCorrect, ReadySortedCorrect, PriorityKeptCorrect,
     PTL

=============================================================================
