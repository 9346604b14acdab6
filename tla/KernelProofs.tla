---------------------------- MODULE KernelProofs ----------------------------
(***************************************************************************)
(* Theorems about the nucleus, for every number of PCBs and every set of   *)
(* devices and semaphores.  First what no program can break; then, for     *)
(* programs that terminate no process which waits, that part of the        *)
(* invariant of KernelInvariant which is about links: what each step does  *)
(* to the lists that share p_next, to the tree and to what is being        *)
(* terminated.                                                             *)
(***************************************************************************)
EXTENDS KernelInvariant, PcbListTheorems, SequenceTheorems

USE MaxprocAssumption, KernelAssumption

-----------------------------------------------------------------------------
(* Counters wrap within an unsigned int.                                   *)
LEMMA ModRange ==
  ASSUME NEW a \in Int, NEW n \in Nat \ {0}
  PROVE  a % n \in 0..(n - 1)
  OBVIOUS

\* what is computed modulo UINT is a counter
LEMMA CounterRange ==
  ASSUME NEW c \in 0..(UINT - 1)
  PROVE  (c + 1) % UINT \in 0..(UINT - 1) /\ (c - 1) % UINT \in 0..(UINT - 1)
<1>1. c + 1 \in Int /\ c - 1 \in Int /\ UINT \in Nat \ {0}
  OBVIOUS
<1> QED
  BY ONLY <1>1, ModRange

-----------------------------------------------------------------------------
(***************************************************************************)
(* The semaphore of a device.                                              *)
(***************************************************************************)
(* getDeviceNi finds the semaphore that deviceHandler will V for every     *)
(* device but the last one, whose process it sends to semaphores[NDEV].    *)
THEOREM DeviceSemaphore ==
  ASSUME NEW d \in 0..(NDEV - 1)
  PROVE  GetDeviceNi(DevReg(d, 1)) = IF d = NDEV - 1 THEN NDEV ELSE d
<1>1. CASE d = NDEV - 1
  BY <1>1 DEF GetDeviceNi, DevReg
<1>2. CASE d # NDEV - 1
  <2> DEFINE P(i) == /\ DevReg(d, 1) < DevReg(i, 0)
                     /\ \A j \in 0..(i - 1) : DevReg(d, 1) >= DevReg(j, 0)
  <2>1. d + 1 \in 0..(NDEV - 1) /\ P(d + 1)
    BY <1>2 DEF DevReg
  <2>2. \A i \in 0..(NDEV - 1) : P(i) => i = d + 1
    BY <1>2 DEF DevReg
  <2>3. (CHOOSE i \in 0..(NDEV - 1) : P(i)) = d + 1
    BY <2>1, <2>2
  <2>4. DevReg(d, 1) < DevReg(NDEV - 1, 0)
    BY <1>2 DEF DevReg
  <2>5. GetDeviceNi(DevReg(d, 1)) = (CHOOSE i \in 0..(NDEV - 1) : P(i)) - 1
    BY <2>4 DEF GetDeviceNi
  <2>6. GetDeviceNi(DevReg(d, 1)) = (d + 1) - 1
    BY <2>3, <2>5
  <2> HIDE DEF P
  <2> QED
    BY <1>2, <2>6
<1> QED
  BY <1>1, <1>2

-----------------------------------------------------------------------------
(***************************************************************************)
(* Type correctness.  The operators shared by the handlers come first.     *)
(***************************************************************************)
LEMMA KeyFacts == DevSem \subseteq Key /\ Device \subseteq Key /\ timerSem \in Key
                    /\ childSem \in Key /\ UserSem \subseteq Key
  BY DEF Key, DevSem

\* a PCB made ready
LEMMA InsertReadyType ==
  ASSUME TypeOK, NEW nx \in [Pcb -> Link], NEW pri, NEW p \in Pcb, NEW next,
         InsertReady(nx, pri, p, next)
  PROVE  /\ p_next' \in [Pcb -> Link]
         /\ readyQueue' \in Link
         /\ pc' \in {next, "lost"}
<1>1. readyQueue \in Link
  BY DEF TypeOK
<1> QED
  BY <1>1, InsertProcQType DEF InsertReady, Link

\* semp
LEMMA SemPType ==
  ASSUME TypeOK, currentPcb # NULL, NEW k \in Key, SemP(k)
  PROVE  /\ p_next' \in [Pcb -> Link]
         /\ p_priority' \in [Pcb -> Int]
         /\ start_priority' \in [Pcb -> Int]
         /\ last_priority' \in [Pcb -> Int]
         /\ s_procQ' \in [Key -> Link]
         /\ semval' \in [Key -> Int]
         /\ softblockProcesses' \in 0..(UINT - 1)
         /\ currentPcb' \in Link
         /\ pc' \in {"scheduler", "lost"}
<1> USE DEF TypeOK
<1>1. currentPcb \in Pcb
  BY DEF Link
<1>2. CASE semval[k] > 0
  BY <1>1, <1>2 DEF SemP, prios, Link
<1>3. CASE ~(semval[k] > 0)
  <2>1. SemP(k)!1
    BY <1>3 DEF SemP
  <2>2. (softblockProcesses + 1) % UINT \in 0..(UINT - 1)
    BY CounterRange
  <2>3. [p_next EXCEPT ![currentPcb] = NULL] \in [Pcb -> Link]
    BY <1>1 DEF Link
  <2>4. s_procQ[k] \in Link
    OBVIOUS
  <2> DEFINE nx  == [p_next EXCEPT ![currentPcb] = NULL]
             pri == [p_priority EXCEPT ![currentPcb] = 0]
             q   == InsertProcQ(nx, pri, s_procQ[k], currentPcb)
  <2>5. /\ p_next' \in {nx, q.next}
        /\ s_procQ' \in {s_procQ, [s_procQ EXCEPT ![k] = q.head]}
        /\ p_priority' = pri
        /\ pc' \in {"scheduler", "lost"}
    BY <2>1 DEF InsertBlocked
  <2>6. q.next \in [Pcb -> Link] /\ q.head \in Pcb
    BY <1>1, <2>3, <2>4, InsertProcQType
  <2>7. pri \in [Pcb -> Int]
    <3>1. p_priority \in [Pcb -> Int]
      OBVIOUS
    <3> QED
      BY ONLY <3>1, 0 \in Int, ExceptType
  <2> HIDE DEF nx, pri, q
  <2> QED
    <3>1. p_next' \in [Pcb -> Link]
      BY <2>3, <2>5, <2>6 DEF nx
    <3>2. s_procQ' \in [Key -> Link]
      BY <2>5, <2>6 DEF Link
    <3>3. p_priority' \in [Pcb -> Int] /\ pc' \in {"scheduler", "lost"}
      BY <2>5, <2>7
    <3>4. /\ start_priority' \in [Pcb -> Int] /\ last_priority' \in [Pcb -> Int]
          /\ semval' \in [Key -> Int] /\ softblockProcesses' \in 0..(UINT - 1)
          /\ currentPcb' \in Link
      BY <1>1, <2>1, <2>2 DEF Link
    <3> QED
      BY <3>1, <3>2, <3>3, <3>4
<1> QED
  BY <1>2, <1>3

\* semv
LEMMA SemVType ==
  ASSUME TypeOK, NEW k \in Key, NEW next, SemV(k, next)
  PROVE  /\ p_next' \in [Pcb -> Link]
         /\ readyQueue' \in Link
         /\ p_priority' \in [Pcb -> Int]
         /\ s_procQ' \in [Key -> Link]
         /\ semval' \in [Key -> Int]
         /\ softblockProcesses' \in 0..(UINT - 1)
         /\ pc' \in {next, "lost"}
<1>1. CASE s_procQ[k] = NULL
  BY <1>1 DEF SemV, TypeOK, Link
<1>2. CASE s_procQ[k] # NULL
  <2>1. s_procQ[k] \in Pcb
    BY <1>2 DEF TypeOK, Link
  <2>2. (softblockProcesses - 1) % UINT \in 0..(UINT - 1)
    BY CounterRange DEF TypeOK
  <2>3. PICK pri : InsertReady(p_next, pri, s_procQ[k], next)
    BY <1>2 DEF SemV
  <2>4. p_next' \in [Pcb -> Link] /\ readyQueue' \in Link /\ pc' \in {next, "lost"}
    BY <2>1, <2>3, InsertReadyType DEF TypeOK
  <2>5. /\ s_procQ' = [s_procQ EXCEPT ![k] = p_next[s_procQ[k]]]
        /\ p_priority' = [p_priority EXCEPT ![s_procQ[k]] = last_priority[s_procQ[k]]]
        /\ softblockProcesses' \in {(softblockProcesses - 1) % UINT, softblockProcesses}
        /\ semval' = semval
    BY <1>2 DEF SemV
  <2> QED
    BY <2>1, <2>2, <2>4, <2>5 DEF TypeOK
<1> QED
  BY <1>1, <1>2

(* The system calls that create, terminate and wait.                       *)
LEMMA CreateProcessType ==
  ASSUME TypeOK, NEW priority \in Priorities, CreateProcess(priority)
  PROVE  TypeOK'
<1> DEFINE p     == AllocNode(p_next, pcbfree_h)
           f     == AllocPcb(p_next, pcbfree_h)
           pri   == [p_priority EXCEPT ![p] = priority]
           first == [p_first_child EXCEPT ![p] = NULL]
           sib   == [p_sib EXCEPT ![p] = NULL]
           next  == IF CreateEnds(p) THEN "scheduler" ELSE "lost"
<1>1. currentPcb \in Pcb /\ pcbfree_h \in Pcb
  BY DEF TypeOK, CreateProcess, SysCall, Link
<1>2. p \in Pcb /\ f.next \in [Pcb -> Link] /\ f.head \in Link
  BY <1>1, AllocPcbType DEF TypeOK
<1>3. /\ pcbfree_h' = f.head
      /\ semval' = [semval EXCEPT ![childSem] = 0]
      /\ InsertChild(p)
      /\ p_priority' = pri
      /\ start_priority' = [start_priority EXCEPT ![p] = priority]
      /\ InsertReady(f.next, pri, p, next)
      /\ pids' = pids \cup {p}
      /\ activeProcesses' = (activeProcesses + 1) % UINT
      /\ UNCHANGED <<last_priority, currentPcb, s_procQ, softblockProcesses, stack, dev>>
  BY DEF CreateProcess
<1>4. /\ first \in [Pcb -> Link] /\ sib \in [Pcb -> Link]
  BY DEF TypeOK, Link
<1> HIDE DEF p, f, pri, next
<1>5. p_next' \in [Pcb -> Link] /\ readyQueue' \in Link /\ pc' \in {"scheduler", "lost"}
  BY <1>2, <1>3, InsertReadyType DEF next
<1>6. p_parent' \in [Pcb -> Link] /\ p_first_child' \in [Pcb -> Link] /\ p_sib' \in [Pcb -> Link]
  <2>1. p_parent' = [p_parent EXCEPT ![p] = currentPcb]
    BY <1>3 DEF InsertChild
  <2>2. CASE first[currentPcb] = NULL
    <3>1. p_first_child' = [first EXCEPT ![currentPcb] = p] /\ p_sib' = sib
      BY <1>3, <2>2 DEF InsertChild
    <3> HIDE DEF first, sib
    <3> QED
      BY <1>1, <1>2, <1>4, <2>1, <3>1 DEF TypeOK, Link
  <2>3. CASE first[currentPcb] # NULL
    <3>1. LastNode(sib, first[currentPcb]) \in Pcb
      BY <1>1, <1>4, <2>3, LastNodeType DEF Link
    <3>2. p_first_child' = first /\ p_sib' = [sib EXCEPT ![LastNode(sib, first[currentPcb])] = p]
      BY <1>3, <2>3 DEF InsertChild
    <3> QED
      BY <1>1, <1>2, <1>4, <2>1, <3>1, <3>2 DEF TypeOK, Link
  <2> QED
    BY <2>2, <2>3
<1>7. p_priority' \in [Pcb -> Int] /\ start_priority' \in [Pcb -> Int]
  BY <1>3, ExceptType DEF TypeOK, pri
<1>8. semval' \in [Key -> Int]
  BY <1>3, ExceptType, 0 \in Int DEF TypeOK
<1>9. activeProcesses' \in 0..(UINT - 1)
  BY <1>3, CounterRange DEF TypeOK
<1> QED
  BY <1>2, <1>3, <1>5, <1>6, <1>7, <1>8, <1>9 DEF TypeOK, PC, Stopped

\* terminateprocess
LEMMA TerminateProcessType ==
  ASSUME TypeOK, NEW pid \in pids \cup {NULL}, TerminateProcess(pid)
  PROVE  TypeOK'
<1> DEFINE p == IF pid = NULL THEN currentPcb ELSE pid
<1>1. p \in Pcb
  BY DEF TypeOK, TerminateProcess, SysCall, Link
<1>2. /\ currentPcb' \in {NULL, currentPcb}
      /\ \/ SemV(childSem, "liberaTutti")
         \/ /\ pc' = "liberaTutti"
            /\ UNCHANGED <<p_next, readyQueue, p_priority, sems>>
      /\ stack' = <<p>>
      /\ UNCHANGED <<tree, start_priority, last_priority, pcbfree_h,
                     activeProcesses, dev, pids>>
  BY DEF TerminateProcess
<1> HIDE DEF p
<1>3. /\ p_next' \in [Pcb -> Link] /\ readyQueue' \in Link /\ p_priority' \in [Pcb -> Int]
      /\ s_procQ' \in [Key -> Link] /\ semval' \in [Key -> Int]
      /\ softblockProcesses' \in 0..(UINT - 1) /\ pc' \in {"liberaTutti", "lost"}
  <2>1. CASE SemV(childSem, "liberaTutti")
    BY <2>1, SemVType, KeyFacts
  <2>2. CASE /\ pc' = "liberaTutti"
             /\ UNCHANGED <<p_next, readyQueue, p_priority, sems>>
    BY <2>2 DEF TypeOK, sems
  <2> QED
    BY <1>2, <2>1, <2>2
<1>4. stack' \in Seq(Pcb) /\ stack' # << >>
  BY <1>1, <1>2
<1> QED
  BY <1>2, <1>3, <1>4 DEF TypeOK, tree, PC, Stopped, Link

(* liberaTutti.                                                            *)
LEMMA RemoveChildType ==
  ASSUME TypeOK, RemoveChild
  PROVE  TypeOK'
<1>1. Top \in Pcb
  BY DEF TypeOK, RemoveChild, Top
<1>2. p_first_child[Top] \in Pcb
  BY <1>1 DEF TypeOK, RemoveChild, Link
<1>3. /\ p_first_child' = [p_first_child EXCEPT ![Top] = p_sib[p_first_child[Top]]]
      /\ p_parent' = [p_parent EXCEPT ![p_first_child[Top]] = NULL]
      /\ stack' = Append(stack, p_first_child[Top])
      /\ UNCHANGED <<p_next, p_sib, prios, pcbfree_h, readyQueue, currentPcb, sems,
                     activeProcesses, dev, pids, pc>>
  BY DEF RemoveChild
<1>4. stack' \in Seq(Pcb) /\ stack' # << >>
  BY <1>2, <1>3, AppendProperties DEF TypeOK
<1>5. p_first_child' \in [Pcb -> Link] /\ p_parent' \in [Pcb -> Link]
  BY <1>2, <1>3 DEF TypeOK, Link
<1> QED
  BY <1>3, <1>4, <1>5 DEF TypeOK, prios, sems

\* what liberaTutti does last for a process
LEMMA ReleaseType ==
  ASSUME TypeOK, Release
  PROVE  TypeOK'
<1> DEFINE p == Top
           r == OutProcQ(p_next, readyQueue, p)
           f == FreePcb(r.next, pcbfree_h, p)
<1>1. p \in Pcb
  BY DEF TypeOK, Release, Top
<1>2. r.next \in [Pcb -> Link] /\ r.head \in Link
  BY <1>1, OutProcQType DEF TypeOK
<1>3. f.next \in [Pcb -> Link] /\ f.head \in Link
  BY <1>1, <1>2, FreePcbType DEF TypeOK
<1>4. /\ pc = "liberaTutti"
      /\ p_first_child[p] = NULL
      /\ readyQueue' = r.head
      /\ activeProcesses' = (activeProcesses - 1) % UINT
      /\ OutChild(p)
      /\ p_next' = f.next
      /\ pcbfree_h' = f.head
      /\ stack' = SubSeq(stack, 1, Len(stack) - 1)
      /\ pc' \in {"lost", "scheduler", "liberaTutti"}
      /\ pc' = "liberaTutti" => Len(stack) # 1
      /\ UNCHANGED <<prios, currentPcb, sems, dev, pids>>
  BY DEF Release
<1> HIDE DEF p, r, f
<1>5. stack \in Seq(Pcb) /\ stack # << >>
  BY <1>4 DEF TypeOK
<1>6. stack' \in Seq(Pcb) /\ (Len(stack) # 1 => stack' # << >>)
  <2>1. Len(stack) \in Nat \ {0}
    BY <1>5, EmptySeq
  <2>2. \A i \in 1..(Len(stack) - 1) : stack[i] \in Pcb
    BY <1>5, <2>1
  <2>3. /\ SubSeq(stack, 1, Len(stack) - 1) \in Seq(Pcb)
        /\ Len(SubSeq(stack, 1, Len(stack) - 1))
             = IF 1 <= Len(stack) - 1 THEN Len(stack) - 1 - 1 + 1 ELSE 0
    BY <2>1, <2>2, SubSeqProperties
  <2>4. Len(stack) # 1 => Len(SubSeq(stack, 1, Len(stack) - 1)) # 0
    <3> DEFINE n == Len(stack)
               m == Len(SubSeq(stack, 1, Len(stack) - 1))
    <3>1. n \in Nat \ {0} /\ m = IF 1 <= n - 1 THEN n - 1 - 1 + 1 ELSE 0
      BY <2>1, <2>3
    <3> HIDE DEF n, m
    <3>2. n # 1 => m # 0
      BY ONLY <3>1
    <3> QED
      BY <3>2 DEF n, m
  <2>5. Len(<< >>) = 0
    BY EmptySeq
  <2> QED
    BY <1>4, <2>3, <2>4, <2>5
<1>7. p_parent' \in [Pcb -> Link] /\ p_first_child' \in [Pcb -> Link] /\ p_sib' \in [Pcb -> Link]
  <2> DEFINE par == p_parent[p]
             q   == Previous(p_sib, p_first_child[par], p)
  <2>1. CASE par = NULL
    BY <1>4, <2>1 DEF OutChild, TypeOK, tree
  <2>2. CASE par # NULL /\ p_first_child[par] = p
    BY <1>1, <1>4, <2>2 DEF OutChild, TypeOK, Link
  <2>3. CASE par # NULL /\ p_first_child[par] # p /\ p_first_child[par] = NULL
    BY <1>1, <1>4, <2>3 DEF OutChild, TypeOK, Link
  <2>4. CASE par # NULL /\ p_first_child[par] # p /\ p_first_child[par] # NULL
    <3>1. par \in Pcb /\ p_first_child[par] \in Pcb
      BY <1>1, <2>4 DEF TypeOK, Link
    <3>2. p_parent' = [p_parent EXCEPT ![p] = NULL] /\ p_first_child' = p_first_child
            /\ p_sib' = [p_sib EXCEPT ![q] = p_sib[p]]
      BY <1>4, <2>4 DEF OutChild
    <3> QED
      BY <1>1, <3>1, <3>2 DEF TypeOK, Link
  <2> QED
    BY <2>1, <2>2, <2>3, <2>4
<1>8. activeProcesses' \in 0..(UINT - 1)
  BY <1>4, CounterRange DEF TypeOK
<1> QED
  BY <1>2, <1>3, <1>4, <1>6, <1>7, <1>8 DEF TypeOK, prios, sems, PC, Stopped

\* aging
LEMMA AgedType ==
  ASSUME TypeOK, NEW aging
  PROVE  Aged(aging) \in [Pcb -> Int]
<1>1. \A p \in Pcb : p_priority[p] \in Int /\ p_priority[p] + 1 \in Int
  BY DEF TypeOK
<1> QED
  BY <1>1 DEF Aged

\* a device of the programs has one of the semaphores 0..NDEV
LEMMA DeviceSemaphoreKey ==
  ASSUME NEW d \in Device
  PROVE  GetDeviceNi(DevReg(d, 1)) \in Key
<1>1. d \in 0..(NDEV - 1) /\ NDEV \in DevSem /\ d \in DevSem
  BY DEF DevSem
<1> QED
  BY <1>1, DeviceSemaphore, KeyFacts

(* A handler that runs semp or semv, and leaves the rest alone, keeps the   *)
(* types: the two lemmas every such handler cites.                         *)
LEMMA SemPKeepsType ==
  ASSUME TypeOK, NEW k \in Key, pc = "user", SemP(k), dev' \in [Device -> DevState],
         UNCHANGED <<readyQueue, CallFrame>>
  PROVE  TypeOK'
<1>1. currentPcb # NULL
  BY DEF TypeOK
<1>2. /\ p_next' \in [Pcb -> Link]
      /\ p_priority' \in [Pcb -> Int]
      /\ start_priority' \in [Pcb -> Int]
      /\ last_priority' \in [Pcb -> Int]
      /\ s_procQ' \in [Key -> Link]
      /\ semval' \in [Key -> Int]
      /\ softblockProcesses' \in 0..(UINT - 1)
      /\ currentPcb' \in Link
      /\ pc' \in {"scheduler", "lost"}
  BY <1>1, SemPType
<1>3. /\ p_parent' = p_parent /\ p_first_child' = p_first_child /\ p_sib' = p_sib
      /\ pcbfree_h' = pcbfree_h /\ activeProcesses' = activeProcesses
      /\ stack' = stack /\ pids' = pids /\ readyQueue' = readyQueue
  BY DEF CallFrame, tree
<1> QED
  BY <1>2, <1>3 DEF TypeOK, PC, Stopped

\* a step that is semv, as far as lists and counters go, preserves TypeOK
LEMMA SemVKeepsType ==
  ASSUME TypeOK, NEW k \in Key, NEW next \in PC \ {"user", "liberaTutti"}, SemV(k, next),
         dev' \in [Device -> DevState],
         UNCHANGED <<start_priority, last_priority, currentPcb, CallFrame>>
  PROVE  TypeOK'
<1>1. /\ p_next' \in [Pcb -> Link]
      /\ readyQueue' \in Link
      /\ p_priority' \in [Pcb -> Int]
      /\ s_procQ' \in [Key -> Link]
      /\ semval' \in [Key -> Int]
      /\ softblockProcesses' \in 0..(UINT - 1)
      /\ pc' \in {next, "lost"}
  BY SemVType
<1>2. /\ p_parent' = p_parent /\ p_first_child' = p_first_child /\ p_sib' = p_sib
      /\ pcbfree_h' = pcbfree_h /\ activeProcesses' = activeProcesses
      /\ stack' = stack /\ pids' = pids /\ currentPcb' = currentPcb
      /\ start_priority' = start_priority /\ last_priority' = last_priority
  BY DEF CallFrame, tree
<1> QED
  BY <1>1, <1>2 DEF TypeOK, PC, Stopped

\* each step preserves TypeOK
LEMMA NextType == TypeOK /\ [Next]_vars => TypeOK'
<1> SUFFICES ASSUME TypeOK, [Next]_vars
             PROVE  TypeOK'
  OBVIOUS
<1> USE DEF PC, Stopped
<1>1. ASSUME SystemCall
      PROVE  TypeOK'
  <2>0. CASE CreateFails
    BY <2>0 DEF CreateFails, TypeOK, tree, prios, sems
  <2>1. ASSUME NEW priority \in Priorities, CreateProcess(priority)
        PROVE  TypeOK'
    BY <2>1, CreateProcessType
  <2>2. ASSUME NEW pid \in pids \cup {NULL}, TerminateProcess(pid)
        PROVE  TypeOK'
    BY <2>2, TerminateProcessType
  <2>3. ASSUME NEW k \in Key, SemP(k), pc = "user", dev' \in [Device -> DevState],
               UNCHANGED <<readyQueue, CallFrame>>
        PROVE  TypeOK'
    BY <2>3, SemPKeepsType
  <2>4. ASSUME NEW k \in UserSem, SemPCall(k)
        PROVE  TypeOK'
    BY <2>4, <2>3, KeyFacts DEF SemPCall, SysCall, TypeOK
  <2>5. ASSUME NEW k \in UserSem, SemVCall(k)
        PROVE  TypeOK'
    <3>1. SemV(k, "scheduler") /\ k \in Key /\ dev' \in [Device -> DevState]
      BY <2>5, KeyFacts DEF SemVCall, TypeOK
    <3>2. UNCHANGED <<start_priority, last_priority, currentPcb, CallFrame>>
      BY <2>5 DEF SemVCall
    <3> QED
      BY <3>1, <3>2, SemVKeepsType
  <2>6. CASE WaitClock
    BY <2>6, <2>3, KeyFacts DEF WaitClock, SysCall, TypeOK
  <2>7. CASE WaitChild
    <3>1. CASE SemP(childSem)
      BY <2>7, <3>1, <2>3, KeyFacts DEF WaitChild, SysCall, TypeOK
    <3>2. CASE ~SemP(childSem)
      BY <2>7, <3>2 DEF WaitChild, TypeOK, prios, CallFrame, tree
    <3> QED
      BY <3>1, <3>2
  <2>8. ASSUME NEW d \in Device, IoDevOp(d)
        PROVE  TypeOK'
    BY <2>8, <2>3, DeviceSemaphoreKey DEF IoDevOp, SysCall, TypeOK, DevState
  <2>9. CASE OtherCall
    BY <2>9 DEF OtherCall, TypeOK, prios, sems, CallFrame, tree
  <2> QED
    BY <1>1, <2>0, <2>1, <2>2, <2>4, <2>5, <2>6, <2>7, <2>8, <2>9 DEF SystemCall
<1>2. ASSUME Handler
      PROVE  TypeOK'
  <2>1. CASE RemoveChild
    BY <2>1, RemoveChildType
  <2>2. CASE Release
    BY <2>2, ReleaseType
  <2>3. CASE PseudoTick
    <3>1. CASE SemV(timerSem, "pseudoTick")
      <4>1. UNCHANGED <<start_priority, last_priority, currentPcb, dev, CallFrame>>
        BY <2>3 DEF PseudoTick
      <4>2. dev' \in [Device -> DevState]
        BY <4>1 DEF TypeOK
      <4> QED
        BY <3>1, <4>1, <4>2, KeyFacts, SemVKeepsType
    <3>2. CASE ~SemV(timerSem, "pseudoTick")
      BY <2>3, <3>2 DEF PseudoTick, TypeOK, CallFrame, tree, sems
    <3> QED
      BY <3>1, <3>2
  <2>4. CASE Preempt
    <3>1. CASE currentPcb # NULL
      <4>1. currentPcb \in Pcb /\ p_next \in [Pcb -> Link]
        BY <3>1 DEF TypeOK, Link
      <4>2. InsertReady(p_next, p_priority, currentPcb, "scheduler") /\ currentPcb' = NULL
        BY <2>4, <3>1 DEF Preempt
      <4>3. p_next' \in [Pcb -> Link] /\ readyQueue' \in Link /\ pc' \in {"scheduler", "lost"}
        BY <4>1, <4>2, InsertReadyType
      <4> QED
        BY <2>4, <4>2, <4>3 DEF Preempt, TypeOK, CallFrame, tree, prios, sems, Link
    <3>2. CASE currentPcb = NULL
      BY <2>4, <3>2 DEF Preempt, TypeOK, CallFrame, tree, prios, sems
    <3> QED
      BY <3>1, <3>2
  <2>5. CASE AgingLost
    BY <2>5 DEF AgingLost, TypeOK, SchedulerFrame, tree, sems
  <2>6. ASSUME NEW aging \in BOOLEAN, Resume(aging)
        PROVE  TypeOK'
    BY <2>6, AgedType DEF Resume, TypeOK, SchedulerFrame, tree, sems
  <2>7. ASSUME NEW aging \in BOOLEAN, Dispatch(aging)
        PROVE  TypeOK'
    <3>1. readyQueue \in Pcb
      BY <2>7 DEF Dispatch, TypeOK, Link
    <3>2. p_priority' \in [Pcb -> Int]
      <4>1. start_priority[readyQueue] \in Int
        BY <3>1 DEF TypeOK
      <4>2. Aged(aging) \in [Pcb -> Int]
        BY AgedType
      <4>3. p_priority' = [Aged(aging) EXCEPT ![readyQueue] = start_priority[readyQueue]]
        BY <2>7 DEF Dispatch
      <4> QED
        BY <4>1, <4>2, <4>3, ExceptType
    <3> QED
      BY <2>7, <3>1, <3>2 DEF Dispatch, TypeOK, SchedulerFrame, tree, sems, Link, Pcb, NULL
  <2>8. CASE Idle
    BY <2>8 DEF Idle, TypeOK, SchedulerFrame, tree, sems
  <2> QED
    BY <1>2, <2>1, <2>2, <2>3, <2>4, <2>5, <2>6, <2>7, <2>8 DEF Handler, Scheduler
<1>3. ASSUME NEW tick \in BOOLEAN, TimerInterrupt(tick)
      PROVE  TypeOK'
  BY <1>3 DEF TimerInterrupt, TypeOK, SchedulerFrame, tree, sems
<1>4. ASSUME NEW d \in Device, DeviceInterrupt(d)
      PROVE  TypeOK'
  <2>1. dev' \in [Device -> DevState]
    BY <1>4 DEF DeviceInterrupt, TypeOK, DevState
  <2>2. CASE s_procQ[d] # NULL
    <3>1. SemV(d, "scheduler") /\ d \in Key
      BY <1>4, <2>2, KeyFacts DEF DeviceInterrupt
    <3>2. UNCHANGED <<start_priority, last_priority, currentPcb, CallFrame>>
      BY <1>4 DEF DeviceInterrupt
    <3> QED
      BY <2>1, <3>1, <3>2, SemVKeepsType
  <2>3. CASE s_procQ[d] = NULL
    BY <1>4, <2>1, <2>3 DEF DeviceInterrupt, TypeOK, CallFrame, tree, sems
  <2> QED
    BY <2>2, <2>3
<1>5. ASSUME NEW d \in Device, DeviceDone(d)
      PROVE  TypeOK'
  BY <1>5 DEF DeviceDone, TypeOK, DevState, CallFrame, tree, prios, sems
<1>6. CASE UNCHANGED vars
  BY <1>6 DEF vars, TypeOK, tree, prios, sems
<1> QED
  BY <1>1, <1>2, <1>3, <1>4, <1>5, <1>6 DEF Next, Interrupt, Stop

\* boot establishes TypeOK
LEMMA InitType == Init => TypeOK
<1> SUFFICES ASSUME Init PROVE TypeOK
  OBVIOUS
<1>1. MAXPROC \in Pcb /\ (MAXPROC # 1 => 1 \in Pcb)
  BY DEF Pcb
<1>2. \A p \in Pcb : p < MAXPROC - 1 => p + 1 \in Pcb
  BY DEF Pcb
<1>3. p_next \in [Pcb -> Link]
  BY <1>2 DEF Init, Link
<1>4. 1 % UINT \in 0..(UINT - 1) /\ 0 \in 0..(UINT - 1)
  BY ModRange
<1>5. semval \in [Key -> Int]
  BY DEF Init
<1>6. stack \in Seq(Pcb)
  BY EmptySeq DEF Init
<1> QED
  BY <1>1, <1>3, <1>4, <1>5, <1>6 DEF Init, TypeOK, Link, DevState, PC, Stopped

(* Links lead to PCBs and counters stay within their width, whatever       *)
(* programs do to the lists (double frees and cyclic lists included).      *)
THEOREM TypeCorrect == Spec => []TypeOK
  BY InitType, NextType, PTL DEF Spec

-----------------------------------------------------------------------------
(***************************************************************************)
(* Semaphores.  SemaphoresSound is inductive together with TypeOK.         *)
(***************************************************************************)
(* What semp does to the other semaphores, and to its own.                 *)
LEMMA SemPQueues ==
  ASSUME TypeOK, SemaphoresSound, currentPcb # NULL, NEW k \in Key, SemP(k)
  PROVE  /\ \A j \in Key \ {k} : s_procQ'[j] = s_procQ[j] /\ semval'[j] = semval[j]
         /\ \/ semval[k] = 0 /\ semval'[k] = 0
            \/ semval'[k] = semval[k] - 1 /\ semval[k] > 0 /\ s_procQ'[k] = NULL
<1>1. CASE semval[k] > 0
  BY <1>1 DEF SemP, TypeOK, SemaphoresSound
<1>2. CASE ~(semval[k] > 0)
  <2>1. semval[k] = 0
    BY <1>2 DEF TypeOK, SemaphoresSound
  <2>2. InsertBlocked(k, currentPcb) /\ semval' = semval
    BY <2>1 DEF SemP
  <2>3. \E h : s_procQ' \in {s_procQ, [s_procQ EXCEPT ![k] = h]}
    BY <2>2 DEF InsertBlocked
  <2> QED
    BY <2>1, <2>2, <2>3 DEF TypeOK
<1> QED
  BY <1>1, <1>2

\* semp keeps waiters and value apart
LEMMA SemPSound ==
  ASSUME TypeOK, SemaphoresSound, currentPcb # NULL, NEW k \in Key, SemP(k)
  PROVE  SemaphoresSound'
<1>1. /\ \A j \in Key \ {k} : s_procQ'[j] = s_procQ[j] /\ semval'[j] = semval[j]
      /\ \/ semval[k] = 0 /\ semval'[k] = 0
         \/ semval'[k] = semval[k] - 1 /\ semval[k] > 0 /\ s_procQ'[k] = NULL
  BY SemPQueues
<1>2. semval[k] \in Int /\ semval[k] >= 0 /\ (k \notin UserSem => semval[k] = 0)
  BY DEF SemaphoresSound, TypeOK
<1>3. semval'[k] >= 0 /\ (semval'[k] > 0 => s_procQ'[k] = NULL)
        /\ (k \notin UserSem => semval'[k] = 0)
  BY <1>1, <1>2
<1> QED
  BY <1>1, <1>3 DEF SemaphoresSound

(* What semv does to them.                                                 *)
LEMMA SemVQueues ==
  ASSUME TypeOK, SemaphoresSound, NEW k \in Key, NEW next, SemV(k, next)
  PROVE  /\ \A j \in Key \ {k} : s_procQ'[j] = s_procQ[j] /\ semval'[j] = semval[j]
         /\ \/ s_procQ[k] # NULL /\ semval'[k] = 0
            \/ s_procQ[k] = NULL /\ s_procQ'[k] = NULL /\ semval'[k] = semval[k] + 1
<1>1. CASE s_procQ[k] # NULL
  <2>1. semval[k] = 0
    BY <1>1 DEF TypeOK, SemaphoresSound
  <2>2. semval' = semval /\ \E h : s_procQ' = [s_procQ EXCEPT ![k] = h]
    BY <1>1 DEF SemV
  <2> QED
    BY <1>1, <2>1, <2>2 DEF TypeOK
<1>2. CASE s_procQ[k] = NULL
  BY <1>2 DEF SemV, TypeOK
<1> QED
  BY <1>1, <1>2

\* semv keeps waiters and value apart
LEMMA SemVSound ==
  ASSUME TypeOK, SemaphoresSound, NEW k \in Key, NEW next, SemV(k, next),
         k \in UserSem \/ s_procQ[k] # NULL
  PROVE  SemaphoresSound'
<1>1. /\ \A j \in Key \ {k} : s_procQ'[j] = s_procQ[j] /\ semval'[j] = semval[j]
      /\ \/ s_procQ[k] # NULL /\ semval'[k] = 0
         \/ s_procQ[k] = NULL /\ s_procQ'[k] = NULL /\ semval'[k] = semval[k] + 1
  BY SemVQueues
<1>2. semval[k] \in Int /\ semval[k] >= 0
  BY DEF SemaphoresSound, TypeOK
<1>3. semval'[k] >= 0 /\ (semval'[k] > 0 => s_procQ'[k] = NULL)
        /\ (k \notin UserSem => semval'[k] = 0)
  BY <1>1, <1>2
<1> QED
  BY <1>1, <1>3 DEF SemaphoresSound

\* each step preserves SemaphoresSound
LEMMA NextSound == TypeOK /\ SemaphoresSound /\ [Next]_vars => SemaphoresSound'
<1> SUFFICES ASSUME TypeOK, SemaphoresSound, [Next]_vars
             PROVE  SemaphoresSound'
  OBVIOUS
<1>0. ASSUME UNCHANGED <<s_procQ, semval>>
      PROVE  SemaphoresSound'
  BY <1>0 DEF SemaphoresSound
<1>1. pc = "user" => currentPcb # NULL
  BY DEF TypeOK
<1>2. ASSUME SystemCall
      PROVE  SemaphoresSound'
  <2>0. CASE CreateFails
    BY <2>0, <1>0 DEF CreateFails, sems
  <2>1. ASSUME NEW priority \in Priorities, CreateProcess(priority)
        PROVE  SemaphoresSound'
    <3>1. semval' = [semval EXCEPT ![childSem] = 0] /\ s_procQ' = s_procQ
      BY <2>1 DEF CreateProcess
    <3> QED
      BY <3>1, KeyFacts DEF SemaphoresSound, TypeOK
  <2>2. ASSUME NEW pid \in pids \cup {NULL}, TerminateProcess(pid)
        PROVE  SemaphoresSound'
    <3>1. CASE s_procQ[childSem] # NULL /\ SemV(childSem, "liberaTutti")
      BY <3>1, SemVSound, KeyFacts
    <3>2. CASE UNCHANGED sems
      BY <3>2, <1>0 DEF sems
    <3> QED
      BY <2>2, <3>1, <3>2 DEF TerminateProcess
  <2>3. ASSUME NEW k \in UserSem, SemPCall(k)
        PROVE  SemaphoresSound'
    BY <1>1, <2>3, SemPSound, KeyFacts DEF SemPCall, SysCall
  <2>4. ASSUME NEW k \in UserSem, SemVCall(k)
        PROVE  SemaphoresSound'
    BY <2>4, SemVSound, KeyFacts DEF SemVCall
  <2>5. CASE WaitClock
    BY <1>1, <2>5, SemPSound, KeyFacts DEF WaitClock, SysCall
  <2>6. CASE WaitChild
    <3>1. CASE SemP(childSem)
      BY <1>1, <2>6, <3>1, SemPSound, KeyFacts DEF WaitChild, SysCall
    <3>2. CASE ~SemP(childSem)
      BY <1>0, <2>6, <3>2 DEF WaitChild
    <3> QED
      BY <3>1, <3>2
  <2>7. ASSUME NEW d \in Device, IoDevOp(d)
        PROVE  SemaphoresSound'
    BY <1>1, <2>7, SemPSound, DeviceSemaphoreKey DEF IoDevOp, SysCall
  <2>8. CASE OtherCall
    BY <2>8, <1>0 DEF OtherCall, sems
  <2> QED
    BY <1>2, <2>0, <2>1, <2>2, <2>3, <2>4, <2>5, <2>6, <2>7, <2>8 DEF SystemCall
<1>3. ASSUME Handler
      PROVE  SemaphoresSound'
  <2>1. CASE PseudoTick
    <3>1. CASE s_procQ[timerSem] # NULL
      BY <2>1, <3>1, SemVSound, KeyFacts DEF PseudoTick
    <3>2. CASE s_procQ[timerSem] = NULL
      BY <2>1, <3>2, <1>0 DEF PseudoTick, sems
    <3> QED
      BY <3>1, <3>2
  <2> QED
    BY <1>0, <1>3, <2>1 DEF Handler, Scheduler, RemoveChild, Release, Preempt, AgingLost,
                            Resume, Dispatch, Idle, SchedulerFrame, sems
<1>4. ASSUME NEW d \in Device, DeviceInterrupt(d)
      PROVE  SemaphoresSound'
  <2>1. CASE s_procQ[d] # NULL
    BY <1>4, <2>1, SemVSound, KeyFacts DEF DeviceInterrupt
  <2>2. CASE s_procQ[d] = NULL
    BY <1>4, <2>2, <1>0 DEF DeviceInterrupt, sems
  <2> QED
    BY <2>1, <2>2
<1> QED
  BY <1>0, <1>2, <1>3, <1>4 DEF Next, Interrupt, Stop, TimerInterrupt, DeviceDone,
                                SchedulerFrame, CallFrame, sems, vars

(* No semaphore has waiters and a positive value, and the semaphores of    *)
(* the kernel never bank a V.                                              *)
THEOREM SemaphoresCorrect == Spec => []SemaphoresSound
<1>1. Init => SemaphoresSound
  BY DEF Init, SemaphoresSound
<1> QED
  BY <1>1, NextSound, TypeCorrect, PTL DEF Spec

-----------------------------------------------------------------------------
(***************************************************************************)
(* Requests to devices.  The queue of a device's semaphore is entered by   *)
(* iodevop and left by deviceHandler only, so that the waiter of a request *)
(* that is not complete stays.  One thing more is needed: insertBlocked    *)
(* finds a descriptor.                                                     *)
(***************************************************************************)
Descriptors == IsFiniteSet(UserSem) /\ Cardinality(Key) <= MAXSEMD

\* a semaphore without waiters finds a free descriptor
LEMMA DescriptorFree ==
  ASSUME Descriptors, NEW k \in Key, s_procQ[k] = NULL
  PROVE  ~(Cardinality({j \in Key : s_procQ[j] # NULL}) >= MAXSEMD)
<1> DEFINE A == {j \in Key : s_procQ[j] # NULL}
<1>1. IsFiniteSet(DevSem) /\ IsFiniteSet({timerSem, childSem})
  <2>1. IsFiniteSet(DevSem)
    BY FS_Interval DEF DevSem
  <2>2. IsFiniteSet({timerSem}) /\ {timerSem, childSem} = {timerSem} \cup {childSem}
    BY FS_Singleton
  <2> QED
    BY <2>1, <2>2, FS_AddElement
<1>2. IsFiniteSet(Key)
  BY <1>1, FS_Union DEF Key, Descriptors
<1>3. A \in SUBSET Key /\ A # Key
  OBVIOUS
<1>4. Cardinality(A) <= Cardinality(Key) /\ Cardinality(A) # Cardinality(Key)
  BY <1>2, <1>3, FS_Subset
<1>5. Cardinality(A) \in Nat /\ Cardinality(Key) \in Nat
  BY <1>2, <1>3, FS_Subset, FS_CardinalityType
<1> QED
  BY <1>4, <1>5 DEF Descriptors

(* A process that semp blocks is in the queue.                             *)
LEMMA SemPWaits ==
  ASSUME Descriptors, TypeOK, currentPcb # NULL, NEW k \in Key, semval[k] = 0, SemP(k)
  PROVE  s_procQ'[k] # NULL
<1> DEFINE nx  == [p_next EXCEPT ![currentPcb] = NULL]
           pri == [p_priority EXCEPT ![currentPcb] = 0]
           h   == InsertProcQ(nx, pri, s_procQ[k], currentPcb).head
<1>1. InsertBlocked(k, currentPcb)
  BY DEF SemP
<1>2. currentPcb \in Pcb /\ nx \in [Pcb -> Link] /\ s_procQ[k] \in Link
  BY DEF TypeOK, Link
<1>3. h \in Pcb
  BY <1>2, InsertProcQType
<1>4. h # NULL
  BY <1>3 DEF Pcb, NULL
<1>5. \/ s_procQ[k] # NULL /\ s_procQ' = [s_procQ EXCEPT ![k] = h]
      \/ s_procQ[k] = NULL /\ s_procQ' = [s_procQ EXCEPT ![k] = h]
  BY <1>1, DescriptorFree DEF InsertBlocked
<1> QED
  BY <1>4, <1>5 DEF TypeOK

(* Queues and devices unchanged, nothing changes.                          *)
LEMMA RequestFrame ==
  ASSUME RequestHasWaiter, dev' = dev, \A d \in Device : s_procQ'[d] = s_procQ[d]
  PROVE  RequestHasWaiter'
  BY DEF RequestHasWaiter

\* the semaphores of programs, of the pseudo-clock and of WAITCHLD are keys, and no device's
LEMMA NotDevice == \A k \in UserSem \cup {timerSem, childSem} : k \in Key /\ k \notin Device
  BY KeyFacts DEF DevSem

\* each step preserves RequestHasWaiter
LEMMA NextRequest ==
  ASSUME Descriptors
  PROVE  TypeOK /\ SemaphoresSound /\ RequestHasWaiter /\ [Next]_vars => RequestHasWaiter'
<1> SUFFICES ASSUME TypeOK, SemaphoresSound, RequestHasWaiter, [Next]_vars
             PROVE  RequestHasWaiter'
  OBVIOUS
<1>0. ASSUME UNCHANGED <<s_procQ, dev>>
      PROVE  RequestHasWaiter'
  BY <1>0, RequestFrame
<1>1. ASSUME NEW k \in Key \ Device, SemP(k), pc = "user", dev' = dev
      PROVE  RequestHasWaiter'
  BY <1>1, SemPQueues, RequestFrame, KeyFacts DEF TypeOK
<1>2. ASSUME NEW k \in Key \ Device, NEW next, SemV(k, next), dev' = dev
      PROVE  RequestHasWaiter'
  BY <1>2, SemVQueues, RequestFrame, KeyFacts
<1>3. ASSUME SystemCall
      PROVE  RequestHasWaiter'
  <2>1. CASE CreateFails
    BY <2>1, <1>0 DEF CreateFails, sems
  <2>2. ASSUME NEW priority \in Priorities, CreateProcess(priority)
        PROVE  RequestHasWaiter'
    BY <2>2, <1>0 DEF CreateProcess
  <2>3. ASSUME NEW pid \in pids \cup {NULL}, TerminateProcess(pid)
        PROVE  RequestHasWaiter'
    <3>1. CASE SemV(childSem, "liberaTutti")
      BY <2>3, <3>1, <1>2, NotDevice DEF TerminateProcess
    <3>2. CASE UNCHANGED sems
      BY <2>3, <3>2, <1>0 DEF TerminateProcess, sems
    <3> QED
      BY <2>3, <3>1, <3>2 DEF TerminateProcess
  <2>4. ASSUME NEW k \in UserSem, SemPCall(k)
        PROVE  RequestHasWaiter'
    BY <2>4, <1>1, NotDevice DEF SemPCall, SysCall
  <2>5. ASSUME NEW k \in UserSem, SemVCall(k)
        PROVE  RequestHasWaiter'
    BY <2>5, <1>2, NotDevice DEF SemVCall
  <2>6. CASE WaitClock
    BY <2>6, <1>1, NotDevice DEF WaitClock, SysCall
  <2>7. CASE WaitChild
    <3>1. CASE SemP(childSem)
      BY <2>7, <3>1, <1>1, NotDevice DEF WaitChild, SysCall
    <3>2. CASE ~SemP(childSem)
      BY <2>7, <3>2, <1>0 DEF WaitChild
    <3> QED
      BY <3>1, <3>2
  <2>8. ASSUME NEW d \in Device, IoDevOp(d)
        PROVE  RequestHasWaiter'
    <3> DEFINE k == GetDeviceNi(DevReg(d, 1))
    <3>1. k \in Key /\ k \notin UserSem /\ semval[k] = 0
      <4>1. d \in 0..(NDEV - 1)
        OBVIOUS
      <4>2. k \in DevSem
        BY <4>1, DeviceSemaphore DEF DevSem
      <4> QED
        BY <4>2, KeyFacts DEF SemaphoresSound
    <3>2. d # NDEV - 1 => k = d
      BY DeviceSemaphore
    <3>3. currentPcb # NULL /\ SemP(k) /\ dev' = [dev EXCEPT ![d] = "busy"]
      BY <2>8 DEF IoDevOp, SysCall, TypeOK
    <3> HIDE DEF k
    <3>4. s_procQ'[k] # NULL
      BY <3>1, <3>3, SemPWaits
    <3>5. \A j \in Key \ {k} : s_procQ'[j] = s_procQ[j]
      BY <3>1, <3>3, SemPQueues
    <3>6. \A e \in Device \ {d} : dev'[e] = dev[e]
      BY <3>3 DEF TypeOK
    <3>7. \A e \in Device : s_procQ[e] # NULL => s_procQ'[e] # NULL
      BY <3>4, <3>5, KeyFacts
    <3> QED
      BY <3>2, <3>4, <3>6, <3>7 DEF RequestHasWaiter
  <2>9. CASE OtherCall
    BY <2>9, <1>0 DEF OtherCall, sems
  <2> QED
    BY <1>3, <2>1, <2>2, <2>3, <2>4, <2>5, <2>6, <2>7, <2>8, <2>9 DEF SystemCall
<1>4. ASSUME Handler
      PROVE  RequestHasWaiter'
  <2>1. CASE PseudoTick
    <3>1. CASE SemV(timerSem, "pseudoTick")
      BY <2>1, <3>1, <1>2, NotDevice DEF PseudoTick
    <3>2. CASE ~SemV(timerSem, "pseudoTick")
      BY <2>1, <3>2, <1>0 DEF PseudoTick, sems
    <3> QED
      BY <3>1, <3>2
  <2> QED
    BY <1>0, <1>4, <2>1 DEF Handler, Scheduler, RemoveChild, Release, Preempt, AgingLost,
                            Resume, Dispatch, Idle, SchedulerFrame, sems
<1>5. ASSUME NEW d \in Device, DeviceInterrupt(d)
      PROVE  RequestHasWaiter'
  <2>1. CASE s_procQ[d] # NULL
    <3>1. SemV(d, "scheduler") /\ d \in Key
      BY <1>5, <2>1, KeyFacts DEF DeviceInterrupt
    <3>2. \A j \in Key \ {d} : s_procQ'[j] = s_procQ[j]
      BY <3>1, SemVQueues
    <3>3. dev'[d] \in {"idle", "failed"} /\ \A e \in Device \ {d} : dev'[e] = dev[e]
      BY <1>5, <2>1 DEF DeviceInterrupt, Raised, TypeOK
    <3> QED
      BY <3>2, <3>3, KeyFacts DEF RequestHasWaiter
  <2>2. CASE s_procQ[d] = NULL
    BY <1>5, <2>2, <1>0 DEF DeviceInterrupt, sems
  <2> QED
    BY <2>1, <2>2
<1>6. ASSUME NEW d \in Device, DeviceDone(d)
      PROVE  RequestHasWaiter'
  <2>1. s_procQ' = s_procQ /\ dev[d] = "busy" /\ \E s \in DevState : dev' = [dev EXCEPT ![d] = s]
    BY <1>6 DEF DeviceDone, sems, DevState
  <2> QED
    BY <2>1 DEF RequestHasWaiter, TypeOK
<1> QED
  BY <1>0, <1>3, <1>4, <1>5, <1>6 DEF Next, Interrupt, Stop, TimerInterrupt,
                                SchedulerFrame, sems, vars

(* A device's interrupt always finds the process that asked for it, for    *)
(* all devices but the last and whatever programs do, as long as there are *)
(* as many descriptors as semaphores in use.                               *)
THEOREM RequestsWaitedFor ==
  ASSUME Descriptors
  PROVE  Spec => []RequestHasWaiter
<1>1. Init => RequestHasWaiter
  BY DEF Init, RequestHasWaiter
<1>2. TypeOK /\ SemaphoresSound /\ RequestHasWaiter /\ [Next]_vars => RequestHasWaiter'
  BY NextRequest
<1> QED
  BY <1>1, <1>2, TypeCorrect, SemaphoresCorrect, PTL DEF Spec

-----------------------------------------------------------------------------
\* Programs terminate no process that waits, and there are no fewer
\* descriptors than PCBs (60 and 20 in const.h).
Careful == Discipline = "unblocked" /\ MAXPROC <= MAXSEMD

-----------------------------------------------------------------------------
(***************************************************************************)
(* The lists after each kind of step.                                      *)
(***************************************************************************)
LEMMA ListTypes ==
  ASSUME TypeOK
  PROVE  /\ p_next \in [Pcb -> Link] /\ pcbfree_h \in Link /\ readyQueue \in Link
         /\ \A k \in Key : s_procQ[k] \in Link /\ Queue(k) \subseteq Pcb
         /\ Free \subseteq Pcb /\ OnReady \subseteq Pcb /\ Blocked \subseteq Pcb
         /\ currentPcb \in Link
<1>1. \A k \in Key : Queue(k) \subseteq Pcb
  BY ReachType DEF Queue
<1>2. Free \subseteq Pcb /\ OnReady \subseteq Pcb
  BY ReachType DEF Free, OnReady
<1>3. Blocked \subseteq Pcb
  BY <1>1 DEF Blocked
<1> QED
  BY <1>1, <1>2, <1>3 DEF TypeOK

\* a step that leaves lists and current process alone
LEMMA ListsUnchanged ==
  ASSUME UNCHANGED <<p_next, pcbfree_h, readyQueue, s_procQ>>
  PROVE  /\ Free' = Free /\ OnReady' = OnReady /\ \A k \in Key : Queue(k)' = Queue(k)
         /\ Blocked' = Blocked /\ Live' = Live
         /\ ListsEnd /\ pc' # "lost" => ListsEnd'
  BY DEF Free, OnReady, Queue, ListsEnd, Blocked, Live

(* insertProcQ(&readyQueue, p).                                            *)
LEMMA InsertReadyLists ==
  ASSUME readyQueue \in Link, NEW nx \in [Pcb -> Link], Ends(nx, readyQueue),
         NEW p \in Pcb, p \notin Reach(nx, readyQueue),
         NEW pri, NEW next, InsertReady(nx, pri, p, next)
  PROVE  /\ p_next' \in [Pcb -> Link] /\ readyQueue' \in Link
         /\ OnReady' = {p} \cup Reach(nx, readyQueue)
         /\ Ends(p_next, readyQueue)'
         /\ AgreeOutside(nx, p_next', {p} \cup Reach(nx, readyQueue))
         /\ pc' = next
<1> DEFINE r == InsertProcQ(nx, pri, readyQueue, p)
<1>1. /\ r.next \in [Pcb -> Link] /\ r.head \in Pcb
      /\ Reach(r.next, r.head) = {p} \cup Reach(nx, readyQueue)
      /\ Ends(r.next, r.head)
      /\ AgreeOutside(nx, r.next, {p} \cup Reach(nx, readyQueue))
      /\ InsertEnds(nx, pri, readyQueue, p)
  BY InsertProcQFacts
<1>2. p_next' = r.next /\ readyQueue' = r.head /\ pc' = next
  BY <1>1 DEF InsertReady
<1> HIDE DEF r
<1> QED
  BY <1>1, <1>2 DEF OnReady, Link

(* semv wakes the head of the queue.                                       *)
LEMMA WakeLists ==
  ASSUME TypeOK, ListsEnd, ListsApart, NEW k \in Key, NEW next, next # "lost",
         SemV(k, next), s_procQ[k] # NULL, pcbfree_h' = pcbfree_h
  PROVE  /\ s_procQ[k] \in Queue(k)
         /\ Free' = Free
         /\ OnReady' = OnReady \cup {s_procQ[k]}
         /\ Queue(k)' = Queue(k) \ {s_procQ[k]}
         /\ \A j \in Key \ {k} : Queue(j)' = Queue(j)
         /\ ListsEnd' /\ pc' = next
<1> DEFINE b == s_procQ[k]
<1>1. b \in Pcb /\ b \in Link /\ p_next \in [Pcb -> Link] /\ readyQueue \in Link
        /\ pcbfree_h \in Link
  BY ListTypes DEF Link
<1>2. b \in Queue(k) /\ Ends(p_next, b)
  BY <1>1, ReachHead DEF Queue, ListsEnd
<1>3. PICK pri : InsertReady(p_next, pri, b, next)
  BY DEF SemV
<1>4. s_procQ' = [s_procQ EXCEPT ![k] = p_next[b]]
  BY DEF SemV
<1>5. b \notin OnReady
  BY <1>2 DEF ListsApart
<1>6. /\ p_next' \in [Pcb -> Link] /\ readyQueue' \in Link
      /\ OnReady' = {b} \cup OnReady
      /\ Ends(p_next, readyQueue)'
      /\ AgreeOutside(p_next, p_next', {b} \cup OnReady)
      /\ pc' = next
  BY <1>1, <1>3, <1>5, InsertReadyLists DEF OnReady, ListsEnd
<1>7. Reach(p_next, p_next[b]) = Queue(k) \ {b} /\ Ends(p_next, p_next[b])
  <2>1. Queue(k) = {b} \cup Reach(p_next, p_next[b])
    BY <1>1, ReachStep DEF Queue
  <2>2. b \notin Reach(p_next, p_next[b])
    BY <1>1, <1>2, NoCycle DEF Queue
  <2> QED
    BY <1>1, <1>2, <2>1, <2>2, EndsStep
<1>8. Free' = Free /\ Ends(p_next, pcbfree_h)'
  <2>1. Free \cap ({b} \cup OnReady) = {}
    BY <1>2 DEF ListsApart
  <2>2. Reach(p_next', pcbfree_h) = Free /\ Ends(p_next', pcbfree_h)
    BY <1>1, <1>6, <2>1, ApartFrame DEF Free, ListsEnd
  <2> QED
    BY <2>2 DEF Free
<1>9. Queue(k)' = Queue(k) \ {b} /\ Ends(p_next, s_procQ[k])'
  <2>1. (Queue(k) \ {b}) \cap ({b} \cup OnReady) = {}
    BY DEF ListsApart
  <2>2. p_next[b] \in Link
    BY <1>1
  <2>3. Reach(p_next', p_next[b]) = Queue(k) \ {b} /\ Ends(p_next', p_next[b])
    BY <1>1, <1>6, <1>7, <2>1, <2>2, ApartFrame
  <2>4. s_procQ'[k] = p_next[b]
    BY <1>4 DEF TypeOK
  <2> QED
    BY <2>3, <2>4 DEF Queue
<1>10. ASSUME NEW j \in Key \ {k}
       PROVE  Queue(j)' = Queue(j) /\ Ends(p_next, s_procQ[j])'
  <2>1. Queue(j) \cap ({b} \cup OnReady) = {}
    BY <1>2 DEF ListsApart
  <2>2. s_procQ[j] \in Link /\ Ends(p_next, s_procQ[j])
    BY ListTypes DEF ListsEnd
  <2>3. Reach(p_next', s_procQ[j]) = Queue(j) /\ Ends(p_next', s_procQ[j])
    BY <1>1, <1>6, <2>1, <2>2, ApartFrame DEF Queue
  <2>4. s_procQ'[j] = s_procQ[j]
    BY <1>4 DEF TypeOK
  <2> QED
    BY <2>3, <2>4 DEF Queue
<1>11. ListsEnd'
  BY <1>6, <1>8, <1>9, <1>10 DEF ListsEnd
<1> QED
  BY <1>2, <1>6, <1>8, <1>9, <1>10, <1>11

(* There is always a descriptor for insertBlocked: every active semaphore  *)
(* has a process of its own, and the current process waits on none.        *)
LEMMA DescriptorLeft ==
  ASSUME TypeOK, ListsApart, currentPcb # NULL, Careful
  PROVE  ~(Cardinality({j \in Key : s_procQ[j] # NULL}) >= MAXSEMD)
<1> DEFINE A == {j \in Key : s_procQ[j] # NULL}
           T == Pcb \ {currentPcb}
           f == [j \in A |-> s_procQ[j]]
<1>1. currentPcb \in Pcb
  BY ListTypes DEF Link
<1>2. IsFiniteSet(T) /\ Cardinality(T) = MAXPROC - 1
  BY <1>1, PcbFinite, FS_RemoveElement
<1>3. ASSUME NEW j \in A
      PROVE  s_procQ[j] \in Queue(j) /\ s_procQ[j] \in T
  <2>1. s_procQ[j] \in Pcb
    BY ListTypes DEF Link
  <2>2. s_procQ[j] \in Queue(j)
    BY <2>1, ListTypes, ReachHead DEF Queue
  <2> QED
    BY <2>1, <2>2 DEF ListsApart
<1>4. \A i, j \in A : f[i] = f[j] => i = j
  BY <1>3 DEF ListsApart
<1>5. f \in [A -> T]
  BY <1>3
<1>6. f \in Injection(A, T)
  BY <1>4, <1>5 DEF Injection, IsInjective
<1> HIDE DEF A, T, f
<1>7. Cardinality(A) <= Cardinality(T) /\ IsFiniteSet(A)
  BY <1>2, <1>6, FS_Injection
<1>8. Cardinality(A) \in Nat
  BY <1>7, FS_CardinalityType
<1>9. ~(Cardinality(A) >= MAXSEMD)
  BY <1>2, <1>7, <1>8 DEF Careful
<1> QED
  BY <1>9 DEF A

(* semp makes the current process wait at the end of the queue.            *)
LEMMA BlockLists ==
  ASSUME TypeOK, ListsEnd, ListsApart, Careful, currentPcb # NULL, NEW k \in Key,
         semval[k] <= 0, SemP(k), UNCHANGED <<pcbfree_h, readyQueue>>
  PROVE  /\ Free' = Free /\ OnReady' = OnReady
         /\ Queue(k)' = Queue(k) \cup {currentPcb}
         /\ \A j \in Key \ {k} : Queue(j)' = Queue(j)
         /\ ListsEnd' /\ pc' = "scheduler"
<1> DEFINE c   == currentPcb
           nx  == [p_next EXCEPT ![c] = NULL]
           pri == [p_priority EXCEPT ![c] = 0]
           h   == s_procQ[k]
           r   == InsertProcQ(nx, pri, h, c)
<1>1. /\ c \in Pcb /\ p_next \in [Pcb -> Link] /\ readyQueue \in Link
      /\ pcbfree_h \in Link /\ h \in Link
  BY ListTypes DEF Link
<1>2. nx \in [Pcb -> Link] /\ \A n \in Pcb \ {c} : nx[n] = p_next[n]
  BY <1>1 DEF Link
<1>3. InsertBlocked(k, c)
  <2>1. ~(semval[k] > 0)
    BY DEF TypeOK
  <2> QED
    BY <2>1 DEF SemP
<1>4. ~(s_procQ[k] = NULL /\ Cardinality({j \in Key : s_procQ[j] # NULL}) >= MAXSEMD)
  BY DescriptorLeft
<1>5. /\ p_next' = r.next /\ s_procQ' = [s_procQ EXCEPT ![k] = r.head]
      /\ pc' = IF InsertEnds(nx, pri, h, c) THEN "scheduler" ELSE "lost"
  BY <1>3, <1>4 DEF InsertBlocked
<1> HIDE DEF nx, pri, r
<1>6. AgreeOutside(p_next, nx, {c})
  BY <1>2 DEF AgreeOutside
<1>7. Reach(nx, h) = Queue(k) /\ Ends(nx, h)
  <2>1. Queue(k) \cap {c} = {} /\ Ends(p_next, h)
    BY DEF ListsApart, ListsEnd
  <2> QED
    BY <1>1, <1>2, <1>6, <2>1, ApartFrame DEF Queue
<1>8. /\ r.next \in [Pcb -> Link] /\ r.head \in Pcb
      /\ Reach(r.next, r.head) = {c} \cup Queue(k)
      /\ Ends(r.next, r.head)
      /\ AgreeOutside(nx, r.next, {c} \cup Queue(k))
      /\ InsertEnds(nx, pri, h, c)
  <2>1. c \notin Reach(nx, h)
    BY <1>7 DEF ListsApart
  <2>2. /\ r.next \in [Pcb -> Link] /\ r.head \in Pcb
        /\ Reach(r.next, r.head) = {c} \cup Reach(nx, h)
        /\ Ends(r.next, r.head)
        /\ AgreeOutside(nx, r.next, {c} \cup Reach(nx, h))
        /\ InsertEnds(nx, pri, h, c)
    BY <1>1, <1>2, <1>7, <2>1, InsertProcQFacts DEF r
  <2> QED
    BY <1>7, <2>2
<1>9. AgreeOutside(p_next, p_next', {c} \cup Queue(k)) /\ p_next' \in [Pcb -> Link]
  BY <1>5, <1>6, <1>8 DEF AgreeOutside
<1>10. Free' = Free /\ Ends(p_next, pcbfree_h)'
  <2>1. Free \cap ({c} \cup Queue(k)) = {} /\ Ends(p_next, pcbfree_h)
    BY DEF ListsApart, ListsEnd
  <2>2. Reach(p_next', pcbfree_h) = Free /\ Ends(p_next', pcbfree_h)
    BY <1>1, <1>9, <2>1, ApartFrame DEF Free
  <2> QED
    BY <2>2 DEF Free
<1>11. OnReady' = OnReady /\ Ends(p_next, readyQueue)'
  <2>1. OnReady \cap ({c} \cup Queue(k)) = {} /\ Ends(p_next, readyQueue)
    BY DEF ListsApart, ListsEnd
  <2>2. Reach(p_next', readyQueue) = OnReady /\ Ends(p_next', readyQueue)
    BY <1>1, <1>9, <2>1, ApartFrame DEF OnReady
  <2> QED
    BY <2>2 DEF OnReady
<1>12. Queue(k)' = Queue(k) \cup {c} /\ Ends(p_next, s_procQ[k])'
  <2>1. s_procQ'[k] = r.head
    BY <1>5 DEF TypeOK
  <2>2. Queue(k)' = Reach(p_next', s_procQ'[k])
    BY DEF Queue
  <2> QED
    BY <1>5, <1>8, <2>1, <2>2
<1>13. ASSUME NEW j \in Key \ {k}
       PROVE  Queue(j)' = Queue(j) /\ Ends(p_next, s_procQ[j])'
  <2>1. Queue(j) \cap ({c} \cup Queue(k)) = {}
    BY DEF ListsApart
  <2>2. s_procQ[j] \in Link /\ Ends(p_next, s_procQ[j])
    BY ListTypes DEF ListsEnd
  <2>3. Reach(p_next', s_procQ[j]) = Queue(j) /\ Ends(p_next', s_procQ[j])
    BY <1>1, <1>9, <2>1, <2>2, ApartFrame DEF Queue
  <2>4. s_procQ'[j] = s_procQ[j]
    BY <1>5 DEF TypeOK
  <2> QED
    BY <2>3, <2>4 DEF Queue
<1>14. ListsEnd' /\ pc' = "scheduler"
  BY <1>5, <1>8, <1>10, <1>11, <1>12, <1>13 DEF ListsEnd
<1> QED
  BY <1>10, <1>11, <1>12, <1>13, <1>14

(* createprocess takes a PCB from the free list to the ready queue.        *)
LEMMA CreateLists ==
  ASSUME TypeOK, ListsEnd, ListsApart, NEW priority, CreateProcess(priority),
         CreateEnds(AllocNode(p_next, pcbfree_h))
  PROVE  /\ AllocNode(p_next, pcbfree_h) \in Free
         /\ Free' = Free \ {AllocNode(p_next, pcbfree_h)}
         /\ OnReady' = OnReady \cup {AllocNode(p_next, pcbfree_h)}
         /\ \A k \in Key : Queue(k)' = Queue(k)
         /\ ListsEnd' /\ pc' = "scheduler"
<1> DEFINE p == AllocNode(p_next, pcbfree_h)
           f == AllocPcb(p_next, pcbfree_h)
<1>1. pcbfree_h \in Pcb /\ p_next \in [Pcb -> Link] /\ readyQueue \in Link
  BY ListTypes DEF CreateProcess, Link
<1>2. PICK pri : InsertReady(f.next, pri, p, "scheduler")
  BY DEF CreateProcess
<1>3. pcbfree_h' = f.head /\ s_procQ' = s_procQ
  BY DEF CreateProcess
<1>4. /\ p \in Free /\ p \in Pcb
      /\ f.next \in [Pcb -> Link] /\ f.head \in Link
      /\ Reach(f.next, f.head) = Free \ {p}
      /\ Ends(f.next, f.head)
      /\ AgreeOutside(p_next, f.next, Free)
  BY <1>1, AllocPcbFacts DEF Free, ListsEnd
<1> HIDE DEF p, f
<1>5. Reach(f.next, readyQueue) = OnReady /\ Ends(f.next, readyQueue)
  <2>1. OnReady \cap Free = {} /\ Ends(p_next, readyQueue)
    BY DEF ListsApart, ListsEnd
  <2> QED
    BY <1>1, <1>4, <2>1, ApartFrame DEF OnReady
<1>6. p \notin Reach(f.next, readyQueue)
  BY <1>4, <1>5 DEF ListsApart
<1>7. /\ p_next' \in [Pcb -> Link]
      /\ OnReady' = {p} \cup Reach(f.next, readyQueue)
      /\ Ends(p_next, readyQueue)'
      /\ AgreeOutside(f.next, p_next', {p} \cup Reach(f.next, readyQueue))
      /\ pc' = "scheduler"
  BY <1>1, <1>2, <1>4, <1>5, <1>6, InsertReadyLists
<1>8. AgreeOutside(f.next, p_next', {p} \cup OnReady)
  BY <1>5, <1>7
<1>9. Free' = Free \ {p} /\ Ends(p_next, pcbfree_h)'
  <2>1. (Free \ {p}) \cap ({p} \cup OnReady) = {}
    BY DEF ListsApart
  <2>2. Reach(p_next', f.head) = Free \ {p} /\ Ends(p_next', f.head)
    BY <1>4, <1>7, <1>8, <2>1, ApartFrame
  <2> QED
    BY <1>3, <2>2 DEF Free
<1>10. ASSUME NEW k \in Key
       PROVE  Queue(k)' = Queue(k) /\ Ends(p_next, s_procQ[k])'
  <2>1. Queue(k) \cap Free = {} /\ Queue(k) \cap ({p} \cup OnReady) = {}
    BY <1>4 DEF ListsApart
  <2>2. s_procQ[k] \in Link /\ Ends(p_next, s_procQ[k])
    BY ListTypes DEF ListsEnd
  <2>3. Reach(f.next, s_procQ[k]) = Queue(k) /\ Ends(f.next, s_procQ[k])
    BY <1>1, <1>4, <2>1, <2>2, ApartFrame DEF Queue
  <2>4. Reach(p_next', s_procQ[k]) = Queue(k) /\ Ends(p_next', s_procQ[k])
    BY <1>4, <1>7, <1>8, <2>1, <2>2, <2>3, ApartFrame
  <2> QED
    BY <1>3, <2>4 DEF Queue
<1>11. ListsEnd'
  BY <1>7, <1>9, <1>10 DEF ListsEnd
<1> QED
  BY <1>4, <1>5, <1>7, <1>9, <1>10, <1>11 DEF p

(* liberaTutti frees a PCB that is in the ready queue or nowhere.          *)
LEMMA ReleaseLists ==
  ASSUME TypeOK, ListsEnd, ListsApart, Release, Top \in Pcb \ Free,
         \A k \in Key : Top \notin Queue(k), OutChildEnds(Top)
  PROVE  /\ Free' = Free \cup {Top}
         /\ OnReady' = OnReady \ {Top}
         /\ \A k \in Key : Queue(k)' = Queue(k)
         /\ ListsEnd' /\ pc' = IF Len(stack) = 1 THEN "scheduler" ELSE pc
<1> DEFINE p == Top
           r == OutProcQ(p_next, readyQueue, p)
           f == FreePcb(r.next, pcbfree_h, p)
<1>1. /\ p_next \in [Pcb -> Link] /\ readyQueue \in Link /\ pcbfree_h \in Link /\ p \in Pcb
  BY ListTypes
<1>2. /\ readyQueue' = r.head /\ p_next' = f.next /\ pcbfree_h' = f.head /\ s_procQ' = s_procQ
      /\ pc' = IF ~ /\ OutEnds(p_next, readyQueue, p)
                    /\ OutChildEnds(p)
                    /\ Ends(r.next, pcbfree_h) THEN "lost"
               ELSE IF Len(stack) = 1 THEN "scheduler" ELSE pc
  BY DEF Release, sems
<1>3. pc = "liberaTutti"
  BY DEF Release
<1>4. /\ r.next \in [Pcb -> Link] /\ r.head \in Link
      /\ Reach(r.next, r.head) = OnReady \ {p}
      /\ Ends(r.next, r.head)
      /\ AgreeOutside(p_next, r.next, OnReady)
      /\ OutEnds(p_next, readyQueue, p)
  BY <1>1, OutProcQFacts DEF OnReady, ListsEnd
<1> HIDE DEF p, r, f
<1>5. Reach(r.next, pcbfree_h) = Free /\ Ends(r.next, pcbfree_h)
  <2>1. Free \cap OnReady = {} /\ Ends(p_next, pcbfree_h)
    BY DEF ListsApart, ListsEnd
  <2> QED
    BY <1>1, <1>4, <2>1, ApartFrame DEF Free
<1>6. /\ f.next \in [Pcb -> Link] /\ f.head \in Pcb
      /\ Reach(f.next, f.head) = {p} \cup Free
      /\ Ends(f.next, f.head)
      /\ AgreeOutside(r.next, f.next, {p} \cup Free)
  <2>1. p \notin Reach(r.next, pcbfree_h)
    BY <1>5 DEF p
  <2>2. /\ f.next \in [Pcb -> Link] /\ f.head \in Pcb
        /\ Reach(f.next, f.head) = {p} \cup Reach(r.next, pcbfree_h)
        /\ Ends(f.next, f.head)
        /\ AgreeOutside(r.next, f.next, {p} \cup Reach(r.next, pcbfree_h))
    BY <1>1, <1>4, <1>5, <2>1, FreePcbFacts DEF f
  <2> QED
    BY <1>5, <2>2
<1>7. Free' = Free \cup {p} /\ Ends(p_next, pcbfree_h)'
  BY <1>2, <1>6 DEF Free
<1>8. OnReady' = OnReady \ {p} /\ Ends(p_next, readyQueue)'
  <2>1. (OnReady \ {p}) \cap ({p} \cup Free) = {}
    BY DEF ListsApart
  <2>2. Reach(f.next, r.head) = OnReady \ {p} /\ Ends(f.next, r.head)
    BY <1>4, <1>6, <2>1, ApartFrame
  <2> QED
    BY <1>2, <2>2 DEF OnReady
<1>9. ASSUME NEW k \in Key
      PROVE  Queue(k)' = Queue(k) /\ Ends(p_next, s_procQ[k])'
  <2>1. Queue(k) \cap OnReady = {} /\ Queue(k) \cap ({p} \cup Free) = {}
    BY DEF ListsApart, p
  <2>2. s_procQ[k] \in Link /\ Ends(p_next, s_procQ[k])
    BY ListTypes DEF ListsEnd
  <2>3. Reach(r.next, s_procQ[k]) = Queue(k) /\ Ends(r.next, s_procQ[k])
    BY <1>1, <1>4, <2>1, <2>2, ApartFrame DEF Queue
  <2>4. Reach(f.next, s_procQ[k]) = Queue(k) /\ Ends(f.next, s_procQ[k])
    BY <1>4, <1>6, <2>1, <2>2, <2>3, ApartFrame
  <2> QED
    BY <1>2, <2>4 DEF Queue
<1>10. pc' = IF Len(stack) = 1 THEN "scheduler" ELSE pc
  BY <1>2, <1>4, <1>5 DEF p
<1>11. ListsEnd'
  BY <1>3, <1>7, <1>8, <1>9, <1>10 DEF ListsEnd
<1> QED
  BY <1>7, <1>8, <1>9, <1>10, <1>11 DEF p

(* The scheduler takes the head of the ready queue.                        *)
LEMMA DispatchLists ==
  ASSUME TypeOK, ListsEnd, NEW aging, Dispatch(aging)
  PROVE  /\ readyQueue \in OnReady /\ readyQueue \in Pcb
         /\ OnReady' = OnReady \ {readyQueue} /\ Free' = Free
         /\ \A k \in Key : Queue(k)' = Queue(k)
         /\ ListsEnd'
<1>1. /\ readyQueue \in Pcb /\ readyQueue' = p_next[readyQueue] /\ pc' = "user"
      /\ UNCHANGED <<p_next, pcbfree_h, s_procQ>> /\ p_next \in [Pcb -> Link]
  BY ListTypes DEF Dispatch, SchedulerFrame, sems, Link
<1>2. OnReady = {readyQueue} \cup Reach(p_next, p_next[readyQueue])
  BY <1>1, ReachStep DEF OnReady
<1>3. readyQueue \notin Reach(p_next, p_next[readyQueue])
  <2>1. Ends(p_next, readyQueue) /\ readyQueue \in Reach(p_next, readyQueue) /\ readyQueue \in Link
    BY <1>1, ReachHead DEF ListsEnd, Link
  <2> QED
    BY <1>1, <2>1, NoCycle
<1>4. Ends(p_next, p_next[readyQueue])
  BY <1>1, EndsStep DEF ListsEnd
<1>5. OnReady' = Reach(p_next, p_next[readyQueue])
  BY <1>1 DEF OnReady
<1>6. Free' = Free /\ \A k \in Key : Queue(k)' = Queue(k)
  BY <1>1 DEF Free, Queue
<1>7. ListsEnd'
  BY <1>1, <1>4 DEF ListsEnd
<1> QED
  BY <1>1, <1>2, <1>3, <1>5, <1>6, <1>7

(* timerHandler puts the current process back in the ready queue.          *)
LEMMA PreemptLists ==
  ASSUME TypeOK, ListsEnd, ListsApart, Preempt, currentPcb # NULL
  PROVE  /\ OnReady' = OnReady \cup {currentPcb} /\ Free' = Free
         /\ \A k \in Key : Queue(k)' = Queue(k)
         /\ ListsEnd' /\ pc' = "scheduler"
<1> DEFINE c == currentPcb
<1>1. /\ c \in Pcb /\ p_next \in [Pcb -> Link] /\ readyQueue \in Link /\ pcbfree_h \in Link
  BY ListTypes DEF Link
<1>2. InsertReady(p_next, p_priority, c, "scheduler") /\ UNCHANGED <<pcbfree_h, s_procQ>>
  BY DEF Preempt, CallFrame, sems
<1>3. /\ p_next' \in [Pcb -> Link] /\ readyQueue' \in Link
      /\ OnReady' = {c} \cup OnReady
      /\ Ends(p_next, readyQueue)'
      /\ AgreeOutside(p_next, p_next', {c} \cup OnReady)
      /\ pc' = "scheduler"
  BY <1>1, <1>2, InsertReadyLists DEF ListsApart, ListsEnd, OnReady
<1>4. Free' = Free /\ Ends(p_next, pcbfree_h)'
  <2>1. Free \cap ({c} \cup OnReady) = {} /\ Ends(p_next, pcbfree_h)
    BY DEF ListsApart, ListsEnd
  <2>2. Reach(p_next', pcbfree_h) = Free /\ Ends(p_next', pcbfree_h)
    BY <1>1, <1>3, <2>1, ApartFrame DEF Free
  <2> QED
    BY <1>2, <2>2 DEF Free
<1>5. ASSUME NEW k \in Key
      PROVE  Queue(k)' = Queue(k) /\ Ends(p_next, s_procQ[k])'
  <2>1. Queue(k) \cap ({c} \cup OnReady) = {}
    BY DEF ListsApart
  <2>2. s_procQ[k] \in Link /\ Ends(p_next, s_procQ[k])
    BY ListTypes DEF ListsEnd
  <2>3. Reach(p_next', s_procQ[k]) = Queue(k) /\ Ends(p_next', s_procQ[k])
    BY <1>1, <1>3, <2>1, <2>2, ApartFrame DEF Queue
  <2> QED
    BY <1>2, <2>3 DEF Queue
<1>6. ListsEnd'
  BY <1>3, <1>4, <1>5 DEF ListsEnd
<1> QED
  BY <1>3, <1>4, <1>5, <1>6

-----------------------------------------------------------------------------
(***************************************************************************)
(* The tree after each kind of step.                                       *)
(***************************************************************************)
Children(p) == {q \in Pcb : p_parent[q] = p}

\* what TreeSound says of one process
LEMMA TreeFacts ==
  ASSUME TypeOK, TreeSound, NEW p \in Pcb
  PROVE  /\ p_first_child[p] \in Link /\ p_parent[p] \in Link /\ p_sib[p] \in Link
         /\ Ends(p_sib, p_first_child[p])
         /\ Reach(p_sib, p_first_child[p]) = Children(p)
         /\ p \notin Reach(p_parent, p_parent[p])
         /\ p_parent[p] # NULL => p \in Live /\ p_parent[p] \in Live /\ p_parent[p] \in Pcb
         /\ p_first_child[p] = NULL <=> Children(p) = {}
         /\ p_first_child[p] # NULL => p_first_child[p] \in Children(p)
<1>1. /\ p_first_child[p] \in Link /\ p_parent[p] \in Link /\ p_sib[p] \in Link
      /\ p_sib \in [Pcb -> Link]
  BY DEF TypeOK
<1>2. /\ Ends(p_sib, p_first_child[p])
      /\ Reach(p_sib, p_first_child[p]) = Children(p)
      /\ p \notin Reach(p_parent, p_parent[p])
      /\ p_parent[p] # NULL => p \in Live /\ p_parent[p] \in Live
  BY DEF TreeSound, Children
<1>3. p_first_child[p] # NULL => p_first_child[p] \in Children(p)
  BY <1>1, <1>2, ReachHead DEF Link
<1>4. p_first_child[p] = NULL => Children(p) = {}
  BY <1>1, <1>2, ReachNull
<1> QED
  BY <1>1, <1>2, <1>3, <1>4 DEF Link

(* Links that are cut lead to fewer nodes.                                 *)
LEMMA CutReach ==
  ASSUME NEW nx \in [Pcb -> Link], NEW ny \in [Pcb -> Link], NEW h \in Link,
         \A n \in Pcb : ny[n] \in {nx[n], NULL}
  PROVE  Reach(ny, h) \subseteq Reach(nx, h)
<1>1. h \in Pcb => h \in Reach(nx, h)
  BY ReachHead
<1>2. \A n \in Reach(nx, h) \cap Pcb : ny[n] \in Pcb => ny[n] \in Reach(nx, h)
  BY ReachClosed, PcbFinite
<1> QED
  BY <1>1, <1>2, ReachLeast

(* insertChild(currentPcb, p) for a PCB p that was free.                   *)
LEMMA CreateTree ==
  ASSUME TypeOK, TreeSound, Ends(p_next, pcbfree_h), currentPcb \in Live,
         NEW p \in Free, InsertChild(p), Live' = Live \cup {p}
  PROVE  CreateEnds(p) /\ TreeSound'
<1> DEFINE c     == currentPcb
           first == [p_first_child EXCEPT ![p] = NULL]
           sib   == [p_sib EXCEPT ![p] = NULL]
           r     == FreePcb(sib, p_first_child[c], p)
<1>1. c \in Pcb /\ p \in Pcb /\ p \notin Live /\ p # c /\ NULL \notin Pcb
  BY ReachType, PcbFinite DEF Live, Free
<1>2. Children(p) = {} /\ p_parent[p] = NULL /\ p_first_child[p] = NULL
  <2>1. Children(p) = {}
    BY <1>1, TreeFacts DEF Children
  <2> QED
    BY <1>1, <2>1, TreeFacts
<1>3. /\ p_sib \in [Pcb -> Link] /\ p_first_child \in [Pcb -> Link] /\ p_parent \in [Pcb -> Link]
      /\ sib \in [Pcb -> Link] /\ sib[p] = NULL /\ \A n \in Pcb \ {p} : sib[n] = p_sib[n]
  BY <1>1 DEF TypeOK, Link
<1>4. first[c] = p_first_child[c] /\ \A x \in Pcb : first[x] = p_first_child[x]
  BY <1>1, <1>2, <1>3
<1>5. p_parent' = [p_parent EXCEPT ![p] = c]
  BY DEF InsertChild
<1>6. \/ /\ first[c] = NULL
         /\ p_first_child' = [first EXCEPT ![c] = p]
         /\ p_sib' = sib
      \/ /\ first[c] # NULL
         /\ p_first_child' = first
         /\ p_sib' = [sib EXCEPT ![LastNode(sib, first[c])] = p]
  BY DEF InsertChild
<1>7. CreateEnds(p) <=> Ends(p_next, pcbfree_h) /\ Ends(sib, first[c])
  BY DEF CreateEnds
<1> HIDE DEF sib
<1>8. ASSUME NEW x \in Pcb
      PROVE  /\ Reach(sib, p_first_child[x]) = Children(x)
             /\ Ends(sib, p_first_child[x])
             /\ p \notin Children(x)
  <2>1. p \notin Children(x)
    BY <1>1, <1>2 DEF Children
  <2>2. Reach(p_sib, p_first_child[x]) = Children(x) /\ Ends(p_sib, p_first_child[x])
          /\ p_first_child[x] \in Link
    BY TreeFacts
  <2>3. AgreeOutside(p_sib, sib, {p}) /\ Reach(p_sib, p_first_child[x]) \cap {p} = {}
    BY <1>3, <2>1, <2>2 DEF AgreeOutside
  <2> QED
    BY <1>3, <2>1, <2>2, <2>3, ApartFrame
<1>9. /\ r.next \in [Pcb -> Link] /\ r.head \in Pcb
      /\ Reach(r.next, r.head) = {p} \cup Children(c)
      /\ Ends(r.next, r.head)
      /\ AgreeOutside(sib, r.next, {p} \cup Children(c))
  <2>1. p_first_child[c] \in Link /\ p \notin Reach(sib, p_first_child[c])
          /\ Ends(sib, p_first_child[c])
    BY <1>1, <1>3, <1>8
  <2>2. /\ r.next \in [Pcb -> Link] /\ r.head \in Pcb
        /\ Reach(r.next, r.head) = {p} \cup Reach(sib, p_first_child[c])
        /\ Ends(r.next, r.head)
        /\ AgreeOutside(sib, r.next, {p} \cup Reach(sib, p_first_child[c]))
    BY <1>1, <1>3, <2>1, FreePcbFacts
  <2> QED
    BY <1>1, <1>8, <2>2
<1>10. p_sib' = r.next /\ \A x \in Pcb : p_first_child'[x] = IF x = c THEN r.head ELSE p_first_child[x]
  <2>1. CASE first[c] = NULL
    <3>1. p_first_child[c] = NULL /\ r.head = p /\ r.next = [sib EXCEPT ![p] = NULL]
      BY <1>4, <2>1 DEF FreePcb
    <3>2. r.next = sib
      BY <1>1, <1>3, <3>1
    <3>3. p_sib' = sib /\ p_first_child' = [first EXCEPT ![c] = p]
      BY <1>6, <2>1
    <3> QED
      BY <1>1, <1>3, <1>4, <3>1, <3>2, <3>3
  <2>2. CASE first[c] # NULL
    <3> DEFINE q == LastNode(sib, p_first_child[c])
    <3>1. p_first_child[c] # NULL /\ r.head = p_first_child[c]
            /\ r.next = [sib EXCEPT ![q] = p, ![p] = NULL]
      BY <1>4, <2>2 DEF FreePcb
    <3>2. q \in Children(c)
      <4>1. p_first_child[c] \in Pcb
        BY <1>1, <1>3, <3>1 DEF Link
      <4> QED
        BY <1>1, <1>3, <1>8, <4>1, LastNodeFacts
    <3>3. q \in Pcb /\ q # p
      BY <1>1, <1>8, <3>2 DEF Children
    <3>4. p_sib' = [sib EXCEPT ![q] = p] /\ p_first_child' = first
      BY <1>4, <1>6, <2>2
    <3> HIDE DEF q, first
    <3>5. [sib EXCEPT ![q] = p, ![p] = NULL] = [sib EXCEPT ![q] = p]
      BY <1>1, <1>3, <3>3
    <3> QED
      BY <1>4, <3>1, <3>4, <3>5
  <2> QED
    BY <2>1, <2>2
<1> HIDE DEF r, first
<1>11. ASSUME NEW x \in Pcb
       PROVE  /\ Ends(p_sib', p_first_child'[x])
              /\ Reach(p_sib', p_first_child'[x]) = {q \in Pcb : p_parent'[q] = x}
  <2>1. CASE x = c
    <3>1. {q \in Pcb : p_parent'[q] = x} = {p} \cup Children(c)
      BY <1>1, <1>3, <1>5, <2>1 DEF Children
    <3> QED
      BY <1>9, <1>10, <2>1, <3>1
  <2>2. CASE x # c
    <3>1. {q \in Pcb : p_parent'[q] = x} = Children(x)
      BY <1>1, <1>2, <1>3, <1>5, <2>2 DEF Children
    <3>2. Children(x) \cap ({p} \cup Children(c)) = {}
      BY <1>8, <2>2 DEF Children
    <3>3. p_first_child[x] \in Link /\ p_first_child'[x] = p_first_child[x]
      BY <1>3, <1>10, <2>2
    <3>4. Reach(r.next, p_first_child[x]) = Children(x) /\ Ends(r.next, p_first_child[x])
      BY <1>3, <1>8, <1>9, <3>2, <3>3, ApartFrame
    <3> QED
      BY <1>10, <3>1, <3>3, <3>4
  <2> QED
    BY <2>1, <2>2
<1>12. ASSUME NEW y \in Link, y # p
       PROVE  Reach(p_parent', y) = Reach(p_parent, y) /\ p \notin Reach(p_parent, y)
  <2>1. p \notin Reach(p_parent, y)
    <3>1. ASSUME p \in Reach(p_parent, y)
          PROVE  \E q \in Reach(p_parent, y) : p_parent[q] = p
      BY <1>3, <1>12, <3>1, ReachPredecessor
    <3> QED
      BY <1>2, <3>1, ReachType DEF Children
  <2>2. \A n \in Reach(p_parent, y) : p_parent'[n] = p_parent[n]
    BY <1>3, <1>5, <2>1, ReachType
  <2>3. p_parent' \in [Pcb -> Link]
    BY <1>1, <1>3, <1>5 DEF Link
  <2> QED
    BY <1>3, <2>1, <2>2, <2>3, ReachFrame
<1>13. ASSUME NEW x \in Pcb
       PROVE  x \notin Reach(p_parent', p_parent'[x])
  <2>1. CASE x = p
    <3>1. p_parent'[x] = c /\ c \in Link
      BY <1>1, <1>3, <1>5, <2>1 DEF Link
    <3> QED
      BY <1>1, <1>12, <2>1, <3>1
  <2>2. CASE x # p
    <3>1. p_parent'[x] = p_parent[x] /\ p_parent[x] \in Link /\ p_parent[x] # p
      BY <1>2, <1>3, <1>5, <2>2 DEF Children
    <3>2. x \notin Reach(p_parent, p_parent[x])
      BY TreeFacts
    <3> QED
      BY <1>12, <3>1, <3>2
  <2> QED
    BY <2>1, <2>2
<1>14. ASSUME NEW x \in Pcb, p_parent'[x] # NULL
       PROVE  {x, p_parent'[x]} \subseteq Live'
  <2>1. CASE x = p
    BY <1>3, <1>5, <2>1
  <2>2. CASE x # p
    BY <1>3, <1>5, <1>14, <2>2, TreeFacts
  <2> QED
    BY <2>1, <2>2
<1>15. CreateEnds(p)
  BY <1>1, <1>4, <1>7, <1>8
<1> QED
  BY <1>11, <1>13, <1>14, <1>15 DEF TreeSound

(* removeChild: the first child of the process on top becomes a root.      *)
LEMMA RemoveChildTree ==
  ASSUME TypeOK, TreeSound, RemoveChild, Top \in Pcb, Live' = Live
  PROVE  /\ p_first_child[Top] \in Pcb /\ p_parent[p_first_child[Top]] = Top
         /\ p_parent' = [p_parent EXCEPT ![p_first_child[Top]] = NULL]
         /\ TreeSound'
<1> DEFINE t == Top
           c == p_first_child[t]
<1>1. /\ c # NULL
      /\ p_first_child' = [p_first_child EXCEPT ![t] = p_sib[c]]
      /\ p_parent' = [p_parent EXCEPT ![c] = NULL]
      /\ p_sib' = p_sib
  BY DEF RemoveChild
<1>2. c \in Children(t) /\ c \in Pcb /\ p_parent[c] = t
  BY <1>1, TreeFacts DEF Children
<1>3. /\ p_sib \in [Pcb -> Link] /\ p_first_child \in [Pcb -> Link] /\ p_parent \in [Pcb -> Link]
      /\ p_parent' \in [Pcb -> Link] /\ c \in Link
  BY <1>1, <1>2 DEF TypeOK, Link
<1> HIDE DEF t, c
<1>4. Reach(p_sib, p_sib[c]) = Children(t) \ {c} /\ Ends(p_sib, p_sib[c])
  <2>1. Reach(p_sib, c) = Children(t) /\ Ends(p_sib, c)
    BY TreeFacts DEF c, t
  <2>2. Reach(p_sib, c) = {c} \cup Reach(p_sib, p_sib[c])
    BY <1>2, <1>3, ReachStep
  <2>3. c \notin Reach(p_sib, p_sib[c])
    BY <1>3, <2>1, <2>2, NoCycle
  <2> QED
    BY <1>2, <1>3, <2>1, <2>2, <2>3, EndsStep
<1>5. ASSUME NEW x \in Pcb
      PROVE  /\ Ends(p_sib', p_first_child'[x])
             /\ Reach(p_sib', p_first_child'[x]) = {q \in Pcb : p_parent'[q] = x}
  <2>1. CASE x = t
    <3>1. {q \in Pcb : p_parent'[q] = x} = Children(t) \ {c}
      BY <1>1, <1>2, <1>3, <2>1, PcbFinite DEF Children
    <3>2. p_first_child'[x] = p_sib[c]
      BY <1>1, <1>3, <2>1
    <3> QED
      BY <1>1, <1>4, <3>1, <3>2
  <2>2. CASE x # t
    <3>1. {q \in Pcb : p_parent'[q] = x} = Children(x)
      BY <1>1, <1>2, <1>3, <2>2, PcbFinite DEF Children
    <3>2. p_first_child'[x] = p_first_child[x]
      BY <1>1, <1>3, <2>2
    <3> QED
      BY <1>1, <3>1, <3>2, TreeFacts
  <2> QED
    BY <2>1, <2>2
<1>6. ASSUME NEW x \in Pcb
      PROVE  /\ x \notin Reach(p_parent', p_parent'[x])
             /\ p_parent'[x] # NULL => {x, p_parent'[x]} \subseteq Live
  <2>1. CASE x = c
    <3>1. p_parent'[x] = NULL
      BY <1>1, <1>3, <2>1
    <3> QED
      BY <1>3, <3>1, ReachNull
  <2>2. CASE x # c
    <3>1. p_parent'[x] = p_parent[x] /\ p_parent[x] \in Link
      BY <1>1, <1>3, <2>2
    <3>2. \A n \in Pcb : p_parent'[n] \in {p_parent[n], NULL}
      BY <1>1, <1>3
    <3>3. Reach(p_parent', p_parent[x]) \subseteq Reach(p_parent, p_parent[x])
      BY <1>3, <3>1, <3>2, CutReach
    <3> QED
      BY <3>1, <3>3, TreeFacts
  <2> QED
    BY <2>1, <2>2
<1>7. TreeSound'
  BY <1>5, <1>6 DEF TreeSound
<1> QED
  BY <1>1, <1>2, <1>7 DEF t, c

(* outChild and freePcb of a process on top that has no child left.        *)
LEMMA ReleaseTree ==
  ASSUME TypeOK, TreeSound, Top \in Pcb, p_first_child[Top] = NULL, OutChild(Top)
  PROVE  /\ OutChildEnds(Top)
         /\ p_parent' = [p_parent EXCEPT ![Top] = NULL]
         /\ Children(Top) = {}
         /\ Live' = Live \ {Top} => TreeSound'
<1> DEFINE t   == Top
           par == p_parent[t]
           r   == OutProcQ(p_sib, p_first_child[par], t)
           q   == Previous(p_sib, p_first_child[par], t)
<1>1. Children(t) = {} /\ par \in Link
  BY TreeFacts
<1>2. /\ p_sib \in [Pcb -> Link] /\ p_first_child \in [Pcb -> Link] /\ p_parent \in [Pcb -> Link]
      /\ t \in Pcb
  BY DEF TypeOK
<1>3. CASE par = NULL
  <2>1. p_parent' = p_parent /\ p_first_child' = p_first_child /\ p_sib' = p_sib
    BY <1>3 DEF OutChild, tree
  <2>2. p_parent' = [p_parent EXCEPT ![t] = NULL]
    BY <1>2, <1>3, <2>1
  <2>3. OutChildEnds(t)
    BY <1>3 DEF OutChildEnds
  <2>4. ASSUME Live' = Live \ {t}, NEW x \in Pcb, p_parent[x] # NULL
        PROVE  {x, p_parent[x]} \subseteq Live'
    BY <1>1, <1>3, <2>4, TreeFacts DEF Children
  <2>5. Live' = Live \ {t} => TreeSound'
    BY <2>1, <2>4 DEF TreeSound
  <2> HIDE DEF t
  <2> QED
    BY <1>1, <2>2, <2>3, <2>5 DEF t
<1>4. CASE par # NULL
  <2>1. par \in Pcb /\ t \in Children(par)
    BY <1>1, <1>2, <1>4 DEF Link, Children
  <2>2. /\ Reach(p_sib, p_first_child[par]) = Children(par)
        /\ Ends(p_sib, p_first_child[par]) /\ p_first_child[par] \in Link
        /\ p_first_child[par] # NULL
    BY <2>1, TreeFacts
  <2>3. p_parent' = [p_parent EXCEPT ![t] = NULL]
    BY <1>4 DEF OutChild
  <2>4. p_first_child[par] # t => p_sib[q] = t
    <3>1. p_first_child[par] \in Pcb
      BY <2>2 DEF Link
    <3> QED
      BY <1>2, <2>1, <2>2, <3>1, PreviousFacts
  <2>5. OutChildEnds(t)
    BY <2>2, <2>4 DEF OutChildEnds
  <2>6. /\ r.next \in [Pcb -> Link] /\ r.head \in Link
        /\ Reach(r.next, r.head) = Children(par) \ {t}
        /\ Ends(r.next, r.head)
        /\ AgreeOutside(p_sib, r.next, Children(par))
    <3>1. /\ r.next \in [Pcb -> Link] /\ r.head \in Link
          /\ Reach(r.next, r.head) = Reach(p_sib, p_first_child[par]) \ {t}
          /\ Ends(r.next, r.head)
          /\ AgreeOutside(p_sib, r.next, Reach(p_sib, p_first_child[par]))
      BY <1>2, <2>2, OutProcQFacts
    <3> QED
      BY <2>2, <3>1
  <2>7. p_sib' = r.next /\ \A x \in Pcb : p_first_child'[x] = IF x = par THEN r.head ELSE p_first_child[x]
    <3>1. CASE p_first_child[par] = t
      <4>1. p_first_child' = [p_first_child EXCEPT ![par] = p_sib[t]] /\ p_sib' = p_sib
        BY <1>4, <3>1 DEF OutChild
      <4>2. r.next = p_sib /\ r.head = p_sib[t]
        BY <2>2, <3>1 DEF OutProcQ
      <4> QED
        BY <1>2, <2>1, <4>1, <4>2
    <3>2. CASE p_first_child[par] # t
      <4>1. p_first_child' = p_first_child /\ p_sib' = [p_sib EXCEPT ![q] = p_sib[t]]
        BY <1>4, <2>2, <3>2 DEF OutChild
      <4>2. r.next = [p_sib EXCEPT ![q] = p_sib[t]] /\ r.head = p_first_child[par]
        BY <2>2, <2>4, <3>2 DEF OutProcQ
      <4> QED
        BY <4>1, <4>2
    <3> QED
      BY <3>1, <3>2
  <2> HIDE DEF t, par, r, q
  <2>8. ASSUME NEW x \in Pcb
        PROVE  /\ Ends(p_sib', p_first_child'[x])
               /\ Reach(p_sib', p_first_child'[x]) = {y \in Pcb : p_parent'[y] = x}
    <3>1. CASE x = par
      <4>1. {y \in Pcb : p_parent'[y] = x} = Children(par) \ {t}
        BY <1>2, <2>1, <2>3, <3>1, PcbFinite DEF Children
      <4> QED
        BY <2>6, <2>7, <3>1, <4>1
    <3>2. CASE x # par
      <4>1. {y \in Pcb : p_parent'[y] = x} = Children(x)
        BY <1>2, <2>1, <2>3, <3>2, PcbFinite DEF Children
      <4>2. Reach(p_sib, p_first_child[x]) = Children(x) /\ Ends(p_sib, p_first_child[x])
              /\ p_first_child[x] \in Link
        BY TreeFacts
      <4>3. Children(x) \cap Children(par) = {}
        BY <3>2 DEF Children
      <4>4. Reach(r.next, p_first_child[x]) = Children(x) /\ Ends(r.next, p_first_child[x])
        BY <1>2, <2>6, <4>2, <4>3, ApartFrame
      <4> QED
        BY <2>7, <3>2, <4>1, <4>4
    <3> QED
      BY <3>1, <3>2
  <2>9. ASSUME NEW x \in Pcb
        PROVE  /\ x \notin Reach(p_parent', p_parent'[x])
               /\ Live' = Live \ {t} /\ p_parent'[x] # NULL => {x, p_parent'[x]} \subseteq Live'
    <3>1. p_parent' \in [Pcb -> Link] /\ \A n \in Pcb : p_parent'[n] \in {p_parent[n], NULL}
      BY <1>2, <2>3 DEF Link
    <3>2. CASE x = t
      <4>1. p_parent'[x] = NULL
        BY <1>2, <2>3, <3>2
      <4> QED
        BY <3>1, <4>1, ReachNull
    <3>3. CASE x # t
      <4>1. p_parent'[x] = p_parent[x] /\ p_parent[x] \in Link /\ p_parent[x] # t
        BY <1>1, <1>2, <2>3, <3>3 DEF Children
      <4>2. Reach(p_parent', p_parent[x]) \subseteq Reach(p_parent, p_parent[x])
        BY <1>2, <3>1, <4>1, CutReach
      <4> QED
        BY <3>3, <4>1, <4>2, TreeFacts
    <3> QED
      BY <3>2, <3>3
  <2>10. Live' = Live \ {t} => TreeSound'
    BY <2>8, <2>9 DEF TreeSound
  <2> QED
    BY <1>1, <2>3, <2>5, <2>10 DEF t
<1> QED
  BY <1>3, <1>4

-----------------------------------------------------------------------------
(***************************************************************************)
(* What is being terminated.                                               *)
(***************************************************************************)
Structure == ListsEnd /\ ListsApart /\ DyingSound /\ TreeSound

\* nothing is dying without a pending call
LEMMA NoneDying ==
  ASSUME stack = << >>
  PROVE  Dying = {} /\ Doomed = {}
  BY DEF Dying, Doomed

\* the first pending call of liberaTutti
LEMMA StackFacts ==
  ASSUME TypeOK, stack # << >>
  PROVE  /\ Len(stack) \in Nat \ {0} /\ Top = stack[Len(stack)]
         /\ \A i \in 1..Len(stack) : stack[i] \in Pcb
         /\ Top \in Dying /\ Top \in Pcb
         /\ Dying \subseteq Doomed
<1>1. Len(stack) \in Nat \ {0}
  BY EmptySeq DEF TypeOK
<1>2. \A i \in 1..Len(stack) : stack[i] \in Pcb
  BY ElementOfSeq DEF TypeOK
<1>3. Top = stack[Len(stack)] /\ Top \in Dying
  BY <1>1 DEF Top, Dying
<1>4. ASSUME NEW i \in 1..Len(stack)
      PROVE  stack[i] \in Subtree(stack[i])
  BY <1>2, ReachHead DEF Subtree, TypeOK
<1>5. Dying \subseteq Doomed
  BY <1>4 DEF Dying, Doomed
<1> QED
  BY <1>1, <1>2, <1>3, <1>5

(* A process and the offspring of a process that lives are alive.          *)
LEMMA SubtreeLive ==
  ASSUME TypeOK, TreeSound, NEW p \in Live, NEW q \in Subtree(p)
  PROVE  q \in Live
<1>1. q \in Pcb /\ p \in Pcb /\ p \in Reach(p_parent, q) /\ p_parent \in [Pcb -> Link]
  BY DEF Subtree, Live, TypeOK
<1>2. CASE p_parent[q] = NULL
  BY <1>1, <1>2, ReachStep, ReachNull
<1>3. CASE p_parent[q] # NULL
  BY <1>1, <1>3, TreeFacts
<1> QED
  BY <1>2, <1>3

(* The lists, the tree and the stack stay as they are.                     *)
LEMMA QuietStructure ==
  ASSUME Structure, UNCHANGED <<p_next, tree, pcbfree_h, readyQueue, currentPcb, s_procQ, stack>>,
         pc' # "lost", pc # "liberaTutti" \/ pc' = pc
  PROVE  Structure'
<1>1. /\ Free' = Free /\ OnReady' = OnReady /\ \A k \in Key : Queue(k)' = Queue(k)
      /\ Blocked' = Blocked /\ Live' = Live /\ ListsEnd'
  BY ListsUnchanged DEF Structure
<1>2. Dying' = Dying /\ \A p \in Pcb : Subtree(p)' = Subtree(p)
  BY DEF Dying, Subtree, tree
<1>3. Doomed' = Doomed
  BY DEF Doomed, Dying, Subtree, tree
<1>4. ListsApart'
  BY <1>1, <1>2 DEF Structure, ListsApart
<1>5. DyingSound'
  BY <1>1, <1>3 DEF Structure, DyingSound, tree
<1>6. TreeSound'
  BY <1>1 DEF Structure, TreeSound, tree
<1> QED
  BY <1>1, <1>4, <1>5, <1>6 DEF Structure

\* a step that leaves the tree and the set of live processes alone
LEMMA TreeUnchanged ==
  ASSUME TreeSound, UNCHANGED tree, Free' = Free
  PROVE  Live' = Live /\ TreeSound'
<1>1. Live' = Live
  BY DEF Live, Free
<1> QED
  BY <1>1 DEF TreeSound, tree

\* the current process starts to wait on k
Block(k) ==
  /\ SysCall /\ semval[k] <= 0 /\ SemP(k)
  /\ UNCHANGED <<readyQueue, start_priority, CallFrame>>

\* the current process waits
LEMMA BlockStructure ==
  ASSUME TypeOK, Structure, Careful, NEW k \in Key, Block(k)
  PROVE  Structure'
<1>1. /\ pc = "user" /\ currentPcb # NULL /\ semval[k] <= 0 /\ SemP(k)
      /\ UNCHANGED <<pcbfree_h, readyQueue, tree, stack>>
  BY DEF Block, CallFrame, TypeOK, SysCall
<1>2. currentPcb' = NULL
  BY <1>1 DEF SemP, TypeOK
<1>3. stack = << >> /\ stack' = << >>
  BY <1>1 DEF Structure, DyingSound
<1>4. /\ Free' = Free /\ OnReady' = OnReady
      /\ Queue(k)' = Queue(k) \cup {currentPcb}
      /\ \A j \in Key \ {k} : Queue(j)' = Queue(j)
      /\ ListsEnd' /\ pc' = "scheduler"
  BY <1>1, BlockLists DEF Structure
<1>5. Dying = {} /\ Dying' = {} /\ Doomed' = {}
  BY <1>3, NoneDying DEF Dying, Doomed
<1>6. NULL \notin Free \cup OnReady /\ \A j \in Key : NULL \notin Queue(j)'
  BY <1>1, <1>4, ListTypes, PcbFinite DEF Link
<1>7. ListsApart'
  <2>1. /\ Free \cap OnReady = {} /\ currentPcb \notin Free \cup OnReady
        /\ \A j \in Key : Queue(j) \cap (Free \cup OnReady \cup {currentPcb}) = {}
        /\ \A i, j \in Key : i # j => Queue(i) \cap Queue(j) = {}
        /\ Pcb \subseteq Free \cup OnReady \cup {currentPcb} \cup Blocked
    BY <1>5 DEF Structure, ListsApart
  <2>2. \A j \in Key : Queue(j)' \cap (Free \cup OnReady \cup {NULL}) = {}
    BY <1>4, <1>6, <2>1
  <2>3. \A i, j \in Key : i # j => Queue(i)' \cap Queue(j)' = {}
    BY <1>4, <2>1
  <2>4. Blocked \cup {currentPcb} \subseteq Blocked'
    BY <1>4 DEF Blocked
  <2> QED
    BY <1>2, <1>4, <1>5, <1>6, <2>1, <2>2, <2>3, <2>4 DEF ListsApart
<1>8. DyingSound'
  BY <1>3, <1>5 DEF DyingSound
<1>9. TreeSound'
  BY <1>1, <1>4, TreeUnchanged DEF Structure
<1> QED
  BY <1>4, <1>7, <1>8, <1>9 DEF Structure

\* the head of the queue of k becomes ready
WakeUp(k) ==
  /\ s_procQ[k] # NULL /\ pc # "liberaTutti"
  /\ \E next \in {"scheduler", "pseudoTick"} : SemV(k, next)
  /\ UNCHANGED <<start_priority, last_priority, currentPcb, CallFrame>>

\* the first waiter is made ready
LEMMA WakeUpStructure ==
  ASSUME TypeOK, Structure, NEW k \in Key, WakeUp(k)
  PROVE  Structure'
<1>1. PICK next \in {"scheduler", "pseudoTick"} : SemV(k, next)
  BY DEF WakeUp
<1>2. s_procQ[k] # NULL /\ UNCHANGED <<currentPcb, pcbfree_h, tree, stack>> /\ stack = << >>
  BY DEF WakeUp, CallFrame, Structure, DyingSound
<1>3. /\ s_procQ[k] \in Queue(k)
      /\ Free' = Free
      /\ OnReady' = OnReady \cup {s_procQ[k]}
      /\ Queue(k)' = Queue(k) \ {s_procQ[k]}
      /\ \A j \in Key \ {k} : Queue(j)' = Queue(j)
      /\ ListsEnd' /\ pc' = next
  BY <1>1, <1>2, WakeLists DEF Structure
<1>4. Dying = {} /\ Dying' = {} /\ Doomed' = {}
  BY <1>2, NoneDying DEF Dying, Doomed
<1>5. ListsApart'
  <2>1. /\ Free \cap OnReady = {} /\ currentPcb \notin Free \cup OnReady
        /\ \A j \in Key : Queue(j) \cap (Free \cup OnReady \cup {currentPcb}) = {}
        /\ \A i, j \in Key : i # j => Queue(i) \cap Queue(j) = {}
        /\ Pcb \subseteq Free \cup OnReady \cup {currentPcb} \cup Blocked
    BY <1>4 DEF Structure, ListsApart
  <2>2. \A j \in Key : Queue(j)' \cap (Free \cup OnReady' \cup {currentPcb}) = {}
    BY <1>3, <2>1
  <2>3. \A i, j \in Key : i # j => Queue(i)' \cap Queue(j)' = {}
    BY <1>3, <2>1
  <2>4. Blocked \subseteq Blocked' \cup {s_procQ[k]}
    BY <1>3 DEF Blocked
  <2> QED
    BY <1>2, <1>3, <1>4, <2>1, <2>2, <2>3, <2>4 DEF ListsApart
<1>6. DyingSound'
  BY <1>2, <1>4 DEF DyingSound
<1>7. TreeSound'
  BY <1>2, <1>3, TreeUnchanged DEF Structure, tree
<1> QED
  BY <1>3, <1>5, <1>6, <1>7 DEF Structure

\* what ListsApart says when nothing is being terminated
LEMMA ApartFacts ==
  ASSUME Structure, stack = << >>
  PROVE  /\ Free \cap OnReady = {} /\ currentPcb \notin Free \cup OnReady
         /\ \A j \in Key : Queue(j) \cap (Free \cup OnReady \cup {currentPcb}) = {}
         /\ \A i, j \in Key : i # j => Queue(i) \cap Queue(j) = {}
         /\ Pcb \subseteq Free \cup OnReady \cup {currentPcb} \cup Blocked
  BY NoneDying DEF Structure, ListsApart

\* the current process lives
LEMMA CurrentLive ==
  ASSUME TypeOK, ListsApart, currentPcb # NULL
  PROVE  currentPcb \in Live /\ currentPcb \in Pcb
  BY DEF ListsApart, Live, Free, TypeOK, Link

\* createprocess
LEMMA CreateStructure ==
  ASSUME TypeOK, Structure, NEW priority, CreateProcess(priority)
  PROVE  /\ Structure'
         /\ AllocNode(p_next, pcbfree_h) \in Free
         /\ Free' = Free \ {AllocNode(p_next, pcbfree_h)}
         /\ OnReady' = OnReady \cup {AllocNode(p_next, pcbfree_h)}
         /\ \A k \in Key : Queue(k)' = Queue(k)
<1> DEFINE p == AllocNode(p_next, pcbfree_h)
<1>1. /\ pc = "user" /\ currentPcb # NULL /\ pcbfree_h # NULL /\ InsertChild(p)
      /\ UNCHANGED <<currentPcb, stack>>
  BY DEF CreateProcess, SysCall, TypeOK
<1>2. stack = << >> /\ stack' = << >>
  BY <1>1 DEF Structure, DyingSound
<1>3. p \in Free
  <2>1. pcbfree_h \in Pcb /\ p_next \in [Pcb -> Link]
    BY <1>1, ListTypes DEF Link
  <2> QED
    BY <2>1, AllocPcbFacts DEF Structure, ListsEnd, Free
<1> HIDE DEF p
<1>4. CreateEnds(p)
  <2>1. ASSUME Ends([p_sib EXCEPT ![p] = NULL], [p_first_child EXCEPT ![p] = NULL][currentPcb])
        PROVE  CreateEnds(p)
    BY <2>1 DEF CreateEnds, Structure, ListsEnd
  <2> DEFINE sib   == [p_sib EXCEPT ![p] = NULL]
             first == [p_first_child EXCEPT ![p] = NULL]
  <2>2. p \in Pcb /\ currentPcb \in Pcb /\ p # currentPcb /\ p \notin Live
    BY <1>1, <1>3, ListTypes, CurrentLive DEF Structure, ListsApart, Live, Free
  <2>3. p_parent[p] # currentPcb
    BY <1>1, <2>2, TreeFacts DEF Structure
  <2>4. /\ sib \in [Pcb -> Link] /\ p_sib \in [Pcb -> Link] /\ first[currentPcb] = p_first_child[currentPcb]
        /\ AgreeOutside(p_sib, sib, {p})
    BY <2>2 DEF TypeOK, Link, AgreeOutside
  <2>5. /\ Reach(p_sib, p_first_child[currentPcb]) \cap {p} = {}
        /\ Ends(p_sib, p_first_child[currentPcb]) /\ p_first_child[currentPcb] \in Link
    BY <2>2, <2>3, TreeFacts DEF Children, Structure
  <2> HIDE DEF sib, first
  <2>6. Ends(sib, p_first_child[currentPcb])
    BY <2>4, <2>5, ApartFrame
  <2> QED
    BY <2>1, <2>4, <2>6 DEF sib, first
<1>5. /\ Free' = Free \ {p} /\ OnReady' = OnReady \cup {p}
      /\ \A k \in Key : Queue(k)' = Queue(k)
      /\ ListsEnd' /\ pc' = "scheduler"
  BY <1>4, CreateLists DEF Structure, p
<1>6. Live' = Live \cup {p}
  BY <1>3, <1>5, ListTypes DEF Live, Free
<1>7. TreeSound'
  BY <1>1, <1>3, <1>6, CreateTree, CurrentLive DEF Structure, ListsEnd
<1>8. Dying' = {} /\ Doomed' = {}
  BY <1>2 DEF Dying, Doomed
<1>9. ListsApart'
  <2>1. Blocked' = Blocked
    BY <1>5 DEF Blocked
  <2> QED
    BY <1>1, <1>2, <1>3, <1>5, <1>8, <2>1, ApartFacts DEF ListsApart
<1>10. DyingSound'
  BY <1>2, <1>8 DEF DyingSound
<1> QED
  BY <1>3, <1>5, <1>7, <1>9, <1>10 DEF Structure, p

\* the head of the ready queue is made current
LEMMA DispatchStructure ==
  ASSUME TypeOK, Structure, NEW aging, Dispatch(aging)
  PROVE  Structure'
<1>1. /\ pc = "scheduler" /\ currentPcb = NULL /\ currentPcb' = readyQueue
      /\ UNCHANGED <<tree, stack>>
  BY DEF Dispatch, SchedulerFrame
<1>2. /\ readyQueue \in OnReady /\ readyQueue \in Pcb
      /\ OnReady' = OnReady \ {readyQueue} /\ Free' = Free
      /\ \A k \in Key : Queue(k)' = Queue(k)
      /\ ListsEnd'
  BY DispatchLists DEF Structure
<1>3. stack = << >> /\ stack' = << >>
  BY <1>1 DEF Structure, DyingSound
<1>4. Dying' = {} /\ Doomed' = {}
  BY <1>3 DEF Dying, Doomed
<1>5. Blocked' = Blocked
  BY <1>2 DEF Blocked
<1>6. NULL \notin Free \cup OnReady \cup Blocked
  BY ListTypes, PcbFinite
<1>7. ListsApart'
  <2>1. \A j \in Key : Queue(j) \cap (Free \cup OnReady' \cup {readyQueue}) = {}
    BY <1>2, <1>3, ApartFacts
  <2>2. Pcb \subseteq Free \cup OnReady' \cup {readyQueue} \cup Blocked
    BY <1>1, <1>2, <1>3, <1>6, ApartFacts, PcbFinite
  <2>3. Free \cap OnReady' = {} /\ readyQueue \notin Free \cup OnReady'
    BY <1>2, <1>3, ApartFacts
  <2>4. \A i, j \in Key : i # j => Queue(i)' \cap Queue(j)' = {}
    BY <1>2, <1>3, ApartFacts
  <2> QED
    BY <1>1, <1>2, <1>4, <1>5, <2>1, <2>2, <2>3, <2>4 DEF ListsApart
<1>8. DyingSound'
  BY <1>3, <1>4 DEF DyingSound
<1>9. TreeSound'
  BY <1>1, <1>2, TreeUnchanged DEF Structure
<1> QED
  BY <1>2, <1>7, <1>8, <1>9 DEF Structure

\* the current process is made ready
LEMMA PreemptStructure ==
  ASSUME TypeOK, Structure, Preempt, currentPcb # NULL
  PROVE  Structure'
<1>1. pc = "preempt" /\ currentPcb' = NULL /\ UNCHANGED <<tree, stack>>
  BY DEF Preempt, CallFrame
<1>2. /\ OnReady' = OnReady \cup {currentPcb} /\ Free' = Free
      /\ \A k \in Key : Queue(k)' = Queue(k)
      /\ ListsEnd' /\ pc' = "scheduler"
  BY PreemptLists DEF Structure
<1>3. stack = << >> /\ stack' = << >>
  BY <1>1 DEF Structure, DyingSound
<1>4. Dying' = {} /\ Doomed' = {}
  BY <1>3 DEF Dying, Doomed
<1>5. Blocked' = Blocked
  BY <1>2 DEF Blocked
<1>6. NULL \notin Free \cup OnReady \cup Blocked /\ \A k \in Key : NULL \notin Queue(k)
  BY ListTypes, PcbFinite
<1>7. ListsApart'
  BY <1>1, <1>2, <1>3, <1>4, <1>5, <1>6, ApartFacts DEF ListsApart
<1>8. DyingSound'
  BY <1>3, <1>4 DEF DyingSound
<1>9. TreeSound'
  BY <1>1, <1>2, TreeUnchanged DEF Structure
<1> QED
  BY <1>2, <1>7, <1>8, <1>9 DEF Structure

\* terminateprocess, up to the call of liberaTutti
LEMMA TerminateStructure ==
  ASSUME TypeOK, Structure, Careful, NEW pid \in pids \cup {NULL}, TerminateProcess(pid)
  PROVE  Structure'
<1> DEFINE p == IF pid = NULL THEN currentPcb ELSE pid
<1>1. /\ pc = "user" /\ currentPcb # NULL
      /\ p \in Live /\ (pid # NULL => currentPcb \notin Subtree(p))
      /\ Subtree(p) \cap Blocked = {}
      /\ currentPcb' = IF pid = NULL THEN NULL ELSE currentPcb
      /\ stack' = <<p>> /\ UNCHANGED <<tree, pcbfree_h>>
      /\ \/ s_procQ[childSem] # NULL /\ SemV(childSem, "liberaTutti")
         \/ pc' = "liberaTutti" /\ UNCHANGED <<p_next, readyQueue, p_priority, sems>>
  BY DEF TerminateProcess, SysCall, MayTerminate, Careful, TypeOK
<1>2. stack = << >> /\ currentPcb \in Live /\ currentPcb \in Pcb /\ p \in Pcb
  BY <1>1, CurrentLive DEF Structure, DyingSound, Live
<1>3. p = currentPcb <=> pid = NULL
  <2>1. p \in Subtree(p)
    BY <1>2, ReachHead DEF Subtree, TypeOK
  <2> QED
    BY <1>1, <1>2, <2>1
<1> HIDE DEF p
<1>4. /\ Free' = Free /\ ListsEnd' /\ pc' = "liberaTutti"
      /\ OnReady \subseteq OnReady'
      /\ OnReady' \subseteq OnReady \cup Blocked
      /\ \A k \in Key : Queue(k)' \subseteq Queue(k) /\ Queue(k)' \cap OnReady' = {}
      /\ OnReady \cup Blocked \subseteq OnReady' \cup Blocked'
  <2>1. CASE s_procQ[childSem] # NULL /\ SemV(childSem, "liberaTutti")
    <3>1. /\ s_procQ[childSem] \in Queue(childSem)
          /\ Free' = Free
          /\ OnReady' = OnReady \cup {s_procQ[childSem]}
          /\ Queue(childSem)' = Queue(childSem) \ {s_procQ[childSem]}
          /\ \A j \in Key \ {childSem} : Queue(j)' = Queue(j)
          /\ ListsEnd' /\ pc' = "liberaTutti"
      BY <1>1, <2>1, WakeLists, KeyFacts DEF Structure
    <3>2. Blocked \subseteq Blocked' \cup {s_procQ[childSem]} /\ s_procQ[childSem] \in Blocked
      BY <3>1, KeyFacts DEF Blocked
    <3>3. \A k \in Key : Queue(k)' \cap OnReady' = {}
      BY <1>2, <3>1, ApartFacts, KeyFacts
    <3> QED
      BY <3>1, <3>2, <3>3
  <2>2. CASE pc' = "liberaTutti" /\ UNCHANGED <<p_next, readyQueue, p_priority, sems>>
    <3>1. UNCHANGED <<p_next, pcbfree_h, readyQueue, s_procQ>>
      BY <1>1, <2>2 DEF sems
    <3> QED
      BY <1>2, <2>2, <3>1, ListsUnchanged, ApartFacts DEF Structure
  <2> QED
    BY <1>1, <2>1, <2>2
<1>5. Dying' = {p} /\ Doomed' = Subtree(p)
  <2>1. Dying' = {p}
    BY <1>1 DEF Dying
  <2>2. p_parent' = p_parent
    BY <1>1 DEF tree
  <2>3. \A q : q \in Doomed' <=> \E x \in Dying' : q \in Pcb /\ x \in Reach(p_parent', q)
    BY DEF Doomed, Subtree
  <2>4. \A q : q \in Subtree(p) <=> q \in Pcb /\ p \in Reach(p_parent, q)
    BY DEF Subtree
  <2> QED
    BY <2>1, <2>2, <2>3, <2>4
<1>6. Blocked' \subseteq Blocked
  BY <1>4 DEF Blocked
<1>7. ListsApart'
  <2>1. /\ Free \cap OnReady = {} /\ currentPcb \notin Free \cup OnReady
        /\ \A j \in Key : Queue(j) \cap (Free \cup OnReady \cup {currentPcb}) = {}
        /\ \A i, j \in Key : i # j => Queue(i) \cap Queue(j) = {}
        /\ Pcb \subseteq Free \cup OnReady \cup {currentPcb} \cup Blocked
    BY <1>2, ApartFacts
  <2>2. Blocked \cap (Free \cup {currentPcb}) = {}
    BY <2>1 DEF Blocked
  <2>3. Free \cap OnReady' = {} /\ currentPcb \notin Free \cup OnReady'
    BY <1>4, <2>1, <2>2
  <2>4. NULL \notin Free \cup OnReady' /\ \A j \in Key : NULL \notin Queue(j)'
    BY <1>4, ListTypes, PcbFinite
  <2>5. currentPcb' \notin Free \cup OnReady'
    BY <1>1, <2>3, <2>4
  <2>6. \A j \in Key : Queue(j)' \cap (Free \cup OnReady' \cup {currentPcb'}) = {}
    BY <1>1, <1>4, <2>1, <2>4
  <2>7. \A i, j \in Key : i # j => Queue(i)' \cap Queue(j)' = {}
    BY <1>4, <2>1
  <2>8. Pcb \ {p} \subseteq Free \cup OnReady' \cup {currentPcb'} \cup Blocked'
    BY <1>1, <1>3, <1>4, <2>1
  <2> QED
    BY <1>4, <1>5, <2>3, <2>5, <2>6, <2>7, <2>8 DEF ListsApart
<1>8. DyingSound'
  <2>1. Subtree(p) \cap Free = {}
    BY <1>1, SubtreeLive DEF Structure, Live, Free
  <2>2. currentPcb' \notin Subtree(p)
    BY <1>1, PcbFinite DEF Subtree
  <2>3. p_parent[p] \notin Subtree(p)
    BY <1>2, TreeFacts DEF Subtree, Structure
  <2>4. Len(stack') = 1 /\ stack'[1] = p /\ stack' # << >>
    BY <1>1
  <2>5. p_parent' = p_parent
    BY <1>1 DEF tree
  <2> QED
    BY <1>1, <1>4, <1>5, <1>6, <2>1, <2>2, <2>3, <2>4, <2>5 DEF DyingSound
<1>9. TreeSound'
  BY <1>1, <1>4, TreeUnchanged DEF Structure
<1> QED
  BY <1>4, <1>7, <1>8, <1>9 DEF Structure

\* liberaTutti unlinks a child and calls itself for it
LEMMA RemoveChildStructure ==
  ASSUME TypeOK, Structure, RemoveChild
  PROVE  Structure'
<1> DEFINE c == p_first_child[Top]
           n == Len(stack)
<1>1. /\ pc = "liberaTutti" /\ stack # << >>
      /\ stack' = Append(stack, c)
      /\ UNCHANGED <<p_next, pcbfree_h, readyQueue, s_procQ, currentPcb, pc>>
  BY DEF RemoveChild, TypeOK, sems
<1>2. /\ n \in Nat \ {0} /\ Top = stack[n] /\ \A i \in 1..n : stack[i] \in Pcb
      /\ Top \in Dying /\ Top \in Pcb /\ Dying \subseteq Doomed
  BY <1>1, StackFacts
<1>3. /\ Free' = Free /\ OnReady' = OnReady /\ \A k \in Key : Queue(k)' = Queue(k)
      /\ Blocked' = Blocked /\ Live' = Live /\ ListsEnd'
  BY <1>1, ListsUnchanged DEF Structure, ListsEnd
<1>4. /\ c \in Pcb /\ p_parent[c] = Top
      /\ p_parent' = [p_parent EXCEPT ![c] = NULL]
      /\ TreeSound'
  BY <1>2, <1>3, RemoveChildTree DEF Structure
<1> HIDE DEF c
<1>5. Len(stack') = n + 1 /\ stack'[n + 1] = c /\ \A i \in 1..n : stack'[i] = stack[i]
  BY <1>1, <1>4, AppendProperties DEF TypeOK
<1>6. \A i \in 1..n : stack[i] # c
  <2>1. p_parent[stack[1]] \notin Doomed
    BY <1>1 DEF Structure, DyingSound
  <2>2. \A i \in 2..n : p_parent[stack[i]] = NULL
    BY DEF Structure, DyingSound
  <2> QED
    BY <1>2, <1>4, <2>1, <2>2, PcbFinite
<1>7. Dying' = Dying \cup {c}
  <2>1. Dying' = {stack'[i] : i \in 1..(n + 1)}
    BY <1>5 DEF Dying
  <2> QED
    BY <1>2, <1>5, <2>1 DEF Dying
<1> HIDE DEF n
<1>8. /\ p_parent \in [Pcb -> Link] /\ p_parent' \in [Pcb -> Link]
      /\ \A x \in Pcb : p_parent'[x] \in {p_parent[x], NULL}
  BY <1>4 DEF TypeOK, Link
<1>9. ASSUME NEW x \in Pcb
      PROVE  Subtree(x)' \subseteq Subtree(x)
  <2>1. \A q \in Pcb : Reach(p_parent', q) \subseteq Reach(p_parent, q)
    BY <1>8, CutReach DEF Link
  <2> QED
    BY <2>1 DEF Subtree
<1>10. Subtree(c) \subseteq Subtree(Top)
  <2>1. ASSUME NEW q \in Pcb, c \in Reach(p_parent, q)
        PROVE  Top \in Reach(p_parent, q)
    BY <1>2, <1>4, <1>8, <2>1, ReachClosed DEF Link
  <2> QED
    BY <2>1 DEF Subtree
<1>11. Doomed' \subseteq Doomed
  <2>1. Doomed' = UNION {Subtree(x)' : x \in Dying'}
    BY DEF Doomed
  <2>2. ASSUME NEW x \in Dying'
        PROVE  Subtree(x)' \subseteq Doomed
    <3>1. CASE x \in Dying
      <4>1. x \in Pcb
        BY <1>2, <3>1 DEF Dying, n
      <4> QED
        BY <1>9, <3>1, <4>1 DEF Doomed
    <3>2. CASE x = c
      BY <1>2, <1>4, <1>9, <1>10, <3>2 DEF Doomed
    <3> QED
      BY <1>7, <3>1, <3>2
  <2> QED
    BY <2>1, <2>2
<1>12. ListsApart'
  BY <1>1, <1>3, <1>7 DEF Structure, ListsApart
<1>13. DyingSound'
  <2>1. Doomed' \cap (Free \cup Blocked \cup {currentPcb}) = {}
    BY <1>11 DEF Structure, DyingSound
  <2>2. \A i, j \in 1..(n + 1) : stack'[i] = stack'[j] => i = j
    <3>1. \A i, j \in 1..n : stack[i] = stack[j] => i = j
      BY DEF Structure, DyingSound, n
    <3> QED
      BY <1>2, <1>5, <1>6, <3>1
  <2>3. ASSUME NEW i \in 2..(n + 1)
        PROVE  p_parent'[stack'[i]] = NULL
    <3>1. CASE i = n + 1
      BY <1>4, <1>5, <1>8, <3>1
    <3>2. CASE i # n + 1
      <4>1. i \in 2..n /\ i \in 1..n
        BY <1>2, <3>2
      <4>2. p_parent[stack[i]] = NULL /\ stack'[i] = stack[i] /\ stack[i] \in Pcb
        BY <1>2, <1>5, <4>1 DEF Structure, DyingSound, n
      <4> QED
        BY <1>8, <4>2
    <3> QED
      BY <3>1, <3>2
  <2>4. p_parent'[stack'[1]] \notin Doomed'
    <3>1. 1 \in 1..n
      BY <1>2
    <3>2. stack'[1] = stack[1] /\ stack[1] \in Pcb /\ stack[1] # c
      BY <1>2, <1>5, <1>6, <3>1
    <3>3. p_parent'[stack[1]] = p_parent[stack[1]]
      BY <1>4, <1>8, <3>2
    <3> QED
      BY <1>1, <1>11, <3>2, <3>3 DEF Structure, DyingSound
  <2> QED
    BY <1>1, <1>3, <1>5, <2>1, <2>2, <2>3, <2>4 DEF DyingSound
<1> QED
  BY <1>3, <1>4, <1>12, <1>13 DEF Structure

\* liberaTutti frees a process that has no child left
LEMMA ReleaseStructure ==
  ASSUME TypeOK, Structure, Release
  PROVE  /\ Structure'
         /\ Top \in Live /\ \A k \in Key : Top \notin Queue(k)
         /\ Free' = Free \cup {Top} /\ OnReady' = OnReady \ {Top}
         /\ \A k \in Key : Queue(k)' = Queue(k)
         /\ Dying' = Dying \ {Top}
         /\ p_parent' = [p_parent EXCEPT ![Top] = NULL] /\ Children(Top) = {}
         /\ pc' = IF Len(stack) = 1 THEN "scheduler" ELSE pc
<1> DEFINE t == Top
           n == Len(stack)
<1>1. /\ pc = "liberaTutti" /\ stack # << >> /\ p_first_child[t] = NULL /\ OutChild(t)
      /\ stack' = SubSeq(stack, 1, n - 1)
      /\ UNCHANGED <<s_procQ, currentPcb>>
  BY DEF Release, TypeOK, sems
<1>2. /\ n \in Nat \ {0} /\ t = stack[n] /\ \A i \in 1..n : stack[i] \in Pcb
      /\ t \in Dying /\ t \in Pcb /\ Dying \subseteq Doomed
  BY <1>1, StackFacts
<1>3. t \notin Free /\ t \notin Blocked /\ t # currentPcb /\ \A k \in Key : t \notin Queue(k)
  <2>1. t \notin Free /\ t \notin Blocked /\ t # currentPcb
    BY <1>2 DEF Structure, DyingSound
  <2> QED
    BY <2>1 DEF Blocked
<1>4. /\ OutChildEnds(t)
      /\ p_parent' = [p_parent EXCEPT ![t] = NULL]
      /\ Children(t) = {}
      /\ Live' = Live \ {t} => TreeSound'
  BY <1>1, <1>2, ReleaseTree DEF Structure
<1>5. /\ Free' = Free \cup {t}
      /\ OnReady' = OnReady \ {t}
      /\ \A k \in Key : Queue(k)' = Queue(k)
      /\ ListsEnd' /\ pc' = IF n = 1 THEN "scheduler" ELSE pc
  BY <1>2, <1>3, <1>4, ReleaseLists DEF Structure
<1> HIDE DEF t
<1>6. Blocked' = Blocked
  BY <1>5 DEF Blocked
<1>7. TreeSound'
  <2>1. Live' = Live \ {t}
    BY <1>5 DEF Live, Free
  <2> QED
    BY <1>4, <2>1
<1>8. Len(stack') = n - 1 /\ \A i \in 1..(n - 1) : stack'[i] = stack[i]
  <2>1. \A i \in 1..(n - 1) : stack[i] \in Pcb
    BY <1>2
  <2>2. /\ Len(SubSeq(stack, 1, n - 1)) = IF 1 <= n - 1 THEN n - 1 - 1 + 1 ELSE 0
        /\ \A i \in 1..(n - 1 - 1 + 1) : SubSeq(stack, 1, n - 1)[i] = stack[1 + i - 1]
    BY <1>2, <2>1, SubSeqProperties DEF TypeOK
  <2> HIDE DEF n
  <2>3. (IF 1 <= n - 1 THEN n - 1 - 1 + 1 ELSE 0) = n - 1 /\ n - 1 - 1 + 1 = n - 1
          /\ \A i \in 1..(n - 1) : 1 + i - 1 = i
    BY <1>2
  <2> QED
    BY <1>1, <2>2, <2>3
<1>9. \A i, j \in 1..n : stack[i] = stack[j] => i = j
  BY DEF Structure, DyingSound
<1>10. \A i \in 1..(n - 1) : stack[i] # t
  BY <1>2, <1>9
<1>11. Dying' = Dying \ {t}
  <2>1. Dying' = {stack'[i] : i \in 1..(n - 1)}
    BY <1>8 DEF Dying
  <2>2. \A x : x \in Dying <=> \E i \in 1..n : x = stack[i]
    BY DEF Dying
  <2>3. \A i \in 1..n : i \in 1..(n - 1) \/ i = n
    BY <1>2
  <2>4. 1..(n - 1) \subseteq 1..n
    BY <1>2
  <2> HIDE DEF n
  <2> QED
    BY <1>2, <1>8, <1>10, <2>1, <2>2, <2>3, <2>4
<1> HIDE DEF n
<1>12. /\ p_parent \in [Pcb -> Link] /\ p_parent' \in [Pcb -> Link]
       /\ \A x \in Pcb : p_parent'[x] \in {p_parent[x], NULL}
       /\ p_parent'[t] = NULL
  BY <1>2, <1>4 DEF TypeOK, Link
<1>13. Doomed' \subseteq Doomed \ {t}
  <2>1. \A q : q \in Doomed' <=> \E x \in Dying' : q \in Pcb /\ x \in Reach(p_parent', q)
    BY DEF Doomed, Subtree
  <2>2. \A q : q \in Doomed <=> \E x \in Dying : q \in Pcb /\ x \in Reach(p_parent, q)
    BY DEF Doomed, Subtree
  <2>3. \A q \in Pcb : Reach(p_parent', q) \subseteq Reach(p_parent, q)
    BY <1>12, CutReach DEF Link
  <2>4. Reach(p_parent', t) = {t}
    BY <1>2, <1>12, ReachStep, ReachNull
  <2> QED
    BY <1>11, <2>1, <2>2, <2>3, <2>4
<1>14. ListsApart'
  <2>1. /\ Free \cap OnReady = {} /\ currentPcb \notin Free \cup OnReady
        /\ \A j \in Key : Queue(j) \cap (Free \cup OnReady \cup {currentPcb}) = {}
        /\ \A i, j \in Key : i # j => Queue(i) \cap Queue(j) = {}
        /\ Pcb \ Dying \subseteq Free \cup OnReady \cup {currentPcb} \cup Blocked
    BY DEF Structure, ListsApart
  <2> QED
    BY <1>1, <1>2, <1>3, <1>5, <1>6, <1>11, <2>1 DEF ListsApart
<1>15. DyingSound'
  <2>1. Doomed' \cap (Free' \cup Blocked \cup {currentPcb}) = {}
    BY <1>5, <1>13 DEF Structure, DyingSound
  <2>2. \A i, j \in 1..(n - 1) : stack'[i] = stack'[j] => i = j
    BY <1>2, <1>8, <1>9
  <2>3. ASSUME NEW i \in 2..(n - 1)
        PROVE  p_parent'[stack'[i]] = NULL
    <3>1. i \in 2..n /\ i \in 1..n /\ i \in 1..(n - 1)
      BY <1>2
    <3>2. p_parent[stack[i]] = NULL /\ stack'[i] = stack[i] /\ stack[i] \in Pcb
      BY <1>2, <1>8, <3>1 DEF Structure, DyingSound, n
    <3> QED
      BY <1>12, <3>2
  <2>4. n = 1 => stack' = << >>
    BY <1>8, EmptySeq, ReleaseType DEF TypeOK
  <2>5. n # 1 => /\ stack' # << >> /\ pc' = "liberaTutti"
                 /\ p_parent'[stack'[1]] \notin Doomed'
    <3> SUFFICES ASSUME n # 1
                 PROVE  /\ stack' # << >> /\ pc' = "liberaTutti"
                        /\ p_parent'[stack'[1]] \notin Doomed'
      OBVIOUS
    <3>1. 1 \in 1..(n - 1) /\ 1 \in 1..n /\ n - 1 # 0
      BY <1>2
    <3>2. stack'[1] = stack[1] /\ stack[1] \in Pcb /\ stack[1] # t
      BY <1>2, <1>8, <1>10, <3>1
    <3>3. p_parent'[stack[1]] = p_parent[stack[1]]
      BY <1>4, <1>12, <3>2
    <3>4. stack' # << >>
      BY <1>8, <3>1, EmptySeq
    <3> QED
      BY <1>1, <1>5, <1>13, <3>2, <3>3, <3>4 DEF Structure, DyingSound, n
  <2>6. pc' # "liberaTutti" => stack' = << >>
    BY <2>4, <2>5
  <2>7. stack' # << >> => p_parent'[stack'[1]] \notin Doomed'
    BY <2>4, <2>5
  <2> QED
    BY <1>1, <1>6, <1>8, <2>1, <2>2, <2>3, <2>6, <2>7 DEF DyingSound
<1>16. Structure' /\ t \in Live
  BY <1>2, <1>3, <1>5, <1>7, <1>14, <1>15 DEF Structure, Live, Free
<1> QED
  BY <1>3, <1>4, <1>5, <1>11, <1>16 DEF t, n

-----------------------------------------------------------------------------
(***************************************************************************)
(* Every step is one of these kinds.                                       *)
(***************************************************************************)
\* nothing but the CPU's business, priorities, values and devices
Quiet ==
  /\ UNCHANGED <<p_next, tree, pcbfree_h, readyQueue, currentPcb, s_procQ, stack,
                 start_priority, last_priority, activeProcesses, softblockProcesses>>
  /\ p_priority' = p_priority \/ \E aging \in BOOLEAN : p_priority' = Aged(aging)
  /\ pc' # "lost" /\ (pc # "liberaTutti" \/ pc' = pc)

PreemptRun == Preempt /\ currentPcb # NULL

Kind ==
  \/ Quiet
  \/ \E k \in Key : Block(k)
  \/ \E k \in Key : WakeUp(k)
  \/ \E priority \in Priorities : CreateProcess(priority)
  \/ \E pid \in pids \cup {NULL} : TerminateProcess(pid)
  \/ RemoveChild \/ Release
  \/ \E aging \in BOOLEAN : Dispatch(aging)
  \/ PreemptRun

\* what semp does to the lists
LEMMA SemPKind ==
  ASSUME TypeOK, NEW k \in Key, SysCall, SemP(k),
         UNCHANGED <<readyQueue, start_priority, CallFrame>>
  PROVE  Quiet \/ Block(k)
<1>1. CASE semval[k] <= 0
  BY <1>1 DEF Block
<1>2. CASE semval[k] > 0
  <2>1. /\ pc' = "scheduler"
        /\ UNCHANGED <<p_next, prios, s_procQ, softblockProcesses, currentPcb>>
    BY <1>2 DEF SemP, TypeOK
  <2> QED
    BY <2>1 DEF Quiet, prios, CallFrame, SysCall
<1> QED
  BY <1>1, <1>2 DEF TypeOK

\* what semv does to the lists
LEMMA SemVKind ==
  ASSUME NEW k \in Key, NEW next \in {"scheduler", "pseudoTick"}, SemV(k, next),
         pc # "liberaTutti",
         UNCHANGED <<start_priority, last_priority, currentPcb, CallFrame>>
  PROVE  Quiet \/ WakeUp(k)
<1>1. CASE s_procQ[k] # NULL
  BY <1>1 DEF WakeUp
<1>2. CASE s_procQ[k] = NULL
  <2>1. /\ pc' = next
        /\ UNCHANGED <<p_next, readyQueue, p_priority, s_procQ, softblockProcesses>>
    BY <1>2 DEF SemV
  <2> QED
    BY <2>1 DEF Quiet, CallFrame
<1> QED
  BY <1>1, <1>2

\* every step of the kernel is of one of the kinds
LEMMA StepKind ==
  ASSUME TypeOK, ListsEnd, [Next]_vars
  PROVE  Kind
<1>1. ASSUME SystemCall
      PROVE  Kind
  <2>1. CASE CreateFails \/ OtherCall
    <3>1. Quiet
      BY <2>1 DEF CreateFails, OtherCall, Quiet, SysCall, prios, sems, CallFrame
    <3> QED
      BY <3>1 DEF Kind
  <2>2. ASSUME NEW k \in UserSem, SemPCall(k)
        PROVE  Kind
    BY <2>2, SemPKind, KeyFacts DEF SemPCall, Kind
  <2>3. ASSUME NEW k \in UserSem, SemVCall(k)
        PROVE  Kind
    <3>1. pc # "liberaTutti"
      BY <2>3 DEF SemVCall, SysCall
    <3> QED
      BY <2>3, <3>1, SemVKind, KeyFacts DEF SemVCall, Kind
  <2>4. CASE WaitClock
    BY <2>4, SemPKind, KeyFacts DEF WaitClock, Kind
  <2>5. CASE WaitChild
    <3>1. CASE SemP(childSem)
      BY <2>5, <3>1, SemPKind, KeyFacts DEF WaitChild, Kind
    <3>2. CASE ~SemP(childSem)
      <4>1. Quiet
        BY <2>5, <3>2 DEF WaitChild, Quiet, SysCall, prios, CallFrame
      <4> QED
        BY <4>1 DEF Kind
    <3> QED
      BY <3>1, <3>2
  <2>6. ASSUME NEW d \in Device, IoDevOp(d)
        PROVE  Kind
    <3>1. GetDeviceNi(DevReg(d, 1)) \in Key
      BY DeviceSemaphoreKey
    <3> QED
      BY <2>6, <3>1, SemPKind DEF IoDevOp, Kind
  <2> QED
    BY <1>1, <2>1, <2>2, <2>3, <2>4, <2>5, <2>6 DEF SystemCall, Kind
<1>2. ASSUME Handler
      PROVE  Kind
  <2>1. CASE PseudoTick
    <3>1. CASE s_procQ[timerSem] # NULL
      <4>1. SemV(timerSem, "pseudoTick") /\ pc # "liberaTutti"
        BY <2>1, <3>1 DEF PseudoTick
      <4> QED
        BY <2>1, <4>1, SemVKind, KeyFacts DEF PseudoTick, Kind
    <3>2. CASE s_procQ[timerSem] = NULL
      <4>1. Quiet
        BY <2>1, <3>2 DEF PseudoTick, Quiet, sems, CallFrame
      <4> QED
        BY <4>1 DEF Kind
    <3> QED
      BY <3>1, <3>2
  <2>2. CASE Preempt
    <3>1. CASE currentPcb # NULL
      BY <2>2, <3>1 DEF PreemptRun, Kind
    <3>2. CASE currentPcb = NULL
      <4>1. Quiet
        BY <2>2, <3>2 DEF Preempt, Quiet, prios, sems, CallFrame
      <4> QED
        BY <4>1 DEF Kind
    <3> QED
      BY <3>1, <3>2
  <2>3. ~AgingLost
    BY DEF AgingLost, ListsEnd
  <2>4. ASSUME NEW aging \in BOOLEAN, Resume(aging)
        PROVE  Kind
    <3>1. Quiet
      BY <2>4 DEF Resume, SchedulerFrame, sems, Quiet
    <3> QED
      BY <3>1 DEF Kind
  <2>5. CASE Idle
    <3>1. Quiet
      BY <2>5 DEF Idle, SchedulerFrame, sems, Quiet
    <3> QED
      BY <3>1 DEF Kind
  <2> QED
    BY <1>2, <2>1, <2>2, <2>3, <2>4, <2>5 DEF Handler, Scheduler, Kind
<1>3. ASSUME Interrupt
      PROVE  Kind
  <2>1. ASSUME NEW tick \in BOOLEAN, TimerInterrupt(tick)
        PROVE  Kind
    <3>1. Quiet
      BY <2>1 DEF TimerInterrupt, SchedulerFrame, sems, Quiet
    <3> QED
      BY <3>1 DEF Kind
  <2>2. ASSUME NEW d \in Device, DeviceInterrupt(d)
        PROVE  Kind
    <3>1. CASE s_procQ[d] # NULL
      <4>1. SemV(d, "scheduler") /\ pc # "liberaTutti"
        BY <2>2, <3>1 DEF DeviceInterrupt
      <4> QED
        BY <2>2, <4>1, SemVKind, KeyFacts DEF DeviceInterrupt, Kind
    <3>2. CASE s_procQ[d] = NULL
      <4>1. Quiet
        BY <2>2, <3>2 DEF DeviceInterrupt, Quiet, sems, CallFrame
      <4> QED
        BY <4>1 DEF Kind
    <3> QED
      BY <3>1, <3>2
  <2> QED
    BY <1>3, <2>1, <2>2 DEF Interrupt
<1>4. ASSUME NEW d \in Device, DeviceDone(d)
      PROVE  Kind
  <2>1. Quiet
    BY <1>4 DEF DeviceDone, Quiet, prios, sems, CallFrame
  <2> QED
    BY <2>1 DEF Kind
<1>5. ASSUME Stop \/ UNCHANGED vars
      PROVE  Kind
  <2>1. Quiet
    BY <1>5 DEF Stop, vars, Quiet, ListsEnd, prios, sems
  <2> QED
    BY <2>1 DEF Kind
<1> QED
  BY <1>1, <1>2, <1>3, <1>4, <1>5 DEF Next

(* Every step preserves the structure.                                     *)
LEMMA NextStructure ==
  ASSUME Careful, TypeOK, Structure, [Next]_vars
  PROVE  Structure'
<1>1. Kind
  BY StepKind DEF Structure
<1>2. CASE Quiet
  BY <1>2, QuietStructure DEF Quiet
<1> QED
  BY <1>1, <1>2, BlockStructure, WakeUpStructure, CreateStructure, TerminateStructure,
     RemoveChildStructure, ReleaseStructure, DispatchStructure, PreemptStructure
     DEF Kind, PreemptRun

(* initPcbs links all PCBs but the one of the first process.               *)
LEMMA InitLists ==
  ASSUME Init
  PROVE  /\ Free = 1..(MAXPROC - 1) /\ OnReady = {MAXPROC}
         /\ \A k \in Key : Queue(k) = {}
         /\ ListsEnd /\ Live = {MAXPROC} /\ Blocked = {}
<1>1. /\ p_next \in [Pcb -> Link] /\ MAXPROC \in Pcb /\ p_next[MAXPROC] = NULL
      /\ pcbfree_h = (IF MAXPROC = 1 THEN NULL ELSE 1) /\ readyQueue = MAXPROC
      /\ \A k \in Key : s_procQ[k] = NULL
      /\ pc = "scheduler"
      /\ \A p \in 1..(MAXPROC - 2) : p_next[p] = p + 1
      /\ p_next[MAXPROC - 1] = NULL \/ MAXPROC = 1
  <2>1. /\ p_next = [p \in Pcb |-> IF p < MAXPROC - 1 THEN p + 1 ELSE NULL]
        /\ MAXPROC \in Nat \ {0} /\ NULL = 0
    BY DEF Init, NULL
  <2>2. \A p \in Pcb : /\ p \in Nat \ {0} /\ p <= MAXPROC
                       /\ p_next[p] = IF p < MAXPROC - 1 THEN p + 1 ELSE NULL
    BY <2>1 DEF Pcb
  <2>3. \A p \in Pcb : (IF p < MAXPROC - 1 THEN p + 1 ELSE NULL) \in Link
    BY <2>1 DEF Pcb, Link
  <2>4. p_next \in [Pcb -> Link]
    BY <2>1, <2>3
  <2>5. /\ MAXPROC \in Pcb /\ p_next[MAXPROC] = NULL
        /\ p_next[MAXPROC - 1] = NULL \/ MAXPROC = 1
    BY <2>1, <2>2 DEF Pcb
  <2>6. \A p \in 1..(MAXPROC - 2) : p_next[p] = p + 1
    BY <2>1, <2>2 DEF Pcb
  <2> QED
    BY <2>4, <2>5, <2>6 DEF Init
<1>2. OnReady = {MAXPROC} /\ Ends(p_next, readyQueue)
  BY <1>1, ReachStep, EndsStep, ReachNull DEF OnReady
<1>3. \A k \in Key : Queue(k) = {} /\ Ends(p_next, s_procQ[k])
  BY <1>1, ReachNull DEF Queue
<1>4. Free = 1..(MAXPROC - 1) /\ Ends(p_next, pcbfree_h)
  <2>1. CASE MAXPROC = 1
    BY <1>1, <2>1, ReachNull DEF Free
  <2>2. CASE MAXPROC # 1
    <3> DEFINE m == MAXPROC - 1
               S == 1..m
               T == {i \in Nat : i = 0 \/ i \in Reach(p_next, 1)}
    <3>1. m \in Nat \ {0} /\ 1 \in Pcb /\ 1 \in S /\ S \subseteq Pcb /\ 1 \in Link
      BY <2>2 DEF Pcb, Link
    <3>2. \A n \in S : p_next[n] = IF n = m THEN NULL ELSE n + 1
      BY <1>1, <2>2
    <3>3. \A n \in S \cap Pcb : p_next[n] \in Pcb => p_next[n] \in S
      <4> SUFFICES ASSUME NEW n \in S, p_next[n] \in Pcb
                   PROVE  p_next[n] \in S
        OBVIOUS
      <4>1. n # m
        BY <3>2, PcbFinite
      <4> QED
        BY <3>1, <3>2, <4>1
    <3>4. Reach(p_next, 1) \subseteq S
      <4> HIDE DEF S, m
      <4> QED
        BY <1>1, <3>1, <3>3, ReachLeast
    <3>5. ASSUME NEW i \in 0..(m - 1), i \in T
          PROVE  i + 1 \in T
      <4>1. CASE i = 0
        BY <1>1, <3>1, <4>1, ReachHead
      <4>2. CASE i # 0
        <5>1. i \in S /\ i # m /\ i + 1 \in Pcb /\ i \in Reach(p_next, 1) /\ i + 1 \in Nat
          BY <3>1, <3>5, <4>2 DEF Pcb
        <5>2. p_next[i] = i + 1
          BY <3>2, <5>1
        <5> QED
          BY <1>1, <3>1, <5>1, <5>2, ReachClosed
      <4> QED
        BY <4>1, <4>2
    <3>6. 0..m \subseteq T
      <4>1. 0 \in T
        OBVIOUS
      <4> HIDE DEF T, m
      <4> QED
        BY <3>1, <3>5, <4>1, UpTo
    <3>7. S \subseteq Reach(p_next, 1)
      BY <3>6
    <3>8. p_next[m] = NULL /\ m \in S
      BY <3>1, <3>2
    <3>9. pcbfree_h = 1 /\ Reach(p_next, 1) = S
      BY <1>1, <2>2, <3>4, <3>7
    <3> HIDE DEF S, m
    <3> QED
      BY <3>8, <3>9 DEF Free, Ends, S, m
  <2> QED
    BY <2>1, <2>2
<1>5. ListsEnd
  BY <1>1, <1>2, <1>3, <1>4 DEF ListsEnd
<1>6. Live = {MAXPROC}
  <2>1. Live = Pcb \ (1..(MAXPROC - 1))
    BY <1>4 DEF Live, Free
  <2>2. \A x : x \in Pcb /\ x \notin 1..(MAXPROC - 1) <=> x = MAXPROC
    BY DEF Pcb
  <2> QED
    BY <2>1, <2>2
<1>7. Blocked = {}
  BY <1>3 DEF Blocked
<1> QED
  BY <1>2, <1>3, <1>4, <1>5, <1>6, <1>7

\* boot establishes Structure
LEMMA InitStructure == Init => Structure
<1> SUFFICES ASSUME Init PROVE Structure
  OBVIOUS
<1>1. /\ Free = 1..(MAXPROC - 1) /\ OnReady = {MAXPROC}
      /\ \A k \in Key : Queue(k) = {}
      /\ ListsEnd /\ Live = {MAXPROC} /\ Blocked = {}
  BY InitLists
<1>2. /\ stack = << >> /\ currentPcb = NULL /\ pc = "scheduler"
      /\ \A p \in Pcb : p_parent[p] = NULL /\ p_first_child[p] = NULL
      /\ p_sib \in [Pcb -> Link] /\ p_parent \in [Pcb -> Link]
  BY DEF Init, Link
<1>3. Dying = {} /\ Doomed = {}
  BY <1>2, NoneDying
<1>4. ListsApart
  <2>1. MAXPROC \notin 1..(MAXPROC - 1) /\ NULL \notin 1..(MAXPROC - 1) \cup {MAXPROC}
    BY DEF NULL
  <2>2. Pcb \subseteq 1..(MAXPROC - 1) \cup {MAXPROC}
    BY DEF Pcb
  <2> QED
    BY <1>1, <1>2, <1>3, <2>1, <2>2 DEF ListsApart
<1>5. DyingSound
  BY <1>2, <1>3 DEF DyingSound
<1>6. TreeSound
  <2>1. ASSUME NEW p \in Pcb
        PROVE  /\ Ends(p_sib, p_first_child[p])
               /\ Reach(p_sib, p_first_child[p]) = {q \in Pcb : p_parent[q] = p}
               /\ p \notin Reach(p_parent, p_parent[p])
               /\ p_parent[p] = NULL
    BY <1>2, ReachNull, PcbFinite
  <2> QED
    BY <2>1 DEF TreeSound
<1> QED
  BY <1>1, <1>4, <1>5, <1>6 DEF Structure

(* Walks end, lists are disjoint, and liberaTutti and the tree agree.      *)
THEOREM StructureCorrect ==
  ASSUME Careful
  PROVE  Spec => []Structure
<1>1. Init => Structure
  BY InitStructure
<1>2. TypeOK /\ Structure /\ [Next]_vars => Structure'
  BY NextStructure
<1> QED
  BY <1>1, <1>2, TypeCorrect, PTL DEF Spec

-----------------------------------------------------------------------------
(***************************************************************************)
(* One place for every PCB.                                                *)
(***************************************************************************)
LEMMA PlacesOne ==
  ASSUME Structure, TypeOK, NEW p \in Pcb
  PROVE  IF p \in Dying THEN Places(p) <= 1 ELSE Places(p) = 1
<1> DEFINE K == {k \in Key : p \in Queue(k)}
           f == In(Reach(p_next, pcbfree_h), p)
           r == In(Reach(p_next, readyQueue), p)
           c == In({currentPcb}, p)
<1>1. /\ f = IF p \in Free THEN 1 ELSE 0
      /\ r = IF p \in OnReady THEN 1 ELSE 0
      /\ c = IF p = currentPcb THEN 1 ELSE 0
  BY DEF In, Free, OnReady
<1>2. /\ Free \cap OnReady = {} /\ currentPcb \notin Free \cup OnReady
      /\ \A j \in Key : Queue(j) \cap (Free \cup OnReady \cup {currentPcb}) = {}
      /\ \A i, j \in Key : i # j => Queue(i) \cap Queue(j) = {}
      /\ Pcb \ Dying \subseteq Free \cup OnReady \cup {currentPcb} \cup Blocked
  BY DEF Structure, ListsApart
<1>3. Places(p) = Cardinality(K) + f + r + c
  BY DEF Places
<1> HIDE DEF K, f, r, c
<1>4. CASE p \in Blocked
  <2>1. PICK k \in Key : p \in Queue(k)
    BY <1>4 DEF Blocked
  <2>2. K = {k}
    BY <1>2, <2>1 DEF K
  <2>3. Cardinality(K) = 1
    BY <2>2, FS_Singleton
  <2>4. f = 0 /\ r = 0 /\ c = 0
    BY <1>1, <1>2, <2>1
  <2> QED
    BY <1>3, <2>3, <2>4
<1>5. CASE p \notin Blocked
  <2>1. K = {}
    BY <1>5 DEF K, Blocked
  <2>2. Cardinality(K) = 0
    BY <2>1, FS_EmptySet
  <2>3. f + r + c <= 1 /\ f + r + c \in {0, 1}
    BY <1>1, <1>2
  <2>4. p \notin Dying => f + r + c = 1
    BY <1>1, <1>2, <1>5
  <2>5. Places(p) = 0 + f + r + c /\ f \in {0, 1} /\ r \in {0, 1} /\ c \in {0, 1}
    BY <1>1, <1>3, <2>2
  <2> QED
    BY <2>3, <2>4, <2>5
<1> QED
  BY <1>4, <1>5

(* OnePlace holds, whatever system calls programs make and whenever        *)
(* interrupts come: coda.c's one p_next per PCB suffices for its lists, as *)
(* long as no process is terminated that waits.                            *)
THEOREM OnePlaceCorrect ==
  ASSUME Careful
  PROVE  Spec => []OnePlace
<1>1. TypeOK /\ Structure => OnePlace
  BY PlacesOne DEF OnePlace, Structure, ListsEnd
<1> QED
  BY <1>1, StructureCorrect, TypeCorrect, PTL

(* TreeSound holds: what alberi.c links is a forest of live processes.     *)
THEOREM TreeCorrect ==
  ASSUME Careful
  PROVE  Spec => []TreeSound
<1>1. Structure => TreeSound
  BY DEF Structure
<1> QED
  BY <1>1, StructureCorrect, PTL

=============================================================================
