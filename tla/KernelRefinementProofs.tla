----------------------- MODULE KernelRefinementProofs -----------------------
(***************************************************************************)
(* Kernel implements Nucleus, step by step: each step of the kernel maps   *)
(* to a step of Nucleus or changes nothing that Nucleus knows of.          *)
(***************************************************************************)
EXTENDS KernelRefinement, KernelStateProofs, SequenceTheorems

USE MaxprocAssumption, KernelAssumption

-----------------------------------------------------------------------------
(***************************************************************************)
(* A list that ends, as a sequence.                                        *)
(***************************************************************************)
\* the head of a list, and how many nodes a walk from it finds
LEMMA ListHead ==
  ASSUME NEW nx \in [Pcb -> Link], NEW h \in Pcb, Ends(nx, h)
  PROVE  /\ Reach(nx, h) = {h} \cup Reach(nx, nx[h]) /\ h \notin Reach(nx, nx[h])
         /\ nx[h] \in Link /\ Ends(nx, nx[h])
         /\ Cardinality(Reach(nx, nx[h])) \in Nat
         /\ Cardinality(Reach(nx, h)) = Cardinality(Reach(nx, nx[h])) + 1
<1>1. Reach(nx, h) = {h} \cup Reach(nx, nx[h]) /\ h \in Reach(nx, h) /\ h \in Link
  BY ReachStep, ReachHead DEF Link
<1>2. h \notin Reach(nx, nx[h])
  BY <1>1, NoCycle
<1>3. Reach(nx, nx[h]) \in SUBSET Pcb
  BY <1>1, ReachType
<1>4. IsFiniteSet(Reach(nx, nx[h])) /\ Cardinality(Reach(nx, nx[h])) \in Nat
  BY <1>3, PcbSubsets
<1>5. Cardinality(Reach(nx, nx[h]) \cup {h}) = Cardinality(Reach(nx, nx[h])) + 1
  BY <1>2, <1>4, FS_AddElement
<1>6. Ends(nx, nx[h])
  <2>1. PICK e \in Reach(nx, h) : nx[e] = NULL
    BY DEF Ends, NULL, Pcb
  <2> QED
    BY <1>1, <2>1 DEF Ends
<1> QED
  BY <1>1, <1>2, <1>4, <1>5, <1>6
\* a list as a sequence starts with its head and goes on as the rest of the list
LEMMA SeqHead ==
  ASSUME NEW nx \in [Pcb -> Link], NEW h \in Pcb, Ends(nx, h)
  PROVE  /\ AsSeq(nx, h) # << >> /\ Head(AsSeq(nx, h)) = h
         /\ Tail(AsSeq(nx, h)) = AsSeq(nx, nx[h])
         /\ \E X : AsSeq(nx, h) \in Seq(X) /\ AsSeq(nx, nx[h]) \in Seq(X)
<1> DEFINE t == nx[h]
           N == Cardinality(Reach(nx, t))
           s == AsSeq(nx, h)
           r == AsSeq(nx, t)
<1>1. /\ Reach(nx, h) = {h} \cup Reach(nx, t) /\ h \notin Reach(nx, t)
      /\ t \in Link /\ N \in Nat /\ Cardinality(Reach(nx, h)) = N + 1
  BY ListHead
<1>2. \A p \in Reach(nx, t) : Cardinality(Reach(nx, p)) \in Nat /\ Cardinality(Reach(nx, p)) <= N
  <2> SUFFICES ASSUME NEW p \in Reach(nx, t)
               PROVE  Cardinality(Reach(nx, p)) \in Nat /\ Cardinality(Reach(nx, p)) <= N
    OBVIOUS
  <2>1. p \in Pcb /\ Reach(nx, p) \subseteq Reach(nx, t) /\ Reach(nx, t) \in SUBSET Pcb
    BY <1>1, ReachType, ReachTransitive
  <2>2. IsFiniteSet(Reach(nx, t)) /\ Reach(nx, p) \in SUBSET Pcb
    BY <2>1, PcbSubsets
  <2> QED
    BY <2>1, <2>2, FS_Subset, PcbSubsets
<1> DEFINE c(p) == Cardinality(Reach(nx, p))
<1>3. At(nx, h, 1) = {h}
  <2>1. \A p \in Reach(nx, h) : c(p) = N + 1 <=> p = h
    <3> HIDE DEF N
    <3> QED
      BY <1>1, <1>2
  <2>2. (N + 1) - 1 + 1 = N + 1
    BY <1>1
  <2> HIDE DEF N
  <2>3. At(nx, h, 1) = {p \in Reach(nx, h) : c(p) = N + 1}
    BY <1>1, <2>2 DEF At
  <2>4. h \in Reach(nx, h)
    BY <1>1
  <2> HIDE DEF c
  <2> QED
    BY <2>1, <2>3, <2>4
<1>4. \A i \in 1..N : At(nx, h, i + 1) = At(nx, t, i)
  <2> SUFFICES ASSUME NEW i \in 1..N PROVE At(nx, h, i + 1) = At(nx, t, i)
    OBVIOUS
  <2>1. (N + 1) - (i + 1) + 1 = N - i + 1 /\ N - i + 1 # N + 1
    BY <1>1
  <2>2. At(nx, t, i) = {p \in Reach(nx, t) : c(p) = N - i + 1}
    BY DEF At
  <2> HIDE DEF N
  <2>3. At(nx, h, i + 1) = {p \in Reach(nx, h) : c(p) = N - i + 1}
    BY <1>1, <2>1 DEF At
  <2>4. c(h) = N + 1
    BY <1>1
  <2> HIDE DEF c
  <2> QED
    BY <1>1, <2>1, <2>2, <2>3, <2>4
<1> DEFINE e(i) == CHOOSE p \in At(nx, h, i) : TRUE
<1>5. s = [i \in 1..(N + 1) |-> e(i)] /\ r = [i \in 1..N |-> e(i + 1)]
  BY <1>1, <1>4 DEF AsSeq
<1>6. e(1) = h
  BY <1>3
<1> DEFINE X == {e(i) : i \in 1..(N + 1)}
<1>7. s \in Seq(X) /\ r \in Seq(X) /\ Len(s) = N + 1 /\ Len(r) = N
  <2> HIDE DEF e, s, r
  <2>1. \A i \in 1..N : i + 1 \in 1..(N + 1)
    BY <1>1
  <2>2. \A i \in 1..(N + 1) : e(i) \in X
    OBVIOUS
  <2> HIDE DEF X
  <2>3. s \in [1..(N + 1) -> X] /\ r \in [1..N -> X]
    BY <1>5, <2>1, <2>2
  <2> QED
    BY <1>1, <2>3
<1>8. Head(s) = h /\ Tail(s) = r
  <2> HIDE DEF e, s, r, X, N
  <2>1. s # << >> /\ (N + 1) - 1 = N /\ \A i \in 1..N : i + 1 \in 1..(N + 1)
    BY <1>1, <1>7
  <2>2. /\ Tail(s) \in Seq(X) /\ Len(Tail(s)) = N
        /\ \A i \in 1..N : Tail(s)[i] = s[i + 1]
    BY <1>7, <2>1, HeadTailProperties
  <2>3. \A i \in 1..N : Tail(s)[i] = r[i]
    BY <1>5, <2>1, <2>2
  <2>4. Tail(s) = r
    BY <1>7, <2>2, <2>3, SeqEqual
  <2>5. Head(s) = s[1] /\ 1 \in 1..(N + 1)
    BY <1>1, <1>7, <2>1
  <2> QED
    BY <1>5, <1>6, <2>4, <2>5
<1> QED
  BY <1>1, <1>7, <1>8

\* the empty list
LEMMA SeqNull ==
  ASSUME NEW nx \in [Pcb -> Link]
  PROVE  AsSeq(nx, NULL) = << >>
<1>1. Reach(nx, NULL) = {} /\ Cardinality({}) = 0
  BY ReachNull, FS_EmptySet
<1>2. 1..0 = {}
  OBVIOUS
<1> QED
  BY <1>1, <1>2 DEF AsSeq

\* every walk from a node of a list that ends, ends
LEMMA EndsBehind ==
  ASSUME NEW nx \in [Pcb -> Link], NEW h \in Link, Ends(nx, h), NEW x \in Reach(nx, h)
  PROVE  x \in Pcb /\ x \in Link /\ Ends(nx, x)
<1>1. x \in Pcb /\ x \in Link /\ h # NULL
  BY ReachType, ReachNull DEF Link
<1>2. PICK e \in Reach(nx, h) : nx[e] = NULL
  BY <1>1 DEF Ends
<1>3. e \in Reach(nx, x) \/ x \in Reach(nx, e)
  BY ReachLinear
<1>4. e \in Pcb /\ Reach(nx, e) = {e}
  BY <1>2, ReachType, ReachStep, ReachNull
<1>5. e \in Reach(nx, x)
  BY <1>1, <1>3, <1>4, ReachHead
<1> QED
  BY <1>1, <1>2, <1>5 DEF Ends

\* the elements of a sequence: its head, and those of the rest
LEMMA ElementsStep ==
  ASSUME NEW X, NEW s \in Seq(X), s # << >>
  PROVE  /\ Abstract!Elements(s) = {Head(s)} \cup Abstract!Elements(Tail(s))
         /\ s \in Seq(Abstract!Elements(s))
<1>1. /\ Len(s) \in Nat \ {0} /\ Tail(s) \in Seq(X) /\ Len(Tail(s)) = Len(s) - 1
      /\ \A i \in 1..Len(Tail(s)) : Tail(s)[i] = s[i + 1]
      /\ Head(s) = s[1]
  BY HeadTailProperties, EmptySeq
<1>2. Abstract!Elements(s) \subseteq {Head(s)} \cup Abstract!Elements(Tail(s))
  <2> SUFFICES ASSUME NEW i \in 1..Len(s), i # 1
               PROVE  \E j \in 1..Len(Tail(s)) : s[i] = Tail(s)[j]
    BY <1>1 DEF Abstract!Elements
  <2>1. i - 1 \in 1..Len(Tail(s)) /\ (i - 1) + 1 = i
    BY <1>1
  <2> QED
    BY <1>1, <2>1
<1>3. {Head(s)} \cup Abstract!Elements(Tail(s)) \subseteq Abstract!Elements(s)
  <2>1. 1 \in 1..Len(s) /\ \A i \in 1..Len(Tail(s)) : i + 1 \in 1..Len(s)
    BY <1>1
  <2> QED
    BY <1>1, <2>1 DEF Abstract!Elements
<1>4. s \in Seq(Abstract!Elements(s))
  <2>1. s = [i \in 1..Len(s) |-> s[i]] /\ Len(s) \in Nat
    BY <1>1, LenProperties
  <2>2. \A i \in 1..Len(s) : s[i] \in Abstract!Elements(s)
    BY DEF Abstract!Elements
  <2>3. s \in [1..Len(s) -> Abstract!Elements(s)]
    BY <2>1, <2>2
  <2> QED
    BY <1>1, <2>3, SeqDef
<1> QED
  BY <1>2, <1>3, <1>4

\* the elements of the sequence are the nodes of the list
LEMMA SeqElements ==
  ASSUME NEW nx \in [Pcb -> Link], NEW h \in Link, Ends(nx, h)
  PROVE  AsSeq(nx, h) \in Seq(Pcb) /\ Abstract!Elements(AsSeq(nx, h)) = Reach(nx, h)
<1> DEFINE G == {x \in Link : /\ AsSeq(nx, x) \in Seq(Pcb)
                              /\ Abstract!Elements(AsSeq(nx, x)) = Reach(nx, x)}
<1>1. NULL \in G
  <2>1. NULL \in Link /\ AsSeq(nx, NULL) = << >> /\ Reach(nx, NULL) = {} /\ 1..0 = {}
    BY SeqNull, ReachNull DEF Link
  <2>2. << >> \in Seq(Pcb) /\ Len(<< >>) = 0
    BY EmptySeq
  <2>3. Abstract!Elements(<< >>) = {}
    BY <2>1, <2>2 DEF Abstract!Elements
  <2> QED
    BY <2>1, <2>2, <2>3
<1>2. ASSUME NEW x \in Reach(nx, h), nx[x] \in G
      PROVE  x \in G
  <2> DEFINE s == AsSeq(nx, x)
  <2>1. x \in Pcb /\ x \in Link /\ Ends(nx, x)
    BY EndsBehind
  <2>2. /\ s # << >> /\ Head(s) = x /\ Tail(s) = AsSeq(nx, nx[x])
        /\ \E X : s \in Seq(X)
    BY <2>1, SeqHead
  <2>3. /\ Abstract!Elements(s) = {x} \cup Abstract!Elements(AsSeq(nx, nx[x]))
        /\ s \in Seq(Abstract!Elements(s))
    BY <2>2, ElementsStep
  <2>4. Abstract!Elements(s) = Reach(nx, x) /\ Reach(nx, x) \subseteq Pcb
    BY <1>2, <2>1, <2>3, ReachStep, ReachType
  <2>5. s \in Seq(Pcb)
    BY <2>3, <2>4, SeqMonotonic
  <2> QED
    BY <2>1, <2>4, <2>5
<1> HIDE DEF G
<1>3. h \in G
  BY <1>1, <1>2, ListInduction
<1> QED
  BY <1>3 DEF G

\* two sequences that start the same and go on the same
LEMMA SameSeq ==
  ASSUME NEW s \in Seq(Pcb), NEW t \in Seq(Pcb), s # << >>, t # << >>,
         Head(s) = Head(t), NEW u, Tail(s) = u, Tail(t) = u
  PROVE  s = t
<1>1. /\ Len(s) \in Nat \ {0} /\ Len(u) = Len(s) - 1
      /\ \A i \in 1..Len(u) : u[i] = s[i + 1]
      /\ Head(s) = s[1]
  BY HeadTailProperties, EmptySeq
<1>2. /\ Len(t) \in Nat \ {0} /\ Len(u) = Len(t) - 1
      /\ \A i \in 1..Len(u) : u[i] = t[i + 1]
      /\ Head(t) = t[1]
  BY HeadTailProperties, EmptySeq
<1>3. Len(s) = Len(t)
  BY <1>1, <1>2
<1>4. ASSUME NEW i \in 1..Len(s), i # 1
      PROVE  s[i] = t[i]
  <2> DEFINE n == Len(s)
  <2>1. n \in Nat \ {0} /\ Len(u) = n - 1 /\ i \in 1..n /\ i # 1
    BY <1>1, <1>4
  <2> HIDE DEF n
  <2>2. i - 1 \in 1..(n - 1) /\ (i - 1) + 1 = i
    BY <2>1
  <2> QED
    BY <1>1, <1>2, <2>1, <2>2
<1> QED
  BY <1>1, <1>2, <1>3, <1>4, SeqEqual

\* a list whose links are as before is the same sequence
LEMMA SeqFrame ==
  ASSUME NEW nx \in [Pcb -> Link], NEW ny \in [Pcb -> Link], NEW h \in Link,
         \A n \in Reach(nx, h) : ny[n] = nx[n]
  PROVE  AsSeq(ny, h) = AsSeq(nx, h)
<1>1. Reach(ny, h) = Reach(nx, h)
  BY ReachFrame
<1>2. \A p \in Reach(nx, h) : Reach(ny, p) = Reach(nx, p)
  <2> SUFFICES ASSUME NEW p \in Reach(nx, h) PROVE Reach(ny, p) = Reach(nx, p)
    OBVIOUS
  <2>1. p \in Link /\ Reach(nx, p) \subseteq Reach(nx, h)
    BY ReachType, ReachTransitive DEF Link
  <2> QED
    BY <2>1, ReachFrame
<1>3. \A i : At(ny, h, i) = At(nx, h, i)
  BY <1>1, <1>2 DEF At
<1> QED
  BY <1>1, <1>3 DEF AsSeq

\* a list that p has been linked to the end of
LEMMA SeqAppend ==
  ASSUME NEW nx \in [Pcb -> Link], NEW ny \in [Pcb -> Link], NEW h \in Link, Ends(nx, h),
         NEW p \in Pcb, ny[p] = NULL,
         \A n \in Reach(nx, h) : ny[n] = IF nx[n] = NULL THEN p ELSE nx[n]
  PROVE  AsSeq(ny, IF h = NULL THEN p ELSE h) = Append(AsSeq(nx, h), p)
<1> DEFINE start(x) == IF x = NULL THEN p ELSE x
           G == {x \in Link : /\ Ends(ny, start(x))
                              /\ AsSeq(ny, start(x)) = Append(AsSeq(nx, x), p)}
<1>1. AsSeq(ny, p) = <<p>> /\ Ends(ny, p)
  <2>1. p \in Link /\ Ends(ny, p)
    BY ReachHead DEF Link, Ends
  <2>2. /\ AsSeq(ny, p) # << >> /\ Head(AsSeq(ny, p)) = p /\ Tail(AsSeq(ny, p)) = << >>
        /\ AsSeq(ny, p) \in Seq(Pcb)
    BY <2>1, SeqHead, SeqNull, SeqElements
  <2>3. <<p>> \in Seq(Pcb) /\ <<p>> # << >> /\ Head(<<p>>) = p /\ Tail(<<p>>) = << >>
    OBVIOUS
  <2> QED
    BY <2>1, <2>2, <2>3, SameSeq
<1>2. NULL \in G
  <2>1. AsSeq(nx, NULL) = << >> /\ Append(<< >>, p) = <<p>> /\ NULL \in Link
    BY SeqNull DEF Link
  <2> QED
    BY <1>1, <2>1
<1>3. ASSUME NEW x \in Reach(nx, h), nx[x] \in G
      PROVE  x \in G
  <2> DEFINE s == AsSeq(nx, x)
             t == AsSeq(ny, x)
             u == AsSeq(nx, nx[x])
  <2>1. x \in Pcb /\ x \in Link /\ x # NULL /\ Ends(nx, x) /\ nx[x] \in Link /\ Ends(nx, nx[x])
    BY EndsBehind, ListHead DEF Pcb, NULL
  <2>2. ny[x] = start(nx[x]) /\ Ends(ny, ny[x]) /\ AsSeq(ny, ny[x]) = Append(u, p)
    BY <1>3
  <2>3. Ends(ny, x)
    <3>1. Reach(ny, x) = {x} \cup Reach(ny, ny[x])
      BY <2>1, ReachStep
    <3>2. x \in Reach(ny, x)
      BY <3>1
    <3> QED
      BY <2>2, <3>1, <3>2 DEF Ends
  <2>4. /\ s # << >> /\ Head(s) = x /\ Tail(s) = u /\ s \in Seq(Pcb) /\ u \in Seq(Pcb)
    BY <2>1, SeqHead, SeqElements
  <2>5. t # << >> /\ Head(t) = x /\ Tail(t) = Append(u, p) /\ t \in Seq(Pcb)
    BY <2>1, <2>2, <2>3, SeqHead, SeqElements
  <2> HIDE DEF s, t, u
  <2>6. /\ Append(s, p) \in Seq(Pcb) /\ Append(s, p) # << >>
        /\ Head(Append(s, p)) = x /\ Tail(Append(s, p)) = Append(u, p)
    BY <2>4, AppendProperties, HeadTailAppend
  <2>7. t = Append(s, p)
    BY <2>5, <2>6, SameSeq
  <2> QED
    BY <2>1, <2>3, <2>7 DEF s, t
<1> HIDE DEF G
<1>4. h \in G
  BY <1>2, <1>3, ListInduction
<1> QED
  BY <1>4 DEF G

(* insertProcQ appends a PCB whose priority is that of all those in the    *)
(* queue to the sequence that the links make of the queue: insertBlocked,  *)
(* which sets the priority of every waiter to 0, is first come first       *)
(* served, for every list and every number of PCBs.                        *)
THEOREM InsertAppends ==
  ASSUME NEW nx \in [Pcb -> Link], NEW h \in Link, Ends(nx, h), NEW pri \in [Pcb -> Int],
         NEW p \in Pcb, p \notin Reach(nx, h), \A n \in Reach(nx, h) : pri[n] = pri[p]
  PROVE  LET r == InsertProcQ(nx, pri, h, p)
         IN  AsSeq(r.next, r.head) = Append(AsSeq(nx, h), p)
<1> DEFINE r == InsertProcQ(nx, pri, h, p)
<1>1. /\ r.next \in [Pcb -> Link] /\ r.next[p] = NULL
      /\ \A n \in Reach(nx, h) : r.next[n] = IF nx[n] = NULL THEN p ELSE nx[n]
  <2>1. r.next \in [Pcb -> Link]
    BY InsertProcQFacts
  <2>2. /\ r.next[p] = NULL
        /\ \A n \in Reach(nx, h) : r.next[n] = IF nx[n] = NULL THEN p ELSE nx[n]
    BY InsertLast
  <2> QED
    BY <2>1, <2>2
<1>2. r.head = IF h = NULL THEN p ELSE h
  <2>1. CASE h = NULL
    BY <2>1 DEF InsertProcQ
  <2>2. CASE h # NULL
    BY <2>2, InsertLast
  <2> QED
    BY <2>1, <2>2
<1> HIDE DEF r
<1>3. AsSeq(r.next, IF h = NULL THEN p ELSE h) = Append(AsSeq(nx, h), p)
  BY <1>1, SeqAppend
<1>4. AsSeq(r.next, r.head) = Append(AsSeq(nx, h), p)
  BY <1>2, <1>3
<1> QED
  BY <1>4 DEF r

-----------------------------------------------------------------------------
(***************************************************************************)
(* What Nucleus sees of a state, and of a step.                            *)
(***************************************************************************)
\* while liberaTutti does not run, all live processes exist for Nucleus
LEMMA Calm ==
  ASSUME stack = << >>
  PROVE  Alive = Live /\ Ready = OnReady
  BY NoneDying DEF Alive, Ready

\* the same after a step
LEMMA CalmNext ==
  ASSUME stack' = << >>
  PROVE  Alive' = Live' /\ Ready' = OnReady'
<1>1. Doomed' = {}
  <2>1. Dying' = {}
    BY DEF Dying
  <2> QED
    BY <2>1 DEF Doomed
<1> QED
  BY <1>1 DEF Alive, Ready

\* the semaphores of Nucleus are the keys of Kernel
LEMMA SameSem == Abstract!Sem = Key
  BY DEF Abstract!Sem, Key, SoftKey

\* what a step leaves alone that Nucleus sees
LEMMA Stutter ==
  ASSUME UNCHANGED <<p_next, p_parent, pcbfree_h, readyQueue, currentPcb, s_procQ, stack,
                     p_priority, start_priority, semval>>,
         StoppedBy' = StoppedBy
  PROVE  UNCHANGED Abstract!abstract
<1>1. Doomed' = Doomed /\ Live' = Live /\ OnReady' = OnReady
  BY DEF Doomed, Dying, Subtree, Live, OnReady
<1>2. Alive' = Alive /\ Ready' = Ready
  BY <1>1 DEF Alive, Ready
<1> QED
  BY <1>2 DEF Abstract!abstract, Abstract!processes, Abstract!semaphores,
              ParentOf, PriorityOf, ReadyNow, Waiters

\* queues whose heads and links are as before
LEMMA QueueKept ==
  ASSUME TypeOK, p_next' \in [Pcb -> Link], NEW k \in Key, s_procQ'[k] = s_procQ[k],
         \A n \in Queue(k) : p_next'[n] = p_next[n]
  PROVE  AsSeq(p_next', s_procQ'[k]) = AsSeq(p_next, s_procQ[k])
<1>1. p_next \in [Pcb -> Link] /\ s_procQ[k] \in Link
  BY DEF TypeOK
<1> QED
  BY <1>1, SeqFrame DEF Queue

\* all of them
LEMMA QueuesKept ==
  ASSUME TypeOK, p_next' \in [Pcb -> Link], UNCHANGED s_procQ,
         \A k \in Key : \A n \in Queue(k) : p_next'[n] = p_next[n]
  PROVE  Waiters' = Waiters
<1>1. \A k \in Key : AsSeq(p_next', s_procQ'[k]) = AsSeq(p_next, s_procQ[k])
  BY QueueKept
<1> QED
  BY <1>1 DEF Waiters

\* the tree of a step that creates and ends no process
LEMMA SameProcesses ==
  ASSUME stack = << >>, stack' = << >>, Free' = Free, UNCHANGED <<p_parent, start_priority>>
  PROVE  ParentOf' = ParentOf /\ PriorityOf' = PriorityOf
<1>1. Live' = Live
  BY DEF Live, Free
<1>2. Alive' = Alive
  BY <1>1, Calm, CalmNext
<1> QED
  BY <1>2 DEF ParentOf, PriorityOf

-----------------------------------------------------------------------------
(***************************************************************************)
(* semp and semv.                                                          *)
(***************************************************************************)
\* the process that waits goes to the end of the queue
LEMMA BlockQueues ==
  ASSUME TypeOK, TypeOK', Structure, PriorityKept, Careful, NEW k \in Key, Block(k)
  PROVE  Waiters' = [Waiters EXCEPT ![k] = Append(@, currentPcb)]
<1> DEFINE c   == currentPcb
           nx  == [p_next EXCEPT ![c] = NULL]
           pri == [p_priority EXCEPT ![c] = 0]
           h   == s_procQ[k]
           r   == InsertProcQ(nx, pri, h, c)
<1>1. /\ p_next' = r.next /\ s_procQ' = [s_procQ EXCEPT ![k] = r.head]
      /\ nx \in [Pcb -> Link] /\ Reach(nx, h) = Queue(k)
      /\ Ends(nx, h) /\ c \notin Queue(k) /\ c \in Pcb
      /\ AgreeOutside(p_next, r.next, {c} \cup Queue(k))
  BY BlockLinks
<1>2. pri \in [Pcb -> Int] /\ pri[c] = 0 /\ \A n \in Pcb \ {c} : pri[n] = p_priority[n]
  BY <1>1 DEF TypeOK
<1>3. /\ p_next \in [Pcb -> Link] /\ p_next' \in [Pcb -> Link]
      /\ s_procQ \in [Key -> Link] /\ h \in Link
      /\ \A n \in Pcb \ {c} : nx[n] = p_next[n]
  BY <1>1 DEF TypeOK
<1> HIDE DEF nx, pri, r, h
<1>5. \A n \in Queue(k) : pri[n] = pri[c]
  <2>1. Queue(k) \subseteq Pcb /\ Queue(k) \subseteq Blocked
    BY ListTypes DEF Blocked
  <2> QED
    BY <1>1, <1>2, <2>1 DEF PriorityKept
<1>7. AsSeq(p_next', s_procQ'[k]) = Append(AsSeq(nx, h), c)
  <2>1. AsSeq(r.next, r.head) = Append(AsSeq(nx, h), c)
    BY <1>1, <1>2, <1>3, <1>5, InsertAppends DEF r
  <2> QED
    BY <1>1, <1>3, <2>1
<1>8. AsSeq(nx, h) = AsSeq(p_next, s_procQ[k])
  <2>1. \A n \in Reach(p_next, h) : nx[n] = p_next[n]
    BY <1>1, <1>3, ReachType DEF Queue, h
  <2> QED
    BY <1>1, <1>3, <2>1, SeqFrame DEF h
<1>9. ASSUME NEW j \in Key, j # k
      PROVE  AsSeq(p_next', s_procQ'[j]) = AsSeq(p_next, s_procQ[j])
  <2>1. s_procQ'[j] = s_procQ[j]
    BY <1>1, <1>3, <1>9
  <2>2. Queue(j) \subseteq Pcb \ ({c} \cup Queue(k))
    BY <1>9, ListTypes DEF Structure, ListsApart
  <2>3. \A n \in Queue(j) : p_next'[n] = p_next[n]
    BY <1>1, <2>2 DEF AgreeOutside
  <2> QED
    BY <1>3, <2>1, <2>3, QueueKept
<1> QED
  BY <1>7, <1>8, <1>9 DEF Waiters

\* the head of the queue of k is made ready, with its own priority
LEMMA WakeQueues ==
  ASSUME TypeOK, TypeOK', Structure, PriorityKept, NEW k \in Key, NEW next,
         s_procQ[k] # NULL, SemV(k, next)
  PROVE  /\ Waiters[k] # << >> /\ Head(Waiters[k]) = s_procQ[k]
         /\ Waiters' = [Waiters EXCEPT ![k] = Tail(@)]
         /\ s_procQ[k] \in Queue(k) /\ s_procQ[k] \in Pcb
         /\ p_priority' = [p_priority EXCEPT ![s_procQ[k]] = start_priority[s_procQ[k]]]
         /\ semval' = semval
<1> DEFINE b == s_procQ[k]
           pri == [p_priority EXCEPT ![b] = last_priority[b]]
<1>1. /\ s_procQ' = [s_procQ EXCEPT ![k] = p_next[b]] /\ p_priority' = pri
      /\ InsertReady(p_next, pri, b, next) /\ semval' = semval
  BY DEF SemV
<1>2. /\ p_next \in [Pcb -> Link] /\ p_next' \in [Pcb -> Link] /\ s_procQ \in [Key -> Link]
      /\ b \in Pcb /\ b \in Queue(k) /\ readyQueue \in Link
      /\ Ends(p_next, readyQueue) /\ Ends(p_next, b)
  BY ReachHead DEF TypeOK, Link, Queue, Structure, ListsEnd
<1>3. /\ \A j \in Key : Queue(j) \cap OnReady = {}
      /\ \A j \in Key : j # k => Queue(j) \cap Queue(k) = {}
      /\ \A j \in Key : Queue(j) \subseteq Pcb
  BY ListTypes DEF Structure, ListsApart
<1>4. AgreeOutside(p_next, p_next', {b} \cup OnReady)
  <2>1. b \notin OnReady
    BY <1>2, <1>3
  <2> HIDE DEF b, pri
  <2>2. b \notin Reach(p_next, readyQueue)
    BY <2>1 DEF OnReady
  <2>3. AgreeOutside(p_next, p_next', {b} \cup Reach(p_next, readyQueue))
    BY <1>1, <1>2, <2>2, InsertReadyLists
  <2> QED
    BY <2>3 DEF OnReady
<1>5. /\ Waiters[k] = AsSeq(p_next, b)
      /\ Waiters[k] # << >> /\ Head(Waiters[k]) = b /\ Tail(Waiters[k]) = AsSeq(p_next, p_next[b])
  BY <1>2, SeqHead DEF Waiters
<1>6. AsSeq(p_next', s_procQ'[k]) = AsSeq(p_next, p_next[b])
  <2>1. /\ Queue(k) = {b} \cup Reach(p_next, p_next[b]) /\ b \notin Reach(p_next, p_next[b])
        /\ p_next[b] \in Link
    BY <1>2, ListHead DEF Queue
  <2>2. \A n \in Reach(p_next, p_next[b]) : p_next'[n] = p_next[n]
    BY <1>2, <1>3, <1>4, <2>1 DEF AgreeOutside
  <2>3. s_procQ'[k] = p_next[b]
    BY <1>1, <1>2
  <2> QED
    BY <1>2, <2>1, <2>2, <2>3, SeqFrame
<1>7. ASSUME NEW j \in Key, j # k
      PROVE  AsSeq(p_next', s_procQ'[j]) = AsSeq(p_next, s_procQ[j])
  <2>1. s_procQ'[j] = s_procQ[j]
    BY <1>1, <1>2, <1>7
  <2>2. \A n \in Queue(j) : p_next'[n] = p_next[n]
    BY <1>2, <1>3, <1>4, <1>7 DEF AgreeOutside
  <2> QED
    BY <1>2, <2>1, <2>2, QueueKept
<1>8. Waiters' = [Waiters EXCEPT ![k] = Tail(@)]
  BY <1>5, <1>6, <1>7 DEF Waiters
<1>9. last_priority[b] = start_priority[b]
  BY <1>2 DEF PriorityKept, Blocked
<1> QED
  BY <1>1, <1>2, <1>5, <1>8, <1>9

(* semp, for a process that may have to wait, is P of Nucleus.             *)
LEMMA SemPRefines ==
  ASSUME TypeOK, TypeOK', SemaphoresSound, Structure, PriorityKept, Careful, NEW k \in Key,
         SysCall, SemP(k), UNCHANGED <<readyQueue, start_priority, CallFrame>>
  PROVE  Abstract!P(k)
<1>1. /\ pc = "user" /\ currentPcb # NULL /\ stack = << >> /\ stack' = << >>
      /\ UNCHANGED <<p_parent, pcbfree_h>>
  BY DEF SysCall, TypeOK, Structure, DyingSound, CallFrame, tree
<1>2. CASE semval[k] <= 0
  <2>1. Block(k)
    BY <1>2 DEF Block
  <2>2. /\ Free' = Free /\ OnReady' = OnReady /\ currentPcb' = NULL /\ currentPcb \in Pcb
    BY <2>1, BlockPlaces
  <2>3. p_priority' = [p_priority EXCEPT ![currentPcb] = 0]
    BY <2>1, BlockLinks
  <2>4. currentPcb \notin OnReady
    BY DEF Structure, ListsApart
  <2>5. ReadyNow' = ReadyNow
    <3>1. Ready = OnReady /\ Ready' = OnReady /\ OnReady \subseteq Pcb
      BY <1>1, <2>2, Calm, CalmNext, ListTypes
    <3>2. \A n \in OnReady : p_priority'[n] = p_priority[n]
      BY <2>2, <2>3, <2>4, <3>1 DEF TypeOK
    <3> QED
      BY <3>1, <3>2 DEF ReadyNow
  <2>6. semval[k] = 0 /\ semval' = semval /\ pc' = "scheduler"
    <3>1. semval[k] = 0
      BY <1>2 DEF SemaphoresSound, TypeOK
    <3>2. semval' = semval
      BY <3>1 DEF SemP
    <3> QED
      BY <2>1, <3>1, <3>2, BlockLists DEF Structure, Block, SysCall, CallFrame, TypeOK
  <2>7. Waiters' = [Waiters EXCEPT ![k] = Append(@, currentPcb)]
    BY <2>1, BlockQueues
  <2>8. ParentOf' = ParentOf /\ PriorityOf' = PriorityOf
    BY <1>1, <2>2, SameProcesses
  <2>9. StoppedBy' = StoppedBy
    BY <1>1, <2>6 DEF StoppedBy
  <2> QED
    BY <1>1, <2>2, <2>5, <2>6, <2>7, <2>8, <2>9 DEF Abstract!P, Abstract!processes
<1>3. CASE semval[k] > 0
  <2>1. /\ semval' = [semval EXCEPT ![k] = @ - 1] /\ pc' = "scheduler"
        /\ UNCHANGED <<p_next, p_priority, s_procQ, currentPcb>>
    BY <1>3 DEF SemP, prios, TypeOK
  <2>2. /\ Free' = Free /\ OnReady' = OnReady /\ Waiters' = Waiters
    BY <1>1, <2>1 DEF Free, OnReady, Waiters
  <2>3. ParentOf' = ParentOf /\ PriorityOf' = PriorityOf
    BY <1>1, <2>2, SameProcesses
  <2>4. ReadyNow' = ReadyNow
    BY <1>1, <2>1, <2>2, Calm, CalmNext DEF ReadyNow
  <2>5. StoppedBy' = StoppedBy
    BY <1>1, <2>1 DEF StoppedBy
  <2> QED
    BY <1>1, <1>3, <2>1, <2>2, <2>3, <2>4, <2>5 DEF Abstract!P, Abstract!processes
<1> QED
  BY <1>2, <1>3 DEF TypeOK

(* semv that finds a process waiting is Wake of Nucleus.                   *)
LEMMA WakeRefines ==
  ASSUME TypeOK, TypeOK', Structure, PriorityKept, NEW k \in Key, WakeUp(k),
         pc \notin Stopped
  PROVE  Abstract!Wake(k)
<1> DEFINE b == s_procQ[k]
<1>1. PICK next \in {"scheduler", "pseudoTick"} : SemV(k, next)
  BY DEF WakeUp
<1>2. /\ b # NULL /\ pc # "liberaTutti" /\ stack = << >> /\ stack' = << >>
      /\ UNCHANGED <<start_priority, currentPcb, p_parent, pcbfree_h>>
  BY DEF WakeUp, CallFrame, tree, Structure, DyingSound
<1>3. /\ Waiters[k] # << >> /\ Head(Waiters[k]) = b
      /\ Waiters' = [Waiters EXCEPT ![k] = Tail(@)]
      /\ b \in Queue(k) /\ b \in Pcb
      /\ p_priority' = [p_priority EXCEPT ![b] = start_priority[b]]
      /\ semval' = semval
  BY <1>1, <1>2, WakeQueues
<1>4. Free' = Free /\ OnReady' = OnReady \cup {b}
  BY WakeUpPlaces DEF Woken
<1>5. ParentOf' = ParentOf /\ PriorityOf' = PriorityOf
  BY <1>2, <1>4, SameProcesses
<1>6. /\ Ready = OnReady /\ Ready' = OnReady \cup {b} /\ Alive = Live
      /\ OnReady \subseteq Pcb /\ b \notin Free
  BY <1>2, <1>3, <1>4, Calm, CalmNext, ListTypes DEF Structure, ListsApart
<1>7. b \in Alive
  BY <1>3, <1>6 DEF Live, Free
<1>8. /\ ReadyNow = [q \in OnReady |-> p_priority[q]]
      /\ ReadyNow' = [q \in OnReady \cup {b} |-> p_priority'[q]]
      /\ PriorityOf[b] = start_priority[b]
  BY <1>6, <1>7 DEF ReadyNow, PriorityOf
<1>9. \A q \in OnReady \cup {b} :
        p_priority'[q] = IF q = b THEN start_priority[b] ELSE p_priority[q]
  BY <1>3, <1>6 DEF TypeOK
<1> HIDE DEF b
<1>10. ReadyNow' = Abstract!Put(ReadyNow, b, PriorityOf[b])
  BY <1>8, <1>9 DEF Abstract!Put
<1>11. StoppedBy' = StoppedBy
  <2>1. pc' \in {"scheduler", "pseudoTick"}
    BY <1>1, <1>2, WakeLists DEF Structure, b
  <2> QED
    BY <2>1 DEF StoppedBy, Stopped
<1> QED
  BY <1>2, <1>3, <1>5, <1>10, <1>11 DEF Abstract!Wake, Abstract!processes

\* semv is V of Nucleus
LEMMA SemVRefines ==
  ASSUME TypeOK, TypeOK', Structure, PriorityKept, NEW k \in UserSem, SemVCall(k)
  PROVE  Abstract!V(k)
<1>1. /\ k \in Key /\ pc = "user" /\ currentPcb # NULL /\ stack = << >> /\ stack' = << >>
      /\ SemV(k, "scheduler") /\ UNCHANGED <<start_priority, last_priority, currentPcb, CallFrame>>
  BY KeyFacts DEF SemVCall, SysCall, TypeOK, Structure, DyingSound, CallFrame
<1>2. CASE s_procQ[k] # NULL
  <2>1. WakeUp(k) /\ pc \notin Stopped
    BY <1>1, <1>2 DEF WakeUp, Stopped
  <2>2. Abstract!Wake(k)
    BY <1>1, <2>1, WakeRefines
  <2> QED
    BY <1>1, <2>2 DEF Abstract!V
<1>3. CASE s_procQ[k] = NULL
  <2>1. /\ semval' = [semval EXCEPT ![k] = @ + 1] /\ pc' = "scheduler"
        /\ UNCHANGED <<p_next, readyQueue, p_priority, s_procQ, p_parent, pcbfree_h>>
    BY <1>1, <1>3 DEF SemV, CallFrame, tree
  <2>2. /\ Free' = Free /\ OnReady' = OnReady /\ Waiters' = Waiters
    BY <2>1 DEF Free, OnReady, Waiters
  <2>3. ParentOf' = ParentOf /\ PriorityOf' = PriorityOf
    BY <1>1, <2>1, <2>2, SameProcesses
  <2>4. ReadyNow' = ReadyNow
    BY <1>1, <2>1, <2>2, Calm, CalmNext DEF ReadyNow
  <2>5. StoppedBy' = StoppedBy
    BY <1>1, <2>1 DEF StoppedBy
  <2>6. Waiters[k] = << >>
    BY <1>1, <1>3, SeqNull, ListTypes DEF Waiters
  <2> QED
    BY <1>1, <2>1, <2>2, <2>3, <2>4, <2>5, <2>6 DEF Abstract!V, Abstract!processes
<1> QED
  BY <1>2, <1>3

\* a step that changes neither a list nor a value nor a priority
LEMMA Stands ==
  ASSUME Structure, pc \notin {"halt", "panic"}, pc' \notin {"halt", "panic"},
         UNCHANGED <<p_next, p_parent, pcbfree_h, readyQueue, currentPcb, s_procQ, stack,
                     p_priority, start_priority, semval>>
  PROVE  UNCHANGED Abstract!abstract
<1>1. StoppedBy' = StoppedBy
  BY DEF StoppedBy
<1> QED
  BY <1>1, Stutter

\* the system calls that do not change the tree
LEMMA CallsRefine ==
  ASSUME TypeOK, TypeOK', SemaphoresSound, Structure, PriorityKept, Careful,
         \/ CreateFails \/ OtherCall \/ WaitClock \/ WaitChild
         \/ \E k \in UserSem : SemPCall(k) \/ SemVCall(k)
         \/ \E d \in Device : IoDevOp(d)
  PROVE  [Abstract!Next]_(Abstract!abstract)
<1>1. CASE CreateFails \/ OtherCall
  <2>1. UNCHANGED Abstract!abstract
    BY <1>1, Stands DEF CreateFails, OtherCall, SysCall, tree, prios, sems, CallFrame
  <2> QED
    BY <2>1
<1>2. CASE WaitClock
  <2>1. Abstract!P(timerSem)
    BY <1>2, SemPRefines, KeyFacts DEF WaitClock
  <2> QED
    BY <2>1 DEF Abstract!Next, SoftKey
<1>3. CASE WaitChild
  <2>1. CASE p_first_child[currentPcb] = NULL
    <3>1. UNCHANGED Abstract!abstract
      BY <1>3, <2>1, Stands DEF WaitChild, SysCall, tree, prios, sems, CallFrame
    <3> QED
      BY <3>1
  <2>2. CASE p_first_child[currentPcb] # NULL
    <3>1. Abstract!P(childSem)
      BY <1>3, <2>2, SemPRefines, KeyFacts DEF WaitChild
    <3>2. pc = "user" /\ currentPcb \in Pcb /\ stack = << >>
      BY <1>3 DEF WaitChild, SysCall, TypeOK, Link, Structure, DyingSound
    <3> DEFINE c == p_first_child[currentPcb]
    <3>3. c \in Pcb /\ p_parent[c] = currentPcb /\ c \in Live
      <4>1. c \in Children(currentPcb)
        BY <2>2, <3>2, TreeFacts DEF Structure
      <4>2. c \in Pcb /\ p_parent[c] = currentPcb /\ currentPcb # NULL
        BY <3>2, <4>1, PcbFinite DEF Children
      <4> HIDE DEF c
      <4> QED
        BY <4>2, TreeFacts DEF Structure
    <3>4. c \in Abstract!Live /\ ParentOf[c] = currentPcb
      BY <3>2, <3>3, Calm DEF ParentOf, Abstract!Live
    <3>5. Abstract!WaitChild
      BY <3>1, <3>4 DEF Abstract!WaitChild
    <3> QED
      BY <3>5 DEF Abstract!Next
  <2> QED
    BY <2>1, <2>2
<1>4. ASSUME NEW k \in UserSem, SemPCall(k)
      PROVE  Abstract!P(k)
  BY <1>4, SemPRefines, KeyFacts DEF SemPCall
<1>5. ASSUME NEW k \in UserSem, SemVCall(k)
      PROVE  Abstract!V(k)
  BY <1>5, SemVRefines
<1>6. ASSUME NEW d \in Device, IoDevOp(d)
      PROVE  Request(d) \in SoftKey /\ Abstract!P(Request(d))
  <2>1. Request(d) \in DevSem
    BY RequestFacts
  <2>2. Request(d) \in SoftKey /\ Request(d) \in Key
    BY <2>1, KeyFacts DEF SoftKey
  <2>3. SysCall /\ SemP(Request(d)) /\ UNCHANGED <<readyQueue, start_priority, CallFrame>>
    BY <1>6 DEF IoDevOp, Request
  <2> HIDE DEF Request
  <2> QED
    BY <2>2, <2>3, SemPRefines
<1> QED
  BY <1>1, <1>2, <1>3, <1>4, <1>5, <1>6 DEF Abstract!Next

\* a device's interrupt and a tick of the pseudo-clock wake, or do nothing
LEMMA EventsRefine ==
  ASSUME TypeOK, TypeOK', Structure, PriorityKept,
         PseudoTick \/ \E d \in Device : DeviceInterrupt(d)
  PROVE  [Abstract!Next]_(Abstract!abstract)
<1>1. ASSUME NEW k \in SoftKey, s_procQ[k] # NULL, pc \in {"user", "wait", "pseudoTick"},
             NEW next \in {"scheduler", "pseudoTick"}, SemV(k, next),
             UNCHANGED <<start_priority, last_priority, currentPcb, CallFrame>>
      PROVE  Abstract!Next
  <2>1. k \in Key
    BY SoftFacts
  <2>2. WakeUp(k) /\ pc \notin Stopped
    BY <1>1 DEF WakeUp, Stopped
  <2>3. Abstract!Wake(k)
    BY <2>1, <2>2, WakeRefines
  <2> QED
    BY <2>3 DEF Abstract!Next, Abstract!Event
<1>2. CASE PseudoTick
  <2>1. CASE s_procQ[timerSem] # NULL
    BY <1>1, <1>2, <2>1 DEF PseudoTick, SoftKey
  <2>2. CASE s_procQ[timerSem] = NULL
    <3>1. UNCHANGED Abstract!abstract
      BY <1>2, <2>2, Stands DEF PseudoTick, CallFrame, tree, sems
    <3> QED
      BY <3>1
  <2> QED
    BY <2>1, <2>2
<1>3. ASSUME NEW d \in Device, DeviceInterrupt(d)
      PROVE  [Abstract!Next]_(Abstract!abstract)
  <2>1. d \in SoftKey
    BY RequestFacts DEF SoftKey
  <2>2. CASE s_procQ[d] # NULL
    <3>1. SemV(d, "scheduler") /\ pc \in {"user", "wait", "pseudoTick"}
            /\ UNCHANGED <<start_priority, last_priority, currentPcb, CallFrame>>
      BY <1>3, <2>2 DEF DeviceInterrupt
    <3> QED
      BY <1>1, <2>1, <2>2, <3>1
  <2>3. CASE s_procQ[d] = NULL
    <3>1. UNCHANGED Abstract!abstract
      BY <1>3, <2>3, Stands DEF DeviceInterrupt, CallFrame, tree, sems
    <3> QED
      BY <3>1
  <2> QED
    BY <2>2, <2>3
<1> QED
  BY <1>2, <1>3

-----------------------------------------------------------------------------
(***************************************************************************)
(* The scheduler.                                                          *)
(***************************************************************************)
\* queues are as before a step that changes links of other PCBs only
LEMMA QueuesApart ==
  ASSUME TypeOK, p_next' \in [Pcb -> Link], UNCHANGED s_procQ, NEW S,
         AgreeOutside(p_next, p_next', S), \A k \in Key : Queue(k) \cap S = {}
  PROVE  Waiters' = Waiters
<1>1. \A k \in Key : \A n \in Queue(k) : p_next'[n] = p_next[n]
  BY ListTypes DEF AgreeOutside
<1> QED
  BY <1>1, QueuesKept

\* the head of a sorted queue has its highest priority
LEMMA HeadHighest ==
  ASSUME NEW nx \in [Pcb -> Link], NEW pri \in [Pcb -> Int], NEW h \in Pcb, Sorted(nx, pri, h)
  PROVE  \A q \in Reach(nx, h) : pri[q] <= pri[h]
<1> DEFINE S == {q \in Reach(nx, h) : pri[q] <= pri[h]}
<1>1. h \in S /\ h \in Link
  BY ReachHead DEF Link
<1>2. ASSUME NEW n \in S \cap Pcb, nx[n] \in Pcb
      PROVE  nx[n] \in S
  <2>1. nx[n] \in Reach(nx, h) /\ nx[n] # NULL
    BY <1>1, <1>2, ReachClosed, PcbFinite
  <2>2. pri[nx[n]] <= pri[n] /\ pri[n] <= pri[h]
    BY <2>1 DEF Sorted
  <2>3. pri[nx[n]] \in Int /\ pri[n] \in Int /\ pri[h] \in Int
    BY <1>2
  <2> QED
    BY <2>1, <2>2, <2>3
<1> HIDE DEF S
<1>3. Reach(nx, h) \subseteq S
  BY <1>1, <1>2, ReachLeast
<1> QED
  BY <1>3 DEF S

\* updatePriority is Aged of Nucleus
LEMMA AgedReady ==
  ASSUME TypeOK, stack = << >>, NEW aging \in BOOLEAN
  PROVE  /\ ReadyNow = [q \in OnReady |-> p_priority[q]]
         /\ [q \in OnReady |-> Aged(aging)[q]] = IF aging THEN Abstract!Aged ELSE ReadyNow
         /\ Aged(FALSE) = p_priority
<1>1. ReadyNow = [q \in OnReady |-> p_priority[q]]
  BY Calm DEF ReadyNow
<1>2. OnReady \subseteq Pcb
  BY ListTypes
<1>3. \A q \in OnReady : Aged(aging)[q] = IF aging /\ p_priority[q] < MAXPRIO
                                          THEN p_priority[q] + 1 ELSE p_priority[q]
  BY <1>2 DEF Aged, OnReady
<1>4. DOMAIN ReadyNow = OnReady /\ \A q \in OnReady : ReadyNow[q] = p_priority[q]
  BY <1>1
<1>5. [q \in OnReady |-> Aged(aging)[q]] = IF aging THEN Abstract!Aged ELSE ReadyNow
  <2>1. CASE aging
    <3>1. Abstract!Aged = [q \in OnReady |-> IF p_priority[q] < MAXPRIO
                                             THEN p_priority[q] + 1 ELSE p_priority[q]]
      BY <1>4 DEF Abstract!Aged
    <3> QED
      BY <1>3, <2>1, <3>1
  <2>2. CASE ~aging
    BY <1>1, <1>3, <2>2
  <2> QED
    BY <2>1, <2>2
<1>6. Aged(FALSE) = p_priority
  BY DEF Aged, TypeOK
<1> QED
  BY <1>1, <1>5, <1>6

\* the current process goes on; the ready ones may have aged
LEMMA ResumeRefines ==
  ASSUME TypeOK, Structure, NEW aging \in BOOLEAN, Resume(aging)
  PROVE  [Abstract!Next]_(Abstract!abstract)
<1>1. /\ pc = "scheduler" /\ pc' = "user" /\ stack = << >> /\ stack' = << >>
      /\ p_priority' = Aged(aging) /\ currentPcb # NULL
      /\ UNCHANGED <<p_next, p_parent, pcbfree_h, readyQueue, currentPcb, s_procQ,
                     start_priority, semval>>
  BY DEF Resume, SchedulerFrame, tree, sems, Structure, DyingSound
<1>2. CASE ~aging
  <2>1. p_priority' = p_priority
    BY <1>1, <1>2, AgedReady
  <2>2. UNCHANGED Abstract!abstract
    BY <1>1, <2>1, Stands
  <2> QED
    BY <2>2
<1>3. CASE aging
  <2>1. /\ Free' = Free /\ OnReady' = OnReady /\ Waiters' = Waiters
    BY <1>1 DEF Free, OnReady, Waiters
  <2>2. ParentOf' = ParentOf /\ PriorityOf' = PriorityOf
    BY <1>1, <2>1, SameProcesses
  <2>3. ReadyNow' = [q \in OnReady |-> Aged(aging)[q]]
    BY <1>1, <2>1, CalmNext DEF ReadyNow
  <2>4. ReadyNow' = Abstract!Aged
    BY <1>1, <1>3, <2>3, AgedReady
  <2>5. StoppedBy' = StoppedBy
    BY <1>1 DEF StoppedBy
  <2>6. Abstract!Age
    BY <1>1, <2>1, <2>2, <2>4, <2>5 DEF Abstract!Age, Abstract!processes, Abstract!semaphores
  <2> QED
    BY <2>6 DEF Abstract!Next
<1> QED
  BY <1>2, <1>3

\* the head of the ready queue starts to run
LEMMA DispatchRefines ==
  ASSUME TypeOK, Structure, ReadySorted, NEW aging \in BOOLEAN, Dispatch(aging)
  PROVE  Abstract!Dispatch(readyQueue, aging) /\ readyQueue \in Pcb
<1> DEFINE h == readyQueue
<1>1. /\ pc = "scheduler" /\ pc' = "user" /\ stack = << >> /\ stack' = << >>
      /\ p_priority' = [Aged(aging) EXCEPT ![h] = start_priority[h]]
      /\ currentPcb = NULL /\ currentPcb' = h
      /\ UNCHANGED <<p_next, p_parent, pcbfree_h, s_procQ, start_priority, semval>>
  BY DEF Dispatch, SchedulerFrame, tree, sems, Structure, DyingSound
<1>2. /\ h \in OnReady /\ h \in Pcb /\ OnReady' = OnReady \ {h} /\ Free' = Free
      /\ OnReady \subseteq Pcb
  BY DispatchLists, ListTypes DEF Structure
<1>3. Waiters' = Waiters
  BY <1>1 DEF Waiters
<1>4. ParentOf' = ParentOf /\ PriorityOf' = PriorityOf
  BY <1>1, <1>2, SameProcesses
<1>5. StoppedBy' = StoppedBy
  BY <1>1 DEF StoppedBy
<1>6. \A q \in OnReady : p_priority[q] <= p_priority[h]
  <2>1. /\ p_next \in [Pcb -> Link] /\ p_priority \in [Pcb -> Int]
        /\ Sorted(p_next, p_priority, readyQueue)
    BY ReadySortedIs DEF TypeOK
  <2> QED
    BY <1>2, <2>1, HeadHighest DEF OnReady
<1>7. /\ ReadyNow = [q \in OnReady |-> p_priority[q]]
      /\ [q \in OnReady |-> Aged(aging)[q]] = IF aging THEN Abstract!Aged ELSE ReadyNow
  BY <1>1, AgedReady
<1>8. ReadyNow' = [q \in OnReady \ {h} |-> p_priority'[q]]
  BY <1>1, <1>2, CalmNext DEF ReadyNow
<1>9. \A q \in OnReady \ {h} : p_priority'[q] = Aged(aging)[q]
  <2>1. Aged(aging) \in [Pcb -> Int]
    BY AgedFacts
  <2> QED
    BY <1>1, <1>2, <2>1
<1> HIDE DEF h
<1>10. ReadyNow' = Abstract!Restrict(IF aging THEN Abstract!Aged ELSE ReadyNow,
                                     DOMAIN ReadyNow \ {h})
  <2> DEFINE a == Aged(aging)
             f == IF aging THEN Abstract!Aged ELSE ReadyNow
  <2>1. f = [q \in OnReady |-> a[q]] /\ DOMAIN ReadyNow = OnReady
    BY <1>7
  <2>2. \A q \in OnReady \ {h} : p_priority'[q] = a[q]
    BY <1>9
  <2> HIDE DEF a, f
  <2>3. Abstract!Restrict(f, OnReady \ {h}) = [q \in OnReady \ {h} |-> a[q]]
    BY <2>1 DEF Abstract!Restrict
  <2>4. ReadyNow' = Abstract!Restrict(f, DOMAIN ReadyNow \ {h})
    BY <1>8, <2>1, <2>2, <2>3
  <2> QED
    BY <2>4 DEF f
<1>11. h \in DOMAIN ReadyNow /\ \A q \in DOMAIN ReadyNow : ReadyNow[q] <= ReadyNow[h]
  BY <1>2, <1>6, <1>7
<1>12. Abstract!Dispatch(h, aging)
  BY <1>1, <1>3, <1>4, <1>5, <1>10, <1>11
     DEF Abstract!Dispatch, Abstract!processes, Abstract!semaphores
<1> QED
  BY <1>2, <1>12 DEF h

\* the process whose time slice is over goes back to the ready queue
LEMMA PreemptRefines ==
  ASSUME TypeOK, TypeOK', Structure, PriorityKept, PreemptRun
  PROVE  Abstract!Preempt
<1> DEFINE c == currentPcb
<1>1. /\ pc = "preempt" /\ c # NULL /\ currentPcb' = NULL
      /\ InsertReady(p_next, p_priority, c, "scheduler")
      /\ UNCHANGED <<p_parent, pcbfree_h, s_procQ, start_priority, p_priority, semval>>
  BY DEF PreemptRun, Preempt, prios, sems, CallFrame, tree
<1>2. /\ OnReady' = OnReady \cup {c} /\ Free' = Free /\ stack = << >> /\ stack' = << >>
  BY PreemptPlaces
<1>3. /\ p_next \in [Pcb -> Link] /\ p_next' \in [Pcb -> Link] /\ readyQueue \in Link
      /\ c \in Pcb /\ c \notin Free \cup OnReady /\ OnReady \subseteq Pcb
      /\ Ends(p_next, readyQueue) /\ \A k \in Key : Queue(k) \cap ({c} \cup OnReady) = {}
  BY <1>1, ListTypes DEF TypeOK, Link, Structure, ListsApart, ListsEnd
<1>4. AgreeOutside(p_next, p_next', {c} \cup OnReady) /\ pc' = "scheduler"
  <2> HIDE DEF c
  <2> QED
    BY <1>1, <1>3, InsertReadyLists DEF OnReady
<1>5. Waiters' = Waiters
  BY <1>1, <1>3, <1>4, QueuesApart
<1>6. ParentOf' = ParentOf /\ PriorityOf' = PriorityOf
  BY <1>1, <1>2, SameProcesses
<1>7. StoppedBy' = StoppedBy
  BY <1>1, <1>4 DEF StoppedBy
<1>8. PriorityOf[c] = p_priority[c]
  <2>1. c \in Alive
    BY <1>2, <1>3, Calm DEF Live, Free
  <2> QED
    BY <1>1, <2>1 DEF PriorityOf, PriorityKept
<1>9. /\ ReadyNow = [q \in OnReady |-> p_priority[q]]
      /\ ReadyNow' = [q \in OnReady \cup {c} |-> p_priority[q]]
  BY <1>1, <1>2, Calm, CalmNext DEF ReadyNow
<1>10. ReadyNow' = Abstract!Put(ReadyNow, c, PriorityOf[c])
  <2> HIDE DEF c
  <2> QED
    BY <1>3, <1>8, <1>9 DEF Abstract!Put
<1> QED
  BY <1>1, <1>5, <1>6, <1>7, <1>10 DEF Abstract!Preempt, Abstract!processes, Abstract!semaphores

\* the sequences have the processes of the queues
LEMMA WaitersAre ==
  ASSUME TypeOK, ListsEnd
  PROVE  /\ \A k \in Key : Abstract!Elements(Waiters[k]) = Queue(k)
         /\ \A k \in Key : Waiters[k] = << >> <=> s_procQ[k] = NULL
         /\ Abstract!Waiting = Blocked
<1>1. ASSUME NEW k \in Key
      PROVE  /\ Abstract!Elements(Waiters[k]) = Queue(k)
             /\ Waiters[k] = << >> <=> s_procQ[k] = NULL
  <2>1. Waiters[k] = AsSeq(p_next, s_procQ[k]) /\ s_procQ[k] \in Link
          /\ p_next \in [Pcb -> Link] /\ Ends(p_next, s_procQ[k])
    BY DEF Waiters, TypeOK, ListsEnd
  <2>2. Abstract!Elements(Waiters[k]) = Queue(k)
    BY <2>1, SeqElements DEF Queue
  <2>3. s_procQ[k] = NULL => Waiters[k] = << >>
    BY <2>1, SeqNull
  <2>4. s_procQ[k] # NULL => Waiters[k] # << >>
    BY <2>1, SeqHead DEF Link
  <2> QED
    BY <2>2, <2>3, <2>4
<1>2. Abstract!Waiting = Blocked
  BY <1>1, SameSem DEF Abstract!Waiting, Blocked
<1> QED
  BY <1>1, <1>2

\* the scheduler that finds no process to run
LEMMA IdleRefines ==
  ASSUME TypeOK, Structure, ActiveCounts, SoftblockCounts, Idle
  PROVE  [Abstract!Next]_(Abstract!abstract)
<1>1. /\ pc = "scheduler" /\ stack = << >> /\ stack' = << >>
      /\ UNCHANGED <<p_next, p_parent, pcbfree_h, readyQueue, currentPcb, s_procQ,
                     p_priority, start_priority, semval>>
  BY DEF Idle, SchedulerFrame, tree, sems, Structure, DyingSound
<1>2. /\ pc' = IF Live = {} THEN "halt" ELSE IF Soft # {} THEN "wait" ELSE "panic"
      /\ Live \subseteq Blocked
  BY IdleFacts
<1>3. /\ Free' = Free /\ OnReady' = OnReady /\ Waiters' = Waiters
  BY <1>1 DEF Free, OnReady, Waiters
<1>4. ParentOf' = ParentOf /\ PriorityOf' = PriorityOf
  BY <1>1, <1>3, SameProcesses
<1>5. ReadyNow' = ReadyNow
  BY <1>1, <1>3, Calm, CalmNext DEF ReadyNow
<1>6. Abstract!Live = Live
  BY <1>1, Calm DEF Abstract!Live, ParentOf
<1>7. StoppedBy = "no" /\ (pc' \in {"halt", "panic"} => StoppedBy' = pc')
  BY <1>1 DEF StoppedBy
<1>8. CASE pc' = "halt"
  <2>1. Live = {}
    BY <1>2, <1>8
  <2>2. Abstract!Halt
    BY <1>1, <1>3, <1>4, <1>5, <1>6, <1>7, <1>8, <2>1
       DEF Abstract!Halt, Abstract!processes, Abstract!semaphores
  <2> QED
    BY <2>2 DEF Abstract!Next
<1>9. CASE pc' = "panic"
  <2>1. Live # {} /\ Soft = {}
    BY <1>2, <1>9
  <2>2. Live = UNION {Queue(k) : k \in Key \ SoftKey}
    <3>1. Blocked \subseteq Live
      BY PlacesDisjoint DEF Live, Free
    <3>2. Blocked = Soft \cup UNION {Queue(k) : k \in Key \ SoftKey}
      BY SoftFacts DEF Blocked, Soft
    <3> QED
      BY <1>2, <2>1, <3>1, <3>2
  <2>3. Live = UNION {Abstract!Elements(Waiters[k]) : k \in Key \ SoftKey}
    BY <2>2, WaitersAre DEF Structure
  <2>4. Abstract!Panic
    BY <1>1, <1>3, <1>4, <1>5, <1>6, <1>7, <1>9, <2>1, <2>3, SameSem
       DEF Abstract!Panic, Abstract!processes, Abstract!semaphores
  <2> QED
    BY <2>4 DEF Abstract!Next
<1>10. CASE pc' = "wait"
  <2>1. UNCHANGED Abstract!abstract
    BY <1>1, <1>10, Stands
  <2> QED
    BY <2>1
<1> QED
  BY <1>2, <1>8, <1>9, <1>10

-----------------------------------------------------------------------------
(***************************************************************************)
(* The process tree.                                                       *)
(***************************************************************************)
\* a new process, the child of the current one, is ready
LEMMA CreateRefines ==
  ASSUME TypeOK, TypeOK', SemaphoresSound, Structure,
         NEW priority \in Priorities, CreateProcess(priority)
  PROVE  \E p \in Pcb : Abstract!Create(p, priority)
<1> DEFINE p   == AllocNode(p_next, pcbfree_h)
           f   == AllocPcb(p_next, pcbfree_h)
           pri == [p_priority EXCEPT ![p] = priority]
<1>1. pcbfree_h \in Pcb /\ p_next \in [Pcb -> Link] /\ readyQueue \in Link
      /\ p_next' \in [Pcb -> Link]
  BY ListTypes DEF CreateProcess, Link, TypeOK
<1>2. /\ p_priority' = pri /\ \E next : InsertReady(f.next, pri, p, next)
      /\ semval' = [semval EXCEPT ![childSem] = 0]
      /\ p_parent' = [p_parent EXCEPT ![p] = currentPcb]
      /\ start_priority' = [start_priority EXCEPT ![p] = priority]
      /\ UNCHANGED <<currentPcb, s_procQ, stack>>
      /\ pc = "user" /\ currentPcb # NULL
  BY DEF CreateProcess, InsertChild, SysCall, TypeOK
<1>3. /\ p \in Free /\ p \in Pcb /\ f.next \in [Pcb -> Link]
      /\ AgreeOutside(p_next, f.next, Free)
  BY <1>1, AllocPcbFacts DEF Free, Structure, ListsEnd
<1>4. Structure' /\ Free' = Free \ {p} /\ OnReady' = OnReady \cup {p}
  BY CreateStructure
<1>5. \A n \in Pcb \ {p} : /\ p_priority'[n] = p_priority[n] /\ p_parent'[n] = p_parent[n]
                           /\ start_priority'[n] = start_priority[n]
  BY <1>2 DEF TypeOK
<1>6. p_priority'[p] = priority /\ p_parent'[p] = currentPcb /\ start_priority'[p] = priority
  BY <1>2, <1>3 DEF TypeOK
<1> HIDE DEF p, f, pri
<1>7. /\ OnReady \cap Free = {} /\ Ends(p_next, readyQueue) /\ OnReady \subseteq Pcb
      /\ \A k \in Key : Queue(k) \cap (Free \cup OnReady) = {}
  BY ListTypes DEF Structure, ListsApart, ListsEnd
<1>8. Reach(f.next, readyQueue) = OnReady /\ Ends(f.next, readyQueue)
  BY <1>1, <1>3, <1>7, ApartFrame DEF OnReady
<1>9. AgreeOutside(f.next, p_next', {p} \cup OnReady) /\ pc' # "halt" /\ pc' # "panic"
  <2>1. PICK next : InsertReady(f.next, pri, p, next)
    BY <1>2
  <2>2. p \notin Reach(f.next, readyQueue)
    BY <1>3, <1>7, <1>8
  <2>3. AgreeOutside(f.next, p_next', {p} \cup Reach(f.next, readyQueue))
    BY <1>1, <1>3, <1>8, <2>1, <2>2, InsertReadyLists
  <2>4. pc' \in {"scheduler", "lost"}
    BY DEF CreateProcess, InsertReady
  <2> QED
    BY <1>8, <2>3, <2>4
<1>10. AgreeOutside(p_next, p_next', Free \cup OnReady)
  BY <1>3, <1>9 DEF AgreeOutside
<1>11. Waiters' = Waiters
  BY <1>1, <1>2, <1>7, <1>10, QueuesApart
<1>12. semval' = semval
  <2>1. semval[childSem] = 0
    BY KeyFacts DEF SemaphoresSound, Key, KernelAssumption
  <2> QED
    BY <1>2, <2>1, KeyFacts DEF TypeOK
<1>13. stack = << >> /\ stack' = << >>
  BY <1>2 DEF Structure, DyingSound
<1>14. Alive = Live /\ Alive' = Live \cup {p} /\ p \notin Live /\ Live \subseteq Pcb
  BY <1>3, <1>4, <1>13, Calm, CalmNext DEF Live, Free
<1>15. Ready = OnReady /\ Ready' = OnReady \cup {p}
  BY <1>4, <1>13, Calm, CalmNext
<1>16. /\ ParentOf' = Abstract!Put(ParentOf, p, currentPcb)
       /\ PriorityOf' = Abstract!Put(PriorityOf, p, priority)
       /\ ReadyNow' = Abstract!Put(ReadyNow, p, priority)
  <2>1. \A n \in Live : n \in Pcb \ {p}
    BY <1>14
  <2>2. \A n \in OnReady : n \in Pcb \ {p}
    BY <1>3, <1>7
  <2>3. ParentOf' = [q \in Live \cup {p} |-> IF q = p THEN currentPcb ELSE p_parent[q]]
    BY <1>5, <1>6, <1>14, <2>1 DEF ParentOf
  <2>4. PriorityOf' = [q \in Live \cup {p} |-> IF q = p THEN priority ELSE start_priority[q]]
    BY <1>5, <1>6, <1>14, <2>1 DEF PriorityOf
  <2>5. ReadyNow' = [q \in OnReady \cup {p} |-> IF q = p THEN priority ELSE p_priority[q]]
    BY <1>5, <1>6, <1>15, <2>2 DEF ReadyNow
  <2>6. /\ ParentOf = [q \in Live |-> p_parent[q]]
        /\ PriorityOf = [q \in Live |-> start_priority[q]]
        /\ ReadyNow = [q \in OnReady |-> p_priority[q]]
    BY <1>14, <1>15 DEF ParentOf, PriorityOf, ReadyNow
  <2> QED
    BY <2>3, <2>4, <2>5, <2>6 DEF Abstract!Put
<1>17. StoppedBy' = StoppedBy
  BY <1>2, <1>9 DEF StoppedBy
<1>18. p \notin Abstract!Live
  BY <1>14 DEF Abstract!Live, ParentOf
<1>19. Abstract!Create(p, priority)
  BY <1>2, <1>11, <1>12, <1>16, <1>17, <1>18 DEF Abstract!Create, Abstract!semaphores
<1> QED
  BY <1>3, <1>19

\* cutting a walk behind c does not keep it from c
LEMMA CutKeeps ==
  ASSUME NEW nx \in [Pcb -> Link], NEW ny \in [Pcb -> Link], NEW c \in Pcb,
         \A n \in Pcb \ {c} : ny[n] = nx[n], NEW h \in Link
  PROVE  /\ c \in Reach(nx, h) => c \in Reach(ny, h)
         /\ c \notin Reach(nx, h) => Reach(ny, h) = Reach(nx, h)
<1>1. ASSUME c \in Reach(nx, h), c \notin Reach(ny, h)
      PROVE  FALSE
  <2>1. \A n \in Reach(ny, h) : nx[n] = ny[n]
    BY <1>1, ReachType
  <2>2. Reach(nx, h) = Reach(ny, h)
    BY <2>1, ReachFrame
  <2> QED
    BY <1>1, <2>2
<1>2. ASSUME c \notin Reach(nx, h)
      PROVE  Reach(ny, h) = Reach(nx, h)
  <2>1. \A n \in Reach(nx, h) : ny[n] = nx[n]
    BY <1>2, ReachType
  <2> QED
    BY <2>1, ReachFrame
<1> QED
  BY <1>1, <1>2

\* a step that changes only what is dead already, for Nucleus
LEMMA DeadOnly ==
  ASSUME Alive' = Alive, Ready' = Ready, UNCHANGED <<currentPcb, p_priority, start_priority, semval>>,
         \A q \in Alive : p_parent'[q] = p_parent[q], Waiters' = Waiters, StoppedBy' = StoppedBy
  PROVE  UNCHANGED Abstract!abstract
<1>1. ParentOf' = ParentOf /\ PriorityOf' = PriorityOf /\ ReadyNow' = ReadyNow
  BY DEF ParentOf, PriorityOf, ReadyNow
<1> QED
  BY <1>1 DEF Abstract!abstract, Abstract!processes, Abstract!semaphores

\* who is doomed, by the walk to the root
LEMMA DoomedIs ==
  /\ \A q : q \in Doomed <=> q \in Pcb /\ \E x \in Dying : x \in Reach(p_parent, q)
  /\ \A q : q \in Doomed' <=> q \in Pcb /\ \E x \in Dying' : x \in Reach(p_parent', q)
BY DEF Doomed, Subtree

\* the steps of liberaTutti after the first are none of Nucleus
LEMMA RemoveChildStutters ==
  ASSUME TypeOK, Structure, RemoveChild
  PROVE  UNCHANGED Abstract!abstract
<1> DEFINE c == p_first_child[Top]
<1>1. /\ SamePlaces /\ Dying' = Dying \cup {c}
      /\ p_parent' = [p_parent EXCEPT ![c] = NULL]
      /\ pc = "liberaTutti"
      /\ UNCHANGED <<p_next, s_procQ, pc, currentPcb, p_priority, start_priority, semval>>
  BY RemoveChildPlaces DEF RemoveChild, sems, prios
<1>2. Free' = Free /\ OnReady' = OnReady
  BY <1>1 DEF SamePlaces
<1>3. stack # << >> /\ Top \in Pcb /\ Top \in Dying
  BY <1>1, StackFacts DEF TypeOK
<1>4. c \in Pcb /\ p_parent[c] = Top
  <2>1. Live' = Live
    BY <1>2 DEF Live, Free
  <2> QED
    BY <1>3, <2>1, RemoveChildTree DEF Structure
<1> HIDE DEF c
<1>5. /\ p_parent \in [Pcb -> Link] /\ p_parent' \in [Pcb -> Link]
      /\ \A n \in Pcb \ {c} : p_parent'[n] = p_parent[n]
      /\ \A n \in Pcb : p_parent'[n] \in {p_parent[n], NULL}
  BY <1>1 DEF TypeOK, Link
<1>6. \A q \in Pcb : Reach(p_parent', q) \subseteq Reach(p_parent, q)
  BY <1>5, CutReach DEF Link
<1>7. ASSUME NEW q \in Pcb, c \in Reach(p_parent, q)
      PROVE  Top \in Reach(p_parent, q)
  BY <1>3, <1>4, <1>5, <1>7, ReachClosed DEF Link
<1>8. Doomed' \subseteq Doomed
  BY <1>1, <1>3, <1>6, <1>7, DoomedIs
<1>9. Doomed \subseteq Doomed'
  <2>1. \A q \in Pcb : /\ c \in Reach(p_parent, q) => c \in Reach(p_parent', q)
                       /\ c \notin Reach(p_parent, q) => Reach(p_parent', q) = Reach(p_parent, q)
    BY <1>4, <1>5, CutKeeps DEF Link
  <2> QED
    BY <1>1, <2>1, DoomedIs
<1>10. c \in Doomed
  <2>1. c \in Reach(p_parent, c)
    BY <1>4, <1>5, ReachHead
  <2> QED
    BY <1>3, <1>4, <1>7, <2>1, DoomedIs
<1>11. Alive' = Alive /\ Ready' = Ready
  BY <1>2, <1>8, <1>9 DEF Alive, Ready, Live, Free
<1>12. \A q \in Alive : p_parent'[q] = p_parent[q]
  BY <1>5, <1>10 DEF Alive, Live
<1>13. Waiters' = Waiters /\ StoppedBy' = StoppedBy
  BY <1>1 DEF Waiters, StoppedBy
<1> QED
  BY <1>1, <1>11, <1>12, <1>13, DeadOnly

\* what has been freed was dead already
LEMMA ReleaseStutters ==
  ASSUME TypeOK, TypeOK', Structure, Release
  PROVE  UNCHANGED Abstract!abstract
<1> DEFINE p == Top
           r == OutProcQ(p_next, readyQueue, p)
           f == FreePcb(r.next, pcbfree_h, p)
<1>1. /\ p \in Live /\ p \in Pcb /\ \A k \in Key : p \notin Queue(k)
      /\ Free' = Free \cup {p} /\ OnReady' = OnReady \ {p}
      /\ Dying' = Dying \ {p}
      /\ p_parent' = [p_parent EXCEPT ![p] = NULL] /\ Children(p) = {}
      /\ pc' \in {"scheduler", pc}
  BY ReleaseStructure DEF Live
<1>2. /\ p_next' = f.next /\ pc = "liberaTutti"
      /\ UNCHANGED <<s_procQ, currentPcb, p_priority, start_priority, semval>>
  BY DEF Release, prios, sems
<1>3. p \in Dying
  BY <1>2, StackFacts DEF TypeOK
<1>4. /\ p_next \in [Pcb -> Link] /\ readyQueue \in Link /\ pcbfree_h \in Link
      /\ p_next' \in [Pcb -> Link]
  BY ListTypes DEF TypeOK
<1>5. /\ r.next \in [Pcb -> Link] /\ AgreeOutside(p_next, r.next, OnReady)
  BY <1>1, <1>4, OutProcQFacts DEF OnReady, Structure, ListsEnd
<1> HIDE DEF r, f, p
<1>6. Reach(r.next, pcbfree_h) = Free /\ Ends(r.next, pcbfree_h)
  <2>1. Free \cap OnReady = {} /\ Ends(p_next, pcbfree_h)
    BY DEF Structure, ListsApart, ListsEnd
  <2> QED
    BY <1>4, <1>5, <2>1, ApartFrame DEF Free
<1>7. AgreeOutside(r.next, f.next, {p} \cup Free)
  <2>1. p \notin Reach(r.next, pcbfree_h)
    BY <1>1, <1>6 DEF Live, Free
  <2>2. AgreeOutside(r.next, f.next, {p} \cup Reach(r.next, pcbfree_h))
    BY <1>1, <1>4, <1>5, <1>6, <2>1, FreePcbFacts DEF f
  <2> QED
    BY <1>6, <2>2
<1>8. AgreeOutside(p_next, p_next', {p} \cup Free \cup OnReady)
  BY <1>2, <1>5, <1>7 DEF AgreeOutside
<1>9. Waiters' = Waiters
  <2>1. \A k \in Key : Queue(k) \cap ({p} \cup Free \cup OnReady) = {}
    BY <1>1 DEF Structure, ListsApart
  <2> QED
    BY <1>2, <1>4, <1>8, <2>1, QueuesApart
<1>10. /\ p_parent \in [Pcb -> Link] /\ p_parent' \in [Pcb -> Link]
       /\ \A n \in Pcb \ {p} : p_parent'[n] = p_parent[n] /\ p_parent'[p] = NULL
  BY <1>1 DEF TypeOK
<1>11. ASSUME NEW q \in Pcb, q # p
       PROVE  p \notin Reach(p_parent, q) /\ Reach(p_parent', q) = Reach(p_parent, q)
  <2>1. p \notin Reach(p_parent, q)
    <3> SUFFICES ASSUME p \in Reach(p_parent, q) PROVE FALSE
      OBVIOUS
    <3>1. PICK x \in Reach(p_parent, q) : p_parent[x] = p
      BY <1>10, <1>11, ReachPredecessor DEF Link
    <3>2. x \in Pcb
      BY <3>1, ReachType
    <3> QED
      BY <1>1, <3>1, <3>2 DEF Children
  <2> QED
    BY <1>1, <1>10, <2>1, CutKeeps DEF Link
<1>12. p \in Doomed /\ p \notin Doomed'
  <2>1. p \in Reach(p_parent, p)
    BY <1>1, <1>10, ReachHead
  <2>2. p_parent'[p] = NULL
    BY <1>1 DEF TypeOK
  <2>3. Reach(p_parent', p) = {p}
    BY <1>1, <1>10, <2>2, ReachStep, ReachNull
  <2> QED
    BY <1>1, <1>3, <2>1, <2>3, DoomedIs
<1>13. Doomed' = Doomed \ {p}
  BY <1>1, <1>11, <1>12, DoomedIs
<1>14. Alive' = Alive /\ Ready' = Ready
  <2>1. Live' = Live \ {p}
    BY <1>1 DEF Live, Free
  <2> QED
    BY <1>1, <1>12, <1>13, <2>1 DEF Alive, Ready
<1>15. \A q \in Alive : p_parent'[q] = p_parent[q]
  BY <1>10, <1>12 DEF Alive, Live
<1>16. StoppedBy' = StoppedBy
  BY <1>1, <1>2 DEF StoppedBy
<1> QED
  BY <1>2, <1>9, <1>14, <1>15, <1>16, DeadOnly

\* the family of a process in Nucleus is its subtree
LEMMA FamilyIs ==
  ASSUME TypeOK, TreeSound, stack = << >>, NEW p \in Live
  PROVE  Abstract!Family(p) = Subtree(p)
<1>1. /\ Abstract!Live = Live /\ \A c \in Live : ParentOf[c] = p_parent[c]
      /\ p_parent \in [Pcb -> Link] /\ p \in Pcb /\ Live \subseteq Pcb
  BY Calm DEF Abstract!Live, ParentOf, Live, TypeOK
<1>2. Subtree(p) \subseteq Live
  BY SubtreeLive
<1>3. Abstract!Family(p) =
        {q \in Live : \A S \in SUBSET Live :
           (p \in S /\ \A c \in Live : p_parent[c] \in S => c \in S) => q \in S}
  BY <1>1 DEF Abstract!Family
<1>4. p \in Subtree(p)
  BY <1>1, ReachHead DEF Subtree
<1>5. ASSUME NEW c \in Live, p_parent[c] \in Subtree(p)
      PROVE  c \in Subtree(p)
  BY <1>1, <1>5, ReachStep DEF Subtree
<1>6. Abstract!Family(p) \subseteq Subtree(p)
  BY <1>2, <1>3, <1>4, <1>5
<1>7. ASSUME NEW q \in Subtree(p), NEW S \in SUBSET Live, p \in S, q \notin S,
             \A c \in Live : p_parent[c] \in S => c \in S
      PROVE  FALSE
  <2> DEFINE T == Live \ S
  <2>1. q \in T /\ q \in Pcb /\ q \in Link /\ p \in Reach(p_parent, q)
    BY <1>1, <1>2, <1>7 DEF Subtree, Link
  <2>2. ASSUME NEW n \in T \cap Pcb, p_parent[n] \in Pcb
        PROVE  p_parent[n] \in T
    <3>1. p_parent[n] \in Live
      BY <2>2, TreeFacts, PcbFinite
    <3> QED
      BY <1>7, <2>2, <3>1
  <2> HIDE DEF T
  <2>3. Reach(p_parent, q) \subseteq T
    BY <1>1, <2>1, <2>2, ReachLeast
  <2> QED
    BY <1>7, <2>1, <2>3 DEF T
<1>8. Subtree(p) \subseteq Abstract!Family(p)
  BY <1>2, <1>3, <1>7
<1> QED
  BY <1>6, <1>8

\* who the termination of p wakes, for Nucleus and for the kernel
LEMMA TerminateWakes ==
  ASSUME TypeOK, TypeOK', Structure, PriorityKept, stack = << >>,
         NEW p \in Live, NEW W,
         W = IF ParentOf[p] # NULL /\ Waiters[childSem] # << >>
             THEN {Head(Waiters[childSem])} ELSE {},
         pcbfree_h' = pcbfree_h,
         \/ /\ p_parent[p] # NULL /\ s_procQ[childSem] # NULL
            /\ SemV(childSem, "liberaTutti")
         \/ /\ p_parent[p] = NULL \/ s_procQ[childSem] = NULL
            /\ UNCHANGED <<p_next, readyQueue, p_priority, sems>>
  PROVE  /\ OnReady' = OnReady \cup W /\ Free' = Free /\ semval' = semval
         /\ W \subseteq Blocked
         /\ Waiters' = IF W = {} THEN Waiters ELSE [Waiters EXCEPT ![childSem] = Tail(@)]
         /\ \A q \in Pcb : p_priority'[q] = IF q \in W THEN start_priority[q] ELSE p_priority[q]
<1>1. childSem \in Key /\ ParentOf[p] = p_parent[p]
  BY KeyFacts, Calm DEF ParentOf
<1>2. Waiters[childSem] = << >> <=> s_procQ[childSem] = NULL
  BY <1>1, WaitersAre DEF Structure
<1>3. CASE /\ p_parent[p] # NULL /\ s_procQ[childSem] # NULL
           /\ SemV(childSem, "liberaTutti")
  <2> DEFINE b == s_procQ[childSem]
  <2>1. /\ Head(Waiters[childSem]) = b
        /\ Waiters' = [Waiters EXCEPT ![childSem] = Tail(@)]
        /\ b \in Queue(childSem) /\ b \in Pcb
        /\ p_priority' = [p_priority EXCEPT ![b] = start_priority[b]]
        /\ semval' = semval
    BY <1>1, <1>3, WakeQueues
  <2>2. Free' = Free /\ OnReady' = OnReady \cup {b}
    BY <1>1, <1>3, WakeLists DEF Structure
  <2>3. W = {b}
    BY <1>1, <1>2, <1>3, <2>1
  <2>4. b \in Blocked
    BY <1>1, <2>1 DEF Blocked
  <2> HIDE DEF b
  <2>5. \A q \in Pcb : p_priority'[q] = IF q = b THEN start_priority[q] ELSE p_priority[q]
    BY <2>1 DEF TypeOK
  <2> QED
    BY <2>1, <2>2, <2>3, <2>4, <2>5
<1>4. CASE /\ p_parent[p] = NULL \/ s_procQ[childSem] = NULL
           /\ UNCHANGED <<p_next, readyQueue, p_priority, sems>>
  <2>1. W = {}
    BY <1>1, <1>2, <1>4
  <2>2. /\ Free' = Free /\ OnReady' = OnReady /\ Waiters' = Waiters
        /\ semval' = semval /\ p_priority' = p_priority
    BY <1>4 DEF Free, OnReady, Waiters, sems
  <2> QED
    BY <2>1, <2>2
<1> QED
  BY <1>3, <1>4

(* The first step of liberaTutti is the termination of Nucleus: from then  *)
(* on the whole subtree is dead.                                           *)
LEMMA TerminateRefines ==
  ASSUME TypeOK, TypeOK', Structure, PriorityKept, Careful,
         NEW pid \in pids \cup {NULL}, TerminateProcess(pid)
  PROVE  \E p \in Abstract!Live : Abstract!Terminate(p)
<1> DEFINE p == IF pid = NULL THEN currentPcb ELSE pid
           W == IF ParentOf[p] # NULL /\ Waiters[childSem] # << >>
                THEN {Head(Waiters[childSem])} ELSE {}
           G == Subtree(p)
<1>1. /\ pc = "user" /\ currentPcb # NULL
      /\ p \in Live /\ (pid # NULL => currentPcb \notin G)
      /\ G \cap Blocked = {}
      /\ currentPcb' = IF pid = NULL THEN NULL ELSE currentPcb
      /\ stack' = <<p>> /\ UNCHANGED <<tree, pcbfree_h, start_priority>>
      /\ \/ /\ p_parent[p] # NULL /\ s_procQ[childSem] # NULL
            /\ SemV(childSem, "liberaTutti")
         \/ /\ p_parent[p] = NULL \/ s_procQ[childSem] = NULL
            /\ UNCHANGED <<p_next, readyQueue, p_priority, sems>>
  BY DEF TerminateProcess, SysCall, MayTerminate, Careful, TypeOK
<1>2. pc' = "liberaTutti"
  BY TerminateStructure, <1>1, WakeLists, KeyFacts DEF TerminateProcess, Structure
<1>3. stack = << >> /\ p_parent' = p_parent
  BY <1>1 DEF Structure, DyingSound, tree
<1>4. p \in G /\ (p = currentPcb <=> pid = NULL)
  <2>1. p \in Pcb /\ p \in G
    BY <1>1, ReachHead DEF Subtree, TypeOK, Live
  <2> QED
    BY <1>1, <2>1
<1> HIDE DEF p, G
<1>5. /\ OnReady' = OnReady \cup W /\ Free' = Free /\ semval' = semval
      /\ W \subseteq Blocked
      /\ Waiters' = IF W = {} THEN Waiters ELSE [Waiters EXCEPT ![childSem] = Tail(@)]
      /\ \A q \in Pcb : p_priority'[q] = IF q \in W THEN start_priority[q] ELSE p_priority[q]
  <2>1. W = IF ParentOf[p] # NULL /\ Waiters[childSem] # << >>
            THEN {Head(Waiters[childSem])} ELSE {}
    OBVIOUS
  <2>2. /\ pcbfree_h' = pcbfree_h /\ p \in Live
        /\ \/ /\ p_parent[p] # NULL /\ s_procQ[childSem] # NULL
              /\ SemV(childSem, "liberaTutti")
           \/ /\ p_parent[p] = NULL \/ s_procQ[childSem] = NULL
              /\ UNCHANGED <<p_next, readyQueue, p_priority, sems>>
    BY <1>1
  <2> HIDE DEF W
  <2> QED
    BY <1>3, <2>1, <2>2, TerminateWakes
<1> HIDE DEF W
<1>6. Abstract!Family(p) = G
  BY <1>1, <1>3, FamilyIs DEF Structure, G
<1>7. Doomed' = G
  <2>1. Dying' = {p}
    BY <1>1 DEF Dying
  <2> QED
    BY <1>3, <2>1, DoomedIs DEF Subtree, G
<1>8. /\ Alive = Live /\ Ready = OnReady /\ Alive' = Live \ G
      /\ Ready' = (OnReady \ G) \cup W
  <2>1. Alive = Live /\ Ready = OnReady
    BY <1>3, Calm
  <2>2. Live' = Live
    BY <1>5 DEF Live, Free
  <2> QED
    BY <1>1, <1>5, <1>7, <2>1, <2>2 DEF Alive, Ready
<1>9. ParentOf' = Abstract!Restrict(ParentOf, Live \ G)
  BY <1>3, <1>8 DEF ParentOf, Abstract!Restrict
<1>10. PriorityOf' = Abstract!Restrict(PriorityOf, Live \ G)
  BY <1>1, <1>8 DEF PriorityOf, Abstract!Restrict
<1>11. ReadyNow' = [q \in (DOMAIN ReadyNow \ G) \cup W |->
                      IF q \in W THEN PriorityOf[q] ELSE ReadyNow[q]]
  <2>1. /\ DOMAIN ReadyNow = OnReady /\ \A q \in OnReady : ReadyNow[q] = p_priority[q]
        /\ OnReady \subseteq Pcb
    BY <1>8, ListTypes DEF ReadyNow
  <2>2. W \subseteq Live /\ Live \subseteq Pcb
    BY <1>5, PlacesDisjoint DEF Live, Free
  <2>3. \A q \in W : PriorityOf[q] = start_priority[q]
    BY <1>8, <2>2 DEF PriorityOf
  <2>4. \A q \in (OnReady \ G) \cup W :
          p_priority'[q] = IF q \in W THEN PriorityOf[q] ELSE ReadyNow[q]
    BY <1>5, <2>1, <2>2, <2>3
  <2>5. ReadyNow' = [q \in (OnReady \ G) \cup W |-> p_priority'[q]]
    BY <1>8 DEF ReadyNow
  <2> QED
    BY <2>1, <2>4, <2>5
<1>12. G \cap Abstract!Waiting = {}
  BY <1>1, WaitersAre DEF Structure
<1>13. currentPcb' = IF p = currentPcb THEN NULL ELSE currentPcb
  BY <1>1, <1>4
<1>14. p = currentPcb \/ currentPcb \notin G
  BY <1>1, <1>4
<1>15. StoppedBy' = StoppedBy
  BY <1>1, <1>2 DEF StoppedBy
<1>16. Abstract!Live = Live
  BY <1>8 DEF Abstract!Live, ParentOf
<1>17. Abstract!Terminate(p)
  BY <1>1, <1>5, <1>6, <1>9, <1>10, <1>11, <1>12, <1>13, <1>14, <1>15, <1>16, Zenon
     DEF Abstract!Terminate, W
<1> QED
  BY <1>1, <1>16, <1>17

-----------------------------------------------------------------------------
(***************************************************************************)
(* The whole.                                                              *)
(***************************************************************************)
\* boot leaves one process, which is ready
LEMMA InitRefines == Init => Abstract!Init
<1> SUFFICES ASSUME Init PROVE Abstract!Init
  OBVIOUS
<1>1. /\ OnReady = {MAXPROC} /\ Live = {MAXPROC} /\ MAXPROC \in Pcb
      /\ stack = << >> /\ pc = "scheduler" /\ currentPcb = NULL
  BY InitLists DEF Init, Pcb
<1>2. Alive = {MAXPROC} /\ Ready = {MAXPROC}
  BY <1>1, Calm
<1>3. /\ \A q \in {MAXPROC} : /\ p_parent[q] = NULL /\ start_priority[q] = 0
                              /\ p_priority[q] = 0
  BY <1>1 DEF Init
<1>4. /\ ParentOf = [q \in {MAXPROC} |-> NULL]
      /\ PriorityOf = [q \in {MAXPROC} |-> 0]
      /\ ReadyNow = [q \in {MAXPROC} |-> 0]
  BY <1>2, <1>3 DEF ParentOf, PriorityOf, ReadyNow
<1>5. Waiters = [k \in Key |-> << >>]
  <2>1. p_next \in [Pcb -> Link] /\ \A k \in Key : s_procQ[k] = NULL
    BY InitType DEF TypeOK, Init
  <2> QED
    BY <2>1, SeqNull DEF Waiters
<1>6. semval \in [Key -> Nat] /\ \A k \in Key \ UserSem : semval[k] = 0
  <2>1. 0..SEMCAP \subseteq Nat
    OBVIOUS
  <2> QED
    BY <2>1 DEF Init
<1>7. StoppedBy = "no"
  BY <1>1 DEF StoppedBy
<1> QED
  BY <1>1, <1>4, <1>5, <1>6, <1>7, SameSem DEF Abstract!Init

\* each step of the kernel is one of Nucleus, or none
LEMMA NextRefines ==
  ASSUME Careful, TypeOK, TypeOK', SemaphoresSound, Structure, ActiveCounts, SoftblockCounts,
         ReadySorted, PriorityKept, [Next]_vars
  PROVE  [Abstract!Next]_(Abstract!abstract)
<1>1. ASSUME SystemCall
      PROVE  [Abstract!Next]_(Abstract!abstract)
  <2>1. CASE \E priority \in Priorities : CreateProcess(priority)
    BY <2>1, CreateRefines DEF Abstract!Next
  <2>2. CASE \E pid \in pids \cup {NULL} : TerminateProcess(pid)
    BY <2>2, TerminateRefines DEF Abstract!Next
  <2> QED
    BY <1>1, <2>1, <2>2, CallsRefine DEF SystemCall
<1>2. CASE RemoveChild
  <2>1. UNCHANGED Abstract!abstract
    BY <1>2, RemoveChildStutters
  <2> QED
    BY <2>1
<1>3. CASE Release
  <2>1. UNCHANGED Abstract!abstract
    BY <1>3, ReleaseStutters
  <2> QED
    BY <2>1
<1>4. CASE PseudoTick \/ \E d \in Device : DeviceInterrupt(d)
  BY <1>4, EventsRefine
<1>5. CASE Preempt
  <2>1. CASE currentPcb # NULL
    BY <1>5, <2>1, PreemptRefines DEF PreemptRun, Abstract!Next
  <2>2. CASE currentPcb = NULL
    <3>1. UNCHANGED Abstract!abstract
      BY <1>5, <2>2, Stands DEF Preempt, CallFrame, tree, prios, sems
    <3> QED
      BY <3>1
  <2> QED
    BY <2>1, <2>2
<1>6. CASE Scheduler
  <2>1. ~AgingLost
    BY DEF AgingLost, Structure, ListsEnd
  <2>2. ASSUME NEW aging \in BOOLEAN, Dispatch(aging)
        PROVE  Abstract!Next
    <3>1. Abstract!Dispatch(readyQueue, aging) /\ readyQueue \in Pcb
      BY <2>2, DispatchRefines
    <3> QED
      BY <3>1 DEF Abstract!Next
  <2> QED
    BY <1>6, <2>1, <2>2, ResumeRefines, IdleRefines DEF Scheduler
<1>7. CASE (\E tick \in BOOLEAN : TimerInterrupt(tick)) \/ \E d \in Device : DeviceDone(d)
  <2>1. UNCHANGED Abstract!abstract
    BY <1>7, Stands DEF TimerInterrupt, DeviceDone, SchedulerFrame, CallFrame, tree, prios, sems
  <2> QED
    BY <2>1
<1>8. CASE Stop \/ UNCHANGED vars
  <2>1. /\ UNCHANGED <<p_next, p_parent, pcbfree_h, readyQueue, currentPcb, s_procQ, stack,
                       p_priority, start_priority, semval, pc>>
    BY <1>8 DEF Stop, vars, tree, prios, sems
  <2>2. UNCHANGED Abstract!abstract
    BY <2>1, Stutter DEF StoppedBy
  <2> QED
    BY <2>2
<1> QED
  BY <1>1, <1>2, <1>3, <1>4, <1>5, <1>6, <1>7, <1>8 DEF Next, Handler, Interrupt

(* The kernel implements Nucleus: whatever system calls, interrupts and    *)
(* decisions of the scheduler do to the lists, is a step of the nucleus    *)
(* that programs rely on, or none, for any number of processes,            *)
(* semaphores and devices.                                                 *)
THEOREM NucleusImplemented ==
  ASSUME Careful, Width
  PROVE  Spec => ImplementsNucleus
<1>1. Init => Abstract!Init
  BY InitRefines
<1>2. /\ TypeOK /\ TypeOK' /\ SemaphoresSound /\ Structure /\ ActiveCounts /\ SoftblockCounts
      /\ ReadySorted /\ PriorityKept /\ [Next]_vars
      => [Abstract!Next]_(Abstract!abstract)
  BY NextRefines
<1> QED
  BY <1>1, <1>2, TypeCorrect, SemaphoresCorrect, StructureCorrect, ActiveCountsCorrect,
     SoftblockCountsCorrect, ReadySortedCorrect, PriorityKeptCorrect, PTL
     DEF Spec, ImplementsNucleus, Abstract!Spec
=============================================================================
