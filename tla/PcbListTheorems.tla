-------------------------- MODULE PcbListTheorems --------------------------
(***************************************************************************)
(* Theorems about the lists of PcbLists, for every number of PCBs: what a  *)
(* walk finds, and what insertProcQ, outProcQ, allocPcb and freePcb do to  *)
(* the list they are called for and to the others that share p_next.       *)
(***************************************************************************)
EXTENDS PcbLists, FiniteSetTheorems, TLAPS

-----------------------------------------------------------------------------
(***************************************************************************)
(* Induction, by the least number for which a claim fails: the claim is a  *)
(* set of numbers.                                                         *)
(***************************************************************************)
(* Every set of natural numbers that is not empty has a least member.      *)
LEMMA LeastNat ==
  ASSUME NEW T \in SUBSET Nat, T # {}
  PROVE  \E x \in T : \A y \in T : x <= y
<1>1. IsWellFoundedOn(OpToRel(<, Nat), Nat)
  BY NatLessThanWellFounded
<1>2. PICK x \in T : \A y \in T : ~(<<y, x>> \in OpToRel(<, Nat))
  BY <1>1, WFMin
<1>3. \A y \in T : ~(y < x)
  BY <1>2 DEF OpToRel
<1> QED
  BY <1>3

(* What holds of 0 and goes on from each number to the next holds up to m. *)
LEMMA UpTo ==
  ASSUME NEW m \in Nat, NEW T, 0 \in T,
         \A i \in 0..(m - 1) : i \in T => i + 1 \in T
  PROVE  0..m \subseteq T
<1> DEFINE F == {i \in 0..m : i \notin T}
<1> SUFFICES ASSUME F # {} PROVE FALSE
  OBVIOUS
<1>1. PICK x \in F : \A y \in F : x <= y
  <2>1. F \in SUBSET Nat
    OBVIOUS
  <2> HIDE DEF F
  <2> QED
    BY <2>1, LeastNat
<1>2. x \in 0..m /\ x \notin T /\ x # 0
  OBVIOUS
<1>3. x - 1 \in 0..(m - 1) /\ x - 1 \in 0..m /\ ~(x <= x - 1) /\ (x - 1) + 1 = x
  BY <1>2
<1>4. x - 1 \in T
  BY <1>1, <1>3
<1> QED
  BY <1>2, <1>3, <1>4

-----------------------------------------------------------------------------
(***************************************************************************)
(* Walks.                                                                  *)
(***************************************************************************)
\* what one more step along nx finds, from the nodes of W
Further(nx, W) == UNION {{n, IF n = NULL THEN NULL ELSE nx[n]} : n \in W}

IsWalk(nx, h, w, m) == w = [i \in 0..m |-> IF i = 0 THEN {h} ELSE Further(nx, w[i - 1])]

(* There is a function that satisfies the recursive definition of Reach.   *)
LEMMA WalkExists ==
  ASSUME NEW nx, NEW h, NEW m \in Nat
  PROVE  \E w : IsWalk(nx, h, w, m)
<1> DEFINE T == {n \in Nat : \E w : IsWalk(nx, h, w, n)}
<1>1. 0 \in T
  <2> DEFINE w == [i \in 0..0 |-> {h}]
  <2>1. IsWalk(nx, h, w, 0)
    BY DEF IsWalk
  <2> QED
    BY <2>1
<1>2. ASSUME NEW n \in 0..(m - 1), n \in T
      PROVE  n + 1 \in T
  <2>1. PICK w : IsWalk(nx, h, w, n)
    BY <1>2
  <2> DEFINE v == [i \in 0..(n + 1) |-> IF i = n + 1 THEN Further(nx, w[n]) ELSE w[i]]
  <2>2. \A i \in 0..n : v[i] = w[i]
    OBVIOUS
  <2>3. ASSUME NEW i \in 0..(n + 1)
        PROVE  v[i] = IF i = 0 THEN {h} ELSE Further(nx, v[i - 1])
    <3>1. CASE i = n + 1
      <4>1. v[i] = Further(nx, w[n]) /\ i # 0 /\ i - 1 = n
        BY <3>1
      <4> QED
        BY <2>2, <4>1
    <3>2. CASE i # n + 1 /\ i # 0
      <4>1. i \in 0..n /\ i - 1 \in 0..n
        BY <3>2
      <4>2. v[i] = w[i] /\ v[i - 1] = w[i - 1]
        BY <4>1, <2>2
      <4>3. w[i] = Further(nx, w[i - 1])
        BY <2>1, <3>2, <4>1 DEF IsWalk
      <4> QED
        BY <3>2, <4>2, <4>3
    <3>3. CASE i = 0
      BY <2>1, <2>2, <3>3 DEF IsWalk
    <3> QED
      BY <3>1, <3>2, <3>3
  <2>4. IsWalk(nx, h, v, n + 1)
    <3>1. v = [i \in 0..(n + 1) |-> v[i]]
      OBVIOUS
    <3> HIDE DEF v
    <3> QED
      BY <2>3, <3>1, Zenon DEF IsWalk
  <2> QED
    BY <2>4
<1>3. m \in T
  <2> HIDE DEF T
  <2>1. 0..m \subseteq T
    BY <1>1, <1>2, UpTo
  <2> QED
    BY <2>1
<1> QED
  BY <1>3

\* Reach as the last of a sequence of sets, each a step further than the one before
LEMMA ReachEquation ==
  ASSUME NEW nx, NEW h
  PROVE  \E w : /\ w[0] = {h}
                /\ \A i \in 0..(MAXPROC - 1) : w[i + 1] = Further(nx, w[i])
                /\ Reach(nx, h) = Pcb \cap w[MAXPROC]
<1> DEFINE w == CHOOSE w : IsWalk(nx, h, w, MAXPROC)
<1>1. MAXPROC \in Nat
  BY MaxprocAssumption
<1>2. IsWalk(nx, h, w, MAXPROC)
  BY <1>1, WalkExists
<1>3. Reach(nx, h) = Pcb \cap w[MAXPROC]
  BY DEF Reach, Further, IsWalk
<1> HIDE DEF w
<1>4. w[0] = {h}
  <2>1. 0 \in 0..MAXPROC
    BY <1>1
  <2> QED
    BY <1>2, <2>1 DEF IsWalk
<1>5. ASSUME NEW i \in 0..(MAXPROC - 1)
      PROVE  w[i + 1] = Further(nx, w[i])
  <2>1. i + 1 \in 0..MAXPROC /\ i + 1 # 0 /\ (i + 1) - 1 = i
    BY <1>1
  <2> QED
    BY <1>2, <2>1 DEF IsWalk
<1> QED
  BY <1>3, <1>4, <1>5

\* a step further keeps what was reached and adds the successors only
LEMMA FurtherFacts ==
  ASSUME NEW nx \in [Pcb -> Link], NEW W \in SUBSET Link
  PROVE  /\ W \subseteq Further(nx, W) /\ Further(nx, W) \subseteq Link
         /\ \A n \in W \cap Pcb : nx[n] \in Further(nx, W)
         /\ \A y \in Further(nx, W) : y \in W \/ y = NULL \/ \E n \in W \cap Pcb : y = nx[n]
<1>1. \A n \in W : n \in Pcb \/ n = NULL
  BY DEF Link
<1>2. \A n \in Pcb : n # NULL /\ nx[n] \in Link
  BY DEF Pcb, NULL
<1>3. NULL \in Link
  BY DEF Link
<1>4. \A y : y \in Further(nx, W) <=> \E n \in W : y = n \/ y = IF n = NULL THEN NULL ELSE nx[n]
  BY DEF Further
<1> QED
  BY <1>1, <1>2, <1>3, <1>4

\* there are finitely many PCBs
LEMMA PcbFinite == /\ IsFiniteSet(Pcb) /\ Cardinality(Pcb) = MAXPROC
                   /\ IsFiniteSet(Link) /\ Cardinality(Link) = MAXPROC + 1
                   /\ NULL \notin Pcb
<1>1. MAXPROC \in Nat \ {0} /\ 1 \in Int
  BY MaxprocAssumption
<1>2. IsFiniteSet(Pcb) /\ Cardinality(Pcb) = MAXPROC
  <2>1. IsFiniteSet(1..MAXPROC) /\ Cardinality(1..MAXPROC) = IF 1 > MAXPROC THEN 0 ELSE MAXPROC - 1 + 1
    BY <1>1, FS_Interval
  <2> QED
    BY <1>1, <2>1 DEF Pcb
<1>3. NULL \notin Pcb
  BY DEF NULL, Pcb
<1> QED
  BY <1>2, <1>3, FS_AddElement DEF Link

(* Reach is the least set that holds the head and is closed under nx.      *)
LEMMA ReachHead ==
  ASSUME NEW nx \in [Pcb -> Link], NEW h \in Pcb
  PROVE  h \in Reach(nx, h)
<1>1. MAXPROC \in Nat \ {0}
  BY MaxprocAssumption
<1>2. PICK w : /\ w[0] = {h}
               /\ \A i \in 0..(MAXPROC - 1) : w[i + 1] = Further(nx, w[i])
               /\ Reach(nx, h) = Pcb \cap w[MAXPROC]
  BY ReachEquation
<1> DEFINE T == {i \in Nat : w[i] \in SUBSET Link /\ h \in w[i]}
<1>3. 0 \in T
  BY <1>2 DEF Link
<1>4. ASSUME NEW i \in 0..(MAXPROC - 1), i \in T
      PROVE  i + 1 \in T
  <2>1. w[i] \in SUBSET Link /\ h \in w[i] /\ w[i + 1] = Further(nx, w[i])
    BY <1>2, <1>4
  <2> QED
    BY <2>1, FurtherFacts
<1>5. MAXPROC \in T
  <2> HIDE DEF T
  <2>1. 0..MAXPROC \subseteq T
    BY <1>1, <1>3, <1>4, UpTo
  <2> QED
    BY <1>1, <2>1
<1> QED
  BY <1>2, <1>5

\* a walk stays in every set that has its first node and is closed under the links
LEMMA ReachLeast ==
  ASSUME NEW nx \in [Pcb -> Link], NEW h \in Link, NEW S,
         h \in Pcb => h \in S,
         \A n \in S \cap Pcb : nx[n] \in Pcb => nx[n] \in S
  PROVE  Reach(nx, h) \subseteq S
<1>1. MAXPROC \in Nat \ {0}
  BY MaxprocAssumption
<1>2. PICK w : /\ w[0] = {h}
               /\ \A i \in 0..(MAXPROC - 1) : w[i + 1] = Further(nx, w[i])
               /\ Reach(nx, h) = Pcb \cap w[MAXPROC]
  BY ReachEquation
<1> DEFINE T == {i \in Nat : w[i] \in SUBSET Link /\ w[i] \cap Pcb \subseteq S}
<1>3. 0 \in T
  BY <1>2
<1>4. ASSUME NEW i \in 0..(MAXPROC - 1), i \in T
      PROVE  i + 1 \in T
  <2>1. w[i] \in SUBSET Link /\ w[i] \cap Pcb \subseteq S /\ w[i + 1] = Further(nx, w[i])
    BY <1>2, <1>4
  <2>2. w[i + 1] \subseteq Link
    BY <2>1, FurtherFacts
  <2>3. \A y \in w[i + 1] \cap Pcb : y \in S
    BY <2>1, FurtherFacts, PcbFinite
  <2> QED
    BY <2>2, <2>3
<1>5. MAXPROC \in T
  <2> HIDE DEF T
  <2>1. 0..MAXPROC \subseteq T
    BY <1>1, <1>3, <1>4, UpTo
  <2> QED
    BY <1>1, <2>1
<1> QED
  BY <1>2, <1>5

\* a walk goes on from every node it finds
LEMMA ReachClosed ==
  ASSUME NEW nx \in [Pcb -> Link], NEW h \in Link, NEW n \in Reach(nx, h), nx[n] \in Pcb
  PROVE  nx[n] \in Reach(nx, h)
<1>1. MAXPROC \in Nat \ {0}
  BY MaxprocAssumption
<1>2. PICK w : /\ w[0] = {h}
               /\ \A i \in 0..(MAXPROC - 1) : w[i + 1] = Further(nx, w[i])
               /\ Reach(nx, h) = Pcb \cap w[MAXPROC]
  BY ReachEquation
<1> DEFINE T == {i \in Nat : /\ w[i] \in SUBSET Link
                             /\ Cardinality(w[i]) >= i + 1 \/ Further(nx, w[i]) = w[i]}
<1>3. 0 \in T
  <2>1. w[0] \in SUBSET Link /\ Cardinality(w[0]) = 1
    BY <1>2, FS_Singleton
  <2> QED
    BY <2>1
<1>4. ASSUME NEW i \in 0..(MAXPROC - 1), i \in T
      PROVE  i + 1 \in T
  <2>1. w[i] \in SUBSET Link /\ w[i + 1] = Further(nx, w[i])
          /\ (Cardinality(w[i]) >= i + 1 \/ Further(nx, w[i]) = w[i])
    BY <1>2, <1>4
  <2>2. w[i + 1] \in SUBSET Link /\ w[i] \subseteq w[i + 1]
    BY <2>1, FurtherFacts
  <2>3. CASE w[i + 1] = w[i]
    <3>1. Further(nx, w[i + 1]) = w[i + 1]
      BY <2>1, <2>3, Zenon
    <3> QED
      BY <2>2, <3>1
  <2>4. CASE w[i + 1] # w[i]
    <3>1. IsFiniteSet(w[i + 1]) /\ IsFiniteSet(w[i])
      BY <2>1, <2>2, PcbFinite, FS_Subset
    <3>2. /\ Cardinality(w[i]) <= Cardinality(w[i + 1])
          /\ Cardinality(w[i]) # Cardinality(w[i + 1])
          /\ Cardinality(w[i]) \in Nat /\ Cardinality(w[i + 1]) \in Nat
      BY <2>2, <2>4, <3>1, FS_Subset, FS_CardinalityType
    <3>3. Cardinality(w[i]) >= i + 1
      BY <2>1, <2>4
    <3>4. Cardinality(w[i + 1]) >= (i + 1) + 1
      BY <3>2, <3>3
    <3> QED
      BY <2>2, <3>4
  <2> QED
    BY <2>3, <2>4
<1>5. MAXPROC \in T
  <2> HIDE DEF T
  <2>1. 0..MAXPROC \subseteq T
    BY <1>1, <1>3, <1>4, UpTo
  <2> QED
    BY <1>1, <2>1
<1>6. w[MAXPROC] \in SUBSET Link /\ n \in w[MAXPROC] \cap Pcb
  BY <1>2, <1>5
<1>7. CASE Further(nx, w[MAXPROC]) = w[MAXPROC]
  BY <1>2, <1>6, <1>7, FurtherFacts
<1>8. CASE Cardinality(w[MAXPROC]) >= MAXPROC + 1
  <2>1. w[MAXPROC] = Link
    <3>1. /\ Cardinality(w[MAXPROC]) <= Cardinality(Link)
          /\ IsFiniteSet(w[MAXPROC])
          /\ Cardinality(w[MAXPROC]) = Cardinality(Link) => w[MAXPROC] = Link
      BY <1>6, PcbFinite, FS_Subset
    <3>2. Cardinality(w[MAXPROC]) \in Nat
      BY <3>1, FS_CardinalityType
    <3> QED
      BY <1>1, <1>8, <3>1, <3>2, PcbFinite
  <2> QED
    BY <1>2, <2>1 DEF Link
<1> QED
  BY <1>5, <1>7, <1>8

-----------------------------------------------------------------------------
(***************************************************************************)
(* What a walk finds, step by step.                                        *)
(***************************************************************************)
LEMMA ReachType ==
  ASSUME NEW nx, NEW h
  PROVE  Reach(nx, h) \subseteq Pcb
BY DEF Reach

\* no node is found from NULL
LEMMA ReachNull ==
  ASSUME NEW nx \in [Pcb -> Link]
  PROVE  Reach(nx, NULL) = {} /\ Ends(nx, NULL)
<1>1. NULL \in Link /\ NULL \notin Pcb
  BY PcbFinite DEF Link
<1>2. Reach(nx, NULL) \subseteq {}
  <2> DEFINE S == {}
  <2>1. \A n \in S \cap Pcb : nx[n] \in Pcb => nx[n] \in S
    OBVIOUS
  <2> HIDE DEF S
  <2>2. Reach(nx, NULL) \subseteq S
    BY <1>1, <2>1, ReachLeast
  <2> QED
    BY <2>2 DEF S
<1> QED
  BY <1>2 DEF Ends

(* The list that starts at a PCB is that PCB and the list of its successor.*)
LEMMA ReachStep ==
  ASSUME NEW nx \in [Pcb -> Link], NEW h \in Pcb
  PROVE  Reach(nx, h) = {h} \cup Reach(nx, nx[h])
<1>1. h \in Link /\ nx[h] \in Link
  BY DEF Link
<1>2. Reach(nx, h) \subseteq {h} \cup Reach(nx, nx[h])
  <2> DEFINE S == {h} \cup Reach(nx, nx[h])
  <2>1. nx[h] \in Pcb => nx[h] \in Reach(nx, nx[h])
    BY ReachHead
  <2>2. \A n \in Reach(nx, nx[h]) : nx[n] \in Pcb => nx[n] \in Reach(nx, nx[h])
    BY <1>1, ReachClosed
  <2>3. \A n \in S \cap Pcb : nx[n] \in Pcb => nx[n] \in S
    BY <2>1, <2>2
  <2>4. h \in S
    OBVIOUS
  <2> HIDE DEF S
  <2>5. Reach(nx, h) \subseteq S
    BY <1>1, <2>3, <2>4, ReachLeast
  <2> QED
    BY <2>5 DEF S
<1>3. h \in Reach(nx, h)
  BY ReachHead
<1>4. \A n \in Reach(nx, h) : nx[n] \in Pcb => nx[n] \in Reach(nx, h)
  BY <1>1, ReachClosed
<1>5. \A n \in Reach(nx, h) \cap Pcb : nx[n] \in Pcb => nx[n] \in Reach(nx, h)
  BY <1>4
<1>6. nx[h] \in Pcb => nx[h] \in Reach(nx, h)
  BY <1>3, <1>4
<1>7. Reach(nx, nx[h]) \subseteq Reach(nx, h)
  BY <1>1, <1>5, <1>6, ReachLeast
<1> QED
  BY <1>2, <1>3, <1>7

\* what is found from a node of a walk is found by the walk
LEMMA ReachTransitive ==
  ASSUME NEW nx \in [Pcb -> Link], NEW h \in Link, NEW x \in Reach(nx, h)
  PROVE  Reach(nx, x) \subseteq Reach(nx, h)
<1>1. x \in Link
  BY ReachType DEF Link
<1>2. \A n \in Reach(nx, h) \cap Pcb : nx[n] \in Pcb => nx[n] \in Reach(nx, h)
  BY ReachClosed
<1> QED
  BY <1>1, <1>2, ReachLeast

(* Of two nodes of a list one comes before the other.                      *)
LEMMA ReachLinear ==
  ASSUME NEW nx \in [Pcb -> Link], NEW h \in Link,
         NEW x \in Reach(nx, h), NEW y \in Reach(nx, h)
  PROVE  x \in Reach(nx, y) \/ y \in Reach(nx, x)
<1> DEFINE S == {z \in Pcb : x \in Reach(nx, z) \/ z \in Reach(nx, x)}
<1>1. x \in Pcb /\ x \in Link /\ y \in Pcb
  BY ReachType DEF Link
<1>2. h \in Pcb => h \in S
  OBVIOUS
<1>3. ASSUME NEW z \in S \cap Pcb, nx[z] \in Pcb
      PROVE  nx[z] \in S
  <2>1. CASE z \in Reach(nx, x)
    BY <1>1, <1>3, <2>1, ReachClosed
  <2>2. CASE x \in Reach(nx, z)
    <3>1. Reach(nx, z) = {z} \cup Reach(nx, nx[z])
      BY ReachStep
    <3>2. x = z => z \in Reach(nx, x)
      BY <1>1, ReachHead
    <3> QED
      BY <1>3, <2>1, <2>2, <3>1, <3>2
  <2> QED
    BY <2>1, <2>2
<1> HIDE DEF S
<1>4. Reach(nx, h) \subseteq S
  BY <1>2, <1>3, ReachLeast
<1> QED
  BY <1>4 DEF S

(* Every node but the head has a predecessor.                              *)
LEMMA ReachPredecessor ==
  ASSUME NEW nx \in [Pcb -> Link], NEW h \in Link, NEW p \in Reach(nx, h), p # h
  PROVE  \E q \in Reach(nx, h) : nx[q] = p
<1> DEFINE S == {z \in Reach(nx, h) : z = h \/ \E q \in Reach(nx, h) : nx[q] = z}
<1>1. h \in Pcb => h \in S
  BY ReachHead
<1>2. \A n \in S \cap Pcb : nx[n] \in Pcb => nx[n] \in S
  BY ReachClosed
<1> HIDE DEF S
<1>3. Reach(nx, h) \subseteq S
  BY <1>1, <1>2, ReachLeast
<1> QED
  BY <1>3 DEF S

(* A list that ends has one last node, and no cycle.                       *)
LEMMA EndsStep ==
  ASSUME NEW nx \in [Pcb -> Link], NEW h \in Pcb
  PROVE  Ends(nx, h) <=> Ends(nx, nx[h])
<1>1. h # NULL /\ Reach(nx, h) = {h} \cup Reach(nx, nx[h])
  BY ReachStep, PcbFinite
<1>2. nx[h] # NULL => nx[h] \in Pcb /\ nx[h] \in Reach(nx, nx[h])
  BY ReachHead DEF Link
<1> QED
  BY <1>1, <1>2 DEF Ends

\* a list has one last node
LEMMA LastUnique ==
  ASSUME NEW nx \in [Pcb -> Link], NEW h \in Link,
         NEW x \in Reach(nx, h), NEW y \in Reach(nx, h), nx[x] = NULL, nx[y] = NULL
  PROVE  x = y
<1>1. x \in Pcb /\ y \in Pcb
  BY ReachType
<1>2. Reach(nx, x) = {x} /\ Reach(nx, y) = {y}
  BY <1>1, ReachStep, ReachNull
<1> QED
  BY <1>2, ReachLinear

\* what holds of NULL, and of every node whose successor it holds of, holds of the head
LEMMA ListInduction ==
  ASSUME NEW nx \in [Pcb -> Link], NEW h \in Link, Ends(nx, h), NEW G, NULL \in G,
         \A x \in Reach(nx, h) : nx[x] \in G => x \in G
  PROVE  h \in G
<1> SUFFICES ASSUME h \notin G PROVE FALSE
  OBVIOUS
<1>1. h # NULL /\ h \in Pcb /\ h \in Reach(nx, h)
  BY ReachHead DEF Link
<1> DEFINE S == {x \in Reach(nx, h) : x \notin G}
<1>2. \A x \in S \cap Pcb : nx[x] \in Pcb => nx[x] \in S
  BY ReachClosed
<1>3. Reach(nx, h) \subseteq S
  <2>1. h \in Pcb => h \in S
    BY <1>1
  <2> HIDE DEF S
  <2> QED
    BY <1>2, <2>1, ReachLeast
<1> QED
  BY <1>1, <1>3 DEF Ends

\* no node of a list that ends is found again behind itself
LEMMA NoCycle ==
  ASSUME NEW nx \in [Pcb -> Link], NEW h \in Link, Ends(nx, h), NEW x \in Reach(nx, h)
  PROVE  x \notin Reach(nx, nx[x])
<1> SUFFICES ASSUME x \in Reach(nx, nx[x]) PROVE FALSE
  OBVIOUS
<1>1. x \in Pcb /\ h # NULL
  BY ReachType, ReachNull
<1>2. PICK e \in Reach(nx, h) : nx[e] = NULL
  BY <1>1 DEF Ends
<1>3. e \in Pcb
  BY ReachType
<1> DEFINE S == {z \in Pcb : x \in Reach(nx, nx[z])}
<1>4. x \in S
  BY <1>1
<1>5. ASSUME NEW z \in S \cap Pcb, nx[z] \in Pcb
      PROVE  nx[z] \in S
  <2>1. Reach(nx, nx[z]) = {nx[z]} \cup Reach(nx, nx[nx[z]])
    BY <1>5, ReachStep
  <2> QED
    BY <1>4, <1>5, <2>1
<1>6. Reach(nx, x) \subseteq S
  <2>1. x \in Link
    BY <1>1 DEF Link
  <2> HIDE DEF S
  <2> QED
    BY <1>4, <1>5, <2>1, ReachLeast
<1>7. e \notin S
  BY <1>2, ReachNull
<1>8. x \in Reach(nx, e)
  BY <1>6, <1>7, ReachLinear
<1>9. Reach(nx, e) = {e}
  BY <1>2, <1>3, ReachStep, ReachNull
<1> QED
  BY <1>2, <1>8, <1>9, <1>4, <1>7

(* What is not on a list can change without the list doing so.             *)
LEMMA ReachFrame ==
  ASSUME NEW nx \in [Pcb -> Link], NEW ny \in [Pcb -> Link], NEW h \in Link,
         \A n \in Reach(nx, h) : ny[n] = nx[n]
  PROVE  Reach(ny, h) = Reach(nx, h) /\ (Ends(ny, h) <=> Ends(nx, h))
<1>1. h \in Pcb => h \in Reach(nx, h) /\ h \in Reach(ny, h)
  BY ReachHead
<1>2. \A n \in Reach(nx, h) \cap Pcb : ny[n] \in Pcb => ny[n] \in Reach(nx, h)
  BY ReachClosed
<1>3. Reach(ny, h) \subseteq Reach(nx, h)
  BY <1>1, <1>2, ReachLeast
<1>4. \A n \in Reach(ny, h) \cap Pcb : nx[n] \in Pcb => nx[n] \in Reach(ny, h)
  BY <1>3, ReachClosed
<1>5. Reach(nx, h) \subseteq Reach(ny, h)
  BY <1>1, <1>4, ReachLeast
<1> QED
  BY <1>3, <1>5 DEF Ends

(* The last node of a list that ends.                                      *)
THEOREM LastNodeFacts ==
  ASSUME NEW nx \in [Pcb -> Link], NEW h \in Pcb, Ends(nx, h)
  PROVE  LastNode(nx, h) \in Reach(nx, h) /\ nx[LastNode(nx, h)] = NULL
<1>1. \E n \in Reach(nx, h) : nx[n] = NULL
  BY PcbFinite DEF Ends
<1> QED
  BY <1>1 DEF LastNode

-----------------------------------------------------------------------------
(***************************************************************************)
(* The walks of previous, priorityPrevious and allocPcb, which stop early. *)
(***************************************************************************)
(* A walk that stops at the first node of S finds a node of S, or else the *)
(* last node of the list.                                                  *)
LEMMA CutFacts ==
  ASSUME NEW nx \in [Pcb -> Link], NEW h \in Pcb, Ends(nx, h), NEW S
  PROVE  /\ CutAt(nx, S) \in [Pcb -> Link]
         /\ Ends(CutAt(nx, S), h)
         /\ Reach(CutAt(nx, S), h) \subseteq Reach(nx, h)
         /\ LastNode(CutAt(nx, S), h) \in Reach(CutAt(nx, S), h)
         /\ LastNode(CutAt(nx, S), h) \in S \/ nx[LastNode(CutAt(nx, S), h)] = NULL
         /\ Reach(nx, h) \cap S # {} => LastNode(CutAt(nx, S), h) \in S
<1> DEFINE cut == CutAt(nx, S)
           q   == LastNode(cut, h)
<1>1. cut \in [Pcb -> Link] /\ h \in Link /\ h # NULL
  BY PcbFinite DEF CutAt, Link
<1>2. \A x \in Pcb : cut[x] = IF x \in S THEN NULL ELSE nx[x]
  BY DEF CutAt
<1> HIDE DEF cut
<1>3. Reach(cut, h) \subseteq Reach(nx, h)
  <2>1. \A n \in Reach(nx, h) \cap Pcb : cut[n] \in Pcb => cut[n] \in Reach(nx, h)
    BY <1>1, <1>2, ReachClosed, PcbFinite
  <2> QED
    BY <1>1, <2>1, ReachLeast, ReachHead
<1>4. Reach(cut, h) \cap S = {} => Reach(cut, h) = Reach(nx, h) /\ Ends(cut, h)
  <2> SUFFICES ASSUME Reach(cut, h) \cap S = {}
               PROVE  Reach(cut, h) = Reach(nx, h) /\ Ends(cut, h)
    OBVIOUS
  <2>1. \A n \in Reach(cut, h) : nx[n] = cut[n]
    BY <1>2, ReachType
  <2> QED
    BY <1>1, <2>1, ReachFrame
<1>5. Ends(cut, h)
  <2> SUFFICES ASSUME NEW x \in Reach(cut, h) \cap S
               PROVE  Ends(cut, h)
    BY <1>4
  <2>1. x \in Pcb
    BY ReachType
  <2> QED
    BY <1>2, <2>1 DEF Ends
<1>6. q \in Reach(cut, h) /\ cut[q] = NULL /\ q \in Pcb
  BY <1>1, <1>5, LastNodeFacts, ReachType
<1>7. ASSUME q \notin S
      PROVE  Reach(nx, h) \cap S = {}
  <2>1. ASSUME NEW x \in Reach(cut, h) \cap S
        PROVE  FALSE
    <3>1. x \in Pcb /\ cut[x] = NULL
      BY <1>2, ReachType
    <3>2. x = q
      BY <1>1, <1>6, <3>1, LastUnique
    <3> QED
      BY <1>7, <3>2
  <2> QED
    BY <1>4, <2>1
<1>8. q \in S \/ nx[q] = NULL
  BY <1>2, <1>6
<1> QED
  BY <1>1, <1>3, <1>5, <1>6, <1>7, <1>8 DEF cut

(* previous(head, p) finds the node before p.                              *)
LEMMA PreviousFacts ==
  ASSUME NEW nx \in [Pcb -> Link], NEW h \in Pcb, Ends(nx, h), NEW p \in Pcb, p # h
  PROVE  /\ Previous(nx, h, p) \in Reach(nx, h)
         /\ nx[Previous(nx, h, p)] = p <=> p \in Reach(nx, h)
         /\ OutEnds(nx, h, p)
<1> DEFINE S == {x \in Pcb : nx[x] = p}
           q == LastNode(CutAt(nx, S), h)
<1>1. q = Previous(nx, h, p)
  BY DEF Previous, PreviousCut
<1>2. /\ Ends(CutAt(nx, S), h) /\ q \in Reach(nx, h)
      /\ Reach(nx, h) \cap S # {} => q \in S
  BY CutFacts
<1>3. h \in Link
  BY DEF Link
<1>4. p \in Reach(nx, h) => Reach(nx, h) \cap S # {}
  BY <1>3, ReachPredecessor, ReachType
<1>5. nx[q] = p => p \in Reach(nx, h)
  BY <1>2, <1>3, ReachClosed
<1> QED
  BY <1>1, <1>2, <1>4, <1>5 DEF OutEnds, PreviousCut

-----------------------------------------------------------------------------
(***************************************************************************)
(* Links that are changed.                                                 *)
(***************************************************************************)
(* p is put before the head.                                               *)
LEMMA PushFacts ==
  ASSUME NEW nx \in [Pcb -> Link], NEW ny \in [Pcb -> Link], NEW h \in Link,
         NEW p \in Pcb, p \notin Reach(nx, h),
         ny[p] = h, \A n \in Pcb \ {p} : ny[n] = nx[n]
  PROVE  /\ Reach(ny, p) = {p} \cup Reach(nx, h)
         /\ Reach(ny, h) = Reach(nx, h)
         /\ Ends(ny, p) <=> Ends(nx, h)
<1>1. ny \in [Pcb -> Link] /\ ny[p] = h /\ \A n \in Pcb \ {p} : ny[n] = nx[n]
  OBVIOUS
<1>2. \A n \in Reach(nx, h) : ny[n] = nx[n]
  BY <1>1, ReachType
<1>3. Reach(ny, h) = Reach(nx, h) /\ (Ends(ny, h) <=> Ends(nx, h))
  BY <1>1, <1>2, ReachFrame
<1>4. Reach(ny, p) = {p} \cup Reach(ny, h) /\ (Ends(ny, p) <=> Ends(ny, h))
  <2>1. p \in Pcb
    OBVIOUS
  <2> QED
    BY ONLY <1>1, <2>1, ReachStep, EndsStep
<1> QED
  BY <1>3, <1>4

(* p is put behind the node q.                                             *)
LEMMA InsertAfter ==
  ASSUME NEW nx \in [Pcb -> Link], NEW h \in Pcb, Ends(nx, h),
         NEW q \in Reach(nx, h), NEW p \in Pcb, p \notin Reach(nx, h),
         NEW ny \in [Pcb -> Link], ny[p] = nx[q], ny[q] = p,
         \A n \in Pcb \ {p, q} : ny[n] = nx[n]
  PROVE  Reach(ny, h) = {p} \cup Reach(nx, h) /\ Ends(ny, h)
<1>1. q \in Pcb /\ q # p /\ h \in Link /\ h # NULL
  BY ReachType, PcbFinite DEF Link
<1>2. /\ ny \in [Pcb -> Link] /\ ny[p] = nx[q] /\ ny[q] = p
      /\ \A n \in Pcb \ {p, q} : ny[n] = nx[n]
  OBVIOUS
<1>3. Reach(ny, h) \subseteq {p} \cup Reach(nx, h)
  <2> DEFINE S == {p} \cup Reach(nx, h)
  <2>1. h \in S
    BY ReachHead
  <2>2. ASSUME NEW n \in S \cap Pcb, ny[n] \in Pcb
        PROVE  ny[n] \in S
    BY <1>1, <1>2, <2>2, ReachClosed
  <2> HIDE DEF S
  <2>3. Reach(ny, h) \subseteq S
    BY <1>1, <1>2, <2>1, <2>2, ReachLeast
  <2> QED
    BY <2>3 DEF S
<1>4. ASSUME NEW n \in Reach(nx, h), nx[n] \in Pcb, n \in Reach(ny, h)
      PROVE  nx[n] \in Reach(ny, h)
  <2>1. n \in Pcb /\ n # p
    BY ReachType
  <2>2. CASE n = q
    <3>1. p \in Reach(ny, h)
      BY <1>1, <1>2, <1>4, <2>2, ReachClosed
    <3> QED
      BY <1>1, <1>2, <1>4, <2>2, <3>1, ReachClosed
  <2>3. CASE n # q
    BY <1>1, <1>2, <1>4, <2>1, <2>3, ReachClosed
  <2> QED
    BY <2>2, <2>3
<1>5. Reach(nx, h) \subseteq Reach(ny, h)
  <2> DEFINE S == Reach(nx, h) \cap Reach(ny, h)
  <2>1. h \in S
    BY <1>2, ReachHead
  <2>2. ASSUME NEW n \in S \cap Pcb, nx[n] \in Pcb
        PROVE  nx[n] \in S
    BY <1>1, <1>4, <2>2, ReachClosed
  <2> HIDE DEF S
  <2>3. Reach(nx, h) \subseteq S
    BY <1>1, <2>1, <2>2, ReachLeast
  <2> QED
    BY <2>3 DEF S
<1>6. p \in Reach(ny, h)
  BY <1>1, <1>2, <1>5, ReachClosed
<1>7. Ends(ny, h)
  <2>1. PICK e \in Reach(nx, h) : nx[e] = NULL
    BY <1>1 DEF Ends
  <2>2. e \in Pcb /\ e # p
    BY <2>1, ReachType
  <2>3. ny[IF e = q THEN p ELSE e] = NULL
    BY <1>2, <2>1, <2>2
  <2> QED
    BY <1>5, <1>6, <2>1, <2>3 DEF Ends
<1> QED
  BY <1>3, <1>5, <1>6, <1>7

(* The successor p of q is taken out.                                      *)
LEMMA RemoveAfter ==
  ASSUME NEW nx \in [Pcb -> Link], NEW h \in Pcb, Ends(nx, h),
         NEW q \in Reach(nx, h), NEW p \in Pcb, nx[q] = p, p # h,
         NEW ny \in [Pcb -> Link], ny[q] = nx[p], \A n \in Pcb \ {q} : ny[n] = nx[n]
  PROVE  Reach(ny, h) = Reach(nx, h) \ {p} /\ Ends(ny, h)
<1>1. q \in Pcb /\ h \in Link /\ h # NULL /\ p \in Reach(nx, h)
  BY ReachType, ReachClosed, PcbFinite DEF Link
<1>2. q # p
  <2>1. p \notin Reach(nx, nx[p])
    BY <1>1, NoCycle
  <2> QED
    BY <2>1, ReachHead
<1>3. /\ ny \in [Pcb -> Link] /\ ny[q] = nx[p]
      /\ \A n \in Pcb \ {q} : ny[n] = nx[n]
  OBVIOUS
<1>4. \A x \in Reach(nx, h) : nx[x] = p => x = q
  <2> SUFFICES ASSUME NEW x \in Reach(nx, h), nx[x] = p, x # q
               PROVE  FALSE
    OBVIOUS
  <2>1. x \in Pcb
    BY ReachType
  <2>2. Reach(nx, x) = {x} \cup Reach(nx, p) /\ Reach(nx, q) = {q} \cup Reach(nx, p)
    BY <1>1, <2>1, ReachStep
  <2>3. x \in Reach(nx, p) \/ q \in Reach(nx, p)
    BY <1>1, <2>2, ReachLinear
  <2>4. x \notin Reach(nx, p) /\ q \notin Reach(nx, p)
    BY <1>1, NoCycle
  <2> QED
    BY <2>3, <2>4
<1>5. nx[p] # p
  <2>1. p \notin Reach(nx, nx[p])
    BY <1>1, NoCycle
  <2> QED
    BY <2>1, ReachHead
<1>6. Reach(ny, h) \subseteq Reach(nx, h) \ {p}
  <2> DEFINE S == Reach(nx, h) \ {p}
  <2>1. h \in S
    BY ReachHead
  <2>2. ASSUME NEW n \in S \cap Pcb, ny[n] \in Pcb
        PROVE  ny[n] \in S
    <3>1. CASE n = q
      BY <1>1, <1>3, <1>5, <2>2, <3>1, ReachClosed
    <3>2. CASE n # q
      BY <1>1, <1>3, <1>4, <2>2, <3>2, ReachClosed
    <3> QED
      BY <3>1, <3>2
  <2> HIDE DEF S
  <2>3. Reach(ny, h) \subseteq S
    BY <1>1, <1>3, <2>1, <2>2, ReachLeast
  <2> QED
    BY <2>3 DEF S
<1>7. Reach(nx, h) \subseteq Reach(ny, h) \cup {p}
  <2> DEFINE S == {n \in Pcb : n \in Reach(ny, h) \/ (n = p /\ q \in Reach(ny, h))}
  <2>1. h \in S
    BY <1>3, ReachHead
  <2>2. ASSUME NEW n \in S \cap Pcb, nx[n] \in Pcb
        PROVE  nx[n] \in S
    <3>1. CASE n = p /\ q \in Reach(ny, h)
      BY <1>1, <1>3, <2>2, <3>1, ReachClosed
    <3>2. CASE n \in Reach(ny, h) /\ n = q
      BY <1>1, <1>3, <2>2, <3>2, ReachClosed
    <3>3. CASE n \in Reach(ny, h) /\ n # q
      BY <1>1, <1>3, <2>2, <3>3, ReachClosed
    <3> QED
      BY <2>2, <3>1, <3>2, <3>3
  <2> HIDE DEF S
  <2>3. Reach(nx, h) \subseteq S
    BY <1>1, <2>1, <2>2, ReachLeast
  <2> QED
    BY <2>3 DEF S
<1>8. Ends(ny, h)
  <2>1. PICK e \in Reach(nx, h) : nx[e] = NULL
    BY <1>1 DEF Ends
  <2>2. e \in Pcb
    BY ReachType
  <2>3. CASE e = p
    <3>1. q \in Reach(ny, h)
      BY <1>2, <1>7
    <3> QED
      BY <1>3, <2>1, <2>3, <3>1 DEF Ends
  <2>4. CASE e # p
    <3>1. e # q
      BY <2>1, PcbFinite
    <3>2. e \in Reach(ny, h) /\ ny[e] = NULL
      BY <1>3, <1>7, <2>1, <2>2, <2>4, <3>1
    <3> QED
      BY <3>2 DEF Ends
  <2> QED
    BY <2>3, <2>4
<1> QED
  BY <1>6, <1>7, <1>8

-----------------------------------------------------------------------------
(***************************************************************************)
(* The operations.  Each says what is on its list afterwards, that a walk  *)
(* over it still ends, and which links it leaves alone.                    *)
(***************************************************************************)
\* the links nx and ny agree outside of S
AgreeOutside(nx, ny, S) == \A n \in Pcb \ S : ny[n] = nx[n]

(* insertProcQ of a PCB that is not on the list.                           *)
THEOREM InsertProcQFacts ==
  ASSUME NEW nx \in [Pcb -> Link], NEW h \in Link, Ends(nx, h), NEW pri,
         NEW p \in Pcb, p \notin Reach(nx, h)
  PROVE  LET r == InsertProcQ(nx, pri, h, p)
         IN  /\ r.next \in [Pcb -> Link] /\ r.head \in Pcb
             /\ Reach(r.next, r.head) = {p} \cup Reach(nx, h)
             /\ Ends(r.next, r.head)
             /\ AgreeOutside(nx, r.next, {p} \cup Reach(nx, h))
             /\ InsertEnds(nx, pri, h, p)
<1> DEFINE r == InsertProcQ(nx, pri, h, p)
<1>1. CASE h = NULL \/ pri[p] > pri[h]
  <2>1. r.next = [nx EXCEPT ![p] = h] /\ r.head = p
    BY <1>1 DEF InsertProcQ
  <2>2. /\ r.next \in [Pcb -> Link] /\ r.next[p] = h /\ r.head = p
        /\ \A n \in Pcb \ {p} : r.next[n] = nx[n]
    BY <2>1
  <2> HIDE DEF r
  <2>3. Reach(r.next, r.head) = {p} \cup Reach(nx, h) /\ Ends(r.next, r.head)
    BY <2>2, PushFacts
  <2>4. InsertEnds(nx, pri, h, p)
    <3>1. CASE h = NULL
      BY <3>1 DEF InsertEnds
    <3>2. CASE h # NULL
      <4> DEFINE S == {x \in Pcb : nx[x] # NULL /\ pri[nx[x]] < pri[p]}
      <4>1. h \in Pcb
        BY <3>2 DEF Link
      <4>2. Ends(CutAt(nx, S), h)
        BY <4>1, CutFacts
      <4> QED
        BY <4>2 DEF InsertEnds, PriorityCut
    <3> QED
      BY <3>1, <3>2
  <2> QED
    BY <2>1, <2>2, <2>3, <2>4 DEF AgreeOutside, r
<1>2. CASE ~(h = NULL \/ pri[p] > pri[h])
  <2> DEFINE S == {x \in Pcb : nx[x] # NULL /\ pri[nx[x]] < pri[p]}
             q == LastNode(CutAt(nx, S), h)
  <2>1. h \in Pcb
    BY <1>2 DEF Link
  <2>2. Ends(CutAt(nx, S), h) /\ q \in Reach(nx, h)
    BY <2>1, CutFacts
  <2>3. r.next = [nx EXCEPT ![p] = nx[q], ![q] = p] /\ r.head = h
    BY <1>2 DEF InsertProcQ, PriorityPrevious, PriorityCut
  <2>4. InsertEnds(nx, pri, h, p)
    BY <2>2 DEF InsertEnds, PriorityCut
  <2> HIDE DEF r, q
  <2>5. /\ r.next \in [Pcb -> Link] /\ Ends(r.next, r.head)
        /\ Reach(r.next, r.head) = {p} \cup Reach(nx, h)
    <3>1. q \in Pcb /\ q # p
      BY <2>2, ReachType
    <3>2. /\ r.next \in [Pcb -> Link] /\ r.next[p] = nx[q] /\ r.next[q] = p
          /\ \A n \in Pcb \ {p, q} : r.next[n] = nx[n]
      BY <2>3, <3>1 DEF Link
    <3>3. r.head = h
      BY <2>3
    <3> QED
      BY <2>1, <2>2, <3>2, <3>3, InsertAfter
  <2>6. AgreeOutside(nx, r.next, {p} \cup Reach(nx, h))
    BY <2>2, <2>3 DEF AgreeOutside
  <2> QED
    BY <2>1, <2>3, <2>4, <2>5, <2>6 DEF r
<1> QED
  BY <1>1, <1>2

(* outProcQ takes p out if it is on the list.                              *)
THEOREM OutProcQFacts ==
  ASSUME NEW nx \in [Pcb -> Link], NEW h \in Link, Ends(nx, h), NEW p \in Pcb
  PROVE  LET r == OutProcQ(nx, h, p)
         IN  /\ r.next \in [Pcb -> Link] /\ r.head \in Link
             /\ Reach(r.next, r.head) = Reach(nx, h) \ {p}
             /\ Ends(r.next, r.head)
             /\ AgreeOutside(nx, r.next, Reach(nx, h))
             /\ OutEnds(nx, h, p)
<1> DEFINE r == OutProcQ(nx, h, p)
<1>1. CASE h = NULL
  <2>1. r.next = nx /\ r.head = NULL
    BY <1>1 DEF OutProcQ
  <2>2. OutEnds(nx, h, p)
    BY <1>1 DEF OutEnds, Ends
  <2> QED
    BY <1>1, <2>1, <2>2, ReachNull DEF AgreeOutside
<1>2. CASE h # NULL /\ h = p
  <2>1. r.next = nx /\ r.head = nx[p]
    BY <1>2 DEF OutProcQ
  <2>2. Reach(nx, p) = {p} \cup Reach(nx, nx[p]) /\ p \in Reach(nx, p)
    BY ReachStep
  <2>3. p \notin Reach(nx, nx[p])
    BY <1>2, <2>2, NoCycle
  <2>4. Ends(nx, nx[p])
    BY <1>2, EndsStep
  <2>5. OutEnds(nx, h, p)
    BY <1>2 DEF OutEnds
  <2> HIDE DEF r
  <2> QED
    BY <1>2, <2>1, <2>2, <2>3, <2>4, <2>5 DEF AgreeOutside, r
<1>3. CASE h # NULL /\ h # p
  <2> DEFINE q == Previous(nx, h, p)
  <2>1. h \in Pcb
    BY <1>3 DEF Link
  <2>2. /\ q \in Reach(nx, h) /\ OutEnds(nx, h, p)
        /\ nx[q] = p <=> p \in Reach(nx, h)
    BY <1>3, <2>1, PreviousFacts
  <2>3. r.head = h /\ r.next = IF nx[q] = p THEN [nx EXCEPT ![q] = nx[p]] ELSE nx
    BY <1>3 DEF OutProcQ
  <2> HIDE DEF r, q
  <2>4. CASE nx[q] = p
    <3>1. r.next = [nx EXCEPT ![q] = nx[p]]
      BY <2>3, <2>4
    <3>2. /\ r.next \in [Pcb -> Link] /\ Ends(r.next, r.head)
          /\ Reach(r.next, r.head) = Reach(nx, h) \ {p}
      <4>1. /\ r.next \in [Pcb -> Link] /\ r.next[q] = nx[p]
            /\ \A n \in Pcb \ {q} : r.next[n] = nx[n]
        BY <2>2, <3>1, ReachType
      <4>2. r.head = h
        BY <2>3
      <4> QED
        BY <1>3, <2>1, <2>2, <2>4, <4>1, <4>2, RemoveAfter
    <3>3. AgreeOutside(nx, r.next, Reach(nx, h))
      BY <2>2, <3>1 DEF AgreeOutside
    <3> QED
      BY <2>2, <2>3, <3>2, <3>3 DEF r
  <2>5. CASE nx[q] # p
    BY <2>2, <2>3, <2>5 DEF AgreeOutside, r
  <2> QED
    BY <2>4, <2>5
<1> QED
  BY <1>1, <1>2, <1>3

(* allocPcb takes one PCB from the free list.                              *)
THEOREM AllocPcbFacts ==
  ASSUME NEW nx \in [Pcb -> Link], NEW h \in Pcb, Ends(nx, h)
  PROVE  LET p == AllocNode(nx, h)
             r == AllocPcb(nx, h)
         IN  /\ p \in Reach(nx, h) /\ p \in Pcb
             /\ r.next \in [Pcb -> Link] /\ r.head \in Link
             /\ Reach(r.next, r.head) = Reach(nx, h) \ {p}
             /\ Ends(r.next, r.head)
             /\ AgreeOutside(nx, r.next, Reach(nx, h))
<1> DEFINE p == AllocNode(nx, h)
           r == AllocPcb(nx, h)
<1>1. p \in Reach(nx, h) /\ nx[p] = NULL /\ p \in Pcb
  BY LastNodeFacts, ReachType DEF AllocNode
<1>2. h \in Link /\ h \in Reach(nx, h)
  BY ReachHead DEF Link
<1>3. CASE nx[h] = NULL
  <2>1. r.next = nx /\ r.head = NULL
    BY <1>3 DEF AllocPcb
  <2>2. Reach(nx, h) = {h} /\ p = h
    BY <1>1, <1>2, <1>3, ReachStep, ReachNull
  <2> QED
    BY <1>1, <1>2, <2>1, <2>2, ReachNull DEF AgreeOutside
<1>4. CASE nx[h] # NULL
  <2> DEFINE S == {x \in Pcb : nx[x] # NULL /\ nx[nx[x]] = NULL}
             q == LastNode(CutAt(nx, S), h)
  <2>1. PICK x \in Reach(nx, h) : nx[x] = p
    BY <1>1, <1>2, <1>4, ReachPredecessor
  <2>2. x \in S
    BY <1>1, <2>1, ReachType, PcbFinite
  <2>3. q \in Reach(nx, h) /\ q \in S
    BY <2>1, <2>2, CutFacts
  <2>4. nx[q] \in Pcb /\ nx[nx[q]] = NULL
    BY <2>3 DEF Link
  <2>5. nx[q] = p
    <3>1. nx[q] \in Reach(nx, h)
      BY <1>2, <2>3, <2>4, ReachClosed
    <3> QED
      BY <1>1, <1>2, <2>4, <3>1, LastUnique
  <2>6. r.next = [nx EXCEPT ![q] = nx[p]] /\ r.head = h
    BY <1>1, <1>4 DEF AllocPcb, LastButOne
  <2> HIDE DEF p, q, r
  <2>7. /\ r.next \in [Pcb -> Link] /\ Ends(r.next, r.head)
        /\ Reach(r.next, r.head) = Reach(nx, h) \ {p}
    <3>1. p # h
      BY <1>1, <1>4
    <3>2. /\ r.next \in [Pcb -> Link] /\ r.next[q] = nx[p]
          /\ \A n \in Pcb \ {q} : r.next[n] = nx[n]
      BY <1>1, <2>3, <2>6, ReachType
    <3>3. r.head = h
      BY <2>6
    <3> QED
      BY <1>1, <2>3, <2>5, <3>1, <3>2, <3>3, RemoveAfter
  <2>8. AgreeOutside(nx, r.next, Reach(nx, h))
    BY <2>3, <2>6 DEF AgreeOutside
  <2> QED
    BY <1>1, <1>2, <2>6, <2>7, <2>8 DEF p, r
<1> QED
  BY <1>3, <1>4

(* freePcb of a PCB that is not on the free list.                          *)
THEOREM FreePcbFacts ==
  ASSUME NEW nx \in [Pcb -> Link], NEW h \in Link, Ends(nx, h),
         NEW p \in Pcb, p \notin Reach(nx, h)
  PROVE  LET r == FreePcb(nx, h, p)
         IN  /\ r.next \in [Pcb -> Link] /\ r.head \in Pcb
             /\ Reach(r.next, r.head) = {p} \cup Reach(nx, h)
             /\ Ends(r.next, r.head)
             /\ AgreeOutside(nx, r.next, {p} \cup Reach(nx, h))
<1> DEFINE r == FreePcb(nx, h, p)
<1>1. CASE h = NULL
  <2>1. r.next = [nx EXCEPT ![p] = h] /\ r.head = p
    BY <1>1 DEF FreePcb
  <2>2. /\ r.next \in [Pcb -> Link] /\ r.next[p] = h /\ r.head = p
        /\ \A n \in Pcb \ {p} : r.next[n] = nx[n]
    BY <2>1
  <2> HIDE DEF r
  <2>3. Reach(r.next, r.head) = {p} \cup Reach(nx, h) /\ Ends(r.next, r.head)
    BY <2>2, PushFacts
  <2> QED
    BY <2>1, <2>2, <2>3 DEF AgreeOutside, r
<1>2. CASE h # NULL
  <2> DEFINE q == LastNode(nx, h)
  <2>1. h \in Pcb
    BY <1>2 DEF Link
  <2>2. q \in Reach(nx, h) /\ nx[q] = NULL /\ q \in Pcb /\ q # p
    BY <2>1, LastNodeFacts, ReachType
  <2>3. r.next = [nx EXCEPT ![q] = p, ![p] = NULL] /\ r.head = h
    BY <1>2 DEF FreePcb
  <2> HIDE DEF r, q
  <2>4. r.next = [nx EXCEPT ![p] = nx[q], ![q] = p]
    BY <2>2, <2>3
  <2>5. /\ r.next \in [Pcb -> Link] /\ Ends(r.next, r.head)
        /\ Reach(r.next, r.head) = {p} \cup Reach(nx, h)
    <3>1. /\ r.next \in [Pcb -> Link] /\ r.next[p] = nx[q] /\ r.next[q] = p
          /\ \A n \in Pcb \ {p, q} : r.next[n] = nx[n]
      BY <2>2, <2>4 DEF Link
    <3>2. r.head = h
      BY <2>3
    <3> QED
      BY <2>1, <2>2, <3>1, <3>2, InsertAfter
  <2>6. AgreeOutside(nx, r.next, {p} \cup Reach(nx, h))
    BY <2>2, <2>4 DEF AgreeOutside
  <2> QED
    BY <2>1, <2>3, <2>5, <2>6 DEF r
<1> QED
  BY <1>1, <1>2

(* A list no PCB of which has changed is the same list.                    *)
LEMMA ApartFrame ==
  ASSUME NEW nx \in [Pcb -> Link], NEW ny \in [Pcb -> Link], NEW h \in Link, NEW S,
         AgreeOutside(nx, ny, S), Reach(nx, h) \cap S = {}
  PROVE  Reach(ny, h) = Reach(nx, h) /\ (Ends(ny, h) <=> Ends(nx, h))
<1>1. \A n \in Reach(nx, h) : ny[n] = nx[n]
  BY ReachType DEF AgreeOutside
<1> QED
  BY <1>1, ReachFrame

-----------------------------------------------------------------------------
(***************************************************************************)
(* The order of a queue.                                                   *)
(***************************************************************************)
\* the list is ordered by decreasing priority
Sorted(nx, pri, h) ==
  \A n \in Reach(nx, h) : nx[n] # NULL => pri[nx[n]] <= pri[n]

\* a queue is as sorted after a step that leaves its links and priorities alone
LEMMA SortedFrame ==
  ASSUME NEW nx \in [Pcb -> Link], NEW ny \in [Pcb -> Link], NEW h \in Link,
         NEW pri, NEW prj, Sorted(nx, pri, h),
         \A n \in Reach(nx, h) : ny[n] = nx[n] /\ prj[n] = pri[n]
  PROVE  Sorted(ny, prj, h)
<1>1. Reach(ny, h) = Reach(nx, h)
  BY ReachFrame
<1>2. \A n \in Reach(nx, h) : n \in Pcb /\ nx[n] \in Link
  BY ReachType
<1>3. \A n \in Reach(nx, h) : nx[n] # NULL => nx[n] \in Reach(nx, h)
  BY <1>2, ReachClosed DEF Link
<1> QED
  BY <1>1, <1>3 DEF Sorted

(* priorityPrevious finds the place of p in a queue whose head does not    *)
(* come after it: behind a node of at least its priority and before one of *)
(* a smaller priority, whatever the order of the rest.                     *)
THEOREM PriorityPlace ==
  ASSUME NEW nx \in [Pcb -> Link], NEW h \in Pcb, Ends(nx, h), NEW pri \in [Pcb -> Int],
         NEW p \in Pcb, pri[p] <= pri[h]
  PROVE  LET q == PriorityPrevious(nx, pri, h, p)
         IN  /\ q \in Reach(nx, h) /\ pri[p] <= pri[q]
             /\ nx[q] # NULL => pri[nx[q]] < pri[p]
<1> DEFINE S   == {x \in Pcb : nx[x] # NULL /\ pri[nx[x]] < pri[p]}
           cut == CutAt(nx, S)
           q   == LastNode(cut, h)
<1>1. PriorityPrevious(nx, pri, h, p) = q
  BY DEF PriorityPrevious, PriorityCut
<1>2. /\ cut \in [Pcb -> Link] /\ Reach(cut, h) \subseteq Reach(nx, h)
      /\ q \in Reach(cut, h) /\ (q \in S \/ nx[q] = NULL)
  BY CutFacts
<1>3. pri[p] <= pri[q]
  <2>1. CASE q = h
    BY <2>1
  <2>2. CASE q # h
    <3>1. PICK x \in Reach(cut, h) : cut[x] = q
      <4> HIDE DEF q, cut
      <4> QED
        BY <1>2, <2>2, ReachPredecessor DEF Link
    <3>2. x \in Pcb /\ q \in Pcb
      BY <1>2, <3>1, ReachType
    <3>3. x \notin S /\ nx[x] = q
      <4>1. cut[x] = IF x \in S THEN NULL ELSE nx[x]
        BY <3>2 DEF CutAt
      <4> HIDE DEF q, cut, S
      <4> QED
        BY <3>1, <3>2, <4>1, PcbFinite
    <3> HIDE DEF q, cut
    <3>4. ~(pri[q] < pri[p])
      BY <3>2, <3>3, PcbFinite
    <3> QED
      BY <3>2, <3>4
  <2> QED
    BY <2>1, <2>2
<1>4. nx[q] # NULL => pri[nx[q]] < pri[p]
  <2> HIDE DEF q, cut
  <2> QED
    BY <1>2
<1> QED
  BY <1>1, <1>2, <1>3, <1>4

\* the list after insertProcQ, without LET
LEMMA InsertedList ==
  ASSUME NEW nx \in [Pcb -> Link], NEW h \in Link, Ends(nx, h), NEW pri,
         NEW p \in Pcb, p \notin Reach(nx, h)
  PROVE  /\ InsertProcQ(nx, pri, h, p).next \in [Pcb -> Link]
         /\ InsertProcQ(nx, pri, h, p).head \in Pcb
         /\ Reach(InsertProcQ(nx, pri, h, p).next, InsertProcQ(nx, pri, h, p).head)
              = {p} \cup Reach(nx, h)
<1> DEFINE r == InsertProcQ(nx, pri, h, p)
<1> HIDE DEF r
<1>1. /\ r.next \in [Pcb -> Link] /\ r.head \in Pcb
      /\ Reach(r.next, r.head) = {p} \cup Reach(nx, h)
  BY InsertProcQFacts, ZenonT(60) DEF r
<1> QED
  BY <1>1 DEF r

(* insertProcQ keeps a queue ordered.                                      *)
THEOREM InsertSorted ==
  ASSUME NEW nx \in [Pcb -> Link], NEW h \in Link, Ends(nx, h), NEW pri \in [Pcb -> Int],
         NEW p \in Pcb, p \notin Reach(nx, h), Sorted(nx, pri, h)
  PROVE  Sorted(InsertProcQ(nx, pri, h, p).next, pri, InsertProcQ(nx, pri, h, p).head)
<1> DEFINE r == InsertProcQ(nx, pri, h, p)
<1>1. Reach(r.next, r.head) = {p} \cup Reach(nx, h)
  BY InsertedList
<1>2. Reach(nx, h) \subseteq Pcb /\ (h # NULL => h \in Pcb /\ h \in Reach(nx, h))
  BY ReachType, ReachHead DEF Link
<1> SUFFICES ASSUME NEW n \in {p} \cup Reach(nx, h), r.next[n] # NULL
             PROVE  pri[r.next[n]] <= pri[n]
  BY <1>1 DEF Sorted
<1>3. CASE h = NULL
  <2>1. r.next[p] = NULL /\ Reach(nx, h) = {}
    BY <1>3, ReachNull DEF InsertProcQ
  <2> QED
    BY <2>1
<1>4. CASE h # NULL /\ pri[p] > pri[h]
  <2>1. r.next[p] = h /\ \A m \in Pcb \ {p} : r.next[m] = nx[m]
    BY <1>4 DEF InsertProcQ
  <2> HIDE DEF r
  <2>2. CASE n = p
    BY <1>2, <1>4, <2>1, <2>2
  <2>3. CASE n # p
    BY <1>2, <2>1, <2>3 DEF Sorted
  <2> QED
    BY <2>2, <2>3
<1>5. CASE h # NULL /\ ~(pri[p] > pri[h])
  <2> DEFINE q == PriorityPrevious(nx, pri, h, p)
  <2>1. /\ q \in Reach(nx, h) /\ pri[p] <= pri[q]
        /\ nx[q] # NULL => pri[nx[q]] < pri[p]
    BY <1>2, <1>5, PriorityPlace
  <2>2. r.next = [nx EXCEPT ![p] = nx[q], ![q] = p]
    BY <1>5 DEF InsertProcQ
  <2> HIDE DEF q, r
  <2>3. /\ q \in Pcb /\ q # p /\ r.next[p] = nx[q] /\ r.next[q] = p
        /\ \A m \in Pcb \ {p, q} : r.next[m] = nx[m]
    BY <1>2, <2>1, <2>2
  <2>4. CASE n = p
    <3>1. nx[q] \in Pcb
      BY <2>3, <2>4 DEF Link
    <3> QED
      BY <2>1, <2>3, <2>4, <3>1
  <2>5. CASE n = q
    BY <2>1, <2>3, <2>5
  <2>6. CASE n # p /\ n # q
    BY <1>2, <2>3, <2>6 DEF Sorted
  <2> QED
    BY <2>4, <2>5, <2>6
<1> QED
  BY <1>3, <1>4, <1>5

(* A process whose priority is that of all those in the queue goes to its  *)
(* end: equals are served in the order in which they came.                 *)
THEOREM InsertLast ==
  ASSUME NEW nx \in [Pcb -> Link], NEW h \in Link, Ends(nx, h), NEW pri \in [Pcb -> Int],
         NEW p \in Pcb, p \notin Reach(nx, h), \A n \in Reach(nx, h) : pri[n] = pri[p]
  PROVE  LET r == InsertProcQ(nx, pri, h, p)
         IN  /\ r.next[p] = NULL /\ \A n \in Reach(nx, h) : p \in Reach(r.next, n)
             /\ \A n \in Reach(nx, h) : r.next[n] = IF nx[n] = NULL THEN p ELSE nx[n]
             /\ h # NULL => r.head = h
<1> DEFINE r == InsertProcQ(nx, pri, h, p)
<1>1. /\ r.next \in [Pcb -> Link] /\ r.head \in Pcb
      /\ Reach(r.next, r.head) = {p} \cup Reach(nx, h)
  BY InsertedList
<1>2. Reach(nx, h) \subseteq Pcb /\ (h # NULL => h \in Pcb /\ h \in Reach(nx, h))
  BY ReachType, ReachHead DEF Link
<1>3. /\ r.next[p] = NULL
      /\ \A n \in Reach(nx, h) : r.next[n] = IF nx[n] = NULL THEN p ELSE nx[n]
  <2>1. CASE h = NULL
    BY <2>1, ReachNull DEF InsertProcQ
  <2>2. CASE h # NULL
    <3> DEFINE q == PriorityPrevious(nx, pri, h, p)
    <3>1. ~(pri[p] > pri[h])
      BY <1>2, <2>2
    <3>2. q \in Reach(nx, h) /\ (nx[q] # NULL => pri[nx[q]] < pri[p])
      BY <1>2, <2>2, <3>1, PriorityPlace
    <3>3. r.next = [nx EXCEPT ![p] = nx[q], ![q] = p]
      BY <2>2, <3>1 DEF InsertProcQ
    <3> HIDE DEF q, r
    <3>4. nx[q] = NULL
      <4>1. nx[q] # NULL => nx[q] \in Reach(nx, h)
        BY <1>2, <3>2, ReachClosed DEF Link
      <4> QED
        BY <3>2, <4>1
    <3>5. \A n \in Reach(nx, h) : nx[n] = NULL <=> n = q
      BY <3>2, <3>4, LastUnique
    <3> QED
      BY <1>2, <3>2, <3>3, <3>4, <3>5
  <2> QED
    BY <2>1, <2>2
<1>4. h # NULL => r.head = h
  BY <1>2 DEF InsertProcQ
<1> HIDE DEF r
<1>5. ASSUME NEW n \in Reach(nx, h)
      PROVE  p \in Reach(r.next, n)
  <2>1. Reach(r.next, p) = {p}
    BY <1>1, <1>3, ReachStep, ReachNull
  <2>2. n \in Reach(r.next, p) \/ p \in Reach(r.next, n)
    BY <1>1, ReachLinear DEF Link
  <2> QED
    BY <2>1, <2>2
<1> QED
  BY <1>3, <1>4, <1>5 DEF r

(* outProcQ keeps a queue ordered.                                         *)
THEOREM OutSorted ==
  ASSUME NEW nx \in [Pcb -> Link], NEW h \in Link, Ends(nx, h), NEW pri \in [Pcb -> Int],
         NEW p \in Pcb, Sorted(nx, pri, h)
  PROVE  Sorted(OutProcQ(nx, h, p).next, pri, OutProcQ(nx, h, p).head)
<1> DEFINE r == OutProcQ(nx, h, p)
<1>1. Reach(r.next, r.head) = Reach(nx, h) \ {p}
  BY OutProcQFacts
<1>2. Reach(nx, h) \subseteq Pcb
  BY ReachType
<1> SUFFICES ASSUME NEW n \in Reach(nx, h) \ {p}, r.next[n] # NULL
             PROVE  pri[r.next[n]] <= pri[n]
  BY <1>1 DEF Sorted
<1>3. CASE h = NULL \/ h = p \/ nx[Previous(nx, h, p)] # p
  <2>1. r.next = nx
    BY <1>3 DEF OutProcQ
  <2> QED
    BY <2>1 DEF Sorted
<1>4. CASE h # NULL /\ h # p /\ nx[Previous(nx, h, p)] = p
  <2> DEFINE q == Previous(nx, h, p)
  <2>1. q \in Reach(nx, h) /\ p \in Reach(nx, h)
    BY <1>4, PreviousFacts DEF Link
  <2>2. r.next = [nx EXCEPT ![q] = nx[p]] /\ nx[q] = p
    BY <1>4 DEF OutProcQ
  <2> HIDE DEF q, r
  <2>3. CASE n = q
    <3>1. r.next[n] = nx[p] /\ q \in Pcb /\ nx[p] \in Pcb
      BY <1>2, <2>1, <2>2, <2>3 DEF Link
    <3>2. pri[nx[p]] <= pri[p] /\ pri[p] <= pri[q]
      BY <2>1, <2>2, <3>1, PcbFinite DEF Sorted
    <3> QED
      BY <2>3, <3>1, <3>2
  <2>4. CASE n # q
    BY <1>2, <2>2, <2>4 DEF Sorted
  <2> QED
    BY <2>3, <2>4
<1> QED
  BY <1>3, <1>4

-----------------------------------------------------------------------------
(***************************************************************************)
(* Of lists that need not end, and may share nodes: the operators of       *)
(* PcbLists keep links within the table of PCBs, whatever they are called  *)
(* for.                                                                    *)
(***************************************************************************)
\* setting one link
LEMMA ExceptType ==
  ASSUME NEW S, NEW T, NEW f \in [S -> T], NEW x, NEW v \in T
  PROVE  [f EXCEPT ![x] = v] \in [S -> T]
  OBVIOUS

(* The last node of a list that is not empty is a PCB, whatever the links. *)
LEMMA LastNodeType ==
  ASSUME NEW nx \in [Pcb -> Link], NEW h \in Pcb
  PROVE  LastNode(nx, h) \in Pcb
<1>1. ASSUME Ends(nx, h)
      PROVE  (CHOOSE n \in Reach(nx, h) : nx[n] = NULL) \in Pcb
  <2>1. \E n \in Reach(nx, h) : nx[n] = NULL
    BY <1>1 DEF Ends, Pcb, NULL
  <2>2. Reach(nx, h) \subseteq Pcb
    BY DEF Reach
  <2> QED
    BY <2>1, <2>2
<1> QED
  BY <1>1 DEF LastNode

(* insertProcQ, outProcQ, freePcb and allocPcb lead from links to links.   *)
LEMMA CutAtType ==
  ASSUME NEW nx \in [Pcb -> Link], NEW S
  PROVE  CutAt(nx, S) \in [Pcb -> Link]
  BY DEF CutAt, Link

\* insertProcQ returns links, whatever list it is called for
LEMMA InsertProcQType ==
  ASSUME NEW nx \in [Pcb -> Link], NEW pri, NEW h \in Link, NEW p \in Pcb
  PROVE  /\ InsertProcQ(nx, pri, h, p).next \in [Pcb -> Link]
         /\ InsertProcQ(nx, pri, h, p).head \in Pcb
<1>1. h # NULL => PriorityPrevious(nx, pri, h, p) \in Pcb
  BY CutAtType, LastNodeType DEF PriorityPrevious, PriorityCut, Link
<1> QED
  BY <1>1 DEF InsertProcQ, Link

\* outProcQ returns links, whatever list it is called for
LEMMA OutProcQType ==
  ASSUME NEW nx \in [Pcb -> Link], NEW h \in Link, NEW p \in Pcb
  PROVE  /\ OutProcQ(nx, h, p).next \in [Pcb -> Link]
         /\ OutProcQ(nx, h, p).head \in Link
<1>1. h # NULL => Previous(nx, h, p) \in Pcb
  BY CutAtType, LastNodeType DEF Previous, PreviousCut, Link
<1> QED
  BY <1>1 DEF OutProcQ, Link

\* allocPcb returns links and a PCB
LEMMA AllocPcbType ==
  ASSUME NEW nx \in [Pcb -> Link], NEW h \in Pcb
  PROVE  /\ AllocNode(nx, h) \in Pcb
         /\ AllocPcb(nx, h).next \in [Pcb -> Link]
         /\ AllocPcb(nx, h).head \in Link
<1>1. AllocNode(nx, h) \in Pcb
  BY LastNodeType DEF AllocNode
<1>2. LastButOne(nx, h) \in Pcb
  BY CutAtType, LastNodeType DEF LastButOne
<1> QED
  BY <1>1, <1>2 DEF AllocPcb, Link

\* freePcb returns links
LEMMA FreePcbType ==
  ASSUME NEW nx \in [Pcb -> Link], NEW h \in Link, NEW p \in Pcb
  PROVE  /\ FreePcb(nx, h, p).next \in [Pcb -> Link]
         /\ FreePcb(nx, h, p).head \in Link
<1>1. h # NULL => LastNode(nx, h) \in Pcb
  BY LastNodeType DEF Link
<1> QED
  BY <1>1 DEF FreePcb, Link

=============================================================================
