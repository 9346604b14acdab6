----------------------------- MODULE TimesProofs -----------------------------
(***************************************************************************)
(* Proofs about module Times, for every range of the clock, any number of  *)
(* PCBs and whatever passes between two reads of the clock: no moment is   *)
(* charged twice, kernel time is part of the total time, and what GETTIME  *)
(* tells of the CPU is within what passes on the wall clock.               *)
(***************************************************************************)
EXTENDS Times, FiniteSetTheorems, TLAPS

Tick == 0..(UINT - 1)

TotalOf(f) == MapThenSumSet(LAMBDA p : f[p], Pcb)

\* since currentPcb got the CPU, or was last charged for it
Ran == Minus(TOD(0), start)

\* since its system call
Called == Minus(TOD(0), kernel_start)

\* since p was first dispatched
WallOf(p) == Minus(TOD(0), wall_start[p])

\* the CPU time of p, what it is not yet charged for included
CpuOf(p) == total_time[p] + (IF p = c THEN Ran ELSE 0)

Begun(p) == p = c \/ total_time[p] # 0

Told == [cpu : Tick, wall : Tick, known : BOOLEAN]

TypeOK ==
  /\ elapsed \in 0..MAXTIME /\ boot \in Tick
  /\ start \in Tick /\ kernel_start \in Tick
  /\ total_time \in [Pcb -> Tick] /\ kernel_time \in [Pcb -> Tick]
  /\ wall_start \in [Pcb -> Tick]
  /\ currentPcb \in Pcb \cup {NULL} /\ ready \subseteq Pcb /\ blocked \subseteq Pcb
  /\ pc \in {"user", "handler", "scheduler", "wait"}
  /\ told \in [Pcb -> Told]
  /\ used \subseteq Pcb /\ spoiled \subseteq Pcb

(* A process is in one place.                                              *)
Places ==
  /\ c \notin ready \cup blocked /\ ready \cap blocked = {}
  /\ pc \in {"user", "handler"} => c # NULL
  /\ pc = "wait" => c = NULL
  /\ Pcb \ Free \subseteq used

(* What the processes were charged for and the current one is still to be  *)
(* charged for is within the time since boot.                              *)
Charged == TotalOf(total_time) + (IF c = NULL THEN 0 ELSE Ran) <= elapsed

(* A process got the CPU before it called.                                 *)
InCall == pc = "handler" => Called <= Ran /\ Ran # 0

(* Kernel time is part of the total time, of which the handler leaves the  *)
(* last part to scheduler().                                               *)
KernelPart ==
  /\ \A p \in Pcb \ used : kernel_time[p] = 0
  /\ \A p \in Pcb \ (Free \cup spoiled) :
       kernel_time[p] <= total_time[p] + (IF p = c /\ pc = "scheduler" THEN Ran ELSE 0)

(* What a process was told of its CPU time it has had, and since then it   *)
(* had no more than passed on the wall clock, but for one gap.             *)
ToldRight ==
  /\ \A p \in Pcb : Begun(p) => WallOf(p) <= elapsed
  /\ \A p \in Pcb \ Free : told[p].known =>
       /\ Begun(p)
       /\ told[p].cpu <= CpuOf(p)
       /\ CpuOf(p) - told[p].cpu <= WallOf(p) - told[p].wall + Max(Gap)

Inv == TypeOK /\ Places /\ Charged /\ InCall /\ KernelPart /\ ToldRight
-----------------------------------------------------------------------------
(***************************************************************************)
(* The arithmetic of the clock.                                            *)
(***************************************************************************)
\* a remainder is in the range of the divisor
LEMMA ModInRange ==
  ASSUME NEW a \in Int, NEW n \in Nat, n > 0
  PROVE  a % n \in 0..(n - 1)
OBVIOUS

(* Reduction modulo n of what is less than one n away from the range.      *)
LEMMA ModNear ==
  ASSUME NEW a \in Int, NEW n \in Nat, n > 0, -n <= a, a < 2 * n
  PROVE  a % n = IF a < 0 THEN a + n ELSE IF a < n THEN a ELSE a - n
OBVIOUS

\* the constants are natural numbers
LEMMA ConstantsType ==
  /\ UINT \in Nat /\ 0 < UINT /\ MAXTIME \in Nat /\ MAXTIME < UINT
  /\ 0 \in Tick /\ HANDLER \in Tick /\ Boots \subseteq Tick
BY TimesAssumption DEF Tick

\* differences and sums wrap into the range of the clock
LEMMA WrapType ==
  ASSUME NEW a \in Int, NEW b \in Int
  PROVE  Minus(a, b) \in Tick /\ Plus(a, b) \in Tick
<1>1. a - b \in Int /\ a + b \in Int
  OBVIOUS
<1> QED
  BY <1>1, ConstantsType, ModInRange DEF Minus, Plus, Tick

(* The difference of two readings is the distance between them.            *)
LEMMA MinusNear ==
  ASSUME NEW a \in Tick, NEW b \in Tick
  PROVE  Minus(a, b) = IF a < b THEN a - b + UINT ELSE a - b
<1>1. a - b \in Int /\ -UINT <= a - b /\ a - b < 2 * UINT
  BY ConstantsType DEF Tick
<1>2. a - b < UINT /\ (a - b < 0 <=> a < b)
  BY ConstantsType DEF Tick
<1> QED
  BY <1>1, <1>2, ConstantsType, ModNear DEF Minus

\* a sum that does not wrap, or wraps once
LEMMA PlusNear ==
  ASSUME NEW a \in Tick, NEW b \in Tick
  PROVE  Plus(a, b) = IF a + b < UINT THEN a + b ELSE a + b - UINT
BY ConstantsType DEF Tick, Plus

(* What is taken away and added again.                                     *)
LEMMA PlusMinus ==
  ASSUME NEW a \in Tick, NEW b \in Tick
  PROVE  Plus(Minus(a, b), b) = a
<1> DEFINE m == Minus(a, b)
<1>1. m \in Tick
  BY WrapType DEF Tick
<1>2. m = IF a < b THEN a - b + UINT ELSE a - b
  BY MinusNear
<1> HIDE DEF m
<1>3. Plus(m, b) = IF m + b < UINT THEN m + b ELSE m + b - UINT
  BY <1>1, PlusNear
<1>4. Plus(m, b) = a
  BY <1>1, <1>2, <1>3, ConstantsType DEF Tick
<1> QED
  BY <1>4 DEF m

(* When d passes, and the distance does not come to UINT, it grows by d.   *)
LEMMA DistanceGrows ==
  ASSUME NEW a \in Tick, NEW b \in Tick, NEW d \in Nat, Minus(a, b) + d < UINT
  PROVE  Minus(Plus(a, d), b) = Minus(a, b) + d
<1> DEFINE sum == Plus(a, d)
<1>1. Minus(a, b) \in Tick
  BY WrapType DEF Tick
<1>2. d \in Tick
  BY <1>1, ConstantsType DEF Tick
<1>3. sum \in Tick
  BY WrapType DEF Tick
<1>4. sum = IF a + d < UINT THEN a + d ELSE a + d - UINT
  BY <1>2, PlusNear
<1> HIDE DEF sum
<1>5. Minus(sum, b) = IF sum < b THEN sum - b + UINT ELSE sum - b
  BY <1>3, MinusNear
<1>6. Minus(a, b) = IF a < b THEN a - b + UINT ELSE a - b
  BY MinusNear
<1>7. Minus(sum, b) = Minus(a, b) + d
  BY <1>1, <1>2, <1>3, <1>4, <1>5, <1>6, ConstantsType DEF Tick
<1> QED
  BY <1>7 DEF sum

(* A later reading of the clock is an earlier one and what passed since.   *)
LEMMA ReadingLater ==
  ASSUME NEW a \in Tick, NEW e \in Nat, NEW d \in Nat, e + d < UINT
  PROVE  Plus(a, e + d) = Plus(Plus(a, e), d)
<1> DEFINE p == Plus(a, e)
           t == e + d
<1>1. e \in Tick /\ d \in Tick /\ t \in Tick
  BY ConstantsType DEF Tick
<1>2. p = IF a + e < UINT THEN a + e ELSE a + e - UINT
  BY <1>1, PlusNear
<1>3. p \in Tick
  <2>1. a \in Int /\ e \in Int
    BY DEF Tick
  <2> QED
    BY <2>1, WrapType
<1> HIDE DEF p
<1>4. Plus(p, d) = IF p + d < UINT THEN p + d ELSE p + d - UINT
  BY <1>1, <1>3, PlusNear
<1> HIDE DEF t
<1>5. Plus(a, t) = IF a + t < UINT THEN a + t ELSE a + t - UINT
  BY <1>1, PlusNear
<1>6. t = e + d
  BY DEF t
<1>7. Plus(a, t) = Plus(p, d)
  BY <1>1, <1>2, <1>3, <1>4, <1>5, <1>6, ConstantsType DEF Tick
<1> QED
  BY <1>7 DEF t, p

-----------------------------------------------------------------------------
(***************************************************************************)
(* Sums over the PCBs.                                                     *)
(***************************************************************************)
(* What holds of 0 and goes on from each number to the next holds up to m. *)
LEMMA UpTo ==
  ASSUME NEW m \in Nat, NEW T, 0 \in T,
         \A i \in 0..(m - 1) : i \in T => i + 1 \in T
  PROVE  0..m \subseteq T
<1> DEFINE F == {i \in 0..m : i \notin T}
<1> SUFFICES ASSUME F # {} PROVE FALSE
  OBVIOUS
<1>1. PICK x \in F : \A y \in F : ~(<<y, x>> \in OpToRel(<, Nat))
  <2>1. F \subseteq Nat
    OBVIOUS
  <2> HIDE DEF F
  <2>2. IsWellFoundedOn(OpToRel(<, Nat), Nat)
    BY NatLessThanWellFounded
  <2> QED
    BY <2>1, <2>2, WFMin
<1>2. x \in 0..m /\ x \notin T /\ x # 0
  OBVIOUS
<1>3. x - 1 \in 0..(m - 1) /\ x - 1 \in 0..m /\ (x - 1) + 1 = x
  BY <1>2
<1>4. <<x - 1, x>> \in OpToRel(<, Nat)
  BY <1>2, <1>3 DEF OpToRel
<1>5. x - 1 \in T
  BY <1>1, <1>3, <1>4
<1> QED
  BY <1>2, <1>3, <1>5

\* the sets of at most n PCBs
Small(n) == {s \in SUBSET Pcb : Cardinality(s) <= n}

Any(s) == CHOOSE x \in s : TRUE

IsSum(f, v, D) ==
  v = [s \in D |-> IF s = {} THEN 0 ELSE f[Any(s)] + v[s \ {Any(s)}]]

\* v is the recursive function of the sum of f
SumOf(f, v) == IsSum(f, v, SUBSET Pcb)

\* ... and a sum in whatever order
Adds(f, v) ==
  /\ v \in [SUBSET Pcb -> Nat]
  /\ \A s \in SUBSET Pcb : \A x \in s : v[s] = f[x] + v[s \ {x}]

\* the sets of PCBs, one less and one more
LEMMA SmallFacts ==
  ASSUME NEW s \in SUBSET Pcb
  PROVE  /\ IsFiniteSet(s) /\ Cardinality(s) \in Nat
         /\ Cardinality(s) = 0 <=> s = {}
         /\ s # {} => Any(s) \in s
         /\ \A x \in s : Cardinality(s \ {x}) = Cardinality(s) - 1
         /\ Cardinality(s) <= Cardinality(Pcb)
<1>1. IsFiniteSet(Pcb)
  BY TimesAssumption
<1>2. IsFiniteSet(s) /\ Cardinality(s) <= Cardinality(Pcb)
  BY <1>1, FS_Subset
<1>3. Cardinality(s) \in Nat /\ (Cardinality(s) = 0 <=> s = {})
  BY <1>2, FS_CardinalityType, FS_EmptySet
<1>4. \A x \in s : Cardinality(s \ {x}) = Cardinality(s) - 1
  BY <1>2, FS_RemoveElement
<1>5. s # {} => Any(s) \in s
  BY DEF Any
<1> QED
  BY <1>2, <1>3, <1>4, <1>5

(* There is a function that satisfies the recursive definition of a sum.   *)
LEMMA SumExists ==
  ASSUME NEW f
  PROVE  \E v : SumOf(f, v)
<1> DEFINE m == Cardinality(Pcb)
           T == {n \in Nat : \E v : IsSum(f, v, Small(n))}
<1>1. m \in Nat /\ SUBSET Pcb = Small(m)
  BY SmallFacts DEF Small
<1>2. 0 \in T
  <2> DEFINE v == [s \in Small(0) |-> 0]
  <2>1. \A s \in Small(0) : s = {}
    BY SmallFacts DEF Small
  <2>2. v = [s \in Small(0) |-> IF s = {} THEN 0 ELSE f[Any(s)] + v[s \ {Any(s)}]]
    BY <2>1
  <2> QED
    BY <2>2 DEF IsSum
<1>3. ASSUME NEW n \in 0..(m - 1), n \in T
      PROVE  n + 1 \in T
  <2>1. PICK w : IsSum(f, w, Small(n))
    BY <1>3
  <2> DEFINE W(u) == [s \in Small(n + 1) |->
                        IF s = {} THEN 0 ELSE f[Any(s)] + u[s \ {Any(s)}]]
             v == W(w)
  <2>2. n \in Nat
    BY <1>1
  <2>3. \A s \in Small(n) : s \in Small(n + 1)
    BY <2>2, SmallFacts DEF Small
  <2>4. \A s \in Small(n + 1) : s # {} => s \ {Any(s)} \in Small(n)
    BY <2>2, SmallFacts DEF Small
  <2>5. \A s \in Small(n) : w[s] = IF s = {} THEN 0 ELSE f[Any(s)] + w[s \ {Any(s)}]
    BY <2>1 DEF IsSum
  <2>6. \A s \in Small(n) : v[s] = w[s]
    BY <2>3, <2>5
  <2>7. \A s \in Small(n + 1) :
          v[s] = IF s = {} THEN 0 ELSE f[Any(s)] + v[s \ {Any(s)}]
    BY <2>4, <2>6
  <2>8. v = [s \in Small(n + 1) |-> v[s]]
    OBVIOUS
  <2> HIDE DEF v, W
  <2>9. IsSum(f, v, Small(n + 1))
    BY <2>7, <2>8, Zenon DEF IsSum
  <2>10. n + 1 \in Nat
    BY <2>2
  <2> QED
    BY <2>9, <2>10
<1>4. m \in T
  <2> HIDE DEF T
  <2>1. 0..m \subseteq T
    BY <1>1, <1>2, <1>3, UpTo
  <2> QED
    BY <1>1, <2>1
<1> QED
  BY <1>1, <1>4 DEF SumOf

(* The sum does not depend on the order in which it is made.               *)
LEMMA SumAdds ==
  ASSUME NEW f \in [Pcb -> Nat], NEW v, SumOf(f, v)
  PROVE  Adds(f, v)
<1> DEFINE m == Cardinality(Pcb)
           T == {n \in 0..m :
                   \A s \in Small(n) : /\ v[s] \in Nat
                                       /\ \A x \in s : v[s] = f[x] + v[s \ {x}]}
<1>1. m \in Nat /\ SUBSET Pcb = Small(m)
  BY SmallFacts DEF Small
<1>2. \A s \in SUBSET Pcb : v[s] = IF s = {} THEN 0 ELSE f[Any(s)] + v[s \ {Any(s)}]
  BY DEF IsSum, SumOf
<1>3. v[{}] = 0
  BY <1>2
<1>4. v = [s \in SUBSET Pcb |-> v[s]]
  BY DEF IsSum, SumOf
<1>5. 0 \in T
  <2>1. \A s \in Small(0) : s = {}
    BY SmallFacts DEF Small
  <2>2. ASSUME NEW s \in Small(0) PROVE v[s] \in Nat /\ \A x \in s : v[s] = f[x] + v[s \ {x}]
    BY <1>3, <2>1
  <2> QED
    BY <1>1, <2>2
<1>6. ASSUME NEW n \in 0..(m - 1), n \in T
      PROVE  n + 1 \in T
  <2>1. n \in Nat /\ n + 1 \in 0..m
    BY <1>1
  <2>2. \A s \in Small(n) : v[s] \in Nat /\ \A x \in s : v[s] = f[x] + v[s \ {x}]
    BY <1>6
  <2>3. ASSUME NEW s \in Small(n + 1)
        PROVE  v[s] \in Nat /\ \A x \in s : v[s] = f[x] + v[s \ {x}]
    <3>1. s \in SUBSET Pcb
      BY DEF Small
    <3>2. \A x \in s : s \ {x} \in Small(n) /\ f[x] \in Nat
      BY <2>1, <3>1, SmallFacts DEF Small
    <3>3. CASE s = {}
      BY <1>3, <3>3
    <3>4. CASE s # {}
      <4> DEFINE y == Any(s)
      <4>1. y \in s /\ v[s] = f[y] + v[s \ {y}]
        BY <1>2, <3>1, <3>4, SmallFacts
      <4>2. v[s] \in Nat
        BY <2>2, <3>2, <4>1
      <4> HIDE DEF y
      <4>3. ASSUME NEW x \in s, x # y
            PROVE  v[s] = f[x] + v[s \ {x}]
        <5> DEFINE r == (s \ {y}) \ {x}
        <5>1. r = (s \ {x}) \ {y} /\ x \in s \ {y} /\ y \in s \ {x}
          BY <4>1, <4>3
        <5>2. v[s \ {y}] = f[x] + v[r]
          BY <2>2, <3>2, <4>1, <5>1
        <5>3. v[s \ {x}] = f[y] + v[(s \ {x}) \ {y}]
          BY <2>2, <3>2, <5>1
        <5>4. r \in Small(n)
          <6>1. IsFiniteSet(s) /\ r \subseteq s \ {x} /\ r \subseteq Pcb
            BY <3>1, SmallFacts
          <6>2. s \ {x} \in SUBSET Pcb
            BY <3>1
          <6>3. IsFiniteSet(s \ {x}) /\ Cardinality(s \ {x}) \in Nat
            BY <6>2, SmallFacts
          <6>4. Cardinality(r) <= Cardinality(s \ {x})
            BY <6>1, <6>3, FS_Subset
          <6>5. Cardinality(s \ {x}) <= n
            BY <3>2 DEF Small
          <6>6. Cardinality(r) \in Nat
            BY <6>1, SmallFacts
          <6> QED
            BY <2>1, <6>1, <6>3, <6>4, <6>5, <6>6 DEF Small
        <5>5. v[r] \in Nat /\ f[x] \in Nat /\ f[y] \in Nat
          BY <2>2, <3>2, <4>1, <5>4
        <5>6. v[s] = f[y] + (f[x] + v[r]) /\ v[s \ {x}] = f[y] + v[r]
          BY <4>1, <5>1, <5>2, <5>3
        <5> HIDE DEF r
        <5> QED
          BY <5>5, <5>6
      <4> QED
        BY <4>1, <4>2, <4>3
    <3> QED
      BY <3>3, <3>4
  <2> QED
    BY <2>1, <2>3
<1>7. m \in T
  <2> HIDE DEF T
  <2>1. 0..m \subseteq T
    BY <1>1, <1>5, <1>6, UpTo
  <2> QED
    BY <1>1, <2>1
<1>8. \A s \in SUBSET Pcb : v[s] \in Nat /\ \A x \in s : v[s] = f[x] + v[s \ {x}]
  BY <1>1, <1>7
<1> QED
  BY <1>4, <1>8 DEF Adds

(* Sums of functions that agree.                                           *)
LEMMA SumSame ==
  ASSUME NEW f, NEW g, NEW v, NEW w, SumOf(f, v), SumOf(g, w),
         NEW R \in SUBSET Pcb, \A x \in R : f[x] = g[x]
  PROVE  v[R] = w[R]
<1> DEFINE m == Cardinality(Pcb)
           T == {n \in 0..m : \A s \in Small(n) : s \subseteq R => v[s] = w[s]}
<1>1. m \in Nat /\ SUBSET Pcb = Small(m)
  BY SmallFacts DEF Small
<1>2. \A s \in SUBSET Pcb : /\ v[s] = IF s = {} THEN 0 ELSE f[Any(s)] + v[s \ {Any(s)}]
                            /\ w[s] = IF s = {} THEN 0 ELSE g[Any(s)] + w[s \ {Any(s)}]
  BY DEF IsSum, SumOf
<1>3. 0 \in T
  <2>1. \A s \in Small(0) : s = {} /\ s \in SUBSET Pcb
    BY SmallFacts DEF Small
  <2> QED
    BY <1>1, <1>2, <2>1
<1>4. ASSUME NEW n \in 0..(m - 1), n \in T
      PROVE  n + 1 \in T
  <2>1. n \in Nat /\ n + 1 \in 0..m
    BY <1>1
  <2>2. ASSUME NEW s \in Small(n + 1), s \subseteq R PROVE v[s] = w[s]
    <3>1. s \in SUBSET Pcb
      BY DEF Small
    <3>2. CASE s = {}
      BY <1>2, <3>1, <3>2
    <3>3. CASE s # {}
      <4>1. Any(s) \in s /\ s \ {Any(s)} \in Small(n)
        BY <2>1, <3>1, <3>3, SmallFacts DEF Small
      <4>2. v[s \ {Any(s)}] = w[s \ {Any(s)}] /\ f[Any(s)] = g[Any(s)]
        BY <1>4, <2>2, <4>1
      <4> QED
        BY <1>2, <3>1, <3>3, <4>2
    <3> QED
      BY <3>2, <3>3
  <2> QED
    BY <2>1, <2>2
<1>5. m \in T
  <2> HIDE DEF T
  <2>1. 0..m \subseteq T
    BY <1>1, <1>3, <1>4, UpTo
  <2> QED
    BY <1>1, <2>1
<1> QED
  BY <1>1, <1>5

\* the sum is the value of the recursive function
LEMMA TotalIs ==
  ASSUME NEW f
  PROVE  \E v : SumOf(f, v) /\ TotalOf(f) = v[Pcb]
<1> DEFINE v == CHOOSE v : SumOf(f, v)
<1>1. SumOf(f, v)
  BY SumExists
<1>2. TotalOf(f) = v[Pcb]
  BY DEF TotalOf, MapThenSumSet, MapThenFoldSet, SumOf, IsSum, Any
<1> QED
  BY <1>1, <1>2

(* No summand is more than the sum; a summand that changes changes the sum *)
(* by as much.                                                             *)
LEMMA TotalChange ==
  ASSUME NEW f \in [Pcb -> Nat], NEW p \in Pcb, NEW x \in Nat
  PROVE  /\ TotalOf(f) \in Nat /\ f[p] <= TotalOf(f)
         /\ TotalOf([f EXCEPT ![p] = x]) = TotalOf(f) - f[p] + x
<1> DEFINE g == [f EXCEPT ![p] = x]
<1>1. g \in [Pcb -> Nat] /\ g[p] = x /\ (\A y \in Pcb \ {p} : f[y] = g[y])
  OBVIOUS
<1>2. f[p] \in Nat
  OBVIOUS
<1> HIDE DEF g
<1>3. PICK v : SumOf(f, v) /\ TotalOf(f) = v[Pcb]
  BY TotalIs
<1>4. PICK w : SumOf(g, w) /\ TotalOf(g) = w[Pcb]
  BY TotalIs
<1>5. Pcb \in SUBSET Pcb /\ Pcb \ {p} \in SUBSET Pcb
  OBVIOUS
<1>6. Adds(f, v)
  BY <1>3, SumAdds
<1>7. Adds(g, w)
  BY <1>1, <1>4, SumAdds
<1>8. v[Pcb] = f[p] + v[Pcb \ {p}] /\ v[Pcb \ {p}] \in Nat /\ v[Pcb] \in Nat
  BY <1>5, <1>6 DEF Adds
<1>9. w[Pcb] = x + w[Pcb \ {p}]
  BY <1>1, <1>5, <1>7 DEF Adds
<1>10. v[Pcb \ {p}] = w[Pcb \ {p}]
  BY <1>1, <1>3, <1>4, <1>5, SumSame
<1>11. TotalOf(g) = TotalOf(f) - f[p] + x /\ TotalOf(f) \in Nat /\ f[p] <= TotalOf(f)
  BY <1>2, <1>3, <1>4, <1>8, <1>9, <1>10
<1> QED
  BY <1>11 DEF g

\* nothing is charged to anybody
LEMMA TotalZeros == TotalOf(Zeros) = 0
<1>1. PICK v : SumOf(Zeros, v) /\ TotalOf(Zeros) = v[Pcb]
  BY TotalIs
<1> DEFINE w == [s \in SUBSET Pcb |-> 0]
<1>2. SumOf(Zeros, w)
  <2>1. \A s \in SUBSET Pcb :
          0 = IF s = {} THEN 0 ELSE Zeros[Any(s)] + w[s \ {Any(s)}]
    <3> SUFFICES ASSUME NEW s \in SUBSET Pcb, s # {}
                 PROVE  0 = Zeros[Any(s)] + w[s \ {Any(s)}]
      OBVIOUS
    <3>1. Any(s) \in Pcb
      BY SmallFacts
    <3>2. Zeros[Any(s)] = 0 /\ w[s \ {Any(s)}] = 0
      BY <3>1 DEF Zeros
    <3> QED
      BY <3>2
  <2> QED
    BY <2>1 DEF IsSum, SumOf
<1>3. w[Pcb] = 0 /\ Pcb \in SUBSET Pcb
  OBVIOUS
<1> HIDE DEF w
<1>4. v[Pcb] = w[Pcb]
  BY <1>1, <1>2, <1>3, SumSame
<1> QED
  BY <1>1, <1>3, <1>4

-----------------------------------------------------------------------------
(***************************************************************************)
(* What passes.                                                            *)
(***************************************************************************)
\* the clock reads boot + elapsed, d later d more
LEMMA Reading ==
  ASSUME TypeOK, NEW d \in Nat, elapsed + d <= MAXTIME
  PROVE  /\ TOD(d) = Plus(TOD(0), d)
         /\ TOD(d) = (boot + (elapsed + d) + 0) % UINT
         /\ TOD(d) \in Tick /\ TOD(0) \in Tick
<1>1. elapsed \in Nat /\ boot \in Tick /\ boot \in Int /\ elapsed + d < UINT
  BY ConstantsType DEF TypeOK, Tick
<1>2. boot + elapsed + d = boot + (elapsed + d) + 0 /\ boot + elapsed + 0 = boot + elapsed
      /\ boot + (elapsed + d) + 0 = boot + (elapsed + d)
  BY <1>1
<1>3. TOD(d) = Plus(boot, elapsed + d) /\ TOD(0) = Plus(boot, elapsed)
  BY <1>2 DEF TOD, Plus
<1>4. Plus(boot, elapsed + d) = Plus(Plus(boot, elapsed), d)
  BY <1>1, ReadingLater
<1>5. elapsed + d \in Int /\ elapsed \in Int
  BY <1>1
<1>6. TOD(d) \in Tick /\ TOD(0) \in Tick
  BY <1>1, <1>3, <1>5, WrapType
<1> QED
  BY <1>2, <1>3, <1>4, <1>6 DEF TOD

(* Who has the CPU has had it, with what he was charged for, for no more   *)
(* than has passed since boot.                                             *)
LEMMA Within ==
  ASSUME Inv
  PROVE  /\ TotalOf(total_time) \in Nat
         /\ \A p \in Pcb : total_time[p] \in Nat /\ total_time[p] <= TotalOf(total_time)
         /\ Ran \in Tick /\ Called \in Tick
         /\ \A p \in Pcb : WallOf(p) \in Tick
         /\ c # NULL => c \in Pcb /\ total_time[c] + Ran <= elapsed
         /\ TotalOf(total_time) <= elapsed
<1>1. TypeOK /\ Charged
  BY DEF Inv
<1>2. elapsed \in Nat /\ elapsed + 0 <= MAXTIME
  BY <1>1, ConstantsType DEF TypeOK
<1>3. TOD(0) \in Tick
  BY <1>1, <1>2, Reading
<1>4. Tick \subseteq Nat
  BY ConstantsType DEF Tick
<1>5. Ran \in Tick /\ Called \in Tick /\ \A p \in Pcb : WallOf(p) \in Tick
  <2>1. start \in Tick /\ kernel_start \in Tick /\ \A p \in Pcb : wall_start[p] \in Tick
    BY <1>1 DEF TypeOK
  <2>2. \A x, y \in Tick : Minus(x, y) \in Tick
    BY <1>4, WrapType
  <2> QED
    BY <1>3, <2>1, <2>2 DEF Ran, Called, WallOf
<1>6. total_time \in [Pcb -> Nat]
  BY <1>1, <1>4 DEF TypeOK
<1>7. ASSUME NEW p \in Pcb
      PROVE  /\ total_time[p] \in Nat /\ TotalOf(total_time) \in Nat
             /\ total_time[p] <= TotalOf(total_time)
  BY <1>6, TotalChange
<1>8. TotalOf(total_time) \in Nat
  <2>1. CASE Pcb = {}
    <3>1. total_time = Zeros
      BY <1>6, <2>1 DEF Zeros
    <3> QED
      BY <3>1, TotalZeros
  <2>2. CASE Pcb # {}
    BY <1>7, <2>2
  <2> QED
    BY <2>1, <2>2
<1>9. c # NULL => c \in Pcb
  BY <1>1 DEF TypeOK, c
<1>10. c # NULL => TotalOf(total_time) + Ran <= elapsed
  BY <1>1 DEF Charged
<1>11. c = NULL => TotalOf(total_time) + 0 <= elapsed
  BY <1>1 DEF Charged
<1>12. Ran \in Nat
  BY <1>4, <1>5
<1>13. TotalOf(total_time) <= elapsed
  BY <1>2, <1>8, <1>10, <1>11, <1>12
<1>14. c # NULL => total_time[c] + Ran <= elapsed
  BY <1>2, <1>7, <1>8, <1>9, <1>10, <1>12
<1> QED
  BY <1>5, <1>7, <1>8, <1>9, <1>13, <1>14

(* When d passes, so much more has passed since everything that is timed.  *)
LEMMA Advance ==
  ASSUME Inv, NEW d \in Nat, elapsed + d <= MAXTIME
  PROVE  /\ elapsed \in Nat /\ elapsed + d \in 0..MAXTIME
         /\ TOD(d) \in Tick
         /\ TOD(d) = (boot + (elapsed + d) + 0) % UINT
         /\ c # NULL => Minus(TOD(d), start) = Ran + d
         /\ pc = "handler" => Minus(TOD(d), kernel_start) = Called + d
         /\ \A p \in Pcb : Begun(p) => Minus(TOD(d), wall_start[p]) = WallOf(p) + d
<1>1. TypeOK /\ InCall /\ Places /\ ToldRight
  BY DEF Inv
<1>2. elapsed \in Nat /\ elapsed + d \in 0..MAXTIME /\ elapsed + d < UINT
  BY <1>1, ConstantsType DEF TypeOK
<1>3. TOD(d) = Plus(TOD(0), d) /\ TOD(0) \in Tick /\ TOD(d) \in Tick
      /\ TOD(d) = (boot + (elapsed + d) + 0) % UINT
  BY <1>1, Reading
<1>4. Tick \subseteq Nat
  BY ConstantsType DEF Tick
<1>5. ASSUME NEW x \in Tick, Minus(TOD(0), x) <= elapsed
      PROVE  Minus(TOD(d), x) = Minus(TOD(0), x) + d
  <2>0. TOD(0) \in Int /\ x \in Int
    <3>1. \A y \in Tick : y \in Int
      BY DEF Tick
    <3> QED
      BY <1>3, <3>1
  <2>1. Minus(TOD(0), x) \in Nat
    BY <1>4, <2>0, WrapType
  <2>2. Minus(TOD(0), x) + d < UINT
    BY <1>2, <1>5, <2>1, ConstantsType
  <2>3. Minus(Plus(TOD(0), d), x) = Minus(TOD(0), x) + d
    BY <1>3, <2>2, DistanceGrows
  <2> QED
    BY <1>3, <2>3
<1>6. Ran \in Nat /\ Called \in Nat /\ \A p \in Pcb : total_time[p] \in Nat
  BY <1>4, Within
<1>7. c # NULL => Ran <= elapsed
  <2>1. c # NULL => c \in Pcb /\ total_time[c] + Ran <= elapsed
    BY Within
  <2> QED
    BY <1>2, <1>6, <2>1
<1>8. pc = "handler" => Called <= elapsed
  BY <1>1, <1>2, <1>6, <1>7 DEF InCall, Places
<1>9. start \in Tick /\ kernel_start \in Tick /\ \A p \in Pcb : wall_start[p] \in Tick
  BY <1>1 DEF TypeOK
<1>10. c # NULL => Minus(TOD(d), start) = Ran + d
  BY <1>5, <1>7, <1>9 DEF Ran
<1>11. pc = "handler" => Minus(TOD(d), kernel_start) = Called + d
  BY <1>5, <1>8, <1>9 DEF Called
<1>12. \A p \in Pcb : Begun(p) => WallOf(p) <= elapsed
  BY <1>1 DEF ToldRight
<1>13. \A p \in Pcb : Begun(p) => Minus(TOD(d), wall_start[p]) = WallOf(p) + d
  BY <1>5, <1>9, <1>12 DEF WallOf
<1> QED
  BY <1>2, <1>3, <1>10, <1>11, <1>13

(* The longest gap between two reads of the clock.                         *)
LEMMA MaxGap == Max(Gap) \in Nat /\ \A d \in Gap : d <= Max(Gap)
<1> DEFINE T == {n \in Nat : \A S \in SUBSET Nat :
                   IsFiniteSet(S) /\ Cardinality(S) = n + 1 =>
                     \E x \in S : \A y \in S : x >= y}
<1>1. 0 \in T
  <2> SUFFICES ASSUME NEW S \in SUBSET Nat, IsFiniteSet(S), Cardinality(S) = 0 + 1
               PROVE  \E x \in S : \A y \in S : x >= y
    OBVIOUS
  <2>1. PICK x \in S : S = {x}
    <3>1. S # {}
      BY FS_EmptySet
    <3>2. PICK x \in S : TRUE
      BY <3>1
    <3>3. Cardinality(S \ {x}) = 0 /\ IsFiniteSet(S \ {x})
      BY FS_RemoveElement
    <3>4. S \ {x} = {}
      BY <3>3, FS_EmptySet
    <3> QED
      BY <3>4
  <2>2. x \in Nat
    OBVIOUS
  <2> QED
    BY <2>1, <2>2
<1>2. ASSUME NEW n \in Nat, n \in T PROVE n + 1 \in T
  <2> SUFFICES ASSUME NEW S \in SUBSET Nat, IsFiniteSet(S), Cardinality(S) = (n + 1) + 1
               PROVE  \E x \in S : \A y \in S : x >= y
    BY <1>2
  <2>1. S # {}
    BY FS_EmptySet
  <2>2. PICK x \in S : TRUE
    BY <2>1
  <2>3. Cardinality(S \ {x}) = n + 1 /\ IsFiniteSet(S \ {x})
    BY FS_RemoveElement
  <2>4. S \ {x} \in SUBSET Nat
    OBVIOUS
  <2>5. PICK y \in S \ {x} : \A z \in S \ {x} : y >= z
    BY <1>2, <2>3, <2>4
  <2>6. x \in Nat /\ y \in Nat
    OBVIOUS
  <2>7. CASE x >= y
    <3>1. \A z \in S : z \in Nat
      OBVIOUS
    <3>2. \A z \in S : x >= z
      BY <2>5, <2>6, <2>7, <3>1
    <3> QED
      BY <3>2
  <2>8. CASE y >= x
    BY <2>5, <2>6, <2>8
  <2> QED
    BY <2>6, <2>7, <2>8
<1>3. IsFiniteSet(Gap) /\ Gap \in SUBSET Nat /\ Gap # {}
  BY TimesAssumption
<1> DEFINE m == Cardinality(Gap) - 1
<1>4. m \in Nat /\ Cardinality(Gap) = m + 1
  <2>1. Cardinality(Gap) \in Nat /\ Cardinality(Gap) # 0
    BY <1>3, FS_CardinalityType, FS_EmptySet
  <2> QED
    BY <2>1
<1>5. m \in T
  <2> HIDE DEF T, m
  <2>1. \A i \in 0..(m - 1) : i \in T => i + 1 \in T
    BY <1>2
  <2>2. 0..m \subseteq T
    BY <1>1, <1>4, <2>1, UpTo
  <2> QED
    BY <1>4, <2>2
<1>6. \E x \in Gap : \A y \in Gap : x >= y
  BY <1>3, <1>4, <1>5
<1> QED
  BY <1>3, <1>6 DEF Max

-----------------------------------------------------------------------------
(***************************************************************************)
(* Charges.                                                                *)
(***************************************************************************)
USE DEF c

(* timerHandler, semp and scheduler charge what has passed since start.    *)
LEMMA TotalCharge ==
  ASSUME Inv, c # NULL, NEW d \in Nat, elapsed + d <= MAXTIME, ChargeTotal(d)
  PROVE  /\ total_time' \in [Pcb -> Tick]
         /\ \A p \in Pcb \ {c} : total_time'[p] = total_time[p]
         /\ total_time'[c] = total_time[c] + Ran + d
         /\ TotalOf(total_time') = TotalOf(total_time) + Ran + d
         /\ TotalOf(total_time) + Ran <= elapsed
<1>1. TypeOK /\ Charged
  BY DEF Inv
<1>2. Tick \subseteq Nat
  BY ConstantsType DEF Tick
<1>3. /\ c \in Pcb /\ total_time[c] + Ran <= elapsed /\ Ran \in Nat
      /\ total_time[c] \in Nat /\ elapsed \in Nat
  BY <1>1, <1>2, Within, Advance
<1>4. Minus(TOD(d), start) = Ran + d
  BY Advance
<1> DEFINE x == total_time[c] + (Ran + d)
<1>5. /\ total_time[c] \in Tick /\ Ran + d \in Tick /\ x < UINT /\ x \in Tick /\ x \in Nat
  BY <1>3, ConstantsType DEF Tick
<1>6. Plus(total_time[c], Ran + d) = x
  <2>1. Plus(total_time[c], Ran + d) =
          IF total_time[c] + (Ran + d) < UINT THEN total_time[c] + (Ran + d)
          ELSE total_time[c] + (Ran + d) - UINT
    BY <1>5, PlusNear
  <2> QED
    BY <1>5, <2>1
<1> HIDE DEF x
<1>7. total_time' = [total_time EXCEPT ![c] = x]
  BY <1>4, <1>6 DEF ChargeTotal
<1>8. total_time' \in [Pcb -> Tick] /\ total_time \in [Pcb -> Nat]
  BY <1>1, <1>2, <1>5, <1>7 DEF TypeOK
<1>9. total_time'[c] = x /\ \A p \in Pcb \ {c} : total_time'[p] = total_time[p]
  BY <1>1, <1>3, <1>7 DEF TypeOK
<1>10. TotalOf(total_time') = TotalOf(total_time) - total_time[c] + x
       /\ TotalOf(total_time) \in Nat
  BY <1>3, <1>5, <1>7, <1>8, TotalChange
<1>11. x = total_time[c] + Ran + d
  BY <1>3 DEF x
<1>12. TotalOf(total_time) + Ran <= elapsed
  BY <1>1 DEF Charged
<1>13. TotalOf(total_time') = TotalOf(total_time) + Ran + d
  BY <1>3, <1>10, <1>11
<1> QED
  BY <1>8, <1>9, <1>11, <1>12, <1>13

(* What a handler charges as kernel time is part of what is to be charged. *)
LEMMA KernelCharge ==
  ASSUME Inv, pc = "handler", NEW d \in Nat, elapsed + d <= MAXTIME, ChargeKernel(d)
  PROVE  /\ kernel_time' \in [Pcb -> Tick]
         /\ \A p \in Pcb \ {c} : kernel_time'[p] = kernel_time[p]
         /\ c \notin spoiled => kernel_time'[c] <= total_time[c] + Ran + d
<1>1. TypeOK /\ Places /\ InCall /\ KernelPart
  BY DEF Inv
<1>2. Tick \subseteq Nat
  BY ConstantsType DEF Tick
<1>3. /\ c # NULL /\ c \in Pcb /\ total_time[c] + Ran <= elapsed
      /\ Ran \in Nat /\ Called \in Nat /\ total_time[c] \in Nat /\ elapsed \in Nat
  BY <1>1, <1>2, Within, Advance DEF Places
<1>4. Minus(TOD(d), kernel_start) = Called + d /\ Called <= Ran
  BY <1>1, Advance DEF InCall
<1>5. kernel_time[c] \in Tick /\ kernel_time[c] \in Nat
  BY <1>1, <1>2, <1>3 DEF TypeOK
<1> DEFINE x == Plus(kernel_time[c], Called + d)
<1>6. x \in Tick
  <2>1. kernel_time[c] \in Int /\ Called + d \in Int
    BY <1>3, <1>5
  <2> QED
    BY <2>1, WrapType
<1>7. kernel_time' = [kernel_time EXCEPT ![c] = x]
  BY <1>4 DEF ChargeKernel
<1>8. ASSUME c \notin spoiled PROVE x <= total_time[c] + Ran + d
  <2>1. c \in Pcb \ (Free \cup spoiled)
    BY <1>3, <1>8 DEF Free
  <2>2. kernel_time[c] <= total_time[c] + 0
    BY <1>1, <2>1 DEF KernelPart
  <2>3. kernel_time[c] <= total_time[c]
    BY <1>3, <1>5, <2>2
  <2>4. kernel_time[c] + (Called + d) < UINT /\ Called + d \in Tick
    BY <1>3, <1>4, <1>5, <2>3, ConstantsType DEF Tick
  <2>5. x = IF kernel_time[c] + (Called + d) < UINT THEN kernel_time[c] + (Called + d)
            ELSE kernel_time[c] + (Called + d) - UINT
    BY <1>5, <2>4, PlusNear
  <2>6. x = kernel_time[c] + (Called + d)
    BY <2>4, <2>5
  <2> HIDE DEF x
  <2> QED
    BY <1>3, <1>4, <1>5, <2>3, <2>6
<1> HIDE DEF x
<1>9. kernel_time' \in [Pcb -> Tick] /\ kernel_time'[c] = x
      /\ \A p \in Pcb \ {c} : kernel_time'[p] = kernel_time[p]
  BY <1>1, <1>3, <1>6, <1>7 DEF TypeOK
<1> QED
  BY <1>8, <1>9

-----------------------------------------------------------------------------
(***************************************************************************)
(* Time passes, and what is known stays true.                              *)
(***************************************************************************)
\* the times since then are longer by what has passed
LEMMA Later ==
  ASSUME Inv, NEW d \in Nat, elapsed + d <= MAXTIME, elapsed' = elapsed + d, boot' = boot
  PROVE  /\ elapsed' \in 0..MAXTIME /\ elapsed \in Nat
         /\ c # NULL /\ start' = start => Ran' = Ran + d
         /\ \A p \in Pcb : Begun(p) /\ wall_start'[p] = wall_start[p] =>
              WallOf(p)' = WallOf(p) + d /\ WallOf(p)' <= elapsed'
<1>1. /\ elapsed \in Nat /\ elapsed + d \in 0..MAXTIME
      /\ TOD(d) = (boot + (elapsed + d) + 0) % UINT
      /\ c # NULL => Minus(TOD(d), start) = Ran + d
      /\ \A p \in Pcb : Begun(p) => Minus(TOD(d), wall_start[p]) = WallOf(p) + d
  BY Advance
<1>2. TOD(0)' = TOD(d)
  BY <1>1 DEF TOD
<1>3. Ran' = Minus(TOD(d), start')
  BY <1>2 DEF Ran, Minus
<1>4. \A p \in Pcb : WallOf(p)' = Minus(TOD(d), wall_start'[p])
  BY <1>2 DEF WallOf, Minus
<1>5. \A p \in Pcb : WallOf(p) \in Nat
  BY Within, ConstantsType DEF Tick
<1>6. \A p \in Pcb : Begun(p) => WallOf(p) <= elapsed
  BY DEF Inv, ToldRight
<1>7. \A p \in Pcb : Begun(p) /\ wall_start'[p] = wall_start[p] =>
        WallOf(p)' = WallOf(p) + d
  BY <1>1, <1>4
<1>8. \A p \in Pcb : Begun(p) /\ wall_start'[p] = wall_start[p] => WallOf(p)' <= elapsed'
  BY <1>1, <1>5, <1>6, <1>7
<1> QED
  BY <1>1, <1>3, <1>7, <1>8

(* What a process was told remains right while its CPU time grows, by no   *)
(* more than what passes.                                                  *)
LEMMA ToldLater ==
  ASSUME Inv, NEW d \in Nat, elapsed + d <= MAXTIME, elapsed' = elapsed + d, boot' = boot,
         NEW p \in Pcb \ Free, told[p].known, told'[p] = told[p],
         wall_start'[p] = wall_start[p],
         NEW e \in 0..d, CpuOf(p)' = CpuOf(p) + e
  PROVE  /\ told'[p].cpu <= CpuOf(p)'
         /\ CpuOf(p)' - told'[p].cpu <= WallOf(p)' - told'[p].wall + Max(Gap)
<1>1. /\ Begun(p) /\ told[p].cpu <= CpuOf(p)
      /\ CpuOf(p) - told[p].cpu <= WallOf(p) - told[p].wall + Max(Gap)
  BY DEF Inv, ToldRight
<1>2. WallOf(p)' = WallOf(p) + d
  BY <1>1, Later
<1>3. Tick \subseteq Int
  BY ConstantsType DEF Tick
<1>4. told[p].cpu \in Int /\ told[p].wall \in Int
  BY <1>3 DEF Inv, TypeOK, Told
<1>5. WallOf(p) \in Int /\ CpuOf(p) \in Int
  <2>1. p \in Pcb
    OBVIOUS
  <2>2. WallOf(p) \in Int /\ Ran \in Int
    BY <1>3, <2>1, Within
  <2>3. total_time[p] \in Int
    BY <2>1, Within
  <2> QED
    BY <2>2, <2>3 DEF CpuOf
<1>6. Max(Gap) \in Int
  BY MaxGap
<1>7. /\ told[p].cpu <= CpuOf(p) + e
      /\ (CpuOf(p) + e) - told[p].cpu <= (WallOf(p) + d) - told[p].wall + Max(Gap)
  BY <1>1, <1>4, <1>5, <1>6
<1> QED
  BY <1>2, <1>7

(* The current process, if there is one, keeps the CPU, and nobody is      *)
(* charged.                                                                *)
LEMMA Goes ==
  ASSUME Inv, NEW d \in Nat, elapsed + d <= MAXTIME, elapsed' = elapsed + d, boot' = boot,
         start' = start, currentPcb' = currentPcb, wall_start' = wall_start,
         NEW p, \A q \in Pcb \ {p} : told'[q] = told[q] /\ total_time'[q] = total_time[q],
         Pcb \ (Free' \cup {p}) \subseteq Pcb \ Free
  PROVE  /\ c # NULL => Ran' = Ran + d
         /\ \A q \in Pcb \ {p} :
              /\ Begun(q)' => WallOf(q)' <= elapsed'
              /\ q \notin Free' /\ told'[q].known =>
                   /\ Begun(q)'
                   /\ told'[q].cpu <= CpuOf(q)'
                   /\ CpuOf(q)' - told'[q].cpu <= WallOf(q)' - told'[q].wall + Max(Gap)
<1>1. c # NULL => Ran' = Ran + d
  BY Later
<1>2. TypeOK
  BY DEF Inv
<1>3. NULL \notin Pcb
  BY TimesAssumption
<1>4. \A q \in Pcb \ {p} : Begun(q)' <=> Begun(q)
  BY DEF Begun
<1>5. \A q \in Pcb \ {p} : Begun(q)' => WallOf(q)' <= elapsed'
  BY <1>4, Later
<1>6. ASSUME NEW q \in Pcb \ {p}, q \notin Free', told'[q].known
      PROVE  /\ Begun(q)'
             /\ told'[q].cpu <= CpuOf(q)'
             /\ CpuOf(q)' - told'[q].cpu <= WallOf(q)' - told'[q].wall + Max(Gap)
  <2>1. q \in Pcb \ Free /\ told[q].known /\ told'[q] = told[q]
        /\ wall_start'[q] = wall_start[q]
    BY <1>6
  <2>2. Begun(q)'
    BY <1>4, <2>1 DEF Inv, ToldRight
  <2> DEFINE e == IF q = c THEN d ELSE 0
  <2>3. e \in 0..d
    OBVIOUS
  <2>4. CpuOf(q)' = CpuOf(q) + e
    <3>1. total_time[q] \in Nat /\ Ran \in Nat
      BY Within, ConstantsType DEF Tick
    <3>2. CASE q = c
      <4>1. Ran' = Ran + d
        BY <1>1, <1>3, <3>2
      <4>2. CpuOf(q)' = total_time[q] + Ran' /\ CpuOf(q) = total_time[q] + Ran
        BY <3>2 DEF CpuOf
      <4> QED
        BY <3>1, <3>2, <4>1, <4>2
    <3>3. CASE q # c
      <4>1. CpuOf(q)' = total_time[q] + 0 /\ CpuOf(q) = total_time[q] + 0
        BY <3>3 DEF CpuOf
      <4> QED
        BY <3>1, <3>3, <4>1
    <3> QED
      BY <3>2, <3>3
  <2> HIDE DEF e
  <2> QED
    BY <2>1, <2>2, <2>3, <2>4, ToldLater
<1> QED
  BY <1>1, <1>5, <1>6

\* the same, with the sum, if nothing at all is changed
LEMMA GoesOn ==
  ASSUME Inv, NEW d \in Nat, elapsed + d <= MAXTIME, elapsed' = elapsed + d, boot' = boot,
         start' = start, currentPcb' = currentPcb, wall_start' = wall_start,
         told' = told, total_time' = total_time, Pcb \ Free' \subseteq Pcb \ Free
  PROVE  /\ c # NULL => Ran' = Ran + d
         /\ Charged' /\ ToldRight'
<1>1. NULL \notin Pcb
  BY TimesAssumption
<1>2. /\ c # NULL => Ran' = Ran + d
      /\ \A q \in Pcb \ {NULL} :
              /\ Begun(q)' => WallOf(q)' <= elapsed'
              /\ q \notin Free' /\ told'[q].known =>
                   /\ Begun(q)'
                   /\ told'[q].cpu <= CpuOf(q)'
                   /\ CpuOf(q)' - told'[q].cpu <= WallOf(q)' - told'[q].wall + Max(Gap)
  BY Goes
<1>3. ToldRight'
  BY <1>1, <1>2 DEF ToldRight
<1>4. TotalOf(total_time) \in Nat /\ Ran \in Nat /\ elapsed \in Nat
  BY Within, Advance, ConstantsType DEF Tick
<1>5. Charged'
  <2>1. TotalOf(total_time) + (IF c = NULL THEN 0 ELSE Ran) <= elapsed
    BY DEF Inv, Charged
  <2>2. CASE c = NULL
    <3>1. TotalOf(total_time) + 0 <= elapsed + d
      BY <1>4, <2>1, <2>2
    <3> QED
      BY <2>2, <3>1 DEF Charged
  <2>3. CASE c # NULL
    <3>1. TotalOf(total_time) + (Ran + d) <= elapsed + d
      BY <1>4, <2>1, <2>3
    <3> QED
      BY <1>2, <2>3, <3>1 DEF Charged
  <2> QED
    BY <2>2, <2>3
<1> QED
  BY <1>2, <1>3, <1>5

-----------------------------------------------------------------------------
(***************************************************************************)
(* Programs and interrupts.                                                *)
(***************************************************************************)
\* d may pass
LEMMA ElapseType ==
  ASSUME TypeOK, NEW d \in Nat, Elapse(d)
  PROVE  /\ elapsed' = elapsed + d /\ elapsed + d <= MAXTIME /\ elapsed' \in 0..MAXTIME
         /\ elapsed \in Nat
BY ConstantsType DEF TypeOK, Elapse

\* nothing passes
LEMMA Instant ==
  ASSUME TypeOK, elapsed' = elapsed
  PROVE  elapsed' = elapsed + 0 /\ elapsed + 0 <= MAXTIME /\ 0 \in Nat /\ elapsed \in Nat
BY ConstantsType DEF TypeOK

(* Two readings of the clock that differ are not 0 apart.                  *)
LEMMA RanSome ==
  ASSUME Inv, TOD(0) # start
  PROVE  Ran # 0
<1>1. TOD(0) \in Tick /\ start \in Tick
  <2>1. TypeOK /\ elapsed \in Nat /\ elapsed + 0 <= MAXTIME
    BY ConstantsType DEF Inv, TypeOK
  <2> QED
    BY <2>1, Reading DEF TypeOK
<1>2. Minus(TOD(0), start) = IF TOD(0) < start THEN TOD(0) - start + UINT ELSE TOD(0) - start
  BY <1>1, MinusNear
<1>3. ASSUME NEW x \in Tick, NEW y \in Tick, x # y
      PROVE  (IF x < y THEN x - y + UINT ELSE x - y) # 0
  BY <1>3, ConstantsType DEF Tick
<1> QED
  BY <1>1, <1>2, <1>3 DEF Ran

(* A process computes.                                                     *)
LEMMA ComputeInv ==
  ASSUME Inv, Compute
  PROVE  Inv'
<1>1. TypeOK /\ Places /\ InCall /\ KernelPart
  BY DEF Inv
<1>2. elapsed' = elapsed + 1 /\ elapsed + 1 <= MAXTIME /\ elapsed' \in 0..MAXTIME
  BY <1>1, ElapseType DEF Compute
<1>3. UNCHANGED <<pc, seen, times, queues, starts>> /\ pc \in {"user", "wait"}
  BY DEF Compute
<1>4. Free' = Free
  BY <1>3 DEF Free, queues
<1>5. Charged' /\ ToldRight'
  BY <1>2, <1>3, <1>4, GoesOn DEF seen, times, queues, starts
<1>6. TypeOK'
  BY <1>1, <1>2, <1>3 DEF TypeOK, seen, times, queues, starts
<1>7. Places' /\ InCall'
  BY <1>1, <1>3, <1>4 DEF Places, InCall, seen, queues
<1>8. KernelPart'
  BY <1>1, <1>3, <1>4 DEF KernelPart, seen, times, queues
<1> QED
  BY <1>5, <1>6, <1>7, <1>8 DEF Inv

(* sysHandler charges the process up to its call.                          *)
LEMMA SysCallInv ==
  ASSUME Inv, SysCall
  PROVE  Inv'
<1>1. TypeOK /\ Places /\ InCall /\ KernelPart
  BY DEF Inv
<1>2. /\ UNCHANGED <<elapsed, boot, start, seen, times, queues>> /\ pc = "user"
      /\ kernel_start' = TOD(0) /\ pc' = "handler" /\ TOD(0) # start
  BY DEF SysCall
<1>3. elapsed' = elapsed + 0 /\ elapsed + 0 <= MAXTIME /\ elapsed \in Nat
  BY <1>1, <1>2, Instant
<1>4. Free' = Free
  BY <1>2 DEF Free, queues
<1>5. Charged' /\ ToldRight'
  BY <1>2, <1>3, <1>4, GoesOn DEF seen, times, queues
<1>6. TOD(0) \in Tick
  BY <1>1, <1>3, Reading
<1>7. TypeOK'
  BY <1>1, <1>2, <1>6 DEF TypeOK, seen, times, queues
<1>8. InCall'
  <2>1. TOD(0)' = TOD(0)
    BY <1>2 DEF TOD
  <2>2. Ran' = Ran /\ Ran # 0 /\ Ran \in Nat
    BY <1>2, <2>1, RanSome, Within, ConstantsType DEF Ran, Minus, Tick
  <2>3. Called' = Minus(TOD(0), TOD(0))
    BY <1>2, <2>1 DEF Called, Minus
  <2>4. Minus(TOD(0), TOD(0)) = 0
    <3>1. Minus(TOD(0), TOD(0)) = IF TOD(0) < TOD(0) THEN TOD(0) - TOD(0) + UINT
                                                     ELSE TOD(0) - TOD(0)
      BY <1>6, MinusNear
    <3>2. \A x \in Tick : (IF x < x THEN x - x + UINT ELSE x - x) = 0
      BY ConstantsType DEF Tick
    <3> QED
      BY <1>6, <3>1, <3>2
  <2> QED
    BY <2>2, <2>3, <2>4 DEF InCall
<1>9. Places'
  BY <1>1, <1>2, <1>4 DEF Places, seen, queues
<1>10. KernelPart'
  BY <1>1, <1>2, <1>4 DEF KernelPart, seen, times, queues
<1> QED
  BY <1>5, <1>7, <1>8, <1>9, <1>10 DEF Inv

(* A trap is passed up: the address of getTODLO is added to kernel_time.   *)
LEMMA PassUpInv ==
  ASSUME Inv, PassUp
  PROVE  Inv'
<1>1. TypeOK /\ Places /\ InCall /\ KernelPart
  BY DEF Inv
<1>2. /\ UNCHANGED <<elapsed, boot, start, total_time, wall_start, pc, told, used, queues>>
      /\ kernel_start' = TOD(0) /\ pc = "user" /\ spoiled' = spoiled \cup {c}
  BY DEF PassUp
<1>3. elapsed' = elapsed + 0 /\ elapsed + 0 <= MAXTIME /\ elapsed \in Nat
  BY <1>1, <1>2, Instant
<1>4. Free' = Free
  BY <1>2 DEF Free, queues
<1>5. Charged' /\ ToldRight'
  BY <1>2, <1>3, <1>4, GoesOn DEF queues
<1>6. TOD(0) \in Tick /\ c \in Pcb /\ Tick \subseteq Int
  BY <1>1, <1>2, <1>3, Reading, ConstantsType DEF Places, TypeOK, Tick
<1> DEFINE x == Plus(kernel_time[c], Minus(HANDLER, TOD(0)))
<1>7. x \in Tick
  <2>1. HANDLER \in Int /\ TOD(0) \in Int /\ kernel_time[c] \in Int
    BY <1>1, <1>6, ConstantsType DEF TypeOK
  <2>2. Minus(HANDLER, TOD(0)) \in Int
    BY <1>6, <2>1, WrapType
  <2> QED
    BY <2>1, <2>2, WrapType
<1>8. kernel_time' = [kernel_time EXCEPT ![c] = x]
  BY DEF PassUp
<1> HIDE DEF x
<1>9. kernel_time' \in [Pcb -> Tick] /\ \A p \in Pcb \ {c} : kernel_time'[p] = kernel_time[p]
  BY <1>1, <1>7, <1>8 DEF TypeOK
<1>10. TypeOK'
  BY <1>1, <1>2, <1>6, <1>9 DEF TypeOK, queues
<1>11. InCall' /\ Places'
  BY <1>1, <1>2, <1>4 DEF InCall, Places, queues
<1>12. KernelPart'
  <2>1. c \in used /\ c \in spoiled'
    BY <1>1, <1>2, <1>6 DEF Places, Free
  <2>2. \A p \in Pcb \ used' : kernel_time'[p] = 0
    BY <1>1, <1>2, <1>9, <2>1 DEF KernelPart
  <2>3. \A p \in Pcb \ (Free' \cup spoiled') : p # c /\ p \in Pcb \ (Free \cup spoiled)
    BY <1>2, <1>4
  <2>4. \A p \in Pcb \ (Free' \cup spoiled') : kernel_time'[p] <= total_time'[p] + 0
    BY <1>1, <1>2, <1>9, <2>3 DEF KernelPart
  <2> QED
    BY <1>2, <2>2, <2>4 DEF KernelPart, queues
<1> QED
  BY <1>5, <1>10, <1>11, <1>12 DEF Inv

(* deviceHandler charges nobody.                                           *)
LEMMA DeviceInterruptInv ==
  ASSUME Inv, DeviceInterrupt
  PROVE  Inv'
<1>1. TypeOK /\ Places /\ InCall /\ KernelPart
  BY DEF Inv
<1>2. /\ UNCHANGED <<elapsed, currentPcb, seen, times, starts>>
      /\ pc \in {"user", "wait"} /\ pc' = "scheduler"
  BY DEF DeviceInterrupt
<1>3. PICK P \in SUBSET blocked : ready' = ready \cup P /\ blocked' = blocked \ P
  BY DEF DeviceInterrupt, Wakes, Woken
<1>4. elapsed' = elapsed + 0 /\ elapsed + 0 <= MAXTIME /\ elapsed \in Nat
  BY <1>1, <1>2, Instant
<1>5. Free' = Free
  BY <1>2, <1>3 DEF Free
<1>6. Charged' /\ ToldRight'
  BY <1>2, <1>4, <1>5, GoesOn DEF seen, times, starts
<1>7. TypeOK'
  BY <1>1, <1>2, <1>3 DEF TypeOK, seen, times, starts
<1>8. InCall' /\ Places'
  BY <1>1, <1>2, <1>3, <1>5 DEF InCall, Places, seen
<1>9. KernelPart'
  <2>1. \A p \in Pcb \ used' : kernel_time'[p] = 0
    BY <1>1, <1>2 DEF KernelPart, seen, times
  <2>2. Ran' = Ran /\ Ran \in Nat /\ Tick \subseteq Nat
    <3>1. TOD(0)' = TOD(0)
      BY <1>2 DEF TOD, starts
    <3> QED
      BY <1>2, <3>1, Within, ConstantsType DEF Ran, Minus, starts, Tick
  <2>3. ASSUME NEW p \in Pcb \ (Free' \cup spoiled')
        PROVE  kernel_time'[p] <= total_time'[p] + (IF p = c THEN Ran ELSE 0)
    <3>1. kernel_time[p] <= total_time[p] + 0
      BY <1>1, <1>2, <1>5 DEF KernelPart, seen
    <3>2. kernel_time[p] \in Nat /\ total_time[p] \in Nat
      BY <1>1, <2>2 DEF TypeOK
    <3>3. kernel_time[p] <= total_time[p] + (IF p = c THEN Ran ELSE 0)
      BY <2>2, <3>1, <3>2
    <3> QED
      BY <1>2, <3>3 DEF times
  <2> QED
    BY <1>2, <2>1, <2>2, <2>3 DEF KernelPart
<1> QED
  BY <1>6, <1>7, <1>8, <1>9 DEF Inv

(* scheduler() waits or halts with no process.                             *)
LEMMA IdleInv ==
  ASSUME Inv, Idle
  PROVE  Inv'
<1>1. TypeOK /\ Places /\ InCall /\ KernelPart
  BY DEF Inv
<1>2. /\ UNCHANGED <<elapsed, seen, times, queues, starts>>
      /\ pc = "scheduler" /\ c = NULL /\ pc' = "wait"
  BY DEF Idle
<1>3. elapsed' = elapsed + 0 /\ elapsed + 0 <= MAXTIME /\ elapsed \in Nat
  BY <1>1, <1>2, Instant
<1>4. Free' = Free
  BY <1>2 DEF Free, queues
<1>5. Charged' /\ ToldRight'
  BY <1>2, <1>3, <1>4, GoesOn DEF seen, times, queues, starts
<1>6. TypeOK'
  BY <1>1, <1>2 DEF TypeOK, seen, times, queues, starts
<1>7. InCall' /\ Places'
  BY <1>1, <1>2, <1>4 DEF InCall, Places, seen, queues
<1>8. KernelPart'
  <2>1. NULL \notin Pcb
    BY TimesAssumption
  <2>2. \A p \in Pcb : p # c
    BY <1>2, <2>1
  <2>3. \A p \in Pcb \ (Free \cup spoiled) : kernel_time[p] <= total_time[p] + 0
    BY <1>1, <2>2 DEF KernelPart
  <2> QED
    BY <1>1, <1>2, <1>4, <2>3 DEF KernelPart, seen, times, queues
<1> QED
  BY <1>5, <1>6, <1>7, <1>8 DEF Inv

-----------------------------------------------------------------------------
(***************************************************************************)
(* System calls.                                                           *)
(***************************************************************************)
(* A call that does not take the CPU away, whatever it does to the other   *)
(* PCBs: the types, and the kernel time of those in use before.            *)
LEMMA ServedStep ==
  ASSUME Inv, NEW e \in Nat, Served(e)
  PROVE  /\ e \in Nat /\ elapsed + e <= MAXTIME /\ elapsed' = elapsed + e
         /\ elapsed' \in 0..MAXTIME /\ elapsed \in Nat
         /\ c \in Pcb /\ c # NULL /\ c \notin Free /\ pc = "handler" /\ pc' = "scheduler"
         /\ UNCHANGED <<wall_start, currentPcb, boot, start, kernel_start>>
         /\ kernel_time' \in [Pcb -> Tick]
         /\ \A p \in Pcb \ {c} : kernel_time'[p] = kernel_time[p]
         /\ Ran' = Ran + e /\ Ran' \in Nat
         /\ c \notin spoiled => kernel_time'[c] <= total_time[c] + Ran'
<1>1. TypeOK /\ Places
  BY DEF Inv
<1>2. elapsed' = elapsed + e /\ elapsed + e <= MAXTIME /\ elapsed' \in 0..MAXTIME
      /\ elapsed \in Nat
  BY <1>1, ElapseType DEF Served
<1>3. /\ pc = "handler" /\ pc' = "scheduler" /\ ChargeKernel(e)
      /\ UNCHANGED <<wall_start, currentPcb, boot, start, kernel_start>>
  BY DEF Served, starts
<1>4. c \in Pcb /\ c # NULL /\ c \notin Free
  BY <1>1, <1>3 DEF Places, TypeOK, Free
<1>5. /\ kernel_time' \in [Pcb -> Tick]
      /\ \A p \in Pcb \ {c} : kernel_time'[p] = kernel_time[p]
      /\ c \notin spoiled => kernel_time'[c] <= total_time[c] + Ran + e
  BY <1>2, <1>3, KernelCharge
<1>6. Ran' = Ran + e
  BY <1>2, <1>3, <1>4, Later
<1>7. Ran \in Nat /\ total_time[c] \in Nat
  BY <1>4, Within, ConstantsType DEF Tick
<1>8. Ran' \in Nat /\ total_time[c] + Ran + e = total_time[c] + Ran'
  BY <1>6, <1>7
<1> QED
  BY <1>2, <1>3, <1>4, <1>5, <1>6, <1>8

(* KernelPart after such a call, if no PCB is new.                         *)
LEMMA ServedKernel ==
  ASSUME Inv, NEW e \in Nat, Served(e), total_time' = total_time,
         UNCHANGED <<used, spoiled>>, Pcb \ Free' \subseteq Pcb \ Free
  PROVE  KernelPart'
<1>1. /\ c \in Pcb /\ c \notin Free /\ pc' = "scheduler" /\ currentPcb' = currentPcb
      /\ \A p \in Pcb \ {c} : kernel_time'[p] = kernel_time[p]
      /\ c \notin spoiled => kernel_time'[c] <= total_time[c] + Ran'
      /\ pc = "handler"
  BY ServedStep
<1>2. KernelPart /\ c \in used /\ TypeOK
  BY <1>1 DEF Inv, Places
<1>3. \A p \in Pcb \ used' : kernel_time'[p] = 0
  BY <1>1, <1>2 DEF KernelPart
<1>4. ASSUME NEW p \in Pcb \ (Free' \cup spoiled')
      PROVE  kernel_time'[p] <= total_time'[p] + (IF p = c THEN Ran' ELSE 0)
  <2>1. p \in Pcb \ (Free \cup spoiled)
    BY <1>4
  <2>2. CASE p = c
    BY <1>1, <2>1, <2>2
  <2>3. CASE p # c
    <3>1. kernel_time[p] <= total_time[p] + 0
      BY <1>2, <2>1, <2>3 DEF KernelPart
    <3>2. kernel_time'[p] <= total_time'[p] + 0
      BY <1>1, <2>1, <2>3, <3>1
    <3> QED
      BY <2>3, <3>2
  <2> QED
    BY <2>2, <2>3
<1> QED
  BY <1>1, <1>3, <1>4 DEF KernelPart

(* SYS2 frees processes that are ready, and may wake a parent.             *)
LEMMA TerminateInv ==
  ASSUME Inv, NEW D \in SUBSET Pcb, Terminate(D)
  PROVE  Inv'
<1>1. PICK d \in Gap : Served(d)
  BY DEF Terminate
<1>2. TypeOK /\ Places /\ d \in Nat
  BY TimesAssumption DEF Inv
<1>3. /\ elapsed + d <= MAXTIME /\ elapsed' = elapsed + d
      /\ elapsed' \in 0..MAXTIME /\ pc' = "scheduler" /\ c # NULL
      /\ UNCHANGED <<wall_start, currentPcb, boot, start, kernel_start>>
      /\ kernel_time' \in [Pcb -> Tick]
  BY <1>1, <1>2, ServedStep
<1>4. UNCHANGED <<total_time, told, used, spoiled>>
  BY DEF Terminate, seen
<1>10. PICK P \in SUBSET blocked :
         D \subseteq ready \cup P /\ ready' = (ready \cup P) \ D /\ blocked' = blocked \ P
  BY DEF Terminate, Ends, Woken
<1>5. Pcb \ Free' \subseteq Pcb \ Free
  BY <1>3, <1>10 DEF Free
<1>6. Charged' /\ ToldRight'
  BY <1>2, <1>3, <1>4, <1>5, GoesOn
<1>7. KernelPart'
  BY <1>1, <1>2, <1>4, <1>5, ServedKernel
<1>8. TypeOK'
  BY <1>2, <1>3, <1>4, <1>10 DEF TypeOK
<1>9. Places' /\ InCall'
  BY <1>2, <1>3, <1>4, <1>5, <1>10 DEF Places, InCall
<1> QED
  BY <1>6, <1>7, <1>8, <1>9 DEF Inv

(* SYS4 and any other call that returns, whom it wakes included.           *)
LEMMA OtherInv ==
  ASSUME Inv, Other
  PROVE  Inv'
<1>1. PICK d \in Gap : Served(d)
  BY DEF Other
<1>2. TypeOK /\ Places /\ d \in Nat
  BY TimesAssumption DEF Inv
<1>3. /\ elapsed + d <= MAXTIME /\ elapsed' = elapsed + d
      /\ elapsed' \in 0..MAXTIME /\ pc' = "scheduler" /\ c # NULL
      /\ UNCHANGED <<wall_start, currentPcb, boot, start, kernel_start>>
      /\ kernel_time' \in [Pcb -> Tick]
  BY <1>1, <1>2, ServedStep
<1>4. UNCHANGED <<total_time, told, used, spoiled>>
  BY DEF Other, seen
<1>5. PICK P \in SUBSET blocked : ready' = ready \cup P /\ blocked' = blocked \ P
  BY DEF Other, Wakes, Woken
<1>6. Free' = Free
  BY <1>3, <1>5 DEF Free
<1>7. Charged' /\ ToldRight'
  BY <1>2, <1>3, <1>4, <1>6, GoesOn
<1>8. KernelPart'
  BY <1>1, <1>2, <1>4, <1>6, ServedKernel
<1>9. TypeOK'
  BY <1>2, <1>3, <1>4, <1>5 DEF TypeOK
<1>10. Places' /\ InCall'
  BY <1>2, <1>3, <1>4, <1>5, <1>6 DEF Places, InCall
<1> QED
  BY <1>7, <1>8, <1>9, <1>10 DEF Inv

(* A PCB that was never used has no kernel time; the total time is reset.  *)
LEMMA CreateInv ==
  ASSUME Inv, NEW p \in Pcb, Create(p)
  PROVE  Inv'
<1>1. PICK d \in Gap : Served(d)
  BY DEF Create
<1>2. TypeOK /\ Places /\ KernelPart /\ d \in Nat
  BY TimesAssumption DEF Inv
<1>3. /\ elapsed + d <= MAXTIME /\ elapsed' = elapsed + d /\ elapsed \in Nat
      /\ elapsed' \in 0..MAXTIME /\ pc' = "scheduler" /\ c # NULL /\ c \in Pcb
      /\ UNCHANGED <<wall_start, currentPcb, boot, start, kernel_start>>
      /\ kernel_time' \in [Pcb -> Tick]
      /\ \A q \in Pcb \ {c} : kernel_time'[q] = kernel_time[q]
      /\ c \notin spoiled => kernel_time'[c] <= total_time[c] + Ran'
      /\ Ran' = Ran + d
  BY <1>1, <1>2, ServedStep
<1>4. /\ p \in Free /\ ready' = ready \cup {p} /\ UNCHANGED blocked
      /\ total_time' = [total_time EXCEPT ![p] = 0]
      /\ told' = [told EXCEPT ![p] = NotTold]
      /\ used' = used \cup {p} /\ spoiled' = spoiled \cup ({p} \cap used)
  BY DEF Create
<1>5. Free' = Free \ {p} /\ p # c /\ p \notin ready \cup blocked
  BY <1>3, <1>4 DEF Free
<1>6. 0 \in Tick /\ 0 \in Nat /\ Tick \subseteq Nat
  BY ConstantsType DEF Tick
<1>7. NotTold \in Told /\ ~NotTold.known
  BY <1>6 DEF NotTold, Told
<1>8. TypeOK'
  BY <1>2, <1>3, <1>4, <1>6, <1>7 DEF TypeOK
<1>9. /\ total_time'[p] = 0 /\ ~told'[p].known
      /\ \A q \in Pcb \ {p} : told'[q] = told[q] /\ total_time'[q] = total_time[q]
  BY <1>2, <1>4, <1>7 DEF TypeOK
<1>10. ToldRight'
  <2>1. Pcb \ (Free' \cup {p}) \subseteq Pcb \ Free
    BY <1>5
  <2>2. \A q \in Pcb \ {p} :
              /\ Begun(q)' => WallOf(q)' <= elapsed'
              /\ q \notin Free' /\ told'[q].known =>
                   /\ Begun(q)'
                   /\ told'[q].cpu <= CpuOf(q)'
                   /\ CpuOf(q)' - told'[q].cpu <= WallOf(q)' - told'[q].wall + Max(Gap)
    BY <1>2, <1>3, <1>9, <2>1, Goes
  <2>3. ~Begun(p)'
    BY <1>3, <1>5, <1>9 DEF Begun
  <2> QED
    BY <1>9, <2>2, <2>3 DEF ToldRight
<1>11. Charged'
  <2>1. total_time \in [Pcb -> Nat]
    BY <1>2, <1>6 DEF TypeOK
  <2>2. /\ TotalOf(total_time') = TotalOf(total_time) - total_time[p] + 0
        /\ TotalOf(total_time) \in Nat /\ total_time[p] \in Nat
    BY <1>4, <1>6, <2>1, TotalChange
  <2>3. Ran \in Nat
    BY <1>6, Within
  <2>4. TotalOf(total_time) + Ran <= elapsed
    BY <1>3 DEF Inv, Charged
  <2>5. TotalOf(total_time') + Ran' <= elapsed'
    BY <1>2, <1>3, <2>2, <2>3, <2>4
  <2> QED
    BY <1>3, <2>5 DEF Charged
<1>12. KernelPart'
  <2>1. c \in used
    BY <1>2, <1>3 DEF Places, Free
  <2>2. \A q \in Pcb \ used' : kernel_time'[q] = 0
    BY <1>2, <1>3, <1>4, <2>1 DEF KernelPart
  <2>3. ASSUME NEW q \in Pcb \ (Free' \cup spoiled')
        PROVE  kernel_time'[q] <= total_time'[q] + (IF q = c THEN Ran' ELSE 0)
    <3>1. CASE q = c
      <4>1. total_time'[q] = total_time[q] /\ q \notin spoiled
        BY <1>4, <1>5, <1>9, <2>3, <3>1
      <4> QED
        BY <1>3, <3>1, <4>1
    <3>2. CASE q = p
      <4>1. q \notin used
        BY <1>4, <2>3, <3>2
      <4>2. kernel_time'[q] = 0
        BY <1>2, <1>3, <1>5, <3>2, <4>1 DEF KernelPart
      <4> QED
        BY <1>5, <1>9, <3>2, <4>2
    <3>3. CASE q # c /\ q # p
      <4>1. q \in Pcb \ (Free \cup spoiled)
        BY <1>4, <1>5, <2>3, <3>3
      <4>2. kernel_time[q] <= total_time[q] + 0
        BY <1>2, <3>3, <4>1 DEF KernelPart
      <4>3. kernel_time'[q] <= total_time'[q] + 0
        BY <1>3, <1>9, <3>3, <4>1, <4>2
      <4> QED
        BY <3>3, <4>3
    <3> QED
      BY <3>1, <3>2, <3>3
  <2> QED
    BY <1>3, <2>2, <2>3 DEF KernelPart
<1>13. Places' /\ InCall'
  BY <1>2, <1>3, <1>4, <1>5 DEF Places, InCall
<1> QED
  BY <1>8, <1>10, <1>11, <1>12, <1>13 DEF Inv

(* What GETTIME tells: the kernel time it adds to the user time is the one *)
(* it has taken from the total time.                                       *)
LEMMA GetTimeTells ==
  ASSUME Inv, GetTime
  PROVE  \E d1, d2, d3 \in Gap :
           /\ Served(d1 + d2 + d3) /\ elapsed + (d1 + d2 + d3) <= MAXTIME
           /\ d1 \in Nat /\ d2 \in Nat /\ d3 \in Nat
           /\ Begun(c) => WallOf(c) + (d1 + d2) \in Tick
           /\ total_time[c] + Ran + d1 \in Tick /\ c \in Pcb
           /\ told' = [told EXCEPT ![c] = [cpu   |-> total_time[c] + Ran + d1,
                                           wall  |-> WallOf(c) + (d1 + d2),
                                           known |-> TRUE]]
<1> DEFINE kernel == Plus(Minus(TOD(0), kernel_start), kernel_time[c])
           user(d1) == Minus(Plus(total_time[c], Minus(TOD(d1), start)), kernel)
           wall(d1, d2) == Minus(TOD(d1 + d2), wall_start[c])
<1>1. PICK d1, d2, d3 \in Gap :
        /\ Served(d1 + d2 + d3)
        /\ told' = [told EXCEPT ![c] = [cpu   |-> Plus(user(d1), kernel),
                                        wall  |-> wall(d1, d2),
                                        known |-> TRUE]]
  BY DEF GetTime
<1>2. TypeOK /\ Places
  BY DEF Inv
<1>3. d1 \in Nat /\ d2 \in Nat /\ d3 \in Nat
  BY TimesAssumption
<1>4. d1 + d2 + d3 \in Nat /\ d1 + d2 \in Nat
  BY <1>3
<1>5. /\ elapsed + (d1 + d2 + d3) <= MAXTIME /\ elapsed \in Nat
      /\ c \in Pcb /\ c # NULL
  BY <1>1, <1>4, ServedStep
<1>6. elapsed + d1 <= MAXTIME /\ elapsed + (d1 + d2) <= MAXTIME
  BY <1>3, <1>5, ConstantsType
<1>7. Minus(TOD(d1), start) = Ran + d1
  BY <1>3, <1>5, <1>6, Advance
<1>8. Begun(c) /\ wall(d1, d2) = WallOf(c) + (d1 + d2)
  <2>1. Begun(c)
    BY DEF Begun
  <2> QED
    BY <1>4, <1>5, <1>6, <2>1, Advance
<1>9. Tick \subseteq Nat /\ Tick \subseteq Int
  BY ConstantsType DEF Tick
<1>10. /\ total_time[c] \in Tick /\ kernel_time[c] \in Tick /\ total_time[c] \in Nat
       /\ kernel_time[c] \in Int /\ Called \in Int /\ Ran \in Nat /\ WallOf(c) \in Nat
  BY <1>2, <1>5, <1>9, Within DEF TypeOK
<1>11. kernel \in Tick
  BY <1>10, WrapType DEF Called
<1>12. total_time[c] + Ran <= elapsed
  BY <1>5, Within
<1> DEFINE x == total_time[c] + (Ran + d1)
<1>13. x \in Tick /\ Ran + d1 \in Tick /\ x < UINT
  BY <1>3, <1>5, <1>6, <1>10, <1>12, ConstantsType DEF Tick
<1>14. Plus(total_time[c], Ran + d1) = x
  <2>1. Plus(total_time[c], Ran + d1) =
          IF total_time[c] + (Ran + d1) < UINT THEN total_time[c] + (Ran + d1)
          ELSE total_time[c] + (Ran + d1) - UINT
    BY <1>10, <1>13, PlusNear
  <2> QED
    BY <1>13, <2>1
<1>15. x = total_time[c] + Ran + d1
  BY <1>3, <1>10
<1> HIDE DEF x, kernel
<1>16. Plus(user(d1), kernel) = x
  <2>1. user(d1) = Minus(x, kernel)
    BY <1>7, <1>14
  <2> QED
    BY <1>11, <1>13, <2>1, PlusMinus
<1>17. WallOf(c) + (d1 + d2) \in Tick
  <2>1. WallOf(c) <= elapsed
    BY <1>2, <1>5, <1>8 DEF Inv, ToldRight
  <2> QED
    BY <1>4, <1>6, <1>5, <1>10, <2>1, ConstantsType DEF Tick
<1>18. told' = [told EXCEPT ![c] = [cpu |-> x, wall |-> WallOf(c) + (d1 + d2), known |-> TRUE]]
  BY <1>1, <1>8, <1>16
<1> QED
  BY <1>1, <1>3, <1>5, <1>13, <1>15, <1>17, <1>18

(* gettime tells the times, after a charge of its own.                     *)
LEMMA GetTimeInv ==
  ASSUME Inv, GetTime
  PROVE  Inv'
<1>1. PICK d1, d2, d3 \in Gap :
           /\ Served(d1 + d2 + d3) /\ elapsed + (d1 + d2 + d3) <= MAXTIME
           /\ d1 \in Nat /\ d2 \in Nat /\ d3 \in Nat
           /\ Begun(c) => WallOf(c) + (d1 + d2) \in Tick
           /\ total_time[c] + Ran + d1 \in Tick /\ c \in Pcb
           /\ told' = [told EXCEPT ![c] = [cpu   |-> total_time[c] + Ran + d1,
                                           wall  |-> WallOf(c) + (d1 + d2),
                                           known |-> TRUE]]
  BY GetTimeTells
<1> DEFINE d == d1 + d2 + d3
<1>2. TypeOK /\ Places /\ d \in Nat /\ d1 + d2 \in Nat /\ Begun(c)
  BY <1>1 DEF Inv, Begun
<1>3. /\ elapsed + d <= MAXTIME /\ elapsed' = elapsed + d /\ elapsed \in Nat
      /\ elapsed' \in 0..MAXTIME /\ pc' = "scheduler" /\ c # NULL /\ c \in Pcb
      /\ UNCHANGED <<wall_start, currentPcb, boot, start, kernel_start>>
      /\ kernel_time' \in [Pcb -> Tick]
  BY <1>1, <1>2, ServedStep
<1>4. UNCHANGED <<total_time, ready, blocked, used, spoiled>>
  BY DEF GetTime
<1>5. Free' = Free
  BY <1>3, <1>4 DEF Free
<1> DEFINE r == [cpu   |-> total_time[c] + Ran + d1,
                 wall  |-> WallOf(c) + (d1 + d2),
                 known |-> TRUE]
<1>6. r \in Told
  BY <1>1, <1>2 DEF Told
<1>7. told' \in [Pcb -> Told] /\ told'[c] = r /\ \A q \in Pcb \ {c} : told'[q] = told[q]
  BY <1>1, <1>2, <1>6 DEF TypeOK
<1>8. TypeOK'
  BY <1>2, <1>3, <1>4, <1>7 DEF TypeOK
<1>9. KernelPart'
  BY <1>1, <1>2, <1>4, <1>5, ServedKernel
<1>10. Places' /\ InCall'
  BY <1>2, <1>3, <1>4, <1>5 DEF Places, InCall
<1>11. TotalOf(total_time) \in Nat /\ Ran \in Nat /\ total_time[c] \in Nat /\ WallOf(c) \in Nat
  BY <1>3, Within, ConstantsType DEF Tick
<1>12. /\ Ran' = Ran + d
       /\ \A q \in Pcb \ {c} :
              /\ Begun(q)' => WallOf(q)' <= elapsed'
              /\ q \notin Free' /\ told'[q].known =>
                   /\ Begun(q)'
                   /\ told'[q].cpu <= CpuOf(q)'
                   /\ CpuOf(q)' - told'[q].cpu <= WallOf(q)' - told'[q].wall + Max(Gap)
  BY <1>2, <1>3, <1>4, <1>5, <1>7, Goes
<1>13. Charged'
  <2>1. TotalOf(total_time) + Ran <= elapsed
    BY <1>3 DEF Inv, Charged
  <2>2. TotalOf(total_time) + Ran' <= elapsed'
    BY <1>2, <1>3, <1>11, <1>12, <2>1
  <2> QED
    BY <1>3, <1>4, <2>2 DEF Charged
<1>14. /\ Begun(c)' /\ WallOf(c)' = WallOf(c) + d /\ WallOf(c)' <= elapsed'
  BY <1>2, <1>3, Later DEF Begun
<1>15. d2 <= Max(Gap) /\ Max(Gap) \in Nat
  BY MaxGap
<1>16. /\ told'[c].cpu <= CpuOf(c)'
       /\ CpuOf(c)' - told'[c].cpu <= WallOf(c)' - told'[c].wall + Max(Gap)
  <2>1. CpuOf(c)' = total_time[c] + (Ran + d)
    BY <1>3, <1>4, <1>12 DEF CpuOf
  <2>2. told'[c].cpu = total_time[c] + Ran + d1 /\ told'[c].wall = WallOf(c) + (d1 + d2)
    BY <1>7
  <2>3. total_time[c] + Ran + d1 <= total_time[c] + (Ran + d)
    BY <1>1, <1>11
  <2>4. (total_time[c] + (Ran + d)) - (total_time[c] + Ran + d1)
          <= (WallOf(c) + d) - (WallOf(c) + (d1 + d2)) + Max(Gap)
    BY <1>1, <1>11, <1>15
  <2> QED
    BY <1>14, <2>1, <2>2, <2>3, <2>4
<1> HIDE DEF d, r
<1>17. ToldRight'
  BY <1>3, <1>12, <1>14, <1>16 DEF ToldRight
<1> QED
  BY <1>8, <1>9, <1>10, <1>13, <1>17 DEF Inv

-----------------------------------------------------------------------------
(***************************************************************************)
(* A process leaves the CPU.                                               *)
(***************************************************************************)
(* It is charged up to the moment it leaves.                               *)
LEMMA Leaves ==
  ASSUME Inv, c # NULL, Ran # 0, NEW d \in Nat, elapsed + d <= MAXTIME,
         elapsed' = elapsed + d, boot' = boot, currentPcb' = NULL, ChargeTotal(d),
         told' = told, wall_start' = wall_start, Free' = Free
  PROVE  /\ Charged' /\ ToldRight' /\ total_time' \in [Pcb -> Tick]
         /\ c \in Pcb /\ \A p \in Pcb \ {c} : total_time'[p] = total_time[p]
         /\ total_time'[c] = total_time[c] + Ran + d /\ Ran \in Nat /\ total_time[c] \in Nat
<1>1. /\ total_time' \in [Pcb -> Tick]
      /\ \A p \in Pcb \ {c} : total_time'[p] = total_time[p]
      /\ total_time'[c] = total_time[c] + Ran + d
      /\ TotalOf(total_time') = TotalOf(total_time) + Ran + d
      /\ TotalOf(total_time) + Ran <= elapsed
  BY TotalCharge
<1>2. c \in Pcb /\ Ran \in Nat /\ total_time[c] \in Nat /\ TotalOf(total_time) \in Nat
      /\ elapsed \in Nat /\ NULL \notin Pcb
  BY Within, Advance, ConstantsType, TimesAssumption DEF Tick
<1>3. Charged'
  <2>1. TotalOf(total_time') + 0 <= elapsed'
    BY <1>1, <1>2
  <2> QED
    BY <2>1 DEF Charged
<1>4. total_time'[c] # 0
  BY <1>1, <1>2
<1>5. \A p \in Pcb : Begun(p)' => Begun(p)
  BY <1>1, <1>2 DEF Begun
<1>6. \A p \in Pcb : Begun(p)' => WallOf(p)' <= elapsed'
  BY <1>5, Later
<1>7. ASSUME NEW p \in Pcb \ Free', told'[p].known
      PROVE  /\ Begun(p)'
             /\ told'[p].cpu <= CpuOf(p)'
             /\ CpuOf(p)' - told'[p].cpu <= WallOf(p)' - told'[p].wall + Max(Gap)
  <2>1. p \in Pcb \ Free /\ told[p].known /\ told'[p] = told[p] /\ wall_start'[p] = wall_start[p]
    BY <1>7
  <2>2. Begun(p)
    BY <2>1 DEF Inv, ToldRight
  <2>3. Begun(p)'
    BY <1>1, <1>4, <2>1, <2>2 DEF Begun
  <2> DEFINE e == IF p = c THEN d ELSE 0
  <2>4. e \in 0..d
    OBVIOUS
  <2>5. CpuOf(p)' = CpuOf(p) + e
    <3>1. CpuOf(p)' = total_time'[p] + 0
      BY <1>2 DEF CpuOf
    <3>2. CASE p = c
      <4>1. CpuOf(p) = total_time[c] + Ran
        BY <3>2 DEF CpuOf
      <4> QED
        BY <1>1, <1>2, <3>1, <3>2, <4>1
    <3>3. CASE p # c
      <4>1. CpuOf(p) = total_time[p] + 0 /\ total_time'[p] = total_time[p]
        BY <1>1, <3>3 DEF CpuOf
      <4>2. total_time[p] \in Nat
        BY Within
      <4> QED
        BY <3>1, <3>3, <4>1, <4>2
    <3> QED
      BY <3>2, <3>3
  <2> HIDE DEF e
  <2> QED
    BY <2>1, <2>3, <2>4, <2>5, ToldLater
<1>8. ToldRight'
  BY <1>6, <1>7 DEF ToldRight
<1> QED
  BY <1>1, <1>2, <1>3, <1>8

(* semp charges the process before it blocks it.                           *)
LEMMA BlockInv ==
  ASSUME Inv, Block
  PROVE  Inv'
<1>1. PICK d1, d2 \in Gap : Elapse(d1 + d2) /\ ChargeKernel(d1) /\ ChargeTotal(d1 + d2)
  BY DEF Block
<1>2. TypeOK /\ Places /\ KernelPart /\ InCall /\ d1 \in Nat /\ d2 \in Nat /\ d1 + d2 \in Nat
  BY TimesAssumption DEF Inv
<1>3. /\ pc = "handler" /\ blocked' = blocked \cup {c} /\ currentPcb' = NULL
      /\ pc' = "scheduler" /\ UNCHANGED <<wall_start, ready, told, used, spoiled>>
      /\ UNCHANGED <<boot, start, kernel_start>>
  BY DEF Block, seen, starts
<1>4. /\ elapsed' = elapsed + (d1 + d2) /\ elapsed + (d1 + d2) <= MAXTIME
      /\ elapsed' \in 0..MAXTIME /\ elapsed \in Nat
  BY <1>1, <1>2, ElapseType
<1>5. elapsed + d1 <= MAXTIME
  BY <1>2, <1>4, ConstantsType
<1>6. c # NULL /\ c \in Pcb /\ Ran # 0 /\ NULL \notin Pcb
  BY <1>2, <1>3, TimesAssumption DEF Places, InCall, TypeOK
<1>7. Free' = Free
  BY <1>3, <1>6 DEF Free
<1>8. /\ Charged' /\ ToldRight' /\ total_time' \in [Pcb -> Tick]
      /\ \A p \in Pcb \ {c} : total_time'[p] = total_time[p]
      /\ total_time'[c] = total_time[c] + Ran + (d1 + d2)
      /\ Ran \in Nat /\ total_time[c] \in Nat
  BY <1>1, <1>2, <1>3, <1>4, <1>6, <1>7, Leaves
<1>9. /\ kernel_time' \in [Pcb -> Tick]
      /\ \A p \in Pcb \ {c} : kernel_time'[p] = kernel_time[p]
      /\ c \notin spoiled => kernel_time'[c] <= total_time[c] + Ran + d1
  BY <1>1, <1>2, <1>3, <1>5, KernelCharge
<1>10. TypeOK'
  BY <1>2, <1>3, <1>4, <1>6, <1>8, <1>9 DEF TypeOK
<1>11. Places' /\ InCall'
  BY <1>2, <1>3, <1>6, <1>7 DEF Places, InCall, TypeOK
<1>12. KernelPart'
  <2>1. c \in used
    BY <1>2, <1>6 DEF Places, Free
  <2>2. \A p \in Pcb \ used' : kernel_time'[p] = 0
    BY <1>2, <1>3, <1>9, <2>1 DEF KernelPart
  <2>3. ASSUME NEW p \in Pcb \ (Free' \cup spoiled') PROVE kernel_time'[p] <= total_time'[p]
    <3>1. p \in Pcb \ (Free \cup spoiled)
      BY <1>3, <1>7
    <3>2. CASE p = c
      <4>1. kernel_time'[c] <= total_time[c] + Ran + d1 /\ kernel_time'[c] \in Nat
        BY <1>6, <1>9, <3>1, <3>2, ConstantsType DEF Tick
      <4> QED
        BY <1>2, <1>8, <3>2, <4>1
    <3>3. CASE p # c
      <4>1. kernel_time[p] <= total_time[p] + 0
        BY <1>2, <3>1, <3>3 DEF KernelPart
      <4>2. total_time[p] \in Nat
        BY <3>1, Within
      <4> QED
        BY <1>8, <1>9, <3>1, <3>3, <4>1, <4>2
    <3> QED
      BY <3>2, <3>3
  <2>4. \A p \in Pcb : total_time'[p] \in Nat /\ p # NULL
    BY <1>6, <1>8, ConstantsType DEF Tick
  <2>5. \A p \in Pcb \ (Free' \cup spoiled') : kernel_time'[p] <= total_time'[p] + 0
    BY <2>3, <2>4
  <2> QED
    BY <1>3, <2>2, <2>4, <2>5 DEF KernelPart
<1> QED
  BY <1>8, <1>10, <1>11, <1>12 DEF Inv

(* timerHandler charges the process it interrupts.                         *)
LEMMA TimerInterruptInv ==
  ASSUME Inv, TimerInterrupt
  PROVE  Inv'
<1>1. TypeOK /\ Places /\ KernelPart /\ InCall
  BY DEF Inv
<1>2. /\ pc = "user" /\ TOD(0) # start /\ ChargeTotal(0) /\ ready' = ready \cup {c}
      /\ currentPcb' = NULL /\ pc' = "scheduler"
      /\ UNCHANGED <<elapsed, kernel_time, wall_start, blocked, told, used, spoiled>>
      /\ UNCHANGED <<boot, start, kernel_start>>
  BY DEF TimerInterrupt, seen, starts
<1>3. elapsed' = elapsed + 0 /\ elapsed + 0 <= MAXTIME /\ elapsed \in Nat /\ 0 \in Nat
  BY <1>1, <1>2, Instant
<1>4. c # NULL /\ c \in Pcb /\ Ran # 0 /\ NULL \notin Pcb
  BY <1>1, <1>2, RanSome, TimesAssumption DEF Places, TypeOK
<1>5. Free' = Free
  BY <1>2, <1>4 DEF Free
<1>6. /\ Charged' /\ ToldRight' /\ total_time' \in [Pcb -> Tick]
      /\ \A p \in Pcb \ {c} : total_time'[p] = total_time[p]
      /\ total_time'[c] = total_time[c] + Ran + 0
      /\ Ran \in Nat /\ total_time[c] \in Nat
  BY <1>2, <1>3, <1>4, <1>5, Leaves
<1>7. TypeOK'
  BY <1>1, <1>2, <1>4, <1>6 DEF TypeOK
<1>8. Places' /\ InCall'
  BY <1>1, <1>2, <1>4, <1>5 DEF Places, InCall, TypeOK
<1>9. KernelPart'
  <2>1. ASSUME NEW p \in Pcb \ (Free' \cup spoiled') PROVE kernel_time'[p] <= total_time'[p] + 0
    <3>1. p \in Pcb \ (Free \cup spoiled)
      BY <1>2, <1>5
    <3>2. kernel_time[p] <= total_time[p] + 0
      BY <1>1, <1>2, <3>1 DEF KernelPart
    <3>3. total_time[p] \in Nat /\ kernel_time[p] \in Nat
      BY <1>1, <3>1, ConstantsType DEF TypeOK, Tick
    <3>4. total_time'[p] \in Nat /\ total_time[p] <= total_time'[p]
      BY <1>6, <3>1, <3>3
    <3> QED
      BY <1>2, <3>2, <3>3, <3>4
  <2>2. \A p \in Pcb : p # NULL
    BY <1>4
  <2> QED
    BY <1>1, <1>2, <2>1, <2>2 DEF KernelPart
<1> QED
  BY <1>6, <1>7, <1>8, <1>9 DEF Inv

(* SYS2 on itself: the process is gone, with what it was not charged for.  *)
LEMMA ExitInv ==
  ASSUME Inv, NEW D \in SUBSET Pcb, Exit(D)
  PROVE  Inv'
<1>1. TypeOK /\ Places /\ KernelPart /\ InCall
  BY DEF Inv
<1>2. /\ pc = "handler" /\ currentPcb' = NULL /\ pc' = "scheduler"
      /\ UNCHANGED <<elapsed, told, used, spoiled, total_time, kernel_time,
                     wall_start, boot, start, kernel_start>>
  BY DEF Exit, seen, times, starts
<1>12. PICK P \in SUBSET blocked :
         D \subseteq ready \cup P /\ ready' = (ready \cup P) \ D /\ blocked' = blocked \ P
  BY DEF Exit, Ends, Woken
<1>3. elapsed' = elapsed + 0 /\ elapsed + 0 <= MAXTIME /\ elapsed \in Nat /\ 0 \in Nat
  BY <1>1, <1>2, Instant
<1>4. c # NULL /\ c \in Pcb /\ NULL \notin Pcb
  BY <1>1, <1>2, TimesAssumption DEF Places, TypeOK
<1>5. Free \cup {c} \subseteq Free'
  BY <1>1, <1>2, <1>4, <1>12 DEF Free, Places
<1>6. Ran \in Nat /\ TotalOf(total_time) \in Nat /\ \A p \in Pcb : total_time[p] \in Nat
  BY Within, ConstantsType DEF Tick
<1>7. Charged'
  <2>1. TotalOf(total_time) + Ran <= elapsed
    BY <1>4 DEF Inv, Charged
  <2>2. TotalOf(total_time) + 0 <= elapsed
    BY <1>3, <1>6, <2>1
  <2> QED
    BY <1>2, <2>2 DEF Charged
<1>8. ToldRight'
  <2>1. \A p \in Pcb : Begun(p)' => Begun(p)
    BY <1>2, <1>4 DEF Begun
  <2>2. \A p \in Pcb : Begun(p)' => WallOf(p)' <= elapsed'
    BY <1>2, <1>3, <2>1, Later
  <2>3. ASSUME NEW p \in Pcb \ Free', told'[p].known
        PROVE  /\ Begun(p)'
               /\ told'[p].cpu <= CpuOf(p)'
               /\ CpuOf(p)' - told'[p].cpu <= WallOf(p)' - told'[p].wall + Max(Gap)
    <3>1. p \in Pcb \ Free /\ p # c /\ told[p].known /\ told'[p] = told[p]
          /\ wall_start'[p] = wall_start[p]
      BY <1>2, <1>5, <2>3
    <3>2. Begun(p)
      BY <3>1 DEF Inv, ToldRight
    <3>3. Begun(p)'
      BY <1>2, <3>1, <3>2 DEF Begun
    <3>4. CpuOf(p)' = CpuOf(p) + 0 /\ 0 \in 0..0
      <4>1. CpuOf(p)' = total_time[p] + 0 /\ CpuOf(p) = total_time[p] + 0
        BY <1>2, <1>4, <3>1 DEF CpuOf
      <4> QED
        BY <1>6, <4>1
    <3> QED
      BY <1>2, <1>3, <3>1, <3>3, <3>4, ToldLater
  <2> QED
    BY <2>2, <2>3 DEF ToldRight
<1>9. TypeOK'
  BY <1>1, <1>2, <1>12 DEF TypeOK
<1>10. Places' /\ InCall'
  BY <1>1, <1>2, <1>4, <1>5, <1>12 DEF Places, InCall, TypeOK
<1>11. KernelPart'
  <2>1. \A p \in Pcb \ (Free' \cup spoiled') : p # NULL /\ kernel_time[p] <= total_time[p] + 0
    BY <1>1, <1>2, <1>4, <1>5 DEF KernelPart
  <2> QED
    BY <1>1, <1>2, <2>1 DEF KernelPart
<1> QED
  BY <1>7, <1>8, <1>9, <1>10, <1>11 DEF Inv

-----------------------------------------------------------------------------
(***************************************************************************)
(* The scheduler.                                                          *)
(***************************************************************************)
\* a reading and itself, and a later one
LEMMA SinceReading ==
  ASSUME TypeOK, NEW d \in Nat, elapsed + d <= MAXTIME
  PROVE  /\ Minus(TOD(d), TOD(d)) = 0
         /\ Minus(TOD(d), TOD(0)) = d
         /\ TOD(d) \in Tick /\ TOD(0) \in Tick
<1>1. TOD(d) \in Tick /\ TOD(0) \in Tick /\ TOD(d) = Plus(TOD(0), d)
  BY Reading
<1>2. ASSUME NEW x \in Tick PROVE Minus(x, x) = 0
  <2>1. Minus(x, x) = IF x < x THEN x - x + UINT ELSE x - x
    BY MinusNear
  <2>2. (IF x < x THEN x - x + UINT ELSE x - x) = 0
    BY ConstantsType DEF Tick
  <2> QED
    BY <2>1, <2>2
<1>3. 0 + d < UINT
  BY ConstantsType DEF TypeOK
<1>4. Minus(Plus(TOD(0), d), TOD(0)) = 0 + d
  BY <1>1, <1>2, <1>3, DistanceGrows
<1> QED
  BY <1>1, <1>2, <1>4

(* The current process is charged and start moves on.                      *)
LEMMA ResumeInv ==
  ASSUME Inv, Resume
  PROVE  Inv'
<1>1. TypeOK /\ Places /\ KernelPart /\ InCall
  BY DEF Inv
<1>2. PICK d \in Gap : Elapse(d) /\ start' = TOD(d)
  BY DEF Resume
<1>3. /\ pc = "scheduler" /\ c # NULL /\ ChargeTotal(0) /\ pc' = "user"
      /\ UNCHANGED <<boot, kernel_start, kernel_time, wall_start, told, used, spoiled,
                     currentPcb, ready, blocked>>
  BY DEF Resume, seen, queues
<1>4. /\ elapsed' = elapsed + d /\ elapsed + d <= MAXTIME /\ elapsed' \in 0..MAXTIME
      /\ elapsed \in Nat /\ d \in Nat
  <2>1. d \in Nat
    BY TimesAssumption
  <2> QED
    BY <1>1, <1>2, <2>1, ElapseType
<1>5. elapsed + 0 <= MAXTIME /\ 0 \in Nat
  BY <1>4, ConstantsType
<1>6. c \in Pcb /\ c \notin Free /\ NULL \notin Pcb
  BY <1>1, <1>3, TimesAssumption DEF TypeOK, Free
<1>7. Free' = Free
  BY <1>3 DEF Free
<1>8. Ran \in Nat /\ TotalOf(total_time) \in Nat /\ \A p \in Pcb : total_time[p] \in Nat
  BY Within, ConstantsType DEF Tick
<1>9. /\ total_time' \in [Pcb -> Tick]
      /\ \A p \in Pcb \ {c} : total_time'[p] = total_time[p]
      /\ total_time'[c] = total_time[c] + Ran
      /\ TotalOf(total_time') = TotalOf(total_time) + Ran
      /\ TotalOf(total_time) + Ran <= elapsed
  <2>1. /\ total_time' \in [Pcb -> Tick]
        /\ \A p \in Pcb \ {c} : total_time'[p] = total_time[p]
        /\ total_time'[c] = total_time[c] + Ran + 0
        /\ TotalOf(total_time') = TotalOf(total_time) + Ran + 0
        /\ TotalOf(total_time) + Ran <= elapsed
    BY <1>3, <1>5, TotalCharge
  <2> QED
    BY <1>6, <1>8, <2>1
<1>10. Ran' = 0 /\ TOD(d) \in Tick
  <2>1. TOD(0)' = TOD(d)
    BY <1>1, <1>3, <1>4, Reading DEF TOD
  <2>2. Minus(TOD(d), TOD(d)) = 0 /\ TOD(d) \in Tick
    BY <1>1, <1>4, SinceReading
  <2> QED
    BY <1>2, <2>1, <2>2 DEF Ran, Minus
<1>11. TypeOK'
  BY <1>1, <1>2, <1>3, <1>4, <1>9, <1>10 DEF TypeOK
<1>12. Places' /\ InCall'
  BY <1>1, <1>3, <1>7 DEF Places, InCall
<1>13. Charged'
  <2>1. TotalOf(total_time') + 0 <= elapsed'
    BY <1>4, <1>8, <1>9
  <2> QED
    BY <1>3, <1>10, <2>1 DEF Charged
<1>14. KernelPart'
  <2>1. ASSUME NEW p \in Pcb \ (Free' \cup spoiled') PROVE kernel_time'[p] <= total_time'[p] + 0
    <3>1. p \in Pcb \ (Free \cup spoiled)
      BY <1>3, <1>7
    <3>2. CASE p = c
      <4>1. kernel_time[p] <= total_time[p] + Ran
        BY <1>1, <1>3, <3>1, <3>2 DEF KernelPart
      <4>2. total_time'[p] = total_time[p] + Ran /\ total_time[p] \in Nat
        BY <1>8, <1>9, <3>1, <3>2
      <4>3. total_time'[p] + 0 = total_time[p] + Ran
        BY <1>8, <4>2
      <4> QED
        BY <1>3, <4>1, <4>3
    <3>3. CASE p # c
      <4>1. kernel_time[p] <= total_time[p] + 0
        BY <1>1, <3>1, <3>3 DEF KernelPart
      <4> QED
        BY <1>3, <1>9, <3>1, <3>3, <4>1
    <3> QED
      BY <3>2, <3>3
  <2> QED
    BY <1>1, <1>3, <2>1 DEF KernelPart
<1>15. ToldRight'
  <2>1. \A p \in Pcb : Begun(p)' => Begun(p)
    BY <1>3, <1>9 DEF Begun
  <2>2. \A p \in Pcb : Begun(p)' => WallOf(p)' <= elapsed'
    BY <1>3, <1>4, <2>1, Later
  <2>3. ASSUME NEW p \in Pcb \ Free', told'[p].known
        PROVE  /\ Begun(p)'
               /\ told'[p].cpu <= CpuOf(p)'
               /\ CpuOf(p)' - told'[p].cpu <= WallOf(p)' - told'[p].wall + Max(Gap)
    <3>1. p \in Pcb \ Free /\ told[p].known /\ told'[p] = told[p]
          /\ wall_start'[p] = wall_start[p]
      BY <1>3, <1>7, <2>3
    <3>2. Begun(p)
      BY <3>1 DEF Inv, ToldRight
    <3>3. Begun(p)'
      BY <1>3, <1>9, <3>1, <3>2 DEF Begun
    <3>4. CpuOf(p)' = CpuOf(p) + 0
      <4>1. CASE p = c
        <5>1. CpuOf(p)' = total_time'[p] + 0 /\ CpuOf(p) = total_time[p] + Ran
          BY <1>3, <1>10, <4>1 DEF CpuOf
        <5> QED
          BY <1>6, <1>8, <1>9, <4>1, <5>1
      <4>2. CASE p # c
        <5>1. CpuOf(p)' = total_time[p] + 0 /\ CpuOf(p) = total_time[p] + 0
          BY <1>3, <1>9, <3>1, <4>2 DEF CpuOf
        <5>2. total_time[p] \in Nat
          BY <1>8, <3>1
        <5> QED
          BY <5>1, <5>2
      <4> QED
        BY <4>1, <4>2
    <3>5. 0 \in 0..d
      BY <1>4
    <3> QED
      BY <1>3, <1>4, <3>1, <3>3, <3>4, <3>5, ToldLater
  <2> QED
    BY <2>2, <2>3 DEF ToldRight
<1> QED
  BY <1>11, <1>12, <1>13, <1>14, <1>15 DEF Inv

(* A process that is dispatched for the first time gets wall_start; which  *)
(* time is the first is told by total_time.                                *)
LEMMA DispatchInv ==
  ASSUME Inv, NEW p \in Pcb, Dispatch(p)
  PROVE  Inv'
<1>1. TypeOK /\ Places /\ KernelPart /\ InCall
  BY DEF Inv
<1>2. PICK d \in Gap :
        /\ Elapse(d)
        /\ wall_start' = IF total_time[p] = 0 THEN [wall_start EXCEPT ![p] = TOD(d)]
                                              ELSE wall_start
  BY DEF Dispatch
<1>3. /\ pc = "scheduler" /\ c = NULL /\ p \in ready /\ currentPcb' = p
      /\ ready' = ready \ {p} /\ start' = TOD(0) /\ pc' = "user"
      /\ UNCHANGED <<boot, kernel_start, total_time, kernel_time, blocked, told, used, spoiled>>
  BY DEF Dispatch, seen
<1>4. /\ elapsed' = elapsed + d /\ elapsed + d <= MAXTIME /\ elapsed' \in 0..MAXTIME
      /\ elapsed \in Nat /\ d \in Nat
  <2>1. d \in Nat
    BY TimesAssumption
  <2> QED
    BY <1>1, <1>2, <2>1, ElapseType
<1>5. NULL \notin Pcb /\ p # NULL
  BY TimesAssumption
<1>6. Free' = Free
  BY <1>3, <1>5 DEF Free
<1>7. TotalOf(total_time) \in Nat /\ \A q \in Pcb : total_time[q] \in Nat
  BY Within
<1>8. TOD(0)' = TOD(d) /\ TOD(d) \in Tick /\ TOD(0) \in Tick
      /\ Minus(TOD(d), TOD(d)) = 0 /\ Minus(TOD(d), TOD(0)) = d
  BY <1>1, <1>3, <1>4, Reading, SinceReading DEF TOD
<1>9. Ran' = d
  BY <1>3, <1>8 DEF Ran, Minus
<1>10. /\ wall_start' \in [Pcb -> Tick]
       /\ \A q \in Pcb : q # p \/ total_time[p] # 0 => wall_start'[q] = wall_start[q]
       /\ total_time[p] = 0 => wall_start'[p] = TOD(d)
  BY <1>1, <1>2, <1>8 DEF TypeOK
<1>11. TypeOK'
  BY <1>1, <1>3, <1>4, <1>8, <1>10 DEF TypeOK
<1>12. Places' /\ InCall'
  BY <1>1, <1>3, <1>5, <1>6 DEF Places, InCall
<1>13. Charged'
  <2>1. TotalOf(total_time) + 0 <= elapsed
    BY <1>3 DEF Inv, Charged
  <2>2. TotalOf(total_time) + d <= elapsed'
    BY <1>4, <1>7, <2>1
  <2> QED
    BY <1>3, <1>5, <1>9, <2>2 DEF Charged
<1>14. KernelPart'
  <2>1. \A q \in Pcb \ (Free' \cup spoiled') : kernel_time'[q] <= total_time'[q] + 0
    BY <1>1, <1>3, <1>5, <1>6 DEF KernelPart
  <2> QED
    BY <1>1, <1>3, <2>1 DEF KernelPart
<1>15. ToldRight'
  <2>1. ASSUME NEW q \in Pcb, Begun(q)' PROVE WallOf(q)' <= elapsed'
    <3>1. CASE Begun(q)
      <4>1. wall_start'[q] = wall_start[q]
        BY <1>3, <1>5, <1>10, <3>1 DEF Begun
      <4> QED
        BY <1>3, <1>4, <3>1, <4>1, Later
    <3>2. CASE ~Begun(q)
      <4>1. q = p /\ total_time[p] = 0
        BY <1>3, <2>1, <3>2 DEF Begun
      <4>2. WallOf(q)' = Minus(TOD(d), TOD(d))
        BY <1>8, <1>10, <4>1 DEF WallOf, Minus
      <4> QED
        BY <1>4, <1>8, <4>2
    <3> QED
      BY <3>1, <3>2
  <2>2. ASSUME NEW q \in Pcb \ Free', told'[q].known
        PROVE  /\ Begun(q)'
               /\ told'[q].cpu <= CpuOf(q)'
               /\ CpuOf(q)' - told'[q].cpu <= WallOf(q)' - told'[q].wall + Max(Gap)
    <3>1. q \in Pcb \ Free /\ told[q].known /\ told'[q] = told[q]
      BY <1>3, <1>6, <2>2
    <3>2. Begun(q)
      BY <3>1 DEF Inv, ToldRight
    <3>3. Begun(q)' /\ wall_start'[q] = wall_start[q]
      BY <1>3, <1>5, <1>10, <3>1, <3>2 DEF Begun
    <3> DEFINE e == IF q = p THEN d ELSE 0
    <3>4. e \in 0..d
      BY <1>4
    <3>5. CpuOf(q)' = CpuOf(q) + e
      <4>1. CpuOf(q) = total_time[q] + 0 /\ total_time[q] \in Nat
        BY <1>3, <1>5, <1>7, <3>1 DEF CpuOf
      <4>2. CpuOf(q)' = total_time[q] + e
        BY <1>3, <1>9 DEF CpuOf
      <4> QED
        BY <1>4, <4>1, <4>2
    <3> HIDE DEF e
    <3> QED
      BY <1>3, <1>4, <3>1, <3>3, <3>4, <3>5, ToldLater
  <2> QED
    BY <2>1, <2>2 DEF ToldRight
<1> QED
  BY <1>11, <1>12, <1>13, <1>14, <1>15 DEF Inv

-----------------------------------------------------------------------------
(***************************************************************************)
(* The invariant and what follows from it.                                 *)
(***************************************************************************)
\* nothing is charged yet
LEMMA InitInv == Init => Inv
<1> SUFFICES ASSUME Init PROVE Inv
  OBVIOUS
<1>1. PICK p \in Pcb : ready = {p}
  BY DEF Init
<1>2. /\ elapsed = 0 /\ boot \in Tick /\ start = 0 /\ kernel_start = 0 /\ wall_start = Zeros
      /\ total_time = Zeros /\ kernel_time = Zeros /\ c = NULL /\ blocked = {}
      /\ pc = "scheduler" /\ told = [q \in Pcb |-> NotTold] /\ used = ready /\ spoiled = {}
  BY ConstantsType DEF Init
<1>3. 0 \in Tick /\ Zeros \in [Pcb -> Tick] /\ \A q \in Pcb : Zeros[q] = 0
  BY ConstantsType DEF Zeros
<1>4. NotTold \in Told /\ ~NotTold.known /\ NULL \notin Pcb
  BY <1>3, TimesAssumption DEF NotTold, Told
<1>5. TypeOK
  BY <1>1, <1>2, <1>3, <1>4, ConstantsType DEF TypeOK
<1>6. Places /\ InCall
  BY <1>1, <1>2, <1>4 DEF Places, InCall, Free
<1>7. Charged
  BY <1>2, TotalZeros DEF Charged
<1>8. KernelPart
  <2>1. \A q \in Pcb : q # c
    BY <1>2, <1>4
  <2>2. \A q \in Pcb : kernel_time[q] = 0 /\ total_time[q] + 0 = 0
    BY <1>2, <1>3
  <2> QED
    BY <2>1, <2>2 DEF KernelPart
<1>9. ToldRight
  BY <1>2, <1>3, <1>4 DEF ToldRight, Begun
<1> QED
  BY <1>5, <1>6, <1>7, <1>8, <1>9 DEF Inv

(* Nothing changes.                                                        *)
LEMMA StutterInv == Inv /\ UNCHANGED vars => Inv'
<1> SUFFICES ASSUME Inv, UNCHANGED vars PROVE Inv'
  OBVIOUS
<1>1. TypeOK /\ Places /\ KernelPart /\ InCall
  BY DEF Inv
<1>2. UNCHANGED <<elapsed, boot, start, kernel_start, total_time, kernel_time, wall_start,
                  currentPcb, ready, blocked, pc, told, used, spoiled>>
  BY DEF vars, starts, times, queues, seen
<1>3. elapsed' = elapsed + 0 /\ elapsed + 0 <= MAXTIME /\ elapsed \in Nat /\ 0 \in Nat
  BY <1>1, <1>2, Instant
<1>4. Free' = Free /\ Ran' = Ran /\ Called' = Called
  BY <1>2 DEF Free, Ran, Called, TOD, Minus
<1>5. Charged' /\ ToldRight'
  BY <1>2, <1>3, <1>4, GoesOn
<1>6. TypeOK'
  BY <1>1, <1>2 DEF TypeOK
<1>7. Places' /\ InCall' /\ KernelPart'
  BY <1>1, <1>2, <1>4 DEF Places, InCall, KernelPart
<1> QED
  BY <1>5, <1>6, <1>7 DEF Inv

(* The invariant is inductive.                                             *)
LEMMA InvNext == Inv /\ [Next]_vars => Inv'
BY ComputeInv, SysCallInv, CreateInv, TerminateInv, OtherInv, GetTimeInv, BlockInv, ExitInv,
   PassUpInv, DeviceInterruptInv, TimerInterruptInv, ResumeInv, DispatchInv, IdleInv,
   StutterInv DEF Next

(* The invariant holds in every reachable state.                           *)
LEMMA Invariant == Spec => []Inv
BY InitInv, InvNext, PTL DEF Spec

(* No moment is charged to two processes, nor twice to one, though every   *)
(* charge is made of two reads of the clock in different handlers (semp,   *)
(* timerHandler, scheduler).                                               *)
THEOREM ChargedOnceCorrect == Spec => []ChargedOnce
<1>1. Inv => ChargedOnce
  BY Within DEF ChargedOnce, TotalOf
<1> QED
  BY <1>1, Invariant, PTL

(* Kernel time is part of the total time: their difference, the user time, *)
(* does not wrap (sysHandler and scheduler), but for the PCBs that the     *)
(* property excepts.                                                       *)
THEOREM KernelWithinTotalCorrect == Spec => []KernelWithinTotal
<1>1. ASSUME Inv, NEW p \in Pcb \ (Free \cup spoiled), ~(p = c /\ pc = "scheduler")
      PROVE  kernel_time[p] <= total_time[p]
  <2>1. kernel_time[p] <= total_time[p] + 0
    BY <1>1 DEF Inv, KernelPart
  <2>2. total_time[p] \in Nat /\ kernel_time[p] \in Int
    BY <1>1, ConstantsType DEF Inv, TypeOK, Tick
  <2> QED
    BY <2>1, <2>2
<1>2. Inv => KernelWithinTotal
  BY <1>1 DEF KernelWithinTotal
<1> QED
  BY <1>2, Invariant, PTL

(* Of two GETTIMEs of a process the second tells no less CPU time, and no  *)
(* more than passed on the wall clock, up to one gap between two reads     *)
(* (gettime in systemcalls.c).                                             *)
THEOREM CpuWithinWallCorrect == Spec => CpuWithinWall
<1> DEFINE Within2 == \A p \in Pcb :
       told[p].known /\ told'[p].known =>
         /\ told'[p].cpu >= told[p].cpu
         /\ told'[p].cpu - told[p].cpu <= told'[p].wall - told[p].wall + Max(Gap)
<1>1. ASSUME Inv, [Next]_vars PROVE [Within2]_vars
  <2> SUFFICES ASSUME Next, NEW p \in Pcb, told[p].known, told'[p].known
               PROVE  /\ told'[p].cpu >= told[p].cpu
                      /\ told'[p].cpu - told[p].cpu
                           <= told'[p].wall - told[p].wall + Max(Gap)
    BY <1>1
  <2>1. TypeOK /\ Max(Gap) \in Nat
    BY <1>1, MaxGap DEF Inv
  <2>2. told[p].cpu \in Nat /\ told[p].wall \in Nat
    BY <2>1, ConstantsType DEF TypeOK, Told, Tick
  <2>3. CASE told'[p] = told[p]
    <3>1. told[p].cpu >= told[p].cpu
          /\ told[p].cpu - told[p].cpu <= told[p].wall - told[p].wall + Max(Gap)
      BY <2>1, <2>2
    <3> QED
      BY <2>3, <3>1
  <2>4. CASE told'[p] # told[p]
    <3>1. ASSUME told' = told PROVE FALSE
      BY <2>4, <3>1
    <3>2. ASSUME NEW q \in Pcb, Create(q) PROVE FALSE
      BY <2>1, <2>4, <3>2 DEF Create, NotTold, TypeOK
    <3>3. GetTime
      BY <3>1, <3>2 DEF Next, Compute, SysCall, Terminate, Other, Block, Exit, PassUp,
                        DeviceInterrupt, TimerInterrupt, Resume, Dispatch, Idle, seen
    <3>4. PICK d1, d2, d3 \in Gap :
            /\ d1 \in Nat /\ d2 \in Nat /\ d3 \in Nat /\ c \in Pcb
            /\ told' = [told EXCEPT ![c] = [cpu   |-> total_time[c] + Ran + d1,
                                            wall  |-> WallOf(c) + (d1 + d2),
                                            known |-> TRUE]]
      BY <1>1, <3>3, GetTimeTells
    <3>5. p = c
      BY <2>1, <2>4, <3>4 DEF TypeOK
    <3>6. told'[c].cpu = total_time[c] + Ran + d1 /\ told'[c].wall = WallOf(c) + (d1 + d2)
      BY <2>1, <3>4 DEF TypeOK
    <3>7. c \in Pcb \ Free
      BY <3>4 DEF Free
    <3>8. /\ told[c].cpu <= CpuOf(c)
          /\ CpuOf(c) - told[c].cpu <= WallOf(c) - told[c].wall + Max(Gap)
      BY <1>1, <3>5, <3>7 DEF Inv, ToldRight
    <3>9. CpuOf(c) = total_time[c] + Ran
      BY DEF CpuOf
    <3>10. total_time[c] \in Nat /\ Ran \in Nat /\ WallOf(c) \in Nat
      BY <1>1, <3>4, Within, ConstantsType DEF Tick
    <3>11. /\ total_time[c] + Ran + d1 >= told[c].cpu
           /\ (total_time[c] + Ran + d1) - told[c].cpu
                <= (WallOf(c) + (d1 + d2)) - told[c].wall + Max(Gap)
      BY <2>1, <2>2, <3>4, <3>5, <3>8, <3>9, <3>10
    <3> QED
      BY <3>5, <3>6, <3>11
  <2> QED
    BY <2>3, <2>4
<1> QED
  BY <1>1, Invariant, PTL DEF Spec, CpuWithinWall

=============================================================================
