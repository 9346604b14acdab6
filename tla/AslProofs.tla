----------------------------- MODULE AslProofs -----------------------------
(***************************************************************************)
(* Proofs about the active semaphore list, for every number of descriptors *)
(* and chains and every hash function: descriptors are where they belong,  *)
(* and to its callers the hash table is a map from keys to queues.         *)
(***************************************************************************)
EXTENDS Asl, PcbListTheorems

DT == INSTANCE PcbListTheorems WITH MAXPROC <- MAXSEMD

USE MaxprocAssumption, AslAssumption

SemLink == Semd \cup {NULL}

-----------------------------------------------------------------------------
(***************************************************************************)
(* The theorems about lists of PCBs, for lists of descriptors.             *)
(***************************************************************************)
(* D and DT are two instances of one module.                               *)
LEMMA SameSets ==
  /\ DT!Pcb = Semd /\ DT!NULL = NULL /\ DT!Link = SemLink
  /\ D!Pcb = Semd /\ D!NULL = NULL /\ D!Link = SemLink
BY DEF Semd, SemLink, NULL, D!Pcb, D!NULL, D!Link, DT!Pcb, DT!NULL, DT!Link

\* So walks of the two instances agree,
LEMMA SameWalks ==
  ASSUME NEW nx, NEW h
  PROVE  /\ D!Reach(nx, h) = DT!Reach(nx, h) /\ D!Ends(nx, h) = DT!Ends(nx, h)
         /\ D!LastNode(nx, h) = DT!LastNode(nx, h)
<1>1. D!Reach(nx, h) = DT!Reach(nx, h)
  BY DEF D!Reach, DT!Reach, D!Pcb, DT!Pcb, D!NULL, DT!NULL
<1>2. D!Ends(nx, h) = DT!Ends(nx, h)
  BY <1>1 DEF D!Ends, DT!Ends, D!NULL, DT!NULL
<1>3. D!LastNode(nx, h) = DT!LastNode(nx, h)
  BY <1>1, <1>2 DEF D!LastNode, DT!LastNode, D!NULL, DT!NULL
<1> QED
  BY <1>1, <1>2, <1>3

\* and so do their list operations.
LEMMA SameLists ==
  ASSUME NEW nx, NEW h, NEW p
  PROVE  /\ D!Previous(nx, h, p) = DT!Previous(nx, h, p)
         /\ D!AllocNode(nx, h) = DT!AllocNode(nx, h)
         /\ D!AllocPcb(nx, h) = DT!AllocPcb(nx, h)
         /\ D!FreePcb(nx, h, p) = DT!FreePcb(nx, h, p)
<1>1. \A S : D!CutAt(nx, S) = DT!CutAt(nx, S)
  BY DEF D!CutAt, DT!CutAt, D!Pcb, DT!Pcb, D!NULL, DT!NULL
<1>2. D!PreviousCut(nx, p) = DT!PreviousCut(nx, p)
  BY <1>1 DEF D!PreviousCut, DT!PreviousCut, D!Pcb, DT!Pcb
<1>3. D!Previous(nx, h, p) = DT!Previous(nx, h, p)
  BY <1>2, SameWalks DEF D!Previous, DT!Previous
<1>4. D!AllocNode(nx, h) = DT!AllocNode(nx, h)
  BY SameWalks DEF D!AllocNode, DT!AllocNode
<1>5. D!LastButOne(nx, h) = DT!LastButOne(nx, h)
  BY <1>1, SameWalks DEF D!LastButOne, DT!LastButOne, D!Pcb, DT!Pcb, D!NULL, DT!NULL
<1>6. D!AllocPcb(nx, h) = DT!AllocPcb(nx, h)
  BY <1>5, SameWalks DEF D!AllocPcb, DT!AllocPcb, D!NULL, DT!NULL
<1>7. D!FreePcb(nx, h, p) = DT!FreePcb(nx, h, p)
  BY SameWalks DEF D!FreePcb, DT!FreePcb, D!NULL, DT!NULL
<1> QED
  BY <1>3, <1>4, <1>6, <1>7

(* Where a walk leads.                                                     *)
LEMMA WalkFacts ==
  ASSUME NEW nx \in [Semd -> SemLink], NEW h \in SemLink
  PROVE  /\ D!Reach(nx, h) \subseteq Semd
         /\ h = NULL => D!Reach(nx, h) = {} /\ D!Ends(nx, h)
         /\ h # NULL => /\ D!Reach(nx, h) = {h} \cup D!Reach(nx, nx[h])
                        /\ D!Ends(nx, h) <=> D!Ends(nx, nx[h])
                        /\ D!Ends(nx, h) => h \notin D!Reach(nx, nx[h])
<1>1. D!Reach(nx, h) \subseteq Semd
  BY DT!ReachType, SameWalks, SameSets
<1>2. h = NULL => D!Reach(nx, h) = {} /\ D!Ends(nx, h)
  BY DT!ReachNull, SameWalks, SameSets
<1>3. ASSUME h # NULL
      PROVE  /\ D!Reach(nx, h) = {h} \cup D!Reach(nx, nx[h])
             /\ D!Ends(nx, h) <=> D!Ends(nx, nx[h])
             /\ D!Ends(nx, h) => h \notin D!Reach(nx, nx[h])
  <2>1. h \in DT!Pcb /\ nx \in [DT!Pcb -> DT!Link] /\ h \in DT!Link
    BY <1>3, SameSets DEF SemLink
  <2>2. DT!Reach(nx, h) = {h} \cup DT!Reach(nx, nx[h])
    BY <2>1, DT!ReachStep
  <2>3. DT!Ends(nx, h) <=> DT!Ends(nx, nx[h])
    BY <2>1, DT!EndsStep
  <2>4. DT!Ends(nx, h) => h \notin DT!Reach(nx, nx[h])
    BY <2>1, <2>2, DT!NoCycle
  <2> QED
    BY <2>2, <2>3, <2>4, SameWalks
<1> QED
  BY <1>1, <1>2, <1>3

(* Links outside of a list do not matter to it.                            *)
LEMMA WalkFrame ==
  ASSUME NEW nx \in [Semd -> SemLink], NEW ny \in [Semd -> SemLink], NEW h \in SemLink,
         \A s \in D!Reach(nx, h) : ny[s] = nx[s]
  PROVE  D!Reach(ny, h) = D!Reach(nx, h) /\ (D!Ends(ny, h) <=> D!Ends(nx, h))
<1>1. \A s \in DT!Reach(nx, h) : ny[s] = nx[s]
  BY SameWalks
<1>2. DT!Reach(ny, h) = DT!Reach(nx, h) /\ (DT!Ends(ny, h) <=> DT!Ends(nx, h))
  BY <1>1, DT!ReachFrame, SameSets
<1> QED
  BY <1>2, SameWalks

(* allocSemd takes the last of the free descriptors, whose link is NULL.   *)
LEMMA TakeFacts ==
  ASSUME NEW nx \in [Semd -> SemLink], NEW h \in Semd, D!Ends(nx, h)
  PROVE  LET s == D!AllocNode(nx, h)
             r == D!AllocPcb(nx, h)
         IN  /\ s \in D!Reach(nx, h) /\ s \in Semd
             /\ r.next \in [Semd -> SemLink] /\ r.head \in SemLink
             /\ D!Reach(r.next, r.head) = D!Reach(nx, h) \ {s}
             /\ D!Ends(r.next, r.head)
             /\ \A t \in Semd \ D!Reach(nx, h) : r.next[t] = nx[t]
             /\ r.next[s] = NULL
<1> DEFINE s == D!AllocNode(nx, h)
           r == D!AllocPcb(nx, h)
<1>1. /\ s = DT!AllocNode(nx, h) /\ r = DT!AllocPcb(nx, h)
      /\ s = DT!LastNode(nx, h)
  BY SameLists DEF DT!AllocNode
<1>2. /\ h \in DT!Pcb /\ nx \in [DT!Pcb -> DT!Link] /\ DT!Ends(nx, h)
  BY SameSets, SameWalks
<1>3. /\ s \in DT!Reach(nx, h) /\ s \in DT!Pcb
      /\ r.next \in [DT!Pcb -> DT!Link] /\ r.head \in DT!Link
      /\ DT!Reach(r.next, r.head) = DT!Reach(nx, h) \ {s}
      /\ DT!Ends(r.next, r.head)
      /\ DT!AgreeOutside(nx, r.next, DT!Reach(nx, h))
  BY <1>1, <1>2, DT!AllocPcbFacts
<1>4. nx[s] = NULL
  BY <1>1, <1>2, DT!LastNodeFacts, SameSets
<1>5. r.next = nx \/ \E q : r.next = [nx EXCEPT ![q] = NULL]
  <2>1. CASE nx[h] = DT!NULL \/ ~DT!Ends(nx, h)
    BY <1>1, <2>1 DEF DT!AllocPcb
  <2>2. CASE ~(nx[h] = DT!NULL \/ ~DT!Ends(nx, h))
    <3>1. r.next = [nx EXCEPT ![DT!LastButOne(nx, h)] = DT!NULL]
      BY <1>1, <2>2 DEF DT!AllocPcb
    <3> QED
      BY <3>1, SameSets
  <2> QED
    BY <2>1, <2>2
<1>6. r.next[s] = NULL
  BY <1>3, <1>4, <1>5, SameSets
<1>7. \A t \in Semd \ D!Reach(nx, h) : r.next[t] = nx[t]
  BY <1>3, SameSets, SameWalks DEF DT!AgreeOutside
<1> HIDE DEF s, r
<1>8. /\ s \in D!Reach(nx, h) /\ s \in Semd
      /\ r.next \in [Semd -> SemLink] /\ r.head \in SemLink
      /\ D!Reach(r.next, r.head) = D!Reach(nx, h) \ {s}
      /\ D!Ends(r.next, r.head)
  BY <1>3, SameSets, SameWalks
<1> QED
  BY <1>6, <1>7, <1>8 DEF s, r

(* startSemd and vaInCoda put a descriptor behind the last free one.       *)
LEMMA GiveBackFacts ==
  ASSUME NEW nx \in [Semd -> SemLink], NEW h \in SemLink, D!Ends(nx, h),
         NEW s \in Semd, s \notin D!Reach(nx, h)
  PROVE  LET r == D!FreePcb(nx, h, s)
         IN  /\ r.next \in [Semd -> SemLink] /\ r.head \in Semd
             /\ D!Reach(r.next, r.head) = {s} \cup D!Reach(nx, h)
             /\ D!Ends(r.next, r.head)
             /\ \A t \in Semd \ ({s} \cup D!Reach(nx, h)) : r.next[t] = nx[t]
<1> DEFINE r == D!FreePcb(nx, h, s)
<1>1. r = DT!FreePcb(nx, h, s)
  BY SameLists
<1>2. /\ h \in DT!Link /\ nx \in [DT!Pcb -> DT!Link] /\ DT!Ends(nx, h)
      /\ s \in DT!Pcb /\ s \notin DT!Reach(nx, h)
  BY SameSets, SameWalks
<1>3. /\ r.next \in [DT!Pcb -> DT!Link] /\ r.head \in DT!Pcb
      /\ DT!Reach(r.next, r.head) = {s} \cup DT!Reach(nx, h)
      /\ DT!Ends(r.next, r.head)
      /\ DT!AgreeOutside(nx, r.next, {s} \cup DT!Reach(nx, h))
  BY <1>1, <1>2, DT!FreePcbFacts
<1>4. \A t \in Semd \ ({s} \cup D!Reach(nx, h)) : r.next[t] = nx[t]
  BY <1>3, SameSets, SameWalks DEF DT!AgreeOutside
<1> HIDE DEF r
<1>5. /\ r.next \in [Semd -> SemLink] /\ r.head \in Semd
      /\ D!Reach(r.next, r.head) = {s} \cup D!Reach(nx, h)
      /\ D!Ends(r.next, r.head)
  BY <1>3, SameSets, SameWalks
<1> QED
  BY <1>4, <1>5 DEF r

(* hashInsert puts a descriptor behind the last one of a chain.            *)
LEMMA AppendFacts ==
  ASSUME NEW nx \in [Semd -> SemLink], NEW h \in Semd, D!Ends(nx, h),
         NEW s \in Semd, s \notin D!Reach(nx, h), nx[s] = NULL
  PROVE  LET q  == D!LastNode(nx, h)
             ny == [nx EXCEPT ![q] = s]
         IN  /\ q \in D!Reach(nx, h) /\ ny \in [Semd -> SemLink]
             /\ D!Reach(ny, h) = {s} \cup D!Reach(nx, h) /\ D!Ends(ny, h)
<1> DEFINE q  == D!LastNode(nx, h)
           ny == [nx EXCEPT ![q] = s]
<1>1. q = DT!LastNode(nx, h)
  BY SameWalks
<1>2. /\ h \in DT!Pcb /\ nx \in [DT!Pcb -> DT!Link] /\ DT!Ends(nx, h)
      /\ s \in DT!Pcb /\ s \notin DT!Reach(nx, h)
  BY SameSets, SameWalks
<1>3. q \in DT!Reach(nx, h) /\ nx[q] = NULL /\ q \in D!Reach(nx, h) /\ q \in Semd
  BY <1>1, <1>2, DT!LastNodeFacts, DT!ReachType, SameSets, SameWalks
<1> HIDE DEF q
<1>4. ny \in [Semd -> SemLink] /\ ny \in [DT!Pcb -> DT!Link]
  BY SameSets DEF SemLink
<1>5. ny[s] = nx[q] /\ ny[q] = s /\ \A t \in DT!Pcb \ {s, q} : ny[t] = nx[t]
  BY <1>3, SameSets
<1> HIDE DEF ny
<1>6. DT!Reach(ny, h) = {s} \cup DT!Reach(nx, h) /\ DT!Ends(ny, h)
  BY <1>2, <1>3, <1>4, <1>5, DT!InsertAfter
<1> QED
  BY <1>3, <1>4, <1>6, SameWalks DEF q, ny

(* delete unlinks a descriptor behind the first one of a chain.            *)
LEMMA PreviousIs ==
  ASSUME NEW nx \in [Semd -> SemLink], NEW h \in Semd, D!Ends(nx, h),
         NEW s \in Semd, s \in D!Reach(nx, h), s # h
  PROVE  /\ D!Previous(nx, h, s) \in D!Reach(nx, h)
         /\ D!Previous(nx, h, s) \in Semd /\ nx[D!Previous(nx, h, s)] = s
<1>1. D!Previous(nx, h, s) = DT!Previous(nx, h, s)
  BY SameLists
<1>2. /\ h \in DT!Pcb /\ nx \in [DT!Pcb -> DT!Link] /\ DT!Ends(nx, h)
      /\ s \in DT!Pcb /\ s \in DT!Reach(nx, h)
  BY SameSets, SameWalks
<1>3. DT!Previous(nx, h, s) \in DT!Reach(nx, h) /\ nx[DT!Previous(nx, h, s)] = s
  BY <1>2, DT!PreviousFacts
<1> QED
  BY <1>1, <1>3, DT!ReachType, SameSets, SameWalks

\* deleteFromHash behind the first descriptor: the chain loses just that one.
LEMMA UnlinkFacts ==
  ASSUME NEW nx \in [Semd -> SemLink], NEW h \in Semd, D!Ends(nx, h),
         NEW s \in Semd, s # h, NEW q \in Semd, q \in D!Reach(nx, h), nx[q] = s,
         NEW ny \in [Semd -> SemLink], ny[q] = nx[s],
         \A t \in Semd \ {q} : ny[t] = nx[t]
  PROVE  D!Reach(ny, h) = D!Reach(nx, h) \ {s} /\ D!Ends(ny, h)
<1>1. /\ h \in DT!Pcb /\ nx \in [DT!Pcb -> DT!Link] /\ DT!Ends(nx, h)
      /\ s \in DT!Pcb /\ q \in DT!Reach(nx, h) /\ ny \in [DT!Pcb -> DT!Link]
      /\ \A t \in DT!Pcb \ {q} : ny[t] = nx[t]
  BY SameSets, SameWalks
<1>2. DT!Reach(ny, h) = DT!Reach(nx, h) \ {s} /\ DT!Ends(ny, h)
  BY <1>1, DT!RemoveAfter
<1> QED
  BY <1>2, SameWalks

-----------------------------------------------------------------------------
(***************************************************************************)
(* The invariant: lists end, and each descriptor is where it belongs.      *)
(***************************************************************************)
TypeOK ==
  /\ p_next \in [Pcb -> Link]
  /\ s_next \in [Semd -> SemLink] /\ s_key \in [Semd -> Nat]
  /\ s_procQ \in [Semd -> Link]
  /\ semdhash \in [Index -> SemLink] /\ semdFree_h \in SemLink

FreeSemd == D!Reach(s_next, semdFree_h)
Used     == Semd \ FreeSemd

ListsEnd ==
  /\ D!Ends(s_next, semdFree_h)
  /\ \A i \in Index : D!Ends(s_next, semdhash[i])

(* The chain of a descriptor in use is that of its key.                    *)
ChainsRight ==
  /\ \A i \in Index : Chain(i) = {s \in Used : Hash[s_key[s]] = i}
  /\ \A s \in Used : s_key[s] \in Key

(* A descriptor is in use while processes wait.                            *)
UsedWaits == \A s \in Semd : s_procQ[s] = NULL <=> s \in FreeSemd

OneEach == \A s, t \in Used : s_key[s] = s_key[t] => s = t

Inv == TypeOK /\ ListsEnd /\ ChainsRight /\ UsedWaits /\ OneEach

\* Where descriptors, chain heads and hash values lie.
LEMMA Descriptors ==
  ASSUME Inv
  PROVE  /\ FreeSemd \subseteq Semd /\ NULL \notin Semd
         /\ \A i \in Index : semdhash[i] \in SemLink /\ Chain(i) \subseteq Semd
         /\ Index \subseteq Int /\ \A k \in Key : Hash[k] \in Index
<1>1. NULL \notin Semd
  BY DEF Semd, NULL, D!Pcb
<1>2. FreeSemd \subseteq Semd
  BY WalkFacts DEF FreeSemd, Inv, TypeOK
<1>3. \A i \in Index : semdhash[i] \in SemLink /\ Chain(i) \subseteq Semd
  BY WalkFacts DEF Chain, Inv, TypeOK
<1>4. Index \subseteq Int /\ \A k \in Key : Hash[k] \in Index
  BY DEF Index
<1> QED
  BY <1>1, <1>2, <1>3, <1>4

(* search finds the one descriptor in use that has the key, if there is    *)
(* one.                                                                    *)
LEMMA SearchIs ==
  ASSUME Inv, NEW k \in Key
  PROVE  /\ Search(k) \in Used \cup {NULL}
         /\ \A s \in Used : s_key[s] = k <=> Search(k) = s
<1> DEFINE found == {s \in Chain(Hash[k]) : s_key[s] = k}
<1>1. found = {s \in Used : s_key[s] = k}
  BY Descriptors DEF Inv, ChainsRight
<1>2. NULL \notin Used
  BY Descriptors DEF Used
<1>3. CASE found = {}
  BY <1>1, <1>2, <1>3 DEF Search
<1>4. CASE found # {}
  <2>1. PICK s \in Used : s_key[s] = k
    BY <1>1, <1>4
  <2>2. found = {s}
    BY <1>1, <2>1 DEF Inv, OneEach
  <2>3. s \in D!Reach(s_next, s)
    BY WalkFacts, Descriptors DEF Used, Inv, TypeOK, SemLink
  <2> HIDE DEF found
  <2>4. Search(k) = CHOOSE t \in found : found \subseteq D!Reach(s_next, t)
    BY <1>4 DEF Search, found
  <2>5. Search(k) = s
    BY <2>2, <2>3, <2>4
  <2> QED
    BY <1>2, <2>1, <2>5 DEF Inv, OneEach
<1> QED
  BY <1>3, <1>4

(* A descriptor is on a chain or free.                                     *)
LEMMA UsedOnChains ==
  ASSUME Inv
  PROVE  UNION {Chain(i) : i \in Index} = Used
<1> DEFINE used == UNION {Chain(i) : i \in Index}
<1>1. \A i \in Index : Chain(i) = {s \in Used : Hash[s_key[s]] = i}
  BY DEF Inv, ChainsRight
<1>2. \A s \in Used : Hash[s_key[s]] \in Index
  BY Descriptors DEF Inv, ChainsRight
<1>3. \A s \in Used : s \in Chain(Hash[s_key[s]])
  BY <1>1, <1>2
<1>4. Used \subseteq used
  BY <1>2, <1>3
<1>5. \A i \in Index : Chain(i) \subseteq Used
  BY <1>1
<1>6. used \subseteq Used
  BY <1>5
<1> QED
  BY <1>4, <1>6

(* What the invariant is for.                                              *)
LEMMA InvSound == Inv => AslSound
<1> SUFFICES ASSUME Inv PROVE AslSound
  OBVIOUS
<1> DEFINE used == UNION {Chain(i) : i \in Index}
<1>1. FreeSemd \subseteq Semd
  BY Descriptors
<1>2. used = Used
  BY UsedOnChains
<1>3. FreeSemd \cup used = Semd /\ FreeSemd \cap used = {}
  BY <1>1, <1>2 DEF Used
<1>4. \A s \in FreeSemd : s_procQ[s] = NULL
  BY <1>1 DEF Inv, UsedWaits
<1>5. \A i \in Index : \A s \in Chain(i) : Hash[s_key[s]] = i /\ s_procQ[s] # NULL
  BY DEF Inv, UsedWaits, ChainsRight, Used
<1>6. \A s, t \in used : s_key[s] = s_key[t] => s = t
  BY <1>2 DEF Inv, OneEach
<1> QED
  BY <1>3, <1>4, <1>5, <1>6 DEF AslSound, FreeSemd

-----------------------------------------------------------------------------
(***************************************************************************)
(* A descriptor is taken, and given back.                                  *)
(***************************************************************************)
(* Lists have no descriptor in common.                                     *)
LEMMA Apart ==
  ASSUME Inv
  PROVE  /\ \A i \in Index : Chain(i) \cap FreeSemd = {}
         /\ \A i, j \in Index : i # j => Chain(i) \cap Chain(j) = {}
BY DEF Inv, ChainsRight, Used

(* allocSemd and hashInsert: the descriptor goes from the free list to the *)
(* chain.                                                                  *)
LEMMA InsertNewPlaces ==
  ASSUME Inv, NEW k \in Key, NEW p, semdFree_h # NULL, InsertNew(k, p)
  PROVE  LET sem == D!AllocNode(s_next, semdFree_h)
         IN  /\ sem \in FreeSemd
             /\ s_next' \in [Semd -> SemLink] /\ semdFree_h' \in SemLink
             /\ semdhash' \in [Index -> SemLink]
             /\ FreeSemd' = FreeSemd \ {sem} /\ ListsEnd'
             /\ \A j \in Index : Chain(j)' = IF j = Hash[k] THEN {sem} \cup Chain(j)
                                             ELSE Chain(j)
<1> DEFINE sem == D!AllocNode(s_next, semdFree_h)
           ny  == D!AllocPcb(s_next, semdFree_h).next
           i   == Hash[k]
<1>1. /\ s_next \in [Semd -> SemLink] /\ semdFree_h \in Semd /\ D!Ends(s_next, semdFree_h)
      /\ semdhash \in [Index -> SemLink] /\ i \in Index
  BY Descriptors DEF Inv, TypeOK, ListsEnd, SemLink
<1>2. /\ semdFree_h' = D!AllocPcb(s_next, semdFree_h).head
      /\ semdhash' = IF semdhash[i] = NULL THEN [semdhash EXCEPT ![i] = sem] ELSE semdhash
      /\ s_next' = IF semdhash[i] = NULL THEN ny
                   ELSE [ny EXCEPT ![D!LastNode(ny, semdhash[i])] = sem]
  BY DEF InsertNew
<1>3. /\ sem \in FreeSemd /\ sem \in Semd /\ ny \in [Semd -> SemLink]
      /\ semdFree_h' \in SemLink
      /\ D!Reach(ny, semdFree_h') = FreeSemd \ {sem} /\ D!Ends(ny, semdFree_h')
      /\ \A t \in Semd \ FreeSemd : ny[t] = s_next[t]
      /\ ny[sem] = NULL
  BY <1>1, <1>2, TakeFacts DEF FreeSemd
<1> HIDE DEF sem, ny, i
<1>4. \A j \in Index : D!Reach(ny, semdhash[j]) = Chain(j) /\ D!Ends(ny, semdhash[j])
  <2> SUFFICES ASSUME NEW j \in Index
               PROVE  D!Reach(ny, semdhash[j]) = Chain(j) /\ D!Ends(ny, semdhash[j])
    OBVIOUS
  <2>1. semdhash[j] \in SemLink /\ Chain(j) \subseteq Semd /\ Chain(j) \cap FreeSemd = {}
    BY Descriptors, Apart
  <2>2. \A t \in D!Reach(s_next, semdhash[j]) : ny[t] = s_next[t]
    BY <1>3, <2>1 DEF Chain
  <2> QED
    BY <1>1, <1>3, <2>1, <2>2, WalkFrame DEF Chain, Inv, ListsEnd
<1>5. CASE semdhash[i] = NULL
  <2>1. s_next' = ny /\ semdhash' = [semdhash EXCEPT ![i] = sem]
    BY <1>2, <1>5
  <2>2. semdhash' \in [Index -> SemLink] /\ semdhash'[i] = sem
        /\ \A j \in Index \ {i} : semdhash'[j] = semdhash[j]
    BY <1>1, <1>3, <2>1 DEF SemLink
  <2>3. Chain(i) = {} /\ NULL \in SemLink /\ sem # NULL /\ sem \in SemLink
    BY <1>1, <1>3, <1>5, WalkFacts, Descriptors DEF Chain, SemLink
  <2>4. D!Reach(ny, NULL) = {} /\ D!Ends(ny, NULL)
    BY <1>3, <2>3, WalkFacts
  <2>5. D!Reach(ny, sem) = {sem} /\ D!Ends(ny, sem)
    BY <1>3, <2>3, <2>4, WalkFacts
  <2>6. \A j \in Index : /\ Chain(j)' = IF j = i THEN {sem} \cup Chain(j) ELSE Chain(j)
                         /\ D!Ends(s_next', semdhash'[j])
    BY <1>4, <2>1, <2>2, <2>3, <2>5 DEF Chain
  <2>7. FreeSemd' = FreeSemd \ {sem} /\ ListsEnd'
    BY <1>3, <2>1, <2>6 DEF FreeSemd, ListsEnd
  <2> QED
    BY <1>3, <2>1, <2>2, <2>6, <2>7 DEF sem, i
<1>6. CASE semdhash[i] # NULL
  <2> DEFINE q == D!LastNode(ny, semdhash[i])
  <2>1. s_next' = [ny EXCEPT ![q] = sem] /\ semdhash' = semdhash
    BY <1>2, <1>6
  <2>2. semdhash[i] \in Semd /\ sem \notin Chain(i)
    BY <1>1, <1>3, <1>6, Apart DEF SemLink
  <2>3. /\ q \in Chain(i) /\ s_next' \in [Semd -> SemLink]
        /\ D!Reach(s_next', semdhash[i]) = {sem} \cup Chain(i)
        /\ D!Ends(s_next', semdhash[i])
    <3>1. /\ D!Ends(ny, semdhash[i]) /\ D!Reach(ny, semdhash[i]) = Chain(i)
          /\ sem \notin D!Reach(ny, semdhash[i])
      BY <1>1, <1>4, <2>2
    <3>2. /\ q \in D!Reach(ny, semdhash[i]) /\ [ny EXCEPT ![q] = sem] \in [Semd -> SemLink]
          /\ D!Reach([ny EXCEPT ![q] = sem], semdhash[i]) = {sem} \cup D!Reach(ny, semdhash[i])
          /\ D!Ends([ny EXCEPT ![q] = sem], semdhash[i])
      BY <1>3, <2>2, <3>1, AppendFacts
    <3> QED
      BY <2>1, <3>1, <3>2
  <2> HIDE DEF q
  <2>4. \A t \in Semd \ {q} : s_next'[t] = ny[t]
    BY <1>3, <2>1
  <2>5. \A j \in Index : j # i => /\ D!Reach(s_next', semdhash[j]) = Chain(j)
                                  /\ D!Ends(s_next', semdhash[j])
    <3> SUFFICES ASSUME NEW j \in Index, j # i
                 PROVE  D!Reach(s_next', semdhash[j]) = Chain(j) /\ D!Ends(s_next', semdhash[j])
      OBVIOUS
    <3>1. semdhash[j] \in SemLink /\ Chain(j) \subseteq Semd /\ q \notin Chain(j)
      BY <1>1, <2>3, Descriptors, Apart
    <3>2. \A t \in D!Reach(ny, semdhash[j]) : s_next'[t] = ny[t]
      BY <1>4, <2>4, <3>1
    <3> QED
      BY <1>3, <1>4, <2>3, <3>1, <3>2, WalkFrame
  <2>6. D!Reach(s_next', semdFree_h') = FreeSemd \ {sem} /\ D!Ends(s_next', semdFree_h')
    <3>1. q \notin FreeSemd /\ FreeSemd \subseteq Semd
      BY <1>1, <2>3, Apart, Descriptors
    <3>2. \A t \in D!Reach(ny, semdFree_h') : s_next'[t] = ny[t]
      BY <1>3, <2>4, <3>1
    <3> QED
      BY <1>3, <2>3, <3>2, WalkFrame
  <2>7. \A j \in Index : /\ Chain(j)' = IF j = i THEN {sem} \cup Chain(j) ELSE Chain(j)
                         /\ D!Ends(s_next', semdhash'[j])
    BY <1>1, <2>1, <2>3, <2>5 DEF Chain
  <2>8. FreeSemd' = FreeSemd \ {sem} /\ ListsEnd'
    BY <2>6, <2>7 DEF FreeSemd, ListsEnd
  <2> QED
    BY <1>1, <1>3, <2>1, <2>3, <2>7, <2>8 DEF sem, i
<1> QED
  BY <1>5, <1>6

(* delete: the descriptor leaves its chain, and no other list changes.     *)
LEMMA UnlinkPlaces ==
  ASSUME Inv, NEW sem \in Used
  PROVE  LET u == Unlink(sem)
         IN  /\ u.next \in [Semd -> SemLink] /\ u.hash \in [Index -> SemLink]
             /\ \A j \in Index : /\ D!Reach(u.next, u.hash[j]) = Chain(j) \ {sem}
                                 /\ D!Ends(u.next, u.hash[j])
             /\ D!Reach(u.next, semdFree_h) = FreeSemd /\ D!Ends(u.next, semdFree_h)
<1> DEFINE i == Hash[s_key[sem]]
           u == Unlink(sem)
<1>1. /\ s_next \in [Semd -> SemLink] /\ semdhash \in [Index -> SemLink]
      /\ semdFree_h \in SemLink /\ D!Ends(s_next, semdFree_h)
      /\ \A j \in Index : D!Ends(s_next, semdhash[j])
      /\ i \in Index /\ sem \in Semd
  BY Descriptors DEF Inv, TypeOK, ListsEnd, ChainsRight, Used
<1>2. sem \in Chain(i) /\ sem \notin FreeSemd /\ \A j \in Index \ {i} : sem \notin Chain(j)
  BY <1>1 DEF Inv, ChainsRight, Used
<1>3. u = IF semdhash[i] = sem
          THEN [next |-> s_next, hash |-> [semdhash EXCEPT ![i] = s_next[sem]]]
          ELSE [next |-> [s_next EXCEPT ![D!Previous(s_next, semdhash[i], sem)] = s_next[sem]],
                hash |-> semdhash]
  BY DEF Unlink
<1> HIDE DEF i, u
<1>4. semdhash[i] \in Semd
  BY <1>1, <1>2, WalkFacts DEF Chain, SemLink
<1>5. CASE semdhash[i] = sem
  <2>1. u.next = s_next /\ u.hash = [semdhash EXCEPT ![i] = s_next[sem]]
    BY <1>3, <1>5
  <2>2. /\ s_next[sem] \in SemLink /\ u.hash \in [Index -> SemLink]
        /\ u.hash[i] = s_next[sem] /\ \A j \in Index \ {i} : u.hash[j] = semdhash[j]
    BY <1>1, <2>1
  <2>3. sem # NULL /\ sem \in SemLink
    BY <1>1, Descriptors DEF SemLink
  <2>4. /\ D!Reach(s_next, sem) = {sem} \cup D!Reach(s_next, s_next[sem])
        /\ D!Ends(s_next, s_next[sem]) /\ sem \notin D!Reach(s_next, s_next[sem])
    BY <1>1, <1>5, <2>3, WalkFacts
  <2>5. D!Reach(s_next, s_next[sem]) = Chain(i) \ {sem}
    BY <1>5, <2>4 DEF Chain
  <2>6. \A j \in Index : /\ D!Reach(u.next, u.hash[j]) = Chain(j) \ {sem}
                         /\ D!Ends(u.next, u.hash[j])
    <3> TAKE j \in Index
    <3>1. CASE j = i
      BY <2>1, <2>2, <2>4, <2>5, <3>1
    <3>2. CASE j # i
      BY <1>1, <1>2, <2>1, <2>2, <3>2 DEF Chain
    <3> QED
      BY <3>1, <3>2
  <2> QED
    BY <1>1, <2>1, <2>2, <2>6 DEF FreeSemd, u
<1>6. CASE semdhash[i] # sem
  <2> DEFINE q == D!Previous(s_next, semdhash[i], sem)
  <2>1. u.next = [s_next EXCEPT ![q] = s_next[sem]] /\ u.hash = semdhash
    BY <1>3, <1>6
  <2>2. /\ q \in Chain(i) /\ u.next \in [Semd -> SemLink]
        /\ D!Reach(u.next, semdhash[i]) = Chain(i) \ {sem}
        /\ D!Ends(u.next, semdhash[i])
    <3>1. /\ D!Ends(s_next, semdhash[i]) /\ sem \in D!Reach(s_next, semdhash[i])
          /\ D!Reach(s_next, semdhash[i]) = Chain(i)
      BY <1>1, <1>2 DEF Chain
    <3>2. sem # semdhash[i]
      BY <1>6
    <3> HIDE DEF q
    <3>3. q \in D!Reach(s_next, semdhash[i]) /\ q \in Semd /\ s_next[q] = sem
      BY <1>1, <1>4, <3>1, <3>2, PreviousIs DEF q
    <3>4. /\ u.next \in [Semd -> SemLink] /\ u.next[q] = s_next[sem]
          /\ \A t \in Semd \ {q} : u.next[t] = s_next[t]
      BY <1>1, <2>1, <3>3
    <3>5. /\ D!Reach(u.next, semdhash[i]) = D!Reach(s_next, semdhash[i]) \ {sem}
          /\ D!Ends(u.next, semdhash[i])
      BY <1>1, <1>4, <3>1, <3>2, <3>3, <3>4, UnlinkFacts
    <3> QED
      BY <3>1, <3>3, <3>4, <3>5
  <2> HIDE DEF q
  <2>3. \A t \in Semd \ {q} : u.next[t] = s_next[t]
    BY <1>1, <2>1
  <2>4. \A j \in Index : j # i => /\ D!Reach(u.next, semdhash[j]) = Chain(j)
                                  /\ D!Ends(u.next, semdhash[j])
    <3> SUFFICES ASSUME NEW j \in Index, j # i
                 PROVE  D!Reach(u.next, semdhash[j]) = Chain(j) /\ D!Ends(u.next, semdhash[j])
      OBVIOUS
    <3>1. semdhash[j] \in SemLink /\ Chain(j) \subseteq Semd /\ q \notin Chain(j)
      BY <1>1, <2>2, Descriptors, Apart
    <3>2. \A t \in D!Reach(s_next, semdhash[j]) : u.next[t] = s_next[t]
      BY <2>3, <3>1 DEF Chain
    <3>3. /\ D!Reach(u.next, semdhash[j]) = D!Reach(s_next, semdhash[j])
          /\ D!Ends(u.next, semdhash[j]) <=> D!Ends(s_next, semdhash[j])
      BY <1>1, <2>2, <3>1, <3>2, WalkFrame
    <3> QED
      BY <1>1, <3>3 DEF Chain
  <2>5. D!Reach(u.next, semdFree_h) = FreeSemd /\ D!Ends(u.next, semdFree_h)
    <3>1. q \notin FreeSemd /\ FreeSemd \subseteq Semd
      BY <1>1, <2>2, Apart, Descriptors
    <3>2. \A t \in D!Reach(s_next, semdFree_h) : u.next[t] = s_next[t]
      BY <2>3, <3>1 DEF FreeSemd
    <3> QED
      BY <1>1, <2>2, <3>2, WalkFrame DEF FreeSemd
  <2>6. \A j \in Index : /\ D!Reach(u.next, u.hash[j]) = Chain(j) \ {sem}
                         /\ D!Ends(u.next, u.hash[j])
    BY <1>2, <2>1, <2>2, <2>4
  <2> QED
    BY <1>1, <2>1, <2>2, <2>5, <2>6 DEF u
<1> QED
  BY <1>5, <1>6

(* startSemd and vaInCoda: the descriptor goes to the end of the free list. *)
LEMMA ReleasePlaces ==
  ASSUME Inv, NEW sem \in Used, Release(sem, Unlink(sem).next, s_procQ),
         semdhash' = Unlink(sem).hash
  PROVE  /\ s_next' \in [Semd -> SemLink] /\ semdFree_h' \in SemLink
         /\ semdhash' \in [Index -> SemLink]
         /\ FreeSemd' = {sem} \cup FreeSemd /\ ListsEnd'
         /\ \A j \in Index : Chain(j)' = Chain(j) \ {sem}
<1> DEFINE nx == Unlink(sem).next
           ny == [nx EXCEPT ![sem] = NULL]
           r  == D!FreePcb(ny, semdFree_h, sem)
<1>1. /\ nx \in [Semd -> SemLink] /\ semdhash' \in [Index -> SemLink]
      /\ \A j \in Index : /\ D!Reach(nx, semdhash'[j]) = Chain(j) \ {sem}
                          /\ D!Ends(nx, semdhash'[j])
      /\ D!Reach(nx, semdFree_h) = FreeSemd /\ D!Ends(nx, semdFree_h)
  BY UnlinkPlaces
<1>2. s_next' = r.next /\ semdFree_h' = r.head
  BY DEF Release
<1>3. sem \in Semd /\ sem \notin FreeSemd /\ semdFree_h \in SemLink
  BY DEF Used, Inv, TypeOK
<1> HIDE DEF nx
<1>4. ny \in [Semd -> SemLink] /\ \A t \in Semd \ {sem} : ny[t] = nx[t]
  BY <1>1, <1>3 DEF SemLink
<1> HIDE DEF ny
<1>5. D!Reach(ny, semdFree_h) = FreeSemd /\ D!Ends(ny, semdFree_h)
  <2>1. \A t \in D!Reach(nx, semdFree_h) : ny[t] = nx[t]
    BY <1>1, <1>3, <1>4, Descriptors
  <2> QED
    BY <1>1, <1>3, <1>4, <2>1, WalkFrame
<1>6. /\ r.next \in [Semd -> SemLink] /\ r.head \in Semd
      /\ D!Reach(r.next, r.head) = {sem} \cup FreeSemd /\ D!Ends(r.next, r.head)
      /\ \A t \in Semd \ ({sem} \cup FreeSemd) : r.next[t] = ny[t]
  BY <1>3, <1>4, <1>5, GiveBackFacts
<1> HIDE DEF r
<1>7. \A j \in Index : /\ D!Reach(r.next, semdhash'[j]) = Chain(j) \ {sem}
                       /\ D!Ends(r.next, semdhash'[j])
  <2> SUFFICES ASSUME NEW j \in Index
               PROVE  /\ D!Reach(r.next, semdhash'[j]) = Chain(j) \ {sem}
                      /\ D!Ends(r.next, semdhash'[j])
    OBVIOUS
  <2>1. semdhash'[j] \in SemLink /\ Chain(j) \subseteq Semd /\ Chain(j) \cap FreeSemd = {}
    BY <1>1, Descriptors, Apart
  <2>2. \A t \in D!Reach(nx, semdhash'[j]) : r.next[t] = nx[t]
    BY <1>1, <1>4, <1>6, <2>1
  <2> QED
    BY <1>1, <1>6, <2>1, <2>2, WalkFrame
<1>8. FreeSemd' = {sem} \cup FreeSemd /\ ListsEnd'
  BY <1>2, <1>6, <1>7 DEF FreeSemd, ListsEnd
<1>9. \A j \in Index : Chain(j)' = Chain(j) \ {sem}
  BY <1>2, <1>7 DEF Chain
<1> QED
  BY <1>1, <1>2, <1>6, <1>8, <1>9 DEF SemLink

-----------------------------------------------------------------------------
(***************************************************************************)
(* countSemd counts the descriptors in use.                                *)
(***************************************************************************)
\* the sets of at most n chains
Small(n) == {s \in SUBSET Index : Cardinality(s) <= n}

Any(s) == CHOOSE i \in s : TRUE

OnChains(s) == UNION {Chain(i) : i \in s}

\* v satisfies the recursive definition of the sum of the chains' lengths
IsCount(v) ==
  v = [s \in SUBSET Index |->
         IF s = {} THEN 0 ELSE Cardinality(Chain(Any(s))) + v[s \ {Any(s)}]]

\* Sets of chains are finite, and an element less is one less.
LEMMA SmallFacts ==
  ASSUME NEW s \in SUBSET Index
  PROVE  /\ IsFiniteSet(s) /\ Cardinality(s) \in Nat
         /\ Cardinality(s) = 0 <=> s = {}
         /\ s # {} => Any(s) \in s
         /\ \A i \in s : Cardinality(s \ {i}) = Cardinality(s) - 1
         /\ IsFiniteSet(Index) /\ Cardinality(s) <= Cardinality(Index)
<1>1. IsFiniteSet(Index)
  BY FS_Interval DEF Index
<1>2. IsFiniteSet(s) /\ Cardinality(s) <= Cardinality(Index)
  BY <1>1, FS_Subset
<1>3. Cardinality(s) \in Nat /\ (Cardinality(s) = 0 <=> s = {})
  BY <1>2, FS_CardinalityType, FS_EmptySet
<1>4. \A i \in s : Cardinality(s \ {i}) = Cardinality(s) - 1
  BY <1>2, FS_RemoveElement
<1>5. s # {} => Any(s) \in s
  BY DEF Any
<1> QED
  BY <1>1, <1>2, <1>3, <1>4, <1>5

\* So are sets of descriptors; MAXSEMD of them are all.
LEMMA SemdFinite ==
  /\ IsFiniteSet(Semd) /\ Cardinality(Semd) = MAXSEMD
  /\ \A S \in SUBSET Semd : /\ IsFiniteSet(S) /\ Cardinality(S) \in Nat
                            /\ Cardinality(S) <= MAXSEMD
                            /\ Cardinality(S) = MAXSEMD <=> S = Semd
<1>1. IsFiniteSet(Semd) /\ Cardinality(Semd) = MAXSEMD
  BY FS_Interval DEF Semd, D!Pcb
<1> QED
  BY <1>1, FS_Subset, FS_CardinalityType

(* One chain more: its descriptors are on no other.                        *)
LEMMA OneMore ==
  ASSUME Inv, NEW s \in SUBSET Index, NEW i \in s
  PROVE  Cardinality(OnChains(s)) = Cardinality(Chain(i)) + Cardinality(OnChains(s \ {i}))
<1> DEFINE B == OnChains(s \ {i})
<1>1. OnChains(s) = Chain(i) \cup B
  BY DEF OnChains
<1>2. Chain(i) \cap B = {}
  BY Apart DEF OnChains
<1>3. Chain(i) \subseteq Semd /\ B \subseteq Semd
  BY Descriptors DEF OnChains
<1>4. /\ IsFiniteSet(Chain(i)) /\ IsFiniteSet(B)
      /\ Cardinality(Chain(i)) \in Nat /\ Cardinality(B) \in Nat
  BY <1>3, SemdFinite
<1> HIDE DEF B
<1>5. Cardinality(Chain(i) \cup B)
        = Cardinality(Chain(i)) + Cardinality(B) - Cardinality(Chain(i) \cap B)
  BY <1>4, FS_Union
<1>6. Cardinality(Chain(i) \cap B) = 0
  BY <1>2, FS_EmptySet
<1> QED
  BY <1>1, <1>4, <1>5, <1>6 DEF B

(* There is one function that satisfies the recursive definition.          *)
LEMMA CountExists ==
  ASSUME Inv
  PROVE  IsCount([s \in SUBSET Index |-> Cardinality(OnChains(s))])
<1> DEFINE v == [s \in SUBSET Index |-> Cardinality(OnChains(s))]
<1>1. Cardinality(OnChains({})) = 0
  BY FS_EmptySet DEF OnChains
<1>2. ASSUME NEW s \in SUBSET Index
      PROVE  v[s] = IF s = {} THEN 0 ELSE Cardinality(Chain(Any(s))) + v[s \ {Any(s)}]
  <2>1. s # {} => Any(s) \in s /\ s \ {Any(s)} \in SUBSET Index
    BY SmallFacts
  <2> QED
    BY <1>1, <2>1, OneMore
<1>3. v = [s \in SUBSET Index |-> v[s]]
  OBVIOUS
<1> HIDE DEF v
<1>4. IsCount(v)
  BY <1>2, <1>3, Zenon DEF IsCount
<1> QED
  BY <1>4 DEF v

\* Any such fold counts the descriptors on the chains.
LEMMA CountUnique ==
  ASSUME Inv, NEW v, IsCount(v)
  PROVE  v[Index] = Cardinality(OnChains(Index))
<1> DEFINE m == Cardinality(Index)
           T == {n \in 0..m : \A s \in Small(n) : v[s] = Cardinality(OnChains(s))}
<1>1. m \in Nat /\ Index \in Small(m)
  BY SmallFacts DEF Small
<1>2. \A s \in SUBSET Index :
        v[s] = IF s = {} THEN 0 ELSE Cardinality(Chain(Any(s))) + v[s \ {Any(s)}]
  BY DEF IsCount
<1>3. v[{}] = 0 /\ Cardinality(OnChains({})) = 0
  BY <1>2, FS_EmptySet DEF OnChains
<1>4. 0 \in T
  <2>1. \A s \in Small(0) : s = {}
    BY SmallFacts DEF Small
  <2>2. ASSUME NEW s \in Small(0)
        PROVE  v[s] = Cardinality(OnChains(s))
    BY <1>3, <2>1
  <2> QED
    BY <1>1, <2>2
<1>5. ASSUME NEW n \in 0..(m - 1), n \in T
      PROVE  n + 1 \in T
  <2>1. n \in Nat /\ n + 1 \in 0..m
    BY <1>1
  <2>2. \A s \in Small(n) : v[s] = Cardinality(OnChains(s))
    BY <1>5
  <2>3. ASSUME NEW s \in Small(n + 1), s # {}
        PROVE  v[s] = Cardinality(OnChains(s))
    <3>1. s \in SUBSET Index /\ Any(s) \in s
      BY <2>3, SmallFacts DEF Small
    <3>2. s \ {Any(s)} \in Small(n)
      BY <2>1, <3>1, SmallFacts DEF Small
    <3>3. v[s] = Cardinality(Chain(Any(s))) + v[s \ {Any(s)}]
      BY <1>2, <2>3, <3>1
    <3> QED
      BY <2>2, <3>1, <3>2, <3>3, OneMore
  <2> QED
    BY <1>3, <2>1, <2>3
<1>6. m \in T
  <2> HIDE DEF T
  <2>1. 0..m \subseteq T
    BY <1>1, <1>4, <1>5, UpTo
  <2> QED
    BY <1>1, <2>1
<1> QED
  BY <1>1, <1>6

(* countSemd finds each descriptor in use once.                            *)
LEMMA CountIs ==
  ASSUME Inv
  PROVE  CountSemd = Cardinality(Used)
<1> DEFINE v == CHOOSE v : IsCount(v)
<1>1. IsCount(v)
  BY CountExists
<1>2. CountSemd = v[Index]
  BY DEF CountSemd, MapThenSumSet, MapThenFoldSet, IsCount, Any
<1>3. OnChains(Index) = Used
  BY UsedOnChains DEF OnChains
<1> HIDE DEF v
<1> QED
  BY <1>1, <1>2, <1>3, CountUnique

-----------------------------------------------------------------------------
(***************************************************************************)
(* The invariant holds at first, and every call preserves it.              *)
(***************************************************************************)
\* initASL links the descriptors one behind the other, all of them free.
LEMMA InitInv == Init => Inv
<1> SUFFICES ASSUME Init PROVE Inv
  OBVIOUS
<1>1. /\ s_next = [s \in Semd |-> IF s < MAXSEMD THEN s + 1 ELSE NULL]
      /\ semdFree_h = 1 /\ semdhash = [i \in Index |-> NULL]
      /\ s_procQ = [s \in Semd |-> NULL] /\ s_key = [s \in Semd |-> 0]
      /\ p_next = [p \in Pcb |-> NULL]
  BY DEF Init
<1>2. Semd = 1..MAXSEMD /\ NULL = 0
  BY DEF Semd, D!Pcb, NULL
<1>3. TypeOK
  BY <1>1, <1>2 DEF TypeOK, SemLink, Link
<1>4. s_next \in [Semd -> SemLink] /\ 1 \in Semd /\ 1 \in SemLink /\ NULL \in SemLink
  BY <1>2, <1>3 DEF TypeOK, SemLink
<1>5. Semd \subseteq FreeSemd
  <2> DEFINE T == {n \in Nat : n + 1 \in FreeSemd}
  <2>1. 0 \in T
    <3>1. D!Reach(s_next, 1) = {1} \cup D!Reach(s_next, s_next[1])
      BY <1>2, <1>4, WalkFacts
    <3> QED
      BY <1>1, <3>1 DEF FreeSemd
  <2>2. ASSUME NEW n \in 0..((MAXSEMD - 1) - 1), n \in T
        PROVE  n + 1 \in T
    <3>1. n + 1 \in DT!Reach(s_next, 1) /\ s_next[n + 1] = n + 2 /\ n + 2 \in DT!Pcb
      BY <1>1, <1>2, <2>2, SameWalks, SameSets DEF FreeSemd
    <3>2. n + 2 \in DT!Reach(s_next, 1)
      BY <1>4, <3>1, DT!ReachClosed, SameSets
    <3> QED
      BY <1>1, <3>2, SameWalks DEF FreeSemd
  <2> HIDE DEF T
  <2>3. 0..(MAXSEMD - 1) \subseteq T
    BY <2>1, <2>2, UpTo
  <2>4. ASSUME NEW s \in Semd PROVE s \in FreeSemd
    <3>1. s - 1 \in 0..(MAXSEMD - 1) /\ (s - 1) + 1 = s
      BY <1>2
    <3> QED
      BY <2>3, <3>1 DEF T
  <2> QED
    BY <2>4
<1>6. FreeSemd = Semd
  BY <1>1, <1>4, <1>5, WalkFacts DEF FreeSemd
<1>7. D!Ends(s_next, semdFree_h)
  <2>1. MAXSEMD \in D!Reach(s_next, semdFree_h) /\ s_next[MAXSEMD] = NULL
    BY <1>1, <1>2, <1>6 DEF FreeSemd
  <2> QED
    BY <2>1, SameSets DEF D!Ends
<1>8. \A i \in Index : Chain(i) = {} /\ D!Ends(s_next, semdhash[i])
  BY <1>1, <1>4, WalkFacts DEF Chain
<1>9. Used = {}
  BY <1>6 DEF Used
<1> QED
  BY <1>1, <1>3, <1>6, <1>7, <1>8, <1>9 DEF Inv, ListsEnd, ChainsRight, UsedWaits, OneEach

\* The lists of descriptors stay as they are.
LEMMA SameChains ==
  ASSUME Inv, UNCHANGED <<s_next, s_key, semdhash, semdFree_h>>
  PROVE  /\ FreeSemd' = FreeSemd /\ Used' = Used /\ \A i \in Index : Chain(i)' = Chain(i)
         /\ \A k \in Key : Search(k)' = Search(k)
         /\ ListsEnd' /\ ChainsRight' /\ OneEach'
<1>1. FreeSemd' = FreeSemd
  BY DEF FreeSemd
<1>2. Used' = Used
  BY <1>1 DEF Used
<1>3. \A i \in Index : Chain(i)' = Chain(i)
  BY DEF Chain
<1>4. ListsEnd'
  BY DEF Inv, ListsEnd
<1>5. \A k \in Key : Search(k)' = Search(k)
  BY DEF Search, Chain
<1> QED
  BY <1>1, <1>2, <1>3, <1>4, <1>5 DEF Inv, ChainsRight, OneEach

\* A process waits on a semaphore that has a descriptor.
LEMMA InsertOldInv ==
  ASSUME Inv, NEW sem \in Used, NEW b \in Pcb, p_next' \in [Pcb -> Link],
         s_procQ' = [s_procQ EXCEPT ![sem] = b],
         UNCHANGED <<s_next, s_key, semdhash, semdFree_h>>
  PROVE  Inv'
<1>1. sem \in Semd /\ sem \notin FreeSemd /\ b # NULL /\ b \in Link
  BY PcbFinite DEF Used, Link
<1>2. TypeOK'
  BY <1>1 DEF Inv, TypeOK
<1>3. UsedWaits'
  BY <1>1, SameChains DEF Inv, TypeOK, UsedWaits
<1> QED
  BY <1>2, <1>3, SameChains DEF Inv

\* A process waits on a semaphore that has had no waiter.
LEMMA InsertNewInv ==
  ASSUME Inv, NEW k \in Key, NEW p \in Pcb, Search(k) = NULL, semdFree_h # NULL,
         InsertNew(k, p), p_next' \in [Pcb -> Link]
  PROVE  Inv'
<1> DEFINE sem == D!AllocNode(s_next, semdFree_h)
<1>1. /\ sem \in FreeSemd
      /\ s_next' \in [Semd -> SemLink] /\ semdFree_h' \in SemLink
      /\ semdhash' \in [Index -> SemLink]
      /\ FreeSemd' = FreeSemd \ {sem} /\ ListsEnd'
      /\ \A j \in Index : Chain(j)' = IF j = Hash[k] THEN {sem} \cup Chain(j) ELSE Chain(j)
  BY InsertNewPlaces
<1>2. s_key' = [s_key EXCEPT ![sem] = k] /\ s_procQ' = [s_procQ EXCEPT ![sem] = p]
  BY DEF InsertNew
<1> HIDE DEF sem
<1>3. sem \in Semd /\ sem \notin Used /\ p # NULL /\ p \in Link /\ k \in Nat /\ Hash[k] \in Index
  BY <1>1, Descriptors, PcbFinite DEF Used, Link
<1>4. Used' = Used \cup {sem}
  BY <1>1, <1>3 DEF Used
<1>5. TypeOK'
  BY <1>1, <1>2, <1>3 DEF Inv, TypeOK
<1>6. /\ s_key'[sem] = k /\ \A s \in Used : s_key'[s] = s_key[s]
      /\ \A s \in Used : s_key[s] \in Key /\ s_key[s] # k
  <2>1. s_key \in [Semd -> Nat] /\ Used \subseteq Semd
    BY DEF Inv, TypeOK, Used
  <2>2. s_key'[sem] = k /\ \A s \in Used : s_key'[s] = s_key[s]
    BY <1>2, <1>3, <2>1
  <2>3. \A s \in Used : s_key[s] \in Key
    BY DEF Inv, ChainsRight
  <2>4. \A s \in Used : s_key[s] # k
    <3>1. NULL \notin Used
      BY <2>1, Descriptors
    <3> QED
      BY <3>1, SearchIs
  <2> QED
    BY <2>2, <2>3, <2>4
<1>7. OneEach'
  BY <1>4, <1>6 DEF Inv, OneEach
<1>8. UsedWaits'
  BY <1>1, <1>2, <1>3 DEF Inv, TypeOK, UsedWaits
<1>9. ChainsRight'
  <2>1. ASSUME NEW i \in Index
        PROVE  Chain(i)' = {s \in Used' : Hash[s_key'[s]] = i}
    <3>1. Chain(i) = {s \in Used : Hash[s_key[s]] = i}
      BY DEF Inv, ChainsRight
    <3> QED
      BY <1>1, <1>3, <1>4, <1>6, <3>1
  <2> QED
    BY <1>4, <1>6, <2>1 DEF ChainsRight
<1> QED
  BY <1>1, <1>5, <1>7, <1>8, <1>9 DEF Inv

\* The first waiter goes, and others are behind it.
LEMMA RemoveOneInv ==
  ASSUME Inv, NEW sem \in Used, p_next[s_procQ[sem]] # NULL,
         s_procQ' = [s_procQ EXCEPT ![sem] = p_next[s_procQ[sem]]],
         UNCHANGED <<p_next, s_next, s_key, semdhash, semdFree_h>>
  PROVE  Inv'
<1>1. s_procQ[sem] \in Pcb /\ p_next[s_procQ[sem]] \in Pcb
  BY DEF Inv, TypeOK, UsedWaits, Used, Link
<1> QED
  BY <1>1, InsertOldInv DEF Inv, TypeOK

\* The last waiter goes, and the descriptor with it.
LEMMA RemoveLastInv ==
  ASSUME Inv, NEW sem \in Used, Release(sem, Unlink(sem).next, s_procQ),
         semdhash' = Unlink(sem).hash, p_next' = p_next
  PROVE  Inv'
<1>1. /\ s_next' \in [Semd -> SemLink] /\ semdFree_h' \in SemLink
      /\ semdhash' \in [Index -> SemLink]
      /\ FreeSemd' = {sem} \cup FreeSemd /\ ListsEnd'
      /\ \A j \in Index : Chain(j)' = Chain(j) \ {sem}
  BY ReleasePlaces
<1>2. s_key' = [s_key EXCEPT ![sem] = 0] /\ s_procQ' = [s_procQ EXCEPT ![sem] = NULL]
  BY DEF Release
<1>3. Used' = Used \ {sem} /\ sem \in Semd
  BY <1>1 DEF Used
<1>4. TypeOK'
  BY <1>1, <1>2 DEF Inv, TypeOK, Link
<1>5. \A s \in Used' : s_key'[s] = s_key[s] /\ s \in Used
  BY <1>2, <1>3 DEF Inv, TypeOK, Used
<1>6. OneEach'
  BY <1>5 DEF Inv, OneEach
<1>7. UsedWaits'
  BY <1>1, <1>2, <1>3 DEF Inv, TypeOK, UsedWaits
<1>8. ChainsRight'
  <2>1. ASSUME NEW i \in Index
        PROVE  Chain(i)' = {s \in Used' : Hash[s_key'[s]] = i}
    <3>1. Chain(i) = {s \in Used : Hash[s_key[s]] = i}
      BY DEF Inv, ChainsRight
    <3> QED
      BY <1>1, <1>3, <1>5, <3>1
  <2> QED
    BY <1>5, <2>1 DEF Inv, ChainsRight
<1> QED
  BY <1>1, <1>4, <1>6, <1>7, <1>8 DEF Inv

-----------------------------------------------------------------------------
(***************************************************************************)
(* The map from keys to queues.                                            *)
(***************************************************************************)
(* AslMap's lists are the same.                                            *)
LEMMA SameQueues ==
  ASSUME NEW nx, NEW pri, NEW h, NEW p
  PROVE  /\ Map!Reach(nx, h) = Reach(nx, h)
         /\ Map!InsertProcQ(nx, pri, h, p) = InsertProcQ(nx, pri, h, p)
         /\ Map!NULL = NULL /\ Map!Pcb = Pcb
<1>1. Map!NULL = NULL /\ Map!Pcb = Pcb
  BY DEF Map!NULL, NULL, Map!Pcb, Pcb
<1>2. \A a, b : Map!Reach(a, b) = Reach(a, b)
  BY DEF Map!Reach, Reach, Map!NULL, NULL, Map!Pcb, Pcb
<1>3. \A a, b : Map!Ends(a, b) = Ends(a, b)
  BY <1>1, <1>2 DEF Map!Ends, Ends
<1>4. ASSUME NEW a, NEW b
      PROVE  Map!LastNode(a, b) = LastNode(a, b)
  <2>1. Map!Reach(a, b) = Reach(a, b) /\ Map!Ends(a, b) = Ends(a, b)
    BY <1>2, <1>3
  <2> QED
    BY <2>1 DEF Map!LastNode, LastNode, Map!NULL, NULL
<1>5. Map!PriorityCut(nx, pri, p) = PriorityCut(nx, pri, p)
  BY <1>1 DEF Map!PriorityCut, PriorityCut, Map!CutAt, CutAt
<1>6. Map!PriorityPrevious(nx, pri, h, p) = PriorityPrevious(nx, pri, h, p)
  BY <1>4, <1>5 DEF Map!PriorityPrevious, PriorityPrevious
<1>7. Map!InsertProcQ(nx, pri, h, p) = InsertProcQ(nx, pri, h, p)
  BY <1>1, <1>6 DEF Map!InsertProcQ, InsertProcQ
<1> QED
  BY <1>1, <1>2, <1>7

(* A key has a queue when it has a descriptor.                             *)
LEMMA QueueFacts ==
  ASSUME Inv, NEW k \in Key
  PROVE  /\ QueueOf[k] = IF Search(k) = NULL THEN NULL ELSE s_procQ[Search(k)]
         /\ QueueOf[k] = NULL <=> Search(k) = NULL
         /\ QueueOf[k] \in Link
<1>1. QueueOf[k] = IF Search(k) = NULL THEN NULL ELSE s_procQ[Search(k)]
  BY DEF QueueOf
<1>2. Search(k) \in Used \cup {NULL}
  BY SearchIs
<1>3. \A s \in Used : s_procQ[s] # NULL /\ s_procQ[s] \in Link
  BY DEF Inv, TypeOK, UsedWaits, Used
<1> QED
  BY <1>1, <1>2, <1>3 DEF Link

(* The same processes wait.                                                *)
LEMMA WaitingIs ==
  ASSUME Inv
  PROVE  Map!Waiting = Waiting
<1>1. Map!Waiting = UNION {Reach(p_next, QueueOf[k]) : k \in Key}
  BY SameQueues DEF Map!Waiting
<1>2. Reach(p_next, NULL) = {}
  BY ReachNull DEF Inv, TypeOK
<1>3. ASSUME NEW k \in Key
      PROVE  Reach(p_next, QueueOf[k]) \subseteq Waiting
  <2>1. CASE Search(k) = NULL
    BY <1>2, <2>1, QueueFacts
  <2>2. CASE Search(k) # NULL
    <3>1. Search(k) \in Semd
      BY <2>2, SearchIs DEF Used
    <3>2. QueueOf[k] = s_procQ[Search(k)]
      BY <2>2, QueueFacts
    <3> QED
      BY <3>1, <3>2 DEF Waiting
  <2> QED
    BY <2>1, <2>2
<1>4. ASSUME NEW s \in Semd
      PROVE  \/ Reach(p_next, s_procQ[s]) = {}
             \/ \E k \in Key : Reach(p_next, s_procQ[s]) = Reach(p_next, QueueOf[k])
  <2>1. CASE s \in FreeSemd
    BY <1>2, <2>1 DEF Inv, UsedWaits
  <2>2. CASE s \notin FreeSemd
    <3>1. s \in Used /\ s_key[s] \in Key
      BY <2>2 DEF Used, Inv, ChainsRight
    <3>2. Search(s_key[s]) = s
      BY <3>1, SearchIs
    <3>3. QueueOf[s_key[s]] = s_procQ[s]
      BY <3>1, <3>2, Descriptors, QueueFacts
    <3> QED
      BY <3>1, <3>3
  <2> QED
    BY <2>1, <2>2
<1>5. Waiting \subseteq UNION {Reach(p_next, QueueOf[k]) : k \in Key}
  BY <1>4 DEF Waiting
<1>6. UNION {Reach(p_next, QueueOf[k]) : k \in Key} \subseteq Waiting
  BY <1>3
<1> QED
  BY <1>1, <1>5, <1>6

(* As many keys have waiters as descriptors are in use.                    *)
LEMMA KeysInUse ==
  ASSUME Inv
  PROVE  Cardinality({k \in Key : QueueOf[k] # NULL}) = Cardinality(Used)
<1> DEFINE K == {k \in Key : QueueOf[k] # NULL}
           f == [s \in Used |-> s_key[s]]
<1>1. \A k \in Key : QueueOf[k] # NULL <=> Search(k) \in Used
  BY QueueFacts, SearchIs, Descriptors DEF Used
<1>2. \A s \in Used : s_key[s] \in Key /\ Search(s_key[s]) = s
  BY SearchIs DEF Inv, ChainsRight
<1>3. \A k \in K : \E s \in Used : s_key[s] = k
  BY <1>1, SearchIs
<1>4. f \in [Used -> K]
  BY <1>1, <1>2
<1>5. \A s, t \in Used : f[s] = f[t] => s = t
  BY DEF Inv, OneEach
<1>6. \A k \in K : \E s \in Used : f[s] = k
  BY <1>3
<1> HIDE DEF f, K
<1>7. f \in Bijection(Used, K)
  BY <1>4, <1>5, <1>6 DEF Bijection, Injection, Surjection, IsInjective
<1>8. IsFiniteSet(Used)
  BY SemdFinite DEF Used
<1> QED
  BY <1>7, <1>8, FS_Bijection DEF K, ExistsBijection

-----------------------------------------------------------------------------
(***************************************************************************)
(* Every call is the call of the map.                                      *)
(***************************************************************************)
SearchRight ==
  \A k \in Key : /\ Search(k) \in Used \cup {NULL}
                 /\ \A s \in Used : s_key[s] = k <=> Search(k) = s

\* before a call and after it
LEMMA SearchFacts == Inv => SearchRight
BY SearchIs DEF SearchRight

\* headBlocked tells the first waiter of its key and changes nothing.
LEMMA HeadRefines ==
  ASSUME Inv, NEW k \in Key, HeadBlocked(k)
  PROVE  Inv' /\ Map!Head(k)
<1>1. UNCHANGED <<s_next, s_key, s_procQ, semdhash, semdFree_h, p_next>>
  BY DEF HeadBlocked, semd
<1>2. Inv'
  BY <1>1, SameChains DEF Inv, TypeOK, UsedWaits
<1>3. QueueOf' = QueueOf
  BY <1>1, SameChains DEF QueueOf
<1>4. ret' = QueueOf[k]
  BY QueueFacts DEF HeadBlocked
<1> QED
  BY <1>1, <1>2, <1>3, <1>4 DEF Map!Head

\* Removing the first waiter leaves the queue behind it.
LEMMA RemoveRefines ==
  ASSUME Inv, NEW k \in Key, RemoveBlocked(k)
  PROVE  Inv' /\ Map!Remove(k)
<1> DEFINE sem == Search(k)
           b   == s_procQ[sem]
<1>1. p_next' = p_next
  BY DEF RemoveBlocked
<1>2. CASE sem = NULL
  <2>1. UNCHANGED <<s_next, s_key, s_procQ, semdhash, semdFree_h, p_next>> /\ ret' = NULL
    BY <1>2, SearchIs, Descriptors DEF RemoveBlocked, semd
  <2>2. Inv'
    BY <2>1, SameChains DEF Inv, TypeOK, UsedWaits
  <2>3. QueueOf' = QueueOf
    BY <2>1, SameChains DEF QueueOf
  <2>4. QueueOf[k] = NULL
    BY <1>2, QueueFacts
  <2> QED
    BY <2>1, <2>2, <2>3, <2>4, SameQueues DEF Map!Remove
<1>3. CASE sem # NULL /\ p_next[b] # NULL
  <2>1. /\ ret' = b /\ s_procQ' = [s_procQ EXCEPT ![sem] = p_next[b]]
        /\ UNCHANGED <<p_next, s_next, s_key, semdhash, semdFree_h>>
    BY <1>3 DEF RemoveBlocked
  <2>2. sem \in Used /\ sem \in Semd
    BY <1>3, SearchIs DEF Used
  <2> HIDE DEF sem
  <2>3. Inv'
    BY <1>3, <2>1, <2>2, RemoveOneInv
  <2>4. QueueOf[k] = b /\ b # NULL
    BY <1>3, <2>2, QueueFacts DEF sem
  <2>5. \A j \in Key \ {k} : Search(j) # sem \/ sem = NULL
    BY <2>2, SearchIs DEF sem
  <2>6. s_procQ'[sem] = p_next[b] /\ \A s \in Semd \ {sem} : s_procQ'[s] = s_procQ[s]
    BY <2>1, <2>2 DEF Inv, TypeOK
  <2>7. ASSUME NEW j \in Key
        PROVE  QueueOf'[j] = IF j = k THEN p_next[b] ELSE QueueOf[j]
    <3>1. QueueOf'[j] = IF Search(j) = NULL THEN NULL ELSE s_procQ'[Search(j)]
      BY <2>1, SameChains DEF QueueOf
    <3>2. Search(j) = NULL \/ Search(j) \in Semd
      BY SearchIs DEF Used
    <3>3. CASE j = k
      BY <1>3, <2>6, <3>1, <3>3 DEF sem
    <3>4. CASE j # k
      BY <1>3, <2>5, <2>6, <3>1, <3>2, <3>4, QueueFacts
    <3> QED
      BY <3>3, <3>4
  <2>8. QueueOf' = [QueueOf EXCEPT ![k] = p_next[b]]
    BY <2>7 DEF QueueOf
  <2> HIDE DEF b
  <2> QED
    BY <2>1, <2>3, <2>4, <2>8, SameQueues DEF Map!Remove
<1>4. CASE sem # NULL /\ p_next[b] = NULL
  <2>1. /\ ret' = b /\ Release(sem, Unlink(sem).next, s_procQ)
        /\ semdhash' = Unlink(sem).hash
    BY <1>4 DEF RemoveBlocked
  <2>2. sem \in Used /\ sem \in Semd
    BY <1>4, SearchIs DEF Used
  <2> HIDE DEF sem
  <2>3. Inv'
    BY <1>1, <2>1, <2>2, RemoveLastInv
  <2>4. QueueOf[k] = b /\ b # NULL
    BY <1>4, <2>2, QueueFacts DEF sem
  <2>5. /\ s_key' = [s_key EXCEPT ![sem] = 0] /\ s_procQ' = [s_procQ EXCEPT ![sem] = NULL]
        /\ FreeSemd' = {sem} \cup FreeSemd
    BY <2>1, <2>2, ReleasePlaces DEF Release
  <2>6. Used' = Used \ {sem} /\ \A s \in Used \ {sem} : s_key'[s] = s_key[s] /\ s_procQ'[s] = s_procQ[s]
    BY <2>5 DEF Used, Inv, TypeOK
  <2>7. \A j \in Key : /\ Search(j)' \in Used' \cup {NULL}
                       /\ \A s \in Used' : s_key'[s] = j <=> Search(j)' = s
    <3>1. Inv' => SearchRight'
      BY SearchFacts, PTL
    <3> QED
      BY <2>3, <3>1 DEF SearchRight
  <2>8. s_key[sem] = k /\ \A s \in Used : s_key[s] = k => s = sem
    BY <2>2, SearchIs DEF sem, Inv, OneEach
  <2>9. ASSUME NEW j \in Key
        PROVE  Search(j)' = IF j = k THEN NULL ELSE Search(j)
    <3>1. CASE j = k
      <4>1. \A s \in Used' : s_key'[s] # k
        BY <2>6, <2>8
      <4> QED
        BY <2>7, <3>1, <4>1
    <3>2. CASE j # k
      <4>1. Search(j) # sem
        BY <2>2, <2>8, <3>2, SearchIs
      <4>2. CASE Search(j) = NULL
        <5>1. \A s \in Used : s_key[s] # j
          BY <4>2, SearchIs, Descriptors DEF Used
        <5>2. \A s \in Used' : s_key'[s] # j
          BY <2>6, <5>1
        <5> QED
          BY <2>7, <3>2, <4>2, <5>2
      <4>3. CASE Search(j) # NULL
        <5>1. Search(j) \in Used /\ s_key[Search(j)] = j
          BY <4>3, SearchIs
        <5>2. Search(j) \in Used' /\ s_key'[Search(j)] = j
          BY <2>6, <4>1, <5>1
        <5> QED
          BY <2>7, <3>2, <5>2
      <4> QED
        BY <4>2, <4>3
    <3> QED
      BY <3>1, <3>2
  <2>10. ASSUME NEW j \in Key
         PROVE  QueueOf'[j] = IF j = k THEN NULL ELSE QueueOf[j]
    <3>1. QueueOf'[j] = IF Search(j)' = NULL THEN NULL ELSE s_procQ'[Search(j)']
      BY DEF QueueOf
    <3>2. Search(j) = NULL \/ (Search(j) \in Used /\ (j # k => Search(j) # sem))
      BY <2>2, <2>8, SearchIs
    <3> QED
      BY <2>6, <2>9, <3>1, <3>2, QueueFacts
  <2>11. QueueOf' = [QueueOf EXCEPT ![k] = NULL]
    BY <2>10 DEF QueueOf
  <2>12. p_next[b] = NULL
    BY <1>4
  <2> HIDE DEF b
  <2> QED
    BY <1>1, <2>1, <2>3, <2>4, <2>11, <2>12, SameQueues DEF Map!Remove
<1> QED
  BY <1>2, <1>3, <1>4

\* The process is put on the queue of a semaphore that has waiters.
LEMMA InsertOldRefines ==
  ASSUME Inv, NEW k \in Key, NEW p \in Pcb, InsertBlocked(k, p), Search(k) # NULL
  PROVE  Inv' /\ Map!Insert(k, p)
<1> DEFINE sem == Search(k)
           nx  == [p_next EXCEPT ![p] = NULL]
           q   == InsertProcQ(nx, p_priority, s_procQ[sem], p)
<1>1. /\ p \notin Waiting /\ p_next' = q.next /\ s_procQ' = [s_procQ EXCEPT ![sem] = q.head]
      /\ ret' = 0 /\ UNCHANGED <<s_next, s_key, semdhash, semdFree_h>>
  BY DEF InsertBlocked
<1>2. sem \in Used /\ sem \in Semd /\ s_procQ[sem] \in Link
  BY SearchIs DEF Used, Inv, TypeOK
<1>3. nx \in [Pcb -> Link]
  BY DEF Inv, TypeOK, Link
<1> HIDE DEF nx
<1>4. q.next \in [Pcb -> Link] /\ q.head \in Pcb
  BY <1>2, <1>3, InsertProcQType
<1>5. QueueOf[k] = s_procQ[sem] /\ QueueOf[k] # NULL
  BY QueueFacts
<1> HIDE DEF sem
<1>6. q = Map!InsertProcQ(nx, p_priority, QueueOf[k], p)
  BY <1>5, SameQueues
<1> HIDE DEF q
<1>7. Inv'
  BY <1>1, <1>2, <1>4, InsertOldInv
<1>8. s_procQ'[sem] = q.head /\ \A s \in Semd \ {sem} : s_procQ'[s] = s_procQ[s]
  BY <1>1, <1>2 DEF Inv, TypeOK
<1>9. ASSUME NEW j \in Key
      PROVE  QueueOf'[j] = IF j = k THEN q.head ELSE QueueOf[j]
  <2>1. QueueOf'[j] = IF Search(j) = NULL THEN NULL ELSE s_procQ'[Search(j)]
    BY <1>1, SameChains DEF QueueOf
  <2>2. Search(j) = NULL \/ Search(j) \in Semd
    BY SearchIs DEF Used
  <2>3. CASE j = k
    BY <1>2, <1>8, <2>1, <2>3, Descriptors DEF sem
  <2>4. CASE j # k
    <3>1. Search(j) # sem
      BY <1>2, <2>4, SearchIs DEF sem
    <3> QED
      BY <1>8, <2>1, <2>2, <2>4, <3>1, QueueFacts
  <2> QED
    BY <2>3, <2>4
<1>10. QueueOf' = [QueueOf EXCEPT ![k] = q.head]
  BY <1>9 DEF QueueOf
<1>11. p \notin Map!Waiting
  BY <1>1, WaitingIs
<1> QED
  BY <1>1, <1>5, <1>6, <1>7, <1>10, <1>11, SameQueues DEF Map!Insert, nx

\* One Cardinality, met through two modules.
LEMMA SameCardinality ==
  ASSUME NEW S
  PROVE  Map!Cardinality(S) = Cardinality(S)
BY DEF Map!Cardinality, Cardinality, Map!IsFiniteSet, IsFiniteSet

\* The map refuses a process if its key would be one too many.
LEMMA MapRefuses ==
  ASSUME NEW k \in Key, NEW p \in Pcb, p \notin Map!Waiting, QueueOf[k] = Map!NULL,
         Cardinality({j \in Key : QueueOf[j] # Map!NULL}) >= MAXSEMD,
         p_next' = [p_next EXCEPT ![p] = Map!NULL], QueueOf' = QueueOf, ret' = -1
  PROVE  Map!Insert(k, p)
BY SameCardinality DEF Map!Insert

\* It is put on the queue if there is room for its key.
LEMMA MapInserts ==
  ASSUME NEW k \in Key, NEW p \in Pcb, p \notin Map!Waiting,
         ~(Cardinality({j \in Key : QueueOf[j] # Map!NULL}) >= MAXSEMD),
         NEW q, q = Map!InsertProcQ([p_next EXCEPT ![p] = Map!NULL], p_priority,
                                    QueueOf[k], p),
         p_next' = q.next, QueueOf' = [QueueOf EXCEPT ![k] = q.head], ret' = 0
  PROVE  Map!Insert(k, p)
BY SameCardinality DEF Map!Insert

\* It is the first on the queue of one that has none, if there is a
\* descriptor for it.
LEMMA InsertNewRefines ==
  ASSUME Inv, NEW k \in Key, NEW p \in Pcb, InsertBlocked(k, p), Search(k) = NULL,
         semdFree_h # NULL, CountSemd < MAXSEMD
  PROVE  Inv' /\ Map!Insert(k, p)
<1> DEFINE sem == D!AllocNode(s_next, semdFree_h)
           nx  == [p_next EXCEPT ![p] = NULL]
<1>1. /\ p \notin Waiting /\ p_next' = nx /\ ret' = 0 /\ InsertNew(k, p)
  <2>1. ~(CountSemd >= MAXSEMD)
    <3>1. CountSemd \in Int /\ MAXSEMD \in Int
      BY CountIs, SemdFinite DEF Used
    <3> QED
      BY <3>1
  <2> QED
    BY <2>1 DEF InsertBlocked
<1>2. /\ sem \in FreeSemd /\ FreeSemd' = FreeSemd \ {sem}
  BY <1>1, InsertNewPlaces
<1>3. s_key' = [s_key EXCEPT ![sem] = k] /\ s_procQ' = [s_procQ EXCEPT ![sem] = p]
  BY <1>1 DEF InsertNew
<1>4. nx \in [Pcb -> Link]
  BY DEF Inv, TypeOK, Link
<1>5. Inv'
  BY <1>1, <1>4, InsertNewInv
<1>6. QueueOf[k] = NULL
  BY QueueFacts
<1>7. InsertProcQ(nx, p_priority, QueueOf[k], p) = [next |-> nx, head |-> p]
  BY <1>4, <1>6 DEF InsertProcQ
<1> HIDE DEF sem, nx
<1>8. /\ sem \in Semd /\ Used' = Used \cup {sem} /\ sem \notin Used
      /\ s_key'[sem] = k /\ s_procQ'[sem] = p
      /\ \A s \in Used : s_key'[s] = s_key[s] /\ s_procQ'[s] = s_procQ[s]
  BY <1>2, <1>3, Descriptors DEF Used, Inv, TypeOK
<1>9. \A j \in Key : /\ Search(j)' \in Used' \cup {NULL}
                     /\ \A s \in Used' : s_key'[s] = j <=> Search(j)' = s
  <2>1. Inv' => SearchRight'
    BY SearchFacts, PTL
  <2> QED
    BY <1>5, <2>1 DEF SearchRight
<1>10. ASSUME NEW j \in Key
       PROVE  Search(j)' = IF j = k THEN sem ELSE Search(j)
  <2>1. CASE j = k
    BY <1>8, <1>9, <2>1
  <2>2. CASE j # k /\ Search(j) = NULL
    <3>1. \A s \in Used : s_key[s] # j
      BY <2>2, SearchIs, Descriptors DEF Used
    <3>2. \A s \in Used' : s_key'[s] # j
      BY <1>8, <2>2, <3>1
    <3> QED
      BY <1>9, <2>2, <3>2
  <2>3. CASE j # k /\ Search(j) # NULL
    <3>1. Search(j) \in Used /\ s_key[Search(j)] = j
      BY <2>3, SearchIs
    <3>2. Search(j) \in Used' /\ s_key'[Search(j)] = j
      BY <1>8, <3>1
    <3> QED
      BY <1>9, <2>3, <3>2
  <2> QED
    BY <2>1, <2>2, <2>3
<1>11. ASSUME NEW j \in Key
       PROVE  QueueOf'[j] = IF j = k THEN p ELSE QueueOf[j]
  <2>1. QueueOf'[j] = IF Search(j)' = NULL THEN NULL ELSE s_procQ'[Search(j)']
    BY DEF QueueOf
  <2>2. Search(j) = NULL \/ Search(j) \in Used
    BY SearchIs
  <2> QED
    BY <1>8, <1>10, <2>1, <2>2, QueueFacts, Descriptors
<1>12. QueueOf' = [QueueOf EXCEPT ![k] = p]
  BY <1>11 DEF QueueOf
<1>13. ~(Cardinality({j \in Key : QueueOf[j] # NULL}) >= MAXSEMD)
  <2>1. Cardinality(Used) \in Int /\ MAXSEMD \in Int
    BY SemdFinite DEF Used
  <2> QED
    BY <2>1, CountIs, KeysInUse
<1>14. p \notin Map!Waiting
  BY <1>1, WaitingIs
<1> DEFINE q == Map!InsertProcQ(nx, p_priority, QueueOf[k], p)
<1>15. q = [next |-> nx, head |-> p]
  BY <1>7, SameQueues
<1> HIDE DEF q
<1>16. q.next = nx /\ q.head = p
  BY <1>15
<1>17. p_next' = q.next /\ QueueOf' = [QueueOf EXCEPT ![k] = q.head]
  BY <1>1, <1>12, <1>16
<1>18. q = Map!InsertProcQ([p_next EXCEPT ![p] = Map!NULL], p_priority, QueueOf[k], p)
  BY SameQueues DEF q, nx
<1>19. ~(Cardinality({j \in Key : QueueOf[j] # Map!NULL}) >= MAXSEMD)
  BY <1>13, SameQueues
<1> QED
  BY <1>1, <1>5, <1>14, <1>17, <1>18, <1>19, MapInserts

\* It is refused when no descriptor is left.
LEMMA InsertRefused ==
  ASSUME Inv, NEW k \in Key, NEW p \in Pcb, InsertBlocked(k, p), Search(k) = NULL,
         semdFree_h = NULL \/ ~(CountSemd < MAXSEMD)
  PROVE  Inv' /\ Map!Insert(k, p)
<1> DEFINE nx == [p_next EXCEPT ![p] = NULL]
<1>1. /\ p \notin Waiting /\ p_next' = nx /\ ret' = -1
      /\ UNCHANGED <<s_next, s_key, s_procQ, semdhash, semdFree_h>>
  BY DEF InsertBlocked, semd
<1>2. nx \in [Pcb -> Link]
  BY DEF Inv, TypeOK, Link
<1>3. Inv'
  BY <1>1, <1>2, SameChains DEF Inv, TypeOK, UsedWaits
<1>4. QueueOf' = QueueOf
  BY <1>1, SameChains DEF QueueOf
<1>5. QueueOf[k] = NULL
  BY QueueFacts
<1>6. Cardinality(Used) = MAXSEMD
  <2>1. /\ Used \subseteq Semd /\ Cardinality(Used) \in Nat /\ Cardinality(Used) <= MAXSEMD
        /\ Cardinality(Used) = MAXSEMD <=> Used = Semd
    BY SemdFinite DEF Used
  <2>2. CASE semdFree_h = NULL
    <3>1. FreeSemd = {}
      BY <2>2, WalkFacts DEF FreeSemd, Inv, TypeOK
    <3> QED
      BY <2>1, <3>1 DEF Used
  <2>3. CASE ~(CountSemd < MAXSEMD)
    BY <2>1, <2>3, CountIs
  <2> QED
    BY <2>2, <2>3
<1>7. Cardinality({j \in Key : QueueOf[j] # NULL}) >= MAXSEMD
  BY <1>6, KeysInUse
<1>8. p \notin Map!Waiting
  BY <1>1, WaitingIs
<1> HIDE DEF nx
<1>9. /\ nx = [p_next EXCEPT ![p] = Map!NULL] /\ QueueOf[k] = Map!NULL
      /\ Cardinality({j \in Key : QueueOf[j] # Map!NULL}) >= MAXSEMD
  BY <1>5, <1>7, SameQueues DEF nx
<1> QED
  BY <1>1, <1>3, <1>4, <1>8, <1>9, MapRefuses

\* every call, or none
LEMMA NextRefines ==
  ASSUME Inv, [Next]_vars
  PROVE  Inv' /\ [Map!Next]_(Map!map)
<1>1. ASSUME NEW k \in Key, NEW p \in Pcb, InsertBlocked(k, p)
      PROVE  Inv' /\ Map!Insert(k, p)
  BY <1>1, InsertOldRefines, InsertNewRefines, InsertRefused
<1>2. CASE Next
  <2>1. ASSUME NEW k \in Key, \/ \E p \in Pcb : InsertBlocked(k, p)
                              \/ HeadBlocked(k)
                              \/ RemoveBlocked(k)
        PROVE  Inv' /\ Map!Next
    BY <1>1, <2>1, HeadRefines, RemoveRefines, SameQueues DEF Map!Next
  <2> QED
    BY <1>2, <2>1 DEF Next
<1>3. CASE UNCHANGED vars
  <2>1. UNCHANGED <<s_next, s_key, s_procQ, semdhash, semdFree_h, p_next, ret>>
    BY <1>3 DEF vars, semd
  <2>2. Inv'
    BY <2>1, SameChains DEF Inv, TypeOK, UsedWaits
  <2>3. QueueOf' = QueueOf
    BY <2>1, SameChains DEF QueueOf
  <2> QED
    BY <2>1, <2>2, <2>3 DEF Map!map
<1> QED
  BY <1>2, <1>3

\* an empty table is an empty map
LEMMA InitRefines == Init => Map!Init
<1> SUFFICES ASSUME Init PROVE Map!Init
  OBVIOUS
<1>1. Inv
  BY InitInv
<1>2. NULL \in SemLink /\ s_next \in [Semd -> SemLink]
  BY <1>1 DEF SemLink, Inv, TypeOK
<1>3. \A i \in Index : Chain(i) = {}
  BY <1>2, WalkFacts DEF Init, Chain
<1>4. \A k \in Key : Search(k) = NULL
  BY <1>3, Descriptors, <1>1 DEF Search
<1>5. QueueOf = [k \in Key |-> NULL]
  BY <1>4 DEF QueueOf
<1> QED
  BY <1>5, SameQueues DEF Init, Map!Init

-----------------------------------------------------------------------------
(* The invariant holds in every reachable state.                           *)
LEMMA Invariant == Spec => []Inv
<1>1. Inv /\ [Next]_vars => Inv'
  BY NextRefines
<1> QED
  BY <1>1, InitInv, PTL DEF Spec

(* Descriptors are free or on the one right chain, one for each semaphore  *)
(* with waiters, after any sequence of insertBlocked, headBlocked and      *)
(* removeBlocked, for every number of descriptors, chains and keys, and    *)
(* every hash function.                                                    *)
THEOREM AslCorrect == Spec => []AslSound
BY Invariant, InvSound, PTL

(* The hash table implements the map from keys to queues that the rest of  *)
(* the nucleus takes it for: insertBlocked refuses a process only when as  *)
(* many semaphores have waiters as there are descriptors.                  *)
THEOREM MapImplemented == Spec => ImplementsMap
<1>1. Inv /\ [Next]_vars => [Map!Next]_(Map!map)
  BY NextRefines
<1> QED
  BY <1>1, Invariant, InitRefines, PTL DEF Spec, ImplementsMap, Map!Spec
=============================================================================
