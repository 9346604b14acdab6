-------------------------------- MODULE Asl --------------------------------
(***************************************************************************)
(* The active semaphore list of yaeos (hash.c): descriptors of semaphores, *)
(* each on the list of free ones or on one of the chains of a hash table.  *)
(* A descriptor is in use while processes wait on its semaphore.           *)
(*                                                                         *)
(* Lists of descriptors are modelled as those of PCBs are: D is PcbLists   *)
(* for the table of descriptors, so that &semd_table[i] is i + 1 and NULL  *)
(* is 0.  The hash function is arbitrary.                                  *)
(***************************************************************************)
EXTENDS PcbLists, FiniteSetsExt

CONSTANTS
  Key,         \* the addresses of semaphores; 0 is one of them
  MAXSEMD,     \* number of descriptors (60)
  ASHDSIZE,    \* number of chains (16)
  Hash,        \* hash(key)
  p_priority   \* of each PCB

D == INSTANCE PcbLists WITH MAXPROC <- MAXSEMD

Semd  == D!Pcb
Index == 0..(ASHDSIZE - 1)

ASSUME AslAssumption ==
  /\ MAXSEMD \in Nat \ {0} /\ ASHDSIZE \in Nat /\ ASHDSIZE <= MAXSEMD
  /\ Key \subseteq Nat
  /\ Hash \in [Key -> Index]
  /\ p_priority \in [Pcb -> Int]

VARIABLES
  p_next,
  s_next, s_key, s_procQ,    \* the fields of each descriptor
  semdhash, semdFree_h,
  ret                        \* what the last call returned

semd == <<s_next, s_key, s_procQ, semdhash, semdFree_h>>
vars == <<p_next, semd, ret>>

\* initASL, over memory that is 0
Init ==
  /\ p_next = [p \in Pcb |-> NULL]
  /\ s_next = [s \in Semd |-> IF s < MAXSEMD THEN s + 1 ELSE NULL]
  /\ s_key = [s \in Semd |-> 0]
  /\ s_procQ = [s \in Semd |-> NULL]
  /\ semdhash = [i \in Index |-> NULL]
  /\ semdFree_h = 1
  /\ ret = 0

-----------------------------------------------------------------------------
Chain(i) == D!Reach(s_next, semdhash[i])

\* search(k): the first descriptor of k's chain that has the key k
Search(k) ==
  LET found == {s \in Chain(Hash[k]) : s_key[s] = k}
  IN  IF found = {} THEN NULL
      ELSE CHOOSE s \in found : found \subseteq D!Reach(s_next, s)

\* countSemd(0, 0)
CountSemd == MapThenSumSet(LAMBDA i : Cardinality(Chain(i)), Index)

Waiting == UNION {Reach(p_next, s_procQ[s]) : s \in Semd}

\* mutant: the chain is begun anew
InsertNewFirst(k, p) ==
  LET sem  == D!AllocNode(s_next, semdFree_h)
      free == D!AllocPcb(s_next, semdFree_h)
      i    == Hash[k]
  IN  /\ semdFree_h' = free.head
      /\ semdhash' = [semdhash EXCEPT ![i] = sem]
      /\ s_next' = free.next
      /\ s_key' = [s_key EXCEPT ![sem] = k]
      /\ s_procQ' = [s_procQ EXCEPT ![sem] = p]

\* allocSemd(k), the LAST of the free descriptors, then hashInsert, which
\* appends it to its chain
InsertNew(k, p) ==
  LET sem  == D!AllocNode(s_next, semdFree_h)
      free == D!AllocPcb(s_next, semdFree_h)
      i    == Hash[k]
  IN  /\ semdFree_h' = free.head
      /\ semdhash' = IF semdhash[i] = NULL THEN [semdhash EXCEPT ![i] = sem] ELSE semdhash
      /\ s_next' = IF semdhash[i] = NULL THEN free.next
                   ELSE [free.next EXCEPT ![D!LastNode(free.next, semdhash[i])] = sem]
      /\ s_key' = [s_key EXCEPT ![sem] = k]
      /\ s_procQ' = [s_procQ EXCEPT ![sem] = p]

\* insertBlocked(k, p) for a process that does not wait on a semaphore
InsertBlocked(k, p) ==
  LET sem == Search(k)
      nx  == [p_next EXCEPT ![p] = NULL]
      q   == InsertProcQ(nx, p_priority, s_procQ[sem], p)
  IN  /\ p \notin Waiting
      /\ \/ /\ sem # NULL
            /\ p_next' = q.next
            /\ s_procQ' = [s_procQ EXCEPT ![sem] = q.head]
            /\ ret' = 0
            /\ UNCHANGED <<s_next, s_key, semdhash, semdFree_h>>
         \/ /\ sem = NULL
            /\ CountSemd < MAXSEMD /\ semdFree_h # NULL
            /\ InsertNew(k, p)
            /\ p_next' = nx
            /\ ret' = 0
         \/ /\ sem = NULL
            /\ CountSemd >= MAXSEMD \/ semdFree_h = NULL
            /\ p_next' = nx
            /\ ret' = -1
            /\ UNCHANGED semd

\* headBlocked(k)
HeadBlocked(k) ==
  /\ ret' = IF Search(k) = NULL THEN NULL ELSE s_procQ[Search(k)]
  /\ UNCHANGED <<p_next, semd>>

-----------------------------------------------------------------------------
\* mutant: a descriptor is unlinked as if it were the first of its chain
UnlinkFirst(sem) ==
  [next |-> s_next, hash |-> [semdhash EXCEPT ![Hash[s_key[sem]]] = s_next[sem]]]

\* delete(s_key[sem]), then startSemd and vaInCoda: sem leaves its chain for
\* the end of the free list; queues are those of procQ
Unlink(sem) ==
  LET i    == Hash[s_key[sem]]
      prev == D!Previous(s_next, semdhash[i], sem)
  IN  IF semdhash[i] = sem
      THEN [next |-> s_next, hash |-> [semdhash EXCEPT ![i] = s_next[sem]]]
      ELSE [next |-> [s_next EXCEPT ![prev] = s_next[sem]], hash |-> semdhash]

Release(sem, next, procQ) ==
  LET free == D!FreePcb([next EXCEPT ![sem] = NULL], semdFree_h, sem)
  IN  /\ s_next' = free.next
      /\ semdFree_h' = free.head
      /\ s_key' = [s_key EXCEPT ![sem] = 0]
      /\ s_procQ' = [procQ EXCEPT ![sem] = NULL]

\* mutant: an empty descriptor stays where it is
RemoveBlockedKeep(k) ==
  LET sem == Search(k)
      b   == s_procQ[sem]
  IN  \/ /\ sem # NULL
         /\ s_procQ' = [s_procQ EXCEPT ![sem] = p_next[b]]
         /\ ret' = b
         /\ UNCHANGED <<p_next, s_next, s_key, semdhash, semdFree_h>>
      \/ /\ sem = NULL
         /\ ret' = NULL
         /\ UNCHANGED <<p_next, semd>>

\* removeBlocked(k)
RemoveBlocked(k) ==
  LET sem == Search(k)
      b   == s_procQ[sem]
      u   == Unlink(sem)
  IN  \/ /\ sem # NULL
         /\ ret' = b
         /\ \/ /\ p_next[b] # NULL
               /\ s_procQ' = [s_procQ EXCEPT ![sem] = p_next[b]]
               /\ UNCHANGED <<s_next, s_key, semdhash, semdFree_h>>
            \/ /\ p_next[b] = NULL
               /\ Release(sem, u.next, s_procQ)
               /\ semdhash' = u.hash
         /\ UNCHANGED p_next
      \/ /\ sem = NULL
         /\ ret' = NULL
         /\ UNCHANGED <<p_next, semd>>

-----------------------------------------------------------------------------
Next == \E k \in Key : \/ \E p \in Pcb : InsertBlocked(k, p)
                       \/ HeadBlocked(k)
                       \/ RemoveBlocked(k)

Spec == Init /\ [][Next]_vars

-----------------------------------------------------------------------------
(* Every descriptor is free or on one chain; a chain holds descriptors of  *)
(* keys that hash to it, one for each key, and all have waiters: a         *)
(* descriptor is taken for the first waiter and given back by the last.    *)
AslSound ==
  LET free == D!Reach(s_next, semdFree_h)
      used == UNION {Chain(i) : i \in Index}
  IN  /\ free \cup used = Semd /\ free \cap used = {}
      /\ \A s \in free : s_procQ[s] = NULL
      /\ \A i \in Index : \A s \in Chain(i) : Hash[s_key[s]] = i /\ s_procQ[s] # NULL
      /\ \A s, t \in used : s_key[s] = s_key[t] => s = t

\* the queue of each key
QueueOf == [k \in Key |-> IF Search(k) = NULL THEN NULL ELSE s_procQ[Search(k)]]

(* The hash table is a map from keys to queues, for every caller that sees *)
(* it through insertBlocked, headBlocked and removeBlocked: descriptors    *)
(* and chains do not show, and there are just enough of them.              *)
Map == INSTANCE AslMap WITH s_procQ <- QueueOf
ImplementsMap == Map!Spec

=============================================================================
