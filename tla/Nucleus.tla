------------------------------ MODULE Nucleus ------------------------------
(***************************************************************************)
(* What the nucleus promises to programs that terminate no process which   *)
(* waits: a tree of processes that run one at a time, the ready ones by    *)
(* their priorities, and semaphores whose waiters are served in the order  *)
(* they came.  A system call, an interrupt or a decision of the scheduler  *)
(* is one step; a subtree dies at once.  There are no lists, no free       *)
(* PCBs and no counters.                                                   *)
(***************************************************************************)
EXTENDS Integers, Sequences, Functions

CONSTANTS
  Proc, NONE,
  Priorities,  \* the priorities processes are created with
  MAXPRIO,     \* priority at which aging stops
  UserSem,     \* the programs' semaphores
  EventSem,    \* devices and pseudo-clock
  childSem     \* what WAITCHLD waits on

Sem == UserSem \cup EventSem \cup {childSem}

VARIABLES
  parent,      \* of every process that lives; NONE for the first one
  priority,    \* of every process that lives
  ready,       \* the ready processes, and the priority each has now
  current,     \* the process that runs; NONE if none does
  value,       \* of each semaphore
  queue,       \* the processes that wait on each semaphore
  stopped      \* "no", "halt" or "panic"

processes == <<parent, priority>>
semaphores == <<value, queue>>
abstract == <<processes, ready, current, semaphores, stopped>>

Live == DOMAIN parent
Elements(s) == {s[i] : i \in 1..Len(s)}
Waiting == UNION {Elements(queue[k]) : k \in Sem}

\* p and its offspring: the least set that holds p and the children of its members
Family(p) ==
  {q \in Live : \A S \in SUBSET Live :
     (p \in S /\ \A c \in Live : parent[c] \in S => c \in S) => q \in S}

Init ==
  \E p \in Proc :
    /\ parent = [q \in {p} |-> NONE]
    /\ priority = [q \in {p} |-> 0]
    /\ ready = [q \in {p} |-> 0]
    /\ current = NONE
    /\ value \in [Sem -> Nat]
    /\ \A k \in Sem \ UserSem : value[k] = 0
    /\ queue = [k \in Sem |-> << >>]
    /\ stopped = "no"

-----------------------------------------------------------------------------
\* f with the value x at p
Put(f, p, x) == [q \in DOMAIN f \cup {p} |-> IF q = p THEN x ELSE f[q]]

Create(p, n) ==
  /\ current # NONE
  /\ p \notin Live
  /\ parent' = Put(parent, p, current)
  /\ priority' = Put(priority, p, n)
  /\ ready' = Put(ready, p, n)
  /\ UNCHANGED <<current, semaphores, stopped>>

\* The first process in WAITCHLD is woken, whosever parent it is.
Terminate(p) ==
  LET gone  == Family(p)
      woken == IF parent[p] # NONE /\ queue[childSem] # << >>
               THEN {Head(queue[childSem])} ELSE {}
  IN  /\ current # NONE
      /\ p = current \/ current \notin gone
      /\ gone \cap Waiting = {}
      /\ parent' = Restrict(parent, Live \ gone)
      /\ priority' = Restrict(priority, Live \ gone)
      /\ ready' = [q \in (DOMAIN ready \ gone) \cup woken |->
                     IF q \in woken THEN priority[q] ELSE ready[q]]
      /\ current' = IF p = current THEN NONE ELSE current
      /\ queue' = IF woken = {} THEN queue ELSE [queue EXCEPT ![childSem] = Tail(@)]
      /\ UNCHANGED <<value, stopped>>

P(k) ==
  /\ current # NONE
  /\ \/ /\ value[k] = 0
        /\ queue' = [queue EXCEPT ![k] = Append(@, current)]
        /\ current' = NONE
        /\ UNCHANGED value
     \/ /\ value[k] > 0
        /\ value' = [value EXCEPT ![k] = @ - 1]
        /\ UNCHANGED <<queue, current>>
  /\ UNCHANGED <<processes, ready, stopped>>

WaitChild ==
  /\ \E c \in Live : parent[c] = current
  /\ P(childSem)

Wake(k) ==
  /\ queue[k] # << >>
  /\ queue' = [queue EXCEPT ![k] = Tail(@)]
  /\ ready' = Put(ready, Head(queue[k]), priority[Head(queue[k])])
  /\ UNCHANGED <<processes, current, value, stopped>>

V(k) ==
  /\ current # NONE
  /\ \/ Wake(k)
     \/ /\ queue[k] = << >>
        /\ value' = [value EXCEPT ![k] = @ + 1]
        /\ UNCHANGED <<processes, ready, current, queue, stopped>>

\* devices and pseudo-clock wake, and never leave a V behind
Event(k) == Wake(k)

-----------------------------------------------------------------------------
Aged == [p \in DOMAIN ready |-> IF ready[p] < MAXPRIO THEN ready[p] + 1 ELSE ready[p]]

Age ==
  /\ current # NONE
  /\ ready' = Aged
  /\ UNCHANGED <<processes, current, semaphores, stopped>>

\* one of the processes with the highest priority, that of the moment
Dispatch(p, aging) ==
  /\ current = NONE
  /\ p \in DOMAIN ready
  /\ \A q \in DOMAIN ready : ready[q] <= ready[p]
  /\ current' = p
  /\ ready' = Restrict(IF aging THEN Aged ELSE ready, DOMAIN ready \ {p})
  /\ UNCHANGED <<processes, semaphores, stopped>>

\* a process runs, and starts to wait again, with its own priority
Preempt ==
  /\ current # NONE
  /\ ready' = Put(ready, current, priority[current])
  /\ current' = NONE
  /\ UNCHANGED <<processes, semaphores, stopped>>

\* nothing lives, or everything waits for something that is not an event
Halt ==
  /\ stopped = "no"
  /\ Live = {}
  /\ stopped' = "halt"
  /\ UNCHANGED <<processes, ready, current, semaphores>>

Panic ==
  /\ stopped = "no"
  /\ Live # {}
  /\ Live = UNION {Elements(queue[k]) : k \in Sem \ EventSem}
  /\ stopped' = "panic"
  /\ UNCHANGED <<processes, ready, current, semaphores>>

Next ==
  \/ \E p \in Proc, n \in Priorities : Create(p, n)
  \/ \E p \in Live : Terminate(p)
  \/ \E k \in UserSem \cup EventSem : P(k)
  \/ \E k \in UserSem : V(k)
  \/ \E k \in EventSem : Event(k)
  \/ WaitChild \/ Age \/ Preempt
  \/ \E p \in Proc, aging \in BOOLEAN : Dispatch(p, aging)
  \/ Halt \/ Panic

Spec == Init /\ [][Next]_abstract

=============================================================================
