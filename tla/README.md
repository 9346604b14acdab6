# A verification of the yaeos nucleus in TLA+

yaeos is a teaching operating system for the uARM machine: a nucleus in C
(`src/modules`) that gives processes, semaphores, a pseudo-clock and device
requests through ten system calls. This project models the nucleus in TLA+,
checks it with TLC on small instances, and proves theorems about it with TLAPS
for instances of every size.

## 1. The system

| Part (source) | State it keeps | Operations | What makes it correct |
|---|---|---|---|
| PCB lists (`pcb/src/coda.c`) | `p_next` of every PCB, the free list | `allocPcb`, `freePcb`, `insertProcQ`, `removeProcQ`, `outProcQ`, `forallProcQ` | a PCB is on one list, though all lists share one link; queues are ordered by priority, first come first served among equals; walks end |
| Process tree (`pcb/src/alberi.c`) | `p_parent`, `p_first_child`, `p_sib` | `insertChild`, `removeChild`, `outChild` | a forest: links down and up agree; termination takes whole subtrees |
| Active semaphore list (`pcb/src/hash.c`) | descriptors in a hash table, each with a queue | `insertBlocked`, `headBlocked`, `removeBlocked`, `outChildBlocked` | one descriptor per semaphore with waiters, none for the others |
| System calls (`kernel/src/systemcalls.c`) | semaphore values, `activeProcesses`, `softblockProcesses` | SYS1 to SYS10 | waiters and values of a semaphore agree; counters count what they say; a device's result has a taker |
| Trap handlers (`kernel/src/traphandlers.c`) | the areas of SPECHDL, CPU times | dispatch of system calls, pass-up or termination | every trap is served once, by whoever must |
| Scheduler (`kernel/src/scheduler.c`) | `readyQueue`, `currentPcb`, priorities, the timer | aging, dispatch, resumption, halt, wait, panic | the best ready process runs; deadlock is told from waiting |
| Interrupt handlers (`kernel/src/interrupt.c`) | `tickPerWait`, device registers | pseudo-clock tick, preemption, device completion | every request completes; a tick wakes every waiter once |
| Boot (`kernel/src/init.c`) | all of the above | `initializeVariables` | |

There is one CPU and handlers run with interrupts disabled. Concurrency is that
of processes, whose system calls interleave at every timer interrupt, of the
devices, and of the clock. Components share memory: handlers call the list and
tree functions, `semp` and `semv` move PCBs between the ready queue and the
queues of semaphores, and every handler ends in `scheduler()`, which never
returns.

What is hard in this code is that one link field serves all the lists, so that a
PCB on two lists damages both; that termination dismantles a subtree whose
processes are spread over those lists; that the decision between halting, waiting
and panicking rests on two counters which every handler maintains; that devices
complete at any time; and that system calls trust their arguments. The list of
`hazards` in `PROJECT.json` names each of them at its line.

## 2. The modules

**PcbLists** models `coda.c`. A list is what it is in the code: a function from
PCBs to successors and a head. `&pcbfree_table[i]` is `i + 1` and `NULL` is 0.
The recursive walks become statements about the set of nodes reached
(`Reach`, `LastNode`, `Previous`, `PriorityPrevious`), which avoids recursive
operators and makes a walk over a cyclic list expressible: `Ends` is false of it.
Two lists that share a PCB share its successor here as they do in memory.
**PcbListTheorems** holds the theorems about these operators.

**Kernel** models the nucleus over those lists. Each variable has the name of the
C variable or field it stands for; `s_procQ[k]` is the queue of the semaphore
with key `k` (NULL when it has no descriptor) and `semval[k]` the integer at its
address. Keys are the programs' semaphores `UserSem`, the indices `0..NDEV` of the
array `semaphores`, `timerSem`, and `childSem`, which is address 0: `p_semKey` is
assigned nowhere in the source, so that it is the same for every process.

| Action | Code |
|---|---|
| `CreateProcess`, `CreateFails` | `createprocess` with `allocPcb`, `startPcb`, `insertChild`, `insertProcQ` |
| `TerminateProcess`, then `RemoveChild` and `Release` | `terminateprocess`, then each turn of the recursion `liberaTutti`; `stack` holds the arguments of the pending calls |
| `SemPCall`, `SemVCall`, `WaitClock`, `WaitChild`, `IoDevOp` | SYS3, SYS4, SYS7, SYS10, SYS8, all by `semp` and `semv` |
| `OtherCall` | SYS5, SYS6 and SYS9, whose own effects are in Traps, Times and P2test |
| `Resume`, `Dispatch`, `Idle`, `AgingLost` | the branches of `scheduler` |
| `TimerInterrupt`, `PseudoTick`, `Preempt` | `timerHandler`, with each turn of its loop |
| `DeviceInterrupt` | `deviceHandler` |
| `DeviceDone` | the device (external) |

A handler takes several steps, ordered by `pc`, only where it has a loop or calls
`scheduler()`; no process or interrupt comes between them. `pc = "lost"` says that
the kernel is in a walk that never returns. Programs are arbitrary: the process
that runs may make any call. The kernel does not check the argument of SYS2, and
the constant `Discipline` says how careful programs are with it:

* `"any"`: any pid they were ever given, stale ones and their own included;
* `"others"`: live processes only, themselves by SYS2 NULL only;
* `"unblocked"`: besides, no process that waits on a semaphore, nor one with a
  descendant that does.

Two more habits of programs are assumed. Requests to one device are serialized: this
is the guard `dev[d] = "idle"` of `IoDevOp`, and what Printing shows of programs that use
a mutex as `print` of `p2test.c` does. And a semaphore is not V'd beyond `SEMCAP`.

**KernelProperties** states the properties of Kernel and **KernelInvariant** what they
rest on; **MCKernel** is the module TLC runs. **KernelProofs** holds the theorems for
any program and those about the shape of lists and tree, **KernelStateProofs** those
about counters, requests, priorities, queues and the ends of handlers, and those about
Traps and Printing.

**Nucleus** says what the nucleus promises, without lists, free PCBs or counters: a
tree of processes, one that runs, the ready ones with the priority each has at the
moment, and a first come first served queue and a value for each semaphore. A system
call is one step, the death of a whole subtree included. **KernelRefinement** maps
the links of Kernel to these sets and sequences: processes that `liberaTutti` has yet
to free are dead already, and its steps after the first are stutters.
**KernelRefinementProofs** proves that this mapping works.

**Traps** adds to Kernel what a process does besides its system calls: the traps that
are passed up to a handler of SPECHDL, in place of the process, or that end it, the
mode it runs in, and the test for system mode of `sysHandler`. `HandlerStatus` is
what `getSTATUS()` reads there, the status that boot has given to the handler.
`TrapsSpec` has processes make any calls and traps, and set any handlers.

**Printing** adds to Kernel the habit of `print`: a process gives a device a command
only between a P and a V on the mutex of the device. `asked` is not in the code; it has
the mutexes on which a process made a P and not yet a V. `Command` is `iodevop` as it
is, which does not ask what the device does.

| Action | Code |
|---|---|
| `AskFor`, `GiveBack` | `print`'s SYS3 and SYS4 on `term_mutex`, and any other P and V |
| `Command` | SYS8 |
| `Spawn` | SYS1; the new process has asked for nothing |
| `Aside` | all else that happens in Kernel |

**P2test** is the test of the nucleus, `p2test.c`, on Kernel, Traps and Printing. Each program is
a sequence of instructions (its system calls, traps, assignments to shared variables,
and the checks that end in `PANIC()`), `at` says where each process is, and
`ProgramStep` executes an instruction by the action of those modules that serves it.
`print` writes one character; the loop of p2 on WAITCLOCK, which ends when a wait was
long enough, is unrolled to the two turns it can need; and `Handle` has the results of
SPECHDL with which the program goes on, all of them where it ignores the result. The timer finds a process in the loops of p5
and p6 any number of times, and elsewhere `PREEMPTIONS` times in all: every return
from a system call starts a new slice (`scheduler.c:52-55`), so that it is seldom
over anywhere else.

**Terminal** models one terminal: the two halves of its register, each with a command
and a status, behind the one semaphore and the one interrupt that `iodevop` and
`deviceHandler` know. Programs share it by mutexes; `sharing` is either one mutex for
the terminal, as in `p2test.c`, or one for each half. `by` is not in the code: it is
the process whose command a half executes. The queue is the sequence that Nucleus
makes of it. **TerminalProofs** holds the theorems.

**Clock** models `scheduler()` and `timerHandler()` in time: `TOD` is what
`getTODLO()` returns, `timer` the interval timer, and all differences are those
of `unsigned int` (`Minus`). Each read of the clock in `scheduler()` is a read of
its own (`agreed` records whether a test and the value it protects were computed
from the same time): `Resume` and `Dispatch` let a member of `Gap` pass between one and the
next, and `Work` passes in a handler before it calls `scheduler()`. `Block`,
`WaitClock`, `Wake` and `Return` stand for the system calls and interrupts of
Kernel by what they do to the CPU. `lag` is not in the code: it is the true time
since the moment `tickPerWait` stands for, to which the code's wrapping difference
is compared. **ClockProofs** holds the theorems.

**Times** models the accounting of CPU time: `kernel_start`, `start`,
`total_time`, `kernel_time` and `wall_start`, the four places that charge a
process (`semp`, `sysHandler`, `timerHandler`, `scheduler`), `gettime`, the reuse
of PCBs and the pass-up of traps, which adds the address of `getTODLO` where a
call was meant (`traphandlers.c:89`; `HANDLER` is that address). The end of a process
may wake one that waits, and takes with it any processes that do not (`Ends`): who is
whose child is Kernel's matter. **TimesProofs** holds the theorems.

**Asl** models `hash.c`: the table of descriptors, the list of free ones and the
chains, linked as PCBs are (`D` is PcbLists for descriptors). The hash function is
a constant. **AslMap** says what callers may rely on, a map from keys to queues with
room for `MAXSEMD` keys, which is what Kernel uses; Asl is shown to implement it
by the mapping of each key to the queue of the descriptor `search` finds (`QueueOf`).
**AslProofs** holds the theorems.

Operators whose comment begins with
"mutant" are faulty variants of the definition after them, which no specification
uses: substituting one for its original must violate a property, which shows that
the property can fail.

## 3. What is checked

| Run | Instance | Shows |
|---|---|---|
| `core` | 3 PCBs, 1 device, 1 user semaphore, priorities 0 and 1, `"unblocked"` | seventeen properties, below |
| `any` | 1 PCB, 2 terminals, `"any"` | `TypeOK`, `SemaphoresSound`, `RequestHasWaiter`: what no program can break |
| `p2test` | the programs of `p2test.c`, 9 PCBs, 2 preemptions | `TestPasses`, `TerminatedNeverRuns`, `CleanEnd`, `Serialized`, `FreshHandlers`, `TestEnds` |
| `terminals` | 3 processes, one terminal, commands may fail | `OwnResult`, `Matched`, `NoneGoesOnUnset`, `RequestsAnswered` |
| `clock` | clock of 16, period 5, slice 2, 2 processes, up to 1 unit between reads | `TypeOK`, `NeverEarly`, `WithinSlice`, `WaitersWoken` |
| `times` | 2 PCBs, 6 units of time, the clock wraps | `ChargedOnce`, `KernelWithinTotal`, `CpuWithinWall` |
| `asl` | 3 PCBs, 2 descriptors, 2 chains, 3 keys of which 2 collide | `AslSound`, `ImplementsMap` |
| `zombie`, `waitchild`, `terminal7`, `doubleread`, `usermode` | small | findings, section 4 |

In `any` links and counters have their types (`TypeOK`) whatever programs do.

The properties of `core`: a semaphore never has waiters and a positive value, and those
of the kernel bank nothing (`SemaphoresSound`); a PCB is in exactly one place and no walk is
endless (`OnePlace`); the counters count what they say (`ActiveCounts`,
`SoftblockCounts`); aging in place keeps the ready queue sorted (`ReadySorted`);
waiting and aging never cost a process its priority (`PriorityKept`); the process
tree is a forest of live processes (`TreeSound`) and termination leaves no orphan
(`NoOrphan`); halt, panic and wait are decided rightly (`StopsRight`); a device at
work has a waiter (`RequestHasWaiter`); semaphores are first come first served
(`NoOvertaking`, an action property); every turn of the recursion of `liberaTutti` and
of the loop of a tick brings the handler nearer its end, so that none goes on for ever
(`HandlersEnd`, an action property); Kernel implements Nucleus
(`ImplementsNucleus`); requests to a device complete (`RequestsComplete`), an idle
machine gets back to running a process (`IdleResumes`), and a ready process is not
overtaken for ever (`NoStarvation`, if priorities are within the reach of aging).
`Supported` is what the proofs of section 5 need besides: no process that is about to
be freed is free, waits or runs, `liberaTutti` has no two pending calls for a process
and has unlinked it before it goes down into its children, at most one live process
has no parent, every request has its waiter until its interrupt is acknowledged, and
the machine waits only with nothing to run and something to wait for.

In `p2test` no check of the test fails (`TestPasses`) and it ends (`TestEnds`), with
no process left of those it created (`CleanEnd`, which is about live processes and the
counters: the freed PCBs of those that were terminated while they waited stay in the
queues of `p1sem`, `blkp3` and `p7lock`); no terminated process goes on, although
p1, the second p3 and the processes below p7 are terminated while they wait and stay
in the queues of semaphores (`TerminatedNeverRuns`): the PCB freed last is the first
to be used again, which is what keeps the finding of the run `zombie` from showing.
Whoever is between the P and the V of `print` and makes a call finds the terminal idle
(`Serialized`): no character is given to it while it writes another. And a PCB that is
used again starts without the handlers that p4 set in it, and nobody sets those of
another process (`FreshHandlers`, an action property).

In `terminals`, with one mutex for the terminal, whoever is woken has the status of
its own command (`OwnResult`), no command is given to a half at work, so that waiters
and interrupts to come match (`Matched`), and every waiter is woken
(`RequestsAnswered`). A command that fails wakes a process and leaves its a1 as it is,
but that process never goes on (`NoneGoesOnUnset`): the interrupt is not acknowledged,
and comes again for ever before any process runs.

The other properties: the timer holds no
more than a slice (`WithinSlice`, if no time passed between the reads of the clock
that set it); no tick is early (`NeverEarly`) and every WAITCLOCK ends
(`WaitersWoken`, if programs let the timer fire); no time is charged twice
(`ChargedOnce`); kernel time is part of the total (`KernelWithinTotal`, for PCBs used
for the first time whose process has passed no trap up); of two GETTIMEs the CPU time grows, by no more than
the wall time (`CpuWithinWall`, what `p2test.c:112` tests); every descriptor is free
or on the one right chain with waiters (`AslSound`); chains and descriptors do not
show through the results of calls (`ImplementsMap`).

*What no property catches.* Some properties hold because the condition in them, or the
run, leaves out what the code does not prevent; those hazards are listed in
`PROJECT.json` without a property. With a mutex for each half of a terminal, none of
`OwnResult`, `Matched` and `RequestsAnswered` holds. A preemption of the first process
between the creations of p5 and p6 makes the test fail. Priorities above `MAXPRIO`
starve processes of low ones. Programs that never let the timer fire stop the
pseudo-clock. Kernel time is arbitrary after a trap was passed up, and wrong in a PCB
that is used again. Ticks come up to a slice late. Nothing in the code makes up for
these, so that there is no property to state that would hold; section 4 has those that
contradict a comment.

*Bounds.* Three PCBs are the fewest with which a queue has a middle, a process
has two siblings or a grandchild, and one process terminates another while a third
waits; the pool of PCBs is exhausted often. `MAXPRIO = 1` with priorities 0
and 1 has processes below and at the limit of aging. Two devices make one the last
one, which is a case of its own. `UINT = 8` is more than the counters need unless
they wrap, which `TypeOK` would allow and the counting properties would not. In
`any` the lists decay without end and the instance must be smaller: one PCB is
freed twice, allocated while it runs, made its own child, and so on; `UINT = 4`
lets counters wrap. Every action is taken in some passing run, `AgingLost` and
the interrupt without a waiter included.

In `p2test` nine PCBs are more than ever live at once (eight), so that no creation
fails, as with the twenty of the code, and the constants `MAXPRIO` and `CLOCKLOOP` have
the values of the code. Two preemptions can hit any two programs in the middle of
what they do together; a third one was tried and found nothing. The first process
is not preempted while it creates p3 to p6: section 4 says why. It is supposed to find
NULL in the variable that `getpids` does not set for a process without a parent. In
`terminals` three processes are one more than there are halves, so that one always
finds the terminal taken.

In `clock` the clock starts anywhere (`Boots`) and wraps again and again; ticks can
be late by more than one period, and by more than the range of the clock, since
programs may keep the timer from firing. `MAXTIME = 6` in `times` is room for two
slices of each process with calls in both, and boot at 13 of 16 lets the clock
wrap; one trap is passed up by each process. In `asl` a chain has a first and a
last descriptor to unlink, and with three keys for two descriptors `insertBlocked`
refuses; chains of three are longer than TLC can follow the refinement through.

*Fairness*. A handler that has started goes on: it runs with interrupts disabled
(`HandlerSpec`, under which `core` is checked). `Fairness`, which `RequestsComplete` and
`IdleResumes` take for granted and `terminal7` is run with, adds that a device completes
its command and that a pending interrupt is taken: strong fairness, since the timer's line has
priority over it, but the timer has just been set again when it was served. The timer
of an idle machine goes on firing and finds the pseudo-clock expired, if processes do
not run again and again. Nothing is assumed of processes, and nothing of the timer
while they run, since `scheduler()` sets it anew at every system call: a program
can defer the timer for ever. In `p2test` (`P2Fairness`) programs go on as well; in
`terminals` somebody types, so that the receiver completes its commands too.

`SliceFairness` (in `NoStarvation`) and `Fairness` of Clock (run `clock`) do assume of
programs what those two properties need: that the timer fires again and again,
because processes compute for a slice, or wait. In Clock it must also fire while a
period is over, and not only at other moments: after a whole range of the clock,
71 minutes, the wrapping difference looks as if the period had just begun. Without
this last assumption TLC finds a process that waits for ever. The code has
nothing that would make up for programs that do not let the timer fire. Aging falls
due again and again since time passes. The handlers and the passing of time are
weakly fair.

## 4. Findings

* `zombie` (with programs of Discipline `"others"`): `liberaTutti`
  (`systemcalls.c:41-52`) removes a process from the ready queue but not from the
  queue of the semaphore it waits on. `freePcb` links it into the free list by the
  same `p_next`, and a later V makes the free PCB ready. `p2test.c` terminates a
  process that waits and expects that it does not go on (`p2test.c:80`). The same
  PCB being the next one `allocPcb` hands out hides the fault in that test.
* `waitchild`: the comment at `systemcalls.c:85` says that the parent that waits for
  the process is woken; the first process in WAITCHLD is, whosever parent it is.
* `terminal7`: for a register of the last device `getDeviceNi` returns 40 where
  `deviceHandler` uses 39. The process is never woken and the interrupt is never
  acknowledged. The run lets no command fail, so that the index is the only cause.
* `doubleread`: `scheduler()` tests one reading of the clock and computes with the
  next (`scheduler.c:52-53`, `81-85`). When time passes between them at the end of a
  slice, the unsigned difference wraps and the timer is set to about 2^32.
* `usermode`: `sysHandler` means to refuse system calls of processes in user mode, and
  tests the status of the handler, which is in system mode (`traphandlers.c:41`). The
  test goes to user mode and calls P there (`p2test.c:207`); the P is served. The test
  does not notice: p4 ends as it would have.

Other disagreements were met while modelling and have no run of their own.

* With a mutex for each half of a terminal, a reader and a writer are given each other's
  status, since `deviceHandler` gives the status of whichever half is done to whoever has
  waited longest; one of them then writes a command to a half that is still at work,
  which ignores it, and waits for ever. TLC finds this when the condition that the
  mutex is for the whole terminal is left out of `OwnResult`, `Matched` or
  `RequestsAnswered`.
* If the first process is preempted between creating p5 and p6, p5 runs
  first and `p5p6race` is 6 at the end: the test of priorities depends on time. TLC
  finds `TestPasses` violated when `Timer` does not leave these preemptions out.
* `startPcb` clears `total_time` and not `kernel_time`, though the comment at
  `coda.c:108` says that all fields are initialized: a PCB used again has more kernel
  time than total time, and its user time wraps.
* `100 * 1000 - TOD - tickPerWait` (`scheduler.c:81`) is not the time left to the tick,
  which would be `tickPerWait + 100 * 1000 - TOD`, although the comment below it says
  that the slice is shortened to the tick: ticks come up to a slice late.
* `outChildBlocked`, which no part of the nucleus calls, walks from the first `ASHDSIZE`
  entries of `semd_table` instead of the chains (`hash.c:285`); it is not modelled.

## 5. What is proved

All theorems about Kernel hold for every value of the constants that satisfies
`MaxprocAssumption` and `KernelAssumption` (the types of the constants and that the
addresses of different semaphores differ).

**What no program can break** (KernelProofs):

* `TypeCorrect`: `Spec => []TypeOK`, for programs of every Discipline, hence over
  cyclic and shared lists too. `TypeOK` is inductive. The argument is that a walk
  either ends at a node it reached or is not used: `LastNodeType` of PcbListTheorems,
  from which the lemmas there on `insertProcQ`, `outProcQ`, `allocPcb` and `freePcb`
  follow, then one lemma per handler.
* `SemaphoresCorrect`: `Spec => []SemaphoresSound`. It is inductive together with
  `TypeOK`. `semp` takes from a positive value only, where the queue is empty;
  `semv` adds only where it is empty; and each call of `semv` on a kernel
  semaphore is behind a test of `headBlocked`.
* `DeviceSemaphore`: `getDeviceNi` returns the index that `deviceHandler` uses for
  every device but the last, for every number of devices.
* `RequestsWaitedFor`: `Spec => []RequestHasWaiter`, if there are at least as many
  descriptors as semaphores (`Descriptors`), again for every Discipline: terminating
  the waiter leaves it in the queue. It needs the two invariants above (a device's
  semaphore is 0, so that `iodevop` blocks) and `DeviceSemaphore`; that the queue
  of a device is left by `deviceHandler` only is in `SemPQueues` and `SemVQueues`.

**Lists** (PcbListTheorems). What a walk over links finds is an induction along the
links, and TLAPS cannot instantiate the library's induction theorems. `Reach` is
therefore unfolded to a sequence of sets of nodes (`ReachEquation`), and a claim about
all numbers is shown of the set of numbers for which it holds: if it were not all, the
library's well-founded order would give a least number outside (`LeastNat`, `UpTo`).
`ReachLeast` is the induction in the form the other proofs use: a set that has the
head and is closed under the links has all that the walk finds. From it: a list that
ends has no cycle (`NoCycle`) and one last node (`LastUnique`), of two nodes one comes
first (`ReachLinear`), and a change to other nodes does not matter (`ReachFrame`). Then
each function of `coda.c` has a theorem: which PCBs its list has afterwards, that it
ends, and that links outside of it are as before (`InsertProcQFacts`, `OutProcQFacts`,
`AllocPcbFacts`, `FreePcbFacts`); `insertProcQ` and `outProcQ` keep an ordered queue
ordered (`InsertSorted`, `OutSorted`), and among equals the last comes last
(`InsertLast`).

**What careful programs can rely on** (KernelProofs and KernelStateProofs). These
theorems assume `Careful` and, where a counter is concerned, `Width`:

* `Careful` has programs of Discipline `"unblocked"`: they terminate no process that
  waits, nor one with a descendant that waits. This is needed: the run `zombie` shows
  that the lists do not survive it. It also has at least as many descriptors as
  PCBs: 60 and 20 in `const.h`.
* `Width` is `MAXPROC < UINT`: the counters are unsigned ints and there are 20 PCBs.

The inductive invariant, `Inductive` of KernelInvariant, is built in two stages.
`Structure` is inductive with `TypeOK` (`StructureCorrect`). It says that lists end
(`ListsEnd`) and are disjoint (`ListsApart`), that links up and down the tree agree
(`TreeSound`), and what `liberaTutti` may find while it runs (`DyingSound`). None
of these is inductive alone: `outProcQ` on a PCB of another list would cut that list,
so that disjointness is needed for the walks to end; a terminated process must be in
no queue of a semaphore, which is known of a whole subtree when SYS2 is called, and
must still be known of what is left of it many steps later; that requires that the
pending calls of `liberaTutti` are for different processes, unlinked from their
parents one by one. Each step is of one of nine kinds by what it does to lists
and tree (`StepKind`), and each kind has a lemma that it preserves `Structure`.

* `OnePlaceCorrect` and `TreeCorrect` follow from `Structure`.
* `ActiveCountsCorrect`, `SoftblockCountsCorrect`: per kind of step, which set of
  PCBs gains or loses which member (the `...Places` lemmas); the counters follow by
  cardinalities, without wrapping.
* `OneRootCorrect`, `NoOrphanCorrect`: only the first process and those that
  `liberaTutti` has unlinked have no parent.
* `RequestsCorrect`: `RequestQueued` and `IdleSound`. Here the last device counts too:
  its request waits on the wrong semaphore, but it waits.
* `StopsRightCorrect`: halt, panic and idling are right, if the last device is not used
  (`NDEV - 1 \notin Device`). With it the kernel idles for an interrupt
  that wakes nobody, as the run `terminal7` shows.
* `ReadySortedCorrect`: aging raises priorities in place and stops at `MAXPRIO`. That
  this keeps the queue sorted holds of all priorities, those above `MAXPRIO` included.
* `PriorityKeptCorrect`: `start_priority` and `last_priority` bring a process back to
  its own priority, however often it is aged, dispatched or blocked in between.
* `NoOvertakingCorrect`: the action property `NoOvertaking`. Everyone in a semaphore's
  queue has priority 0 (`PriorityKept`), so that `InsertLast` applies.
* `HandlersEndCorrect`: the action property `HandlersEnd`. The measure `Turns` falls at
  each step of a handler: a turn of `liberaTutti` makes a process dying that was not
  (`RemoveChild`; the child was alive and still linked to its parent) or frees one that
  was (`Release`), and a turn of a tick takes one process from the queue of the
  pseudo-clock. With the weak fairness of handlers that the runs assume, every handler
  comes to its end, for subtrees and queues of every size.
* `TerminatedNeverRunsCorrect`: no freed PCB is ever current. The run `zombie` finds this
  violated under `"others"`: what it needs of `Careful` is that nobody is terminated
  while it waits.
* `SupportedCorrect`, `InductiveCorrect`: the invariant as TLC checks it in `core`,
  and all of it together.

**Traps** (KernelStateProofs). `TrapsImplementKernel` is `TrapsSpec => Spec`, for every
Discipline: `sysHandler`, `tlbHandler` and `pgmHandler` pass a trap up without touching
what Kernel has, or terminate the process by SYS2 NULL, so that all theorems on Kernel
hold of programs with traps. `FreshHandlersCorrect` assumes `Careful`. What it takes is
that only `createprocess` brings a PCB to life (`NoneBorn` for all other steps), and that
the PCB it takes from the free list was not alive, by `ListsApart`; with other programs
a PCB that is alive may be handed out again.

**Printing** (KernelStateProofs), for any number of processes, devices and mutexes, with
several devices to a mutex if one likes, and `Careful` programs.

* `PrintingImplementsKernel` is `PrintingSpec => Spec`: a device that is given a command
  is idle, so that the guard of `IoDevOp` asks no more of programs than `print` does.
* `MutualExclusionCorrect` and `SerializedCorrect`. The invariant, `PrintingInv`, has for
  each mutex that it has one holder at most, none while its value is positive, and
  never a value above 1 (`Binary`), and for each device that a process which waits for it
  has its mutex while it executes a command (`RequesterWaits`). The second needs the
  first: the process that runs and has the mutex is the only one to have it, hence the
  one that waits, and no process runs and waits. That a process stays the holder while
  it is in the queue of the device rests on the lists being apart (`Structure`).

`MutualExclusion` is in no run: TLC checked it with all of `PrintingInv` on three PCBs and
two devices before it was proved.

**The refinement of Nucleus** (KernelRefinementProofs). `NucleusImplemented` is
`Spec => ImplementsNucleus`, if `Careful` and `Width` hold: initial states map to initial
states, and with `Inductive` in both states each step maps to a step of Nucleus or to
a stutter. What makes it hard is the sequence that a semaphore's links stand for, `AsSeq`,
which is a fold over numbers.

* *Sequences.* `SeqHead` unfolds the sequence at its head: the head, then the sequence of
  its successor. With `ListInduction` of PcbListTheorems, which goes from the end of a
  list to its head, the rest follows: its elements are the nodes reached
  (`SeqElements`), other lists do not matter (`SeqFrame`), and a node linked behind the
  last one is appended (`SeqAppend`). `InsertAppends` says so of `insertProcQ`: a PCB whose
  priority is that of all in the queue is appended.
* *Semaphores.* `insertProcQ` appends since everyone there has priority 0
  (`BlockQueues`, by `InsertAppends`), and `removeProcQ` takes the head (`WakeQueues`),
  so that `semp` and `semv` are `P` and `V` of Nucleus, or its `Wake`.
* *Termination.* The first step of SYS2 is `Terminate` of Nucleus: the processes that it
  takes away are the descendants by `Parent` there, and those that `liberaTutti` will
  find by first child and sibling here (`FamilyIs`). All later turns stutter, as
  what they change is of dead processes only (`DeadOnly`).
* *Scheduler.* `Dispatch` takes the head of the ready queue, which is a process of the
  highest priority because the queue is sorted (`HeadHighest`); `Idle` maps to a halt,
  a panic or a wait because the counters count what Nucleus has in its sets
  (`WaitersAre`). This is where `Inductive` is used in full.

The theorems of ClockProofs hold for every width of the clock, period and slice
that satisfy `ClockAssumption` (a slice is shorter than a period, the clock holds
two periods).

* `TypeCorrect`: `Spec => []TypeOK`, together with the fact that a step in user mode
  has a current process.
* `PseudoClock`: `Spec => []NeverEarly`, for every `Gap` and `Work`. The invariant
  it needs, `Measured`, says that `getTODLO() - tickPerWait`, which wraps, is the true
  time `lag` as long as that is less than the range of the clock. Two lemmas about
  modular distances carry it: `DistanceGrows` when time passes and `DistanceShrinks`
  when a tick moves the mark.
* `TimerBound`: `Spec => []WithinSlice`, for every `Gap`. The strengthening
  `SliceSet` says where the timer may hold more: after reads that did not agree, and
  in `scheduler()` before the first dispatch. The run `doubleread` shows that
  `agreed` cannot be dropped from `WithinSlice`.

The theorems of TerminalProofs hold for any number of processes (`TerminalAssumption`:
NONE is none of them), with commands that fail at any time.

* `TypeCorrect`: no process is in the queue twice, which takes that who waits has asked
  and not gone on (`QueueSound`).
* `OwnResultCorrect` and `MatchedCorrect` are about one mutex for the terminal. The
  invariant `Shared` says what that mutex buys: at most one process asks (`OneAsks`), so
  at most one waits; the command of the half that works is its own (`HeadsCommand`);
  while it waits, a half works, or has completed, for it (`HeadServed`); and a half that failed is
  alone (`FailedAlone`), since nobody comes after the process that it stops.
* `NoneGoesOnUnsetCorrect` (an action property) holds with either kind of mutex: a process
  is woken without a status only by a half that failed (`WokenSet`), whose interrupt is
  still there, and with an interrupt pending no process runs.

The theorems of TimesProofs hold for every clock, any number of PCBs and every finite
`Gap` (`TimesAssumption`), within one range of the clock after boot, wherever it wraps.

* `ChargedOnceCorrect`: the sum of all total times, with what the current process has
  run since it was last charged (`Ran`), is within the time since boot. The sum is a fold
  of the community modules over a CHOOSE; that it does not depend on the order, and
  grows by what one process is charged (`TotalChange`), is an induction on cardinality
  (`SumExists`, `SumAdds`) that uses a least counterexample as above. That a charge, a
  difference modulo the range of the clock, is the true time is `PlusMinus` and
  `DistanceGrows`.
* `KernelWithinTotalCorrect`: a handler charges kernel time before `scheduler()` charges
  the total, so that in between the kernel time is within the total and `Ran`
  (`KernelPart`); a call begins after its process got the CPU (`InCall`).
* `CpuWithinWallCorrect` (an action property): what GETTIME last told a process is within
  what it has used since (`CpuOf`) and what has passed since its first dispatch
  (`WallOf`), by `ToldRight`. The difference of up to one `Gap` is that of the two reads
  of the clock in `gettime`.

The theorems of AslProofs hold for every number of PCBs, descriptors, chains and keys
and every hash function, within `AslAssumption` (no more chains than descriptors).

* `AslCorrect`: `Spec => []AslSound`. The theorems on lists are used twice, for PCBs and,
  by the instance `DT`, for descriptors. The inductive invariant has every chain and the
  free list end (`ListsEnd`), each descriptor in use on the chain of its key
  (`ChainsRight`) and with waiters (`UsedWaits`), and no two for one key (`OneEach`).
  That lists are disjoint follows, as a descriptor has one key (`Apart`). What a new
  descriptor and a freed one do to all the other lists is `InsertNewPlaces` and
  `ReleasePlaces`. Whether the queues themselves are sound is no part of it: that is up
  to the callers, and is `OnePlace` of Kernel.
* `CountIs`: `countSemd`, which adds up the chains, counts each descriptor in use once.
  It is a fold over a CHOOSE, treated like the sum of Times.
* `MapImplemented`: `Spec => ImplementsMap`. `search` finds the descriptor of a key if
  there is one (`SearchIs`), so that a call changes `QueueOf` at its key only. A process
  is refused when no descriptor is free or `countSemd` says that all are in use; either
  is the case just when `MAXSEMD` keys have waiters (`CountIs`, `KeysInUse`), which is
  the condition of AslMap.

Only model-checked:

* `TestPasses`, `TerminatedNeverRuns` and `CleanEnd` of P2test, and that `Serialized` and
  `FreshHandlers` hold of the test too. They are about fixed programs, and an invariant
  would have to follow each of them instruction by instruction. The theorems on careful
  programs do not apply, as the test terminates processes that wait.
* Liveness (`RequestsComplete`, `IdleResumes`, `NoStarvation`, `RequestsAnswered`,
  `WaitersWoken`, `TestEnds`), which the prover does not treat.

## 6. What is not modelled or proved

The passing of time is abstract in Kernel: whether aging or the tick is due is a
choice there. Of the state of a processor only the mode is modelled; what a trap
handler is handed is left out, and so is the memory that SYS2 NULL writes its result
to after it has cleared `currentPcb` (`traphandlers.c:51`). `user_time` is left out of
Times, as it is never read. `outChildBlocked` and `countElements` are not modelled, as
no part of the nucleus calls them. `p1test.c` is not either: it is one fixed sequence
of calls to the list functions, and the runs `core` and `asl` take all sequences of
those calls that their instances allow. Makefiles and binaries have no behaviour.

Every safety and action property that a run with expectation "pass" checks is the
statement of a theorem, but `TestPasses`, `TerminatedNeverRuns` and `CleanEnd` of P2test,
which are about one set of programs. Open is what might be proved of lists, traps and
mutexes for programs that terminate processes that wait: some of it fails (`zombie`), and
the rest would need an invariant about lists that share PCBs.
