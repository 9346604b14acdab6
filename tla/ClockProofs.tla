----------------------------- MODULE ClockProofs -----------------------------
(***************************************************************************)
(* Proofs about module Clock: the pseudo-clock is never early, for every   *)
(* range of the clock, period and slice and whatever passes between two    *)
(* reads; the timer never holds more than a slice, unless time passed      *)
(* between two reads that the code takes for one.                          *)
(***************************************************************************)
EXTENDS Clock, TLAPS

\* a remainder is in the range of the divisor
LEMMA ModInRange ==
  ASSUME NEW a \in Int, NEW n \in Nat, n > 0
  PROVE  a % n \in 0..(n - 1)
OBVIOUS

(* Reduction modulo n of what is less than one n away from the range.      *)
LEMMA ModNear ==
  ASSUME NEW a \in Int, NEW n \in Nat, n > 0, -n <= a, a < 2 * n
  PROVE  a % n = IF a < 0 THEN a + n ELSE IF a < n THEN a ELSE a - n
OBVIOUS

-----------------------------------------------------------------------------
(***************************************************************************)
(* The arithmetic of the clock.                                            *)
(***************************************************************************)
Tick == 0..(UINT - 1)

\* the constants are natural numbers
LEMMA ConstantsType ==
  /\ UINT \in Nat /\ PERIOD \in Nat /\ TIMESLICE \in Nat
  /\ 0 < TIMESLICE /\ TIMESLICE < PERIOD /\ PERIOD < UINT /\ 0 < UINT
  /\ TIMESLICE \in Tick /\ PERIOD \in Tick /\ UINT - 1 \in Tick /\ 0 \in Tick
BY ClockAssumption DEF Tick

\* differences wrap into the range of the clock
LEMMA MinusType ==
  ASSUME NEW a \in Int, NEW b \in Int
  PROVE  Minus(a, b) \in Tick
<1>1. a - b \in Int
  OBVIOUS
<1> QED
  BY <1>1, ConstantsType, ModInRange DEF Minus, Tick

\* a sum of two values of the clock, wrapped
LEMMA SumType ==
  ASSUME NEW a \in Int, NEW b \in Int
  PROVE  (a + b) % UINT \in Tick
<1>1. a + b \in Int
  OBVIOUS
<1> QED
  BY <1>1, ConstantsType, ModInRange DEF Tick

(* The difference of two readings is the distance between them.            *)
LEMMA MinusNear ==
  ASSUME NEW a \in Tick, NEW b \in Tick
  PROVE  Minus(a, b) = IF a < b THEN a - b + UINT ELSE a - b
<1>1. a - b \in Int /\ -UINT <= a - b /\ a - b < 2 * UINT
  BY ConstantsType DEF Tick
<1>2. a - b < UINT /\ (a - b < 0 <=> a < b)
  BY ConstantsType DEF Tick
<1> QED
  BY <1>1, <1>2, ConstantsType, ModNear DEF Minus

\* a sum that does not wrap, or wraps once
LEMMA SumNear ==
  ASSUME NEW a \in Tick, NEW b \in Tick
  PROVE  (a + b) % UINT = IF a + b < UINT THEN a + b ELSE a + b - UINT
<1>1. a + b \in Int /\ -UINT <= a + b /\ a + b < 2 * UINT /\ ~(a + b < 0)
  BY ConstantsType DEF Tick
<1> QED
  BY <1>1, ConstantsType, ModNear

(* When d passes, and the distance does not come to UINT, it grows by d.   *)
LEMMA DistanceGrows ==
  ASSUME NEW a \in Tick, NEW b \in Tick, NEW d \in Nat, Minus(a, b) + d < UINT
  PROVE  Minus((a + d) % UINT, b) = Minus(a, b) + d
<1> DEFINE sum == (a + d) % UINT
<1>1. Minus(a, b) \in Tick
  BY MinusType DEF Tick
<1>2. d \in Tick
  BY <1>1, ConstantsType DEF Tick
<1>3. sum \in Tick
  BY SumType DEF Tick
<1>4. sum = IF a + d < UINT THEN a + d ELSE a + d - UINT
  BY <1>2, SumNear
<1> HIDE DEF sum
<1>5. Minus(sum, b) = IF sum < b THEN sum - b + UINT ELSE sum - b
  BY <1>3, MinusNear
<1>6. Minus(a, b) = IF a < b THEN a - b + UINT ELSE a - b
  BY MinusNear
<1>7. Minus(sum, b) = Minus(a, b) + d
  BY <1>1, <1>2, <1>3, <1>4, <1>5, <1>6, ConstantsType DEF Tick
<1> QED
  BY <1>7 DEF sum

(* When the mark moves on by d, by no more than the distance, the distance *)
(* shrinks by d.                                                           *)
LEMMA DistanceShrinks ==
  ASSUME NEW a \in Tick, NEW b \in Tick, NEW d \in Tick, Minus(a, b) >= d
  PROVE  Minus(a, (b + d) % UINT) = Minus(a, b) - d
<1> DEFINE sum == (b + d) % UINT
<1>1. Minus(a, b) \in Tick
  BY MinusType DEF Tick
<1>2. sum \in Tick
  BY SumType DEF Tick
<1>3. sum = IF b + d < UINT THEN b + d ELSE b + d - UINT
  BY SumNear
<1> HIDE DEF sum
<1>4. Minus(a, sum) = IF a < sum THEN a - sum + UINT ELSE a - sum
  BY <1>2, MinusNear
<1>5. Minus(a, b) = IF a < b THEN a - b + UINT ELSE a - b
  BY MinusNear
<1>6. Minus(a, sum) = Minus(a, b) - d
  BY <1>1, <1>2, <1>3, <1>4, <1>5, ConstantsType DEF Tick
<1> QED
  BY <1>6 DEF sum

-----------------------------------------------------------------------------
(***************************************************************************)
(* Type correctness.                                                       *)
(***************************************************************************)
LEMMA LagType ==
  ASSUME TypeOK, NEW d \in Nat
  PROVE  Lag(d) \in Int /\ Lag(d) <= UINT
BY ConstantsType DEF TypeOK, Lag

\* time passes within the range of the clock
LEMMA ElapseType ==
  ASSUME TypeOK, NEW d \in Nat, Elapse(d)
  PROVE  /\ TOD' \in Tick /\ timer' \in Tick /\ expired' \in BOOLEAN
         /\ lag' \in Int /\ lag' <= UINT
<1>1. TOD \in Int /\ timer \in Int /\ d \in Int /\ expired \in BOOLEAN
  BY ConstantsType DEF TypeOK
<1>2. TOD' = (TOD + d) % UINT /\ timer' = Minus(timer, d) /\ lag' = Lag(d)
  BY DEF Elapse, Later
<1>3. expired' \in BOOLEAN
  BY DEF Elapse
<1>4. TOD' \in Tick /\ timer' \in Tick
  BY <1>1, <1>2, SumType, MinusType
<1> QED
  BY <1>2, <1>3, <1>4, LagType

\* setTIMER takes what the timer can hold
LEMMA SetTimerType ==
  ASSUME TypeOK, NEW d \in Nat, NEW v \in Tick, SetTimer(v, d)
  PROVE  /\ TOD' \in Tick /\ timer' \in Tick /\ expired' \in BOOLEAN
         /\ lag' \in Int /\ lag' <= UINT
<1>1. TOD \in Int /\ d \in Int
  BY ConstantsType DEF TypeOK
<1>2. TOD' = (TOD + d) % UINT /\ timer' = v /\ lag' = Lag(d) /\ expired' = FALSE
  BY DEF SetTimer, Later
<1> QED
  BY <1>1, <1>2, SumType, LagType

\* what is left of a slice
LEMMA RemainingType ==
  ASSUME start \in Int, NEW t1 \in Int, NEW t2 \in Int
  PROVE  MulRemaining(t1, t2) \in Tick
<1>1. Minus(t2, start) \in Int
  BY MinusType DEF Tick
<1>2. Minus(TIMESLICE, Minus(t2, start)) \in Tick
  BY <1>1, MinusType, ConstantsType
<1>3. 1 \in Tick
  BY ConstantsType DEF Tick
<1> QED
  BY <1>2, <1>3 DEF MulRemaining

\* the value the timer is set to
LEMMA TimerValueType ==
  ASSUME tickPerWait \in Int, NEW rem \in Tick, NEW t1 \in Int, NEW t2 \in Int
  PROVE  TimerValue(rem, t1, t2) \in Tick
<1>1. PERIOD - t2 \in Int
  BY ConstantsType
<1>2. ToTick(t2) \in Tick
  BY <1>1, MinusType DEF ToTick
<1> QED
  BY <1>2 DEF TimerValue

\* a later read of the clock
LEMMA LaterType ==
  ASSUME TypeOK, NEW d \in Nat
  PROVE  Later(d) \in Tick /\ Later(d) \in Int
<1>1. TOD \in Int /\ d \in Int
  BY ConstantsType DEF TypeOK
<1>2. Later(d) \in Tick
  BY <1>1, SumType DEF Later
<1> QED
  BY <1>2 DEF Tick

(* A step in user mode is one of the current process.                      *)
UserRuns == pc = "user" => currentPcb \in Proc

TypeInv == TypeOK /\ UserRuns

(* What a step must show for the invariant.                                *)
LEMMA TypeFromParts ==
  ASSUME TOD' \in Tick, timer' \in Tick, tickPerWait' \in Tick, start' \in Tick,
         expired' \in BOOLEAN, lag' \in Int, lag' <= UINT,
         currentPcb' \in Proc \cup {NULL}, ready' \subseteq Proc,
         waiting' \subseteq Proc, pc' \in {"user", "scheduler", "wait"},
         pc' = "user" => currentPcb' \in Proc, agreed' \in BOOLEAN
  PROVE  TypeInv'
BY DEF TypeInv, TypeOK, UserRuns, Tick

\* boot establishes TypeOK
LEMMA TypeInit == Init => TypeInv
<1> SUFFICES ASSUME Init PROVE TypeInv
  OBVIOUS
<1>1. TOD \in Tick
  BY ClockAssumption DEF Init, Tick
<1>2. {TOD, timer, tickPerWait, start} \subseteq Tick
  BY <1>1, ConstantsType DEF Init
<1>3. lag \in Int /\ lag <= UINT
  BY ConstantsType DEF Init
<1> QED
  BY <1>2, <1>3 DEF Init, TypeInv, TypeOK, UserRuns, Tick

\* each step preserves TypeOK
LEMMA TypeNext == TypeInv /\ [Next]_vars => TypeInv'
<1> SUFFICES ASSUME TypeInv, [Next]_vars PROVE TypeInv'
  OBVIOUS
<1>0. /\ TypeOK
      /\ TOD \in Tick /\ timer \in Tick /\ tickPerWait \in Tick /\ start \in Tick
      /\ TOD \in Int /\ tickPerWait \in Int /\ start \in Int
      /\ expired \in BOOLEAN /\ lag \in Int /\ lag <= UINT
      /\ currentPcb \in Proc \cup {NULL} /\ ready \subseteq Proc
      /\ waiting \subseteq Proc /\ pc \in {"user", "scheduler", "wait"}
      /\ pc = "user" => currentPcb \in Proc
      /\ agreed \in BOOLEAN
  BY DEF TypeInv, TypeOK, UserRuns, Tick
<1>w. Work \subseteq Nat /\ Gap \subseteq Nat
  BY ClockAssumption
<1>1. CASE Compute
  <2>1. Elapse(1) /\ 1 \in Nat
    BY <1>1 DEF Compute
  <2>2. UNCHANGED <<tickPerWait, start, currentPcb, ready, waiting, pc, agreed>>
    BY <1>1 DEF Compute
  <2> QED
    BY <1>0, <2>1, <2>2, ElapseType, TypeFromParts
<1>2. ASSUME Handler
      PROVE  /\ TOD' \in Tick /\ timer' \in Tick /\ expired' \in BOOLEAN
             /\ lag' \in Int /\ lag' <= UINT /\ pc' = "scheduler"
             /\ agreed' = agreed
  <2>1. PICK w \in Work : Elapse(w)
    BY <1>2 DEF Handler
  <2> QED
    BY <1>0, <1>2, <1>w, <2>1, ElapseType DEF Handler
<1>3. CASE Return
  <2>1. Handler /\ UNCHANGED <<tickPerWait, start, currentPcb, ready, waiting>>
    BY <1>3 DEF Return
  <2> QED
    BY <1>0, <1>2, <2>1, TypeFromParts
<1>4. CASE Block
  <2>1. Handler /\ currentPcb' = NULL /\ UNCHANGED <<tickPerWait, start, ready, waiting>>
    BY <1>4 DEF Block
  <2> QED
    BY <1>0, <1>2, <2>1, TypeFromParts
<1>5. CASE WaitClock
  <2>1. Handler /\ currentPcb' = NULL /\ UNCHANGED <<tickPerWait, start, ready>>
    BY <1>5 DEF WaitClock
  <2>2. waiting' \subseteq Proc
    BY <1>0, <1>5 DEF WaitClock
  <2> QED
    BY <1>0, <1>2, <2>1, <2>2, TypeFromParts
<1>6. ASSUME NEW p \in Proc, Wake(p)
      PROVE  TypeInv'
  <2>1. /\ Handler /\ ready' = ready \cup {p}
        /\ UNCHANGED <<tickPerWait, start, currentPcb, waiting>>
    BY <1>6 DEF Wake
  <2> QED
    BY <1>0, <1>2, <2>1, TypeFromParts
<1>7. ASSUME NEW w \in Work, TimerInterrupt(w)
      PROVE  TypeInv'
  <2>1. w \in Nat
    BY <1>w
  <2>2. currentPcb' = NULL /\ pc' = "scheduler" /\ start' = start /\ agreed' = TRUE
    BY <1>7 DEF TimerInterrupt
  <2>3. CASE TickDue(TOD)
    <3>1. /\ TOD' = Later(w) /\ timer' = TIMESLICE /\ expired' = FALSE
          /\ lag' = IF Lag(w) = UINT THEN UINT ELSE Lag(w) - PERIOD
          /\ tickPerWait' = (tickPerWait + PERIOD) % UINT
          /\ ready' = ready \cup waiting \cup ({currentPcb} \ {NULL})
          /\ waiting' = {}
      BY <1>7, <2>3 DEF TimerInterrupt
    <3>2. TOD' \in Tick
      BY <1>0, <2>1, <3>1, LaterType
    <3>3. PERIOD \in Int /\ PERIOD > 0 /\ UINT \in Int
      BY ConstantsType
    <3>4. tickPerWait' \in Tick
      BY <1>0, <3>1, <3>3, SumType
    <3>5. Lag(w) \in Int /\ Lag(w) <= UINT
      BY <1>0, <2>1, LagType
    <3>6. lag' \in Int /\ lag' <= UINT
      BY <3>1, <3>3, <3>5
    <3>7. ready' \subseteq Proc /\ waiting' \subseteq Proc
      BY <1>0, <3>1
    <3> QED
      BY <1>0, <2>2, <3>1, <3>2, <3>4, <3>6, <3>7, ConstantsType, TypeFromParts
  <2>4. CASE ~TickDue(TOD)
    <3>1. /\ SetTimer(TIMESLICE, w)
          /\ ready' = ready \cup ({currentPcb} \ {NULL})
          /\ UNCHANGED <<tickPerWait, waiting>>
      BY <1>7, <2>4 DEF TimerInterrupt
    <3>2. /\ TOD' \in Tick /\ timer' \in Tick /\ expired' \in BOOLEAN
          /\ lag' \in Int /\ lag' <= UINT
      BY <1>0, <2>1, <3>1, ConstantsType, SetTimerType
    <3> QED
      BY <1>0, <2>2, <3>1, <3>2, TypeFromParts
  <2> QED
    BY <2>3, <2>4
<1>8. CASE Resume
  <2>1. PICK a, b, c, d \in Gap :
          LET remaining == MulRemaining(TOD, Later(a))
          IN  /\ start' = Later(a + b)
              /\ SetTimer(TimerValue(remaining, Later(a + b + c), Later(a + b + c + d)),
                          a + b + c + d)
              /\ agreed' = (a = 0 /\ d = 0)
    BY <1>8 DEF Resume
  <2>2. a \in Nat /\ a + b \in Nat /\ a + b + c \in Nat /\ a + b + c + d \in Nat
    BY <1>w
  <2> DEFINE rem == MulRemaining(TOD, Later(a))
             t1  == Later(a + b + c)
             t2  == Later(a + b + c + d)
             v   == TimerValue(rem, t1, t2)
             e   == a + b + c + d
  <2>3. rem \in Tick
    BY <1>0, <2>2, LaterType, RemainingType
  <2>4. t1 \in Int /\ t2 \in Int /\ start' \in Tick
    BY <1>0, <2>1, <2>2, LaterType
  <2>5. v \in Tick
    <3> HIDE DEF rem, t1, t2
    <3> QED
      BY <1>0, <2>3, <2>4, TimerValueType DEF v
  <2>6. SetTimer(v, e) /\ e \in Nat
    BY <2>1, <2>2
  <2> HIDE DEF v, e
  <2>7. /\ TOD' \in Tick /\ timer' \in Tick /\ expired' \in BOOLEAN
        /\ lag' \in Int /\ lag' <= UINT
    BY <1>0, <2>5, <2>6, SetTimerType
  <2>8. /\ currentPcb # NULL /\ pc' = "user"
        /\ UNCHANGED <<tickPerWait, currentPcb, ready, waiting>>
    BY <1>8 DEF Resume
  <2>9. agreed' \in BOOLEAN
    BY <2>1
  <2> QED
    BY <1>0, <2>4, <2>7, <2>8, <2>9, TypeFromParts
<1>9. ASSUME NEW p \in Proc, Dispatch(p)
      PROVE  TypeInv'
  <2>1. PICK a, b \in Gap :
          /\ SetTimer(TimerValue(TIMESLICE, Later(a), Later(a + b)), a + b)
          /\ agreed' = (b = 0)
    BY <1>9 DEF Dispatch
  <2>2. a \in Nat /\ a + b \in Nat
    BY <1>w
  <2> DEFINE v == TimerValue(TIMESLICE, Later(a), Later(a + b))
             e == a + b
  <2>3. v \in Tick
    BY <1>0, <2>2, LaterType, TimerValueType, ConstantsType
  <2>4. SetTimer(v, e) /\ e \in Nat
    BY <2>1, <2>2
  <2> HIDE DEF v, e
  <2>5. /\ TOD' \in Tick /\ timer' \in Tick /\ expired' \in BOOLEAN
        /\ lag' \in Int /\ lag' <= UINT
    BY <1>0, <2>3, <2>4, SetTimerType
  <2>6. /\ currentPcb' = p /\ ready' = ready \ {p} /\ start' = TOD /\ pc' = "user"
        /\ UNCHANGED <<tickPerWait, waiting>>
    BY <1>9 DEF Dispatch
  <2>7. agreed' \in BOOLEAN
    BY <2>1
  <2> QED
    BY <1>0, <2>5, <2>6, <2>7, TypeFromParts
<1>10. CASE Idle
  <2>1. /\ pc' = "wait"
        /\ UNCHANGED <<TOD, timer, expired, lag, tickPerWait, start, currentPcb, ready,
                       waiting, agreed>>
    BY <1>10 DEF Idle
  <2> QED
    BY <1>0, <2>1, TypeFromParts
<1>11. CASE UNCHANGED vars
  BY <1>0, <1>11, TypeFromParts DEF vars
<1> QED
  BY <1>1, <1>3, <1>4, <1>5, <1>6, <1>7, <1>8, <1>9, <1>10, <1>11
  DEF Next, Scheduler, Timer

(* Clock, timer and their differences stay in the range of an unsigned int *)
(* (scheduler.c, timerHandler), for every range, period and slice.         *)
THEOREM TypeCorrect == Spec => []TypeOK
<1>1. TypeInv => TypeOK
  BY DEF TypeInv
<1> QED
  BY TypeInit, TypeNext, <1>1, PTL DEF Spec

-----------------------------------------------------------------------------
(***************************************************************************)
(* The pseudo-clock.  While less than one range of the clock has passed    *)
(* since the moment tickPerWait stands for, the unsigned difference the    *)
(* handler computes IS that time, though both sides have wrapped; once     *)
(* more has passed the ticks are late by so much that none can be early.   *)
(***************************************************************************)
Measured == /\ lag >= 0
            /\ lag < UINT => Minus(TOD, tickPerWait) = lag

ClockInv == TypeInv /\ Measured

(* Time that passes is measured.                                           *)
LEMMA MeasuredElapse ==
  ASSUME ClockInv, NEW d \in Nat,
         TOD' = Later(d), lag' = Lag(d), tickPerWait' = tickPerWait
  PROVE  Measured'
<1>0. TOD \in Tick /\ tickPerWait \in Tick /\ lag \in Int /\ lag >= 0 /\ UINT \in Nat
  BY ConstantsType DEF ClockInv, TypeInv, TypeOK, Measured, Tick
<1>1. lag' >= 0
  BY <1>0 DEF Lag
<1>2. ASSUME lag' < UINT
      PROVE  Minus(TOD', tickPerWait') = lag'
  <2>1. lag + d < UINT /\ lag' = lag + d /\ lag < UINT
    BY <1>0, <1>2 DEF Lag
  <2>2. Minus(TOD, tickPerWait) = lag
    BY <2>1 DEF ClockInv, Measured
  <2>3. Minus((TOD + d) % UINT, tickPerWait) = Minus(TOD, tickPerWait) + d
    BY <1>0, <2>1, <2>2, DistanceGrows
  <2> QED
    BY <2>1, <2>2, <2>3 DEF Later
<1> QED
  BY <1>1, <1>2 DEF Measured, Minus

\* boot establishes Measured
LEMMA MeasuredInit == Init => Measured
<1> SUFFICES ASSUME Init PROVE Measured
  OBVIOUS
<1>1. TOD \in Tick /\ tickPerWait = TOD /\ lag = 0
  BY ClockAssumption DEF Init, Tick
<1>2. Minus(TOD, TOD) = TOD - TOD
  BY <1>1, MinusNear DEF Tick
<1> QED
  BY <1>1, <1>2 DEF Measured, Tick

\* each step preserves Measured
LEMMA MeasuredNext == ClockInv /\ [Next]_vars => Measured'
<1> SUFFICES ASSUME ClockInv, [Next]_vars PROVE Measured'
  OBVIOUS
<1>w. Work \subseteq Nat /\ Gap \subseteq Nat
  BY ClockAssumption
<1>1. CASE Compute
  BY <1>1, MeasuredElapse DEF Compute, Elapse
<1>2. ASSUME Handler, tickPerWait' = tickPerWait
      PROVE  Measured'
  <2>1. PICK w \in Work : Elapse(w)
    BY <1>2 DEF Handler
  <2> QED
    BY <1>2, <1>w, <2>1, MeasuredElapse DEF Elapse
<1>3. CASE Return
  BY <1>2, <1>3 DEF Return
<1>4. CASE Block
  BY <1>2, <1>4 DEF Block
<1>5. CASE WaitClock
  BY <1>2, <1>5 DEF WaitClock
<1>6. ASSUME NEW p \in Proc, Wake(p)
      PROVE  Measured'
  BY <1>2, <1>6 DEF Wake
<1>7. ASSUME NEW w \in Work, TimerInterrupt(w)
      PROVE  Measured'
  <2>0. w \in Nat
    BY <1>w
  <2>1. CASE ~TickDue(TOD)
    <3>1. SetTimer(TIMESLICE, w) /\ tickPerWait' = tickPerWait
      BY <1>7, <2>1 DEF TimerInterrupt
    <3> QED
      BY <2>0, <3>1, MeasuredElapse DEF SetTimer
  <2>2. CASE TickDue(TOD)
    <3>1. /\ TOD' = Later(w)
          /\ lag' = IF Lag(w) = UINT THEN UINT ELSE Lag(w) - PERIOD
          /\ tickPerWait' = (tickPerWait + PERIOD) % UINT
      BY <1>7, <2>2 DEF TimerInterrupt
    <3>2. /\ TOD \in Tick /\ tickPerWait \in Tick /\ lag \in Int /\ lag >= 0
          /\ UINT \in Nat /\ PERIOD \in Nat /\ PERIOD \in Tick
      BY ConstantsType DEF ClockInv, TypeInv, TypeOK, Measured, Tick
    <3>3. Minus(TOD, tickPerWait) >= PERIOD
      BY <2>2 DEF TickDue
    <3>4. CASE Lag(w) = UINT
      BY <3>1, <3>2, <3>4 DEF Measured
    <3>5. CASE Lag(w) # UINT
      <4>1. lag + w < UINT /\ lag < UINT /\ lag' = lag + w - PERIOD
        BY <2>0, <3>1, <3>2, <3>5 DEF Lag
      <4>2. Minus(TOD, tickPerWait) = lag
        BY <4>1 DEF ClockInv, Measured
      <4> DEFINE mark == (tickPerWait + PERIOD) % UINT
      <4>3. mark \in Tick
        BY <3>2, SumType DEF Tick
      <4>4. Minus(TOD, mark) = lag - PERIOD
        BY <3>2, <3>3, <4>2, DistanceShrinks
      <4> HIDE DEF mark
      <4>5. lag - PERIOD + w < UINT /\ lag - PERIOD >= 0
        BY <2>0, <3>2, <3>3, <4>1, <4>2
      <4>6. Minus((TOD + w) % UINT, mark) = lag - PERIOD + w
        BY <2>0, <3>2, <4>3, <4>4, <4>5, DistanceGrows
      <4>7. lag' = lag - PERIOD + w
        BY <2>0, <3>2, <4>1
      <4>8. tickPerWait' = mark
        BY <3>1 DEF mark
      <4>9. Minus(TOD', tickPerWait') = lag'
        BY <3>1, <4>6, <4>7, <4>8 DEF Later
      <4>10. lag' >= 0
        BY <2>0, <3>2, <4>5, <4>7
      <4> QED
        BY <4>9, <4>10 DEF Measured, Minus
    <3> QED
      BY <3>4, <3>5
  <2> QED
    BY <2>1, <2>2
<1>8. CASE Resume
  <2>1. PICK a, b, c, d \in Gap : \E v : SetTimer(v, a + b + c + d)
    BY <1>8 DEF Resume
  <2>2. a + b + c + d \in Nat
    BY <1>w
  <2> QED
    BY <1>8, <2>1, <2>2, MeasuredElapse DEF Resume, SetTimer
<1>9. ASSUME NEW p \in Proc, Dispatch(p)
      PROVE  Measured'
  <2>1. PICK a, b \in Gap :
          /\ SetTimer(TimerValue(TIMESLICE, Later(a), Later(a + b)), a + b)
          /\ agreed' = (b = 0)
    BY <1>9 DEF Dispatch
  <2>2. a + b \in Nat
    BY <1>w
  <2> QED
    BY <1>9, <2>1, <2>2, MeasuredElapse DEF Dispatch, SetTimer
<1>10. CASE Idle
  BY <1>10 DEF Idle, ClockInv, Measured, Minus
<1>11. CASE UNCHANGED vars
  BY <1>11 DEF vars, ClockInv, Measured, Minus
<1> QED
  BY <1>1, <1>3, <1>4, <1>5, <1>6, <1>7, <1>8, <1>9, <1>10, <1>11
  DEF Next, Scheduler, Timer

(* No tick comes before its period is over (timerHandler, interrupt.c:59), *)
(* for every range of the clock, period, and time that passes in handlers  *)
(* and between two reads.                                                  *)
THEOREM PseudoClock == Spec => []NeverEarly
<1>1. Init => ClockInv
  BY TypeInit, MeasuredInit DEF ClockInv
<1>2. ClockInv /\ [Next]_vars => ClockInv'
  BY TypeNext, MeasuredNext DEF ClockInv
<1>3. ClockInv => NeverEarly
  BY DEF ClockInv, Measured, NeverEarly
<1> QED
  BY <1>1, <1>2, <1>3, PTL DEF Spec

-----------------------------------------------------------------------------
(***************************************************************************)
(* The slice, when the reads that set the timer agreed.  Before the first  *)
(* process is dispatched, and only then, the timer may hold more: the      *)
(* nucleus does not set it.                                                *)
(***************************************************************************)
SliceSet ==
  \/ expired
  \/ timer <= TIMESLICE
  \/ ~agreed
  \/ pc = "scheduler" /\ (currentPcb # NULL \/ ready # {})

SliceInv == TypeInv /\ SliceSet

\* what is left of a slice is at most a slice, if the reads of the clock agree
LEMMA RemainingBound ==
  ASSUME start \in Tick, NEW t \in Tick
  PROVE  MulRemaining(t, t) \in 0..TIMESLICE
<1> DEFINE run == Minus(t, start)
<1>1. run \in Tick
  BY MinusType DEF Tick
<1>2. ASSUME TIMESLICE > run
      PROVE  Minus(TIMESLICE, run) \in 0..TIMESLICE
  <2> HIDE DEF run
  <2>1. Minus(TIMESLICE, run) = TIMESLICE - run
    BY <1>1, <1>2, MinusNear, ConstantsType DEF Tick
  <2> QED
    BY <1>1, <1>2, <2>1, ConstantsType DEF Tick
<1>3. 1 \in 0..TIMESLICE
  BY ConstantsType
<1> QED
  BY <1>2, <1>3 DEF MulRemaining

\* so is the value the timer is set to
LEMMA TimerValueBound ==
  ASSUME tickPerWait \in Int, NEW rem \in 0..TIMESLICE, NEW t \in Int
  PROVE  TimerValue(rem, t, t) <= TIMESLICE
<1> DEFINE left == ToTick(t)
<1>1. PERIOD - t \in Int
  BY ConstantsType
<1>2. left \in Tick
  BY <1>1, MinusType DEF ToTick
<1> HIDE DEF left
<1>3. (IF left < rem THEN left ELSE rem) <= TIMESLICE
  BY <1>2, ConstantsType DEF Tick
<1> QED
  BY <1>3 DEF TimerValue, left

\* a later read of the clock, when no time has passed
LEMMA LaterNow == TypeOK => Later(0) = TOD
<1> SUFFICES ASSUME TypeOK PROVE Later(0) = TOD
  OBVIOUS
<1>1. TOD \in Tick /\ 0 \in Tick
  BY ConstantsType DEF TypeOK, Tick
<1>2. (TOD + 0) % UINT = IF TOD + 0 < UINT THEN TOD + 0 ELSE TOD + 0 - UINT
  BY <1>1, SumNear
<1> QED
  BY <1>1, <1>2, ConstantsType DEF Later, Tick

\* the passing of time preserves SliceSet
LEMMA SliceElapse ==
  ASSUME SliceInv, pc \in {"user", "wait"}, agreed, NEW d \in Nat, Elapse(d)
  PROVE  expired' \/ timer' <= TIMESLICE
<1>1. timer \in Tick /\ (expired \/ timer <= TIMESLICE)
  BY DEF SliceInv, SliceSet, TypeInv, TypeOK, Tick
<1>2. CASE expired \/ d > timer
  BY <1>2 DEF Elapse
<1>3. CASE ~expired /\ ~(d > timer)
  <2>1. timer \in Tick /\ d \in Tick /\ timer <= TIMESLICE
    BY <1>1, <1>3, ConstantsType DEF SliceInv, TypeInv, TypeOK, Tick
  <2>2. Minus(timer, d) = timer - d
    BY <1>3, <2>1, MinusNear, ConstantsType DEF Tick
  <2>3. timer' = timer - d
    BY <2>2 DEF Elapse
  <2> QED
    BY <2>1, <2>3, ConstantsType DEF Tick
<1> QED
  BY <1>2, <1>3

\* each step preserves SliceSet
LEMMA SliceNext == SliceInv /\ [Next]_vars => SliceSet'
<1> SUFFICES ASSUME SliceInv, [Next]_vars PROVE SliceSet'
  OBVIOUS
<1>w. Work \subseteq Nat /\ Gap \subseteq Nat
  BY ClockAssumption
<1>t. /\ TypeOK /\ agreed \in BOOLEAN /\ TOD \in Tick /\ tickPerWait \in Int /\ start \in Tick
      /\ TOD \in Int
  BY DEF SliceInv, TypeInv, TypeOK, Tick
<1>1. CASE Compute
  <2>1. pc \in {"user", "wait"} /\ Elapse(1) /\ 1 \in Nat /\ agreed' = agreed
    BY <1>1 DEF Compute
  <2> QED
    BY <1>t, <2>1, SliceElapse DEF SliceSet
<1>2. ASSUME Handler, pc \in {"user", "wait"}
      PROVE  SliceSet'
  <2>1. PICK w \in Work : Elapse(w)
    BY <1>2 DEF Handler
  <2>2. agreed' = agreed
    BY <1>2 DEF Handler
  <2> QED
    BY <1>2, <1>t, <1>w, <2>1, <2>2, SliceElapse DEF SliceSet
<1>3. CASE Return
  BY <1>2, <1>3 DEF Return
<1>4. CASE Block
  BY <1>2, <1>4 DEF Block
<1>5. CASE WaitClock
  BY <1>2, <1>5 DEF WaitClock
<1>6. ASSUME NEW p \in Proc, Wake(p)
      PROVE  SliceSet'
  BY <1>2, <1>6 DEF Wake
<1>7. ASSUME NEW w \in Work, TimerInterrupt(w)
      PROVE  SliceSet'
  <2>1. timer' = TIMESLICE
    BY <1>7 DEF TimerInterrupt, SetTimer
  <2> QED
    BY <2>1, ConstantsType DEF SliceSet
<1>8. CASE Resume
  <2>1. PICK a, b, c, d \in Gap :
          LET remaining == MulRemaining(TOD, Later(a))
          IN  /\ start' = Later(a + b)
              /\ SetTimer(TimerValue(remaining, Later(a + b + c), Later(a + b + c + d)),
                          a + b + c + d)
              /\ agreed' = (a = 0 /\ d = 0)
    BY <1>8 DEF Resume
  <2>2. CASE ~(a = 0 /\ d = 0)
    BY <2>1, <2>2 DEF SliceSet
  <2>3. CASE a = 0 /\ d = 0
    <3> DEFINE t == Later(a + b + c)
    <3>1. a + b + c \in Nat /\ a + b + c + d = a + b + c
      BY <1>w, <2>3
    <3>2. t \in Int
      BY <1>t, <3>1, LaterType
    <3>3. timer' = TimerValue(MulRemaining(TOD, TOD), t, t)
      BY <1>t, <2>1, <2>3, <3>1, LaterNow DEF SetTimer
    <3>4. MulRemaining(TOD, TOD) \in 0..TIMESLICE
      BY <1>t, RemainingBound
    <3> HIDE DEF t
    <3>5. timer' <= TIMESLICE
      BY <1>t, <3>2, <3>3, <3>4, TimerValueBound
    <3> QED
      BY <3>5 DEF SliceSet
  <2> QED
    BY <2>2, <2>3
<1>9. ASSUME NEW p \in Proc, Dispatch(p)
      PROVE  SliceSet'
  <2>1. PICK a, b \in Gap :
          /\ SetTimer(TimerValue(TIMESLICE, Later(a), Later(a + b)), a + b)
          /\ agreed' = (b = 0)
    BY <1>9 DEF Dispatch
  <2>2. CASE b # 0
    BY <2>1, <2>2 DEF SliceSet
  <2>3. CASE b = 0
    <3>1. a \in Nat /\ a + b = a
      BY <1>w, <2>3
    <3>2. Later(a) \in Int
      BY <1>t, <3>1, LaterType
    <3>3. timer' = TimerValue(TIMESLICE, Later(a), Later(a))
      BY <2>1, <3>1 DEF SetTimer
    <3>4. timer' <= TIMESLICE
      BY <1>t, <3>2, <3>3, TimerValueBound, ConstantsType DEF Tick
    <3> QED
      BY <3>4 DEF SliceSet
  <2> QED
    BY <2>2, <2>3
<1>10. CASE Idle
  BY <1>10 DEF Idle, SliceInv, SliceSet
<1>11. CASE UNCHANGED vars
  BY <1>11 DEF vars, SliceInv, SliceSet
<1> QED
  BY <1>1, <1>3, <1>4, <1>5, <1>6, <1>7, <1>8, <1>9, <1>10, <1>11
  DEF Next, Scheduler, Timer

(* A process that computes, or an idle machine, is interrupted within one  *)
(* time slice (scheduler.c:81-87) wherever the clock wraps and whatever is *)
(* left of the period, provided that no time passed between the two reads  *)
(* of the clock that a test and the value it protects are computed from.   *)
THEOREM TimerBound == Spec => []WithinSlice
<1>1. Init => SliceInv
  BY TypeInit DEF Init, SliceInv, SliceSet
<1>2. SliceInv /\ [Next]_vars => SliceInv'
  BY TypeNext, SliceNext DEF SliceInv
<1>3. SliceInv => WithinSlice
  BY DEF SliceInv, SliceSet, WithinSlice
<1> QED
  BY <1>1, <1>2, <1>3, PTL DEF Spec

======
