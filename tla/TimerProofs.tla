---------------------------- MODULE TimerProofs ----------------------------
(***************************************************************************)
(* Proofs about Timer and ErrorSignal, for a counter of any width, any     *)
(* delay of the core, any times and every error: when sleeps and waits     *)
(* end, and what the user reads off the LED.                               *)
(*                                                                         *)
(* That no call ends early needs where the counter and the compare         *)
(* register are relative to the call.  That none ends late needs, for each *)
(* place of the program and of the exception handler, how many steps of    *)
(* the core there can have been since the call was due.                    *)
(*                                                                         *)
(* A sleep of signal_error() is one of Timer, so that the invariant of     *)
(* Timer holds and tells how long each dark phase is.  With interrupts     *)
(* masked the first sleep does not end, and Timer says nothing; that case  *)
(* has an invariant of its own.                                            *)
(***************************************************************************)
EXTENDS ErrorSignal, TLAPS

\* What % TICKS makes of numbers up to twice the range of the counter.
Wrap(n) == IF n < TICKS THEN n ELSE n - TICKS

Handler  == {"source", "isr_c1", "isr_clear", "isr_flag"}
Queueing == {"queue_flag", "queue_set"}
Queued   == {"wfi", "asleep", "check"}

\* The place in the program, under the exception handler if that runs.
At == IF back = "none" THEN pc ELSE back

\* Which calls are where, and where interrupts may be taken.
PlaceInv ==
  /\ ENABLE_GIC \in BOOLEAN /\ OtherWakes \in BOOLEAN
  /\ back = "none" <=> pc \notin Handler
  /\ back \notin Handler \cup {"asleep", "halt"}
  /\ ENABLE_GIC => ~irqs
  /\ back # "none" => irqs
  /\ call = "none" <=> At = "idle"
  /\ call = "sleep" /\ ENABLE_GIC <=> At = "spin"
  /\ call = "sleep" /\ ~ENABLE_GIC <=> At \in Queueing \cup Queued
  /\ call = "wait" <=> At \in {"cond", "done", "halt"}
  /\ call = "sleep" /\ ~ENABLE_GIC => irqs
  /\ pc \in {"isr_clear", "isr_flag"} => c1 = 0

\* The counter and the timestamp, relative to the call.
CallInv ==
  call # "none" =>
    /\ us \in Times
    /\ ticks = IF call = "sleep" /\ ~ENABLE_GIC THEN start ELSE Wrap(start + us)
    /\ start + elapsed < 2 * TICKS => clo = Wrap(start + elapsed)

\* While a queued sleep is not over, its own match is the one that is to come.
SleepInv ==
  At \in Queued =>
    /\ elapsed < us => c1 = Wrap(start + us) /\ ~cs /\ back = "none"
    /\ At = "check" /\ ~OtherWakes => elapsed >= us

EarlyInv == TypeOK /\ PlaceInv /\ CallInv /\ SleepInv

-----------------------------------------------------------------------------
(* The part of the invariant about calls that are late.                    *)

\* n steps of the core have been due since the call was, or since it began.
Late(n) == elapsed <= us + n * LAG + lag
Old(n)  == elapsed <= n * LAG + lag

\* The counter overflowed j steps ago.
Over(j) == clo <= j * LAG + lag

\* The poll loop of usleep().
PollInv ==
  call = "sleep" /\ ENABLE_GIC /\ Wrap(start + us) + Slack < TICKS => Late(0)

\* The loop of while_cond_timeout_infinite(), two steps long.  The first exception may be for a
\* match that was left over; the next one is for the match at 0, which comes before the call is
\* due or not at all.
WaitInv ==
  call = "wait" /\ pc # "halt" /\ Wrap(start + us) + Slack < TICKS =>
    /\ back = "none" /\ (~irqs \/ (~cs /\ c1 # 0)) =>
         (pc = "cond" => Late(0)) /\ (pc = "done" => Late(1))
    /\ back = "none" /\ irqs /\ cs => Late(1)
    /\ back = "none" /\ irqs /\ ~cs /\ c1 = 0 =>
         (pc = "cond" => Late(6)) /\ (pc = "done" => Late(7))
    /\ pc = "source" => Late(2)
    /\ pc = "isr_c1" => Late(3)
    /\ pc = "isr_clear" => Late(4)
    /\ pc = "isr_flag" => Late(5) /\ (cs => Late(0))

\* Without other wakes, a match at 0 is all that is ever left over.
ZeroInv ==
  ~ENABLE_GIC /\ ~OtherWakes =>
    /\ At \notin Queued => c1 = 0
    /\ pc = "check" => c1 = 0 /\ queued_timer_irq_serviced

\* A sleep is queued before it is over, although the counter may overflow meanwhile.
QueueInv ==
  At \in Queueing /\ ~OtherWakes /\ LongEnough =>
    /\ start + elapsed < TICKS =>
         /\ ~cs /\ back = "none"
         /\ (pc = "queue_flag" => Old(0)) /\ (pc = "queue_set" => Old(1))
    /\ start + elapsed >= TICKS =>
         /\ back = "none" /\ cs => Old(1)
         /\ pc = "source" => Old(2)
         /\ pc = "isr_c1" => Old(3)
         /\ pc = "isr_clear" => Old(4)
         /\ pc = "isr_flag" => Old(5) /\ ~cs
         /\ back = "none" /\ ~cs => (pc = "queue_flag" => Old(6)) /\ (pc = "queue_set" => Old(7))

\* The core waits before the sleep is over, is woken by the sleep's own match, and the overflow
\* of the counter interrupts it at most once more.
QueuedInv ==
  At \in Queued /\ ~OtherWakes /\ LongEnough =>
    /\ At = "wfi" => Old(8)
    /\ At = "asleep" => elapsed < us \/ (cs /\ Late(0))
    /\ At = "check" =>
         /\ pc = "source" => Late(1) \/ (Over(2) /\ Late(6))
         /\ pc = "isr_c1" => Late(2) \/ (Over(3) /\ Late(7))
         /\ pc = "isr_clear" => Late(3) \/ (Over(4) /\ Late(8))
         /\ pc = "isr_flag" => IF cs THEN Over(0) /\ Late(4) ELSE Late(4) \/ (Over(5) /\ Late(9))
         /\ pc = "check" => IF cs THEN Over(1) /\ Late(5) ELSE Late(5) \/ (Over(6) /\ Late(10))

LateInv == PollInv /\ WaitInv /\ ZeroInv /\ QueueInv /\ QueuedInv

IInv == EarlyInv /\ LateInv

-----------------------------------------------------------------------------
(* Arithmetic of the counter.                                              *)

\* The remainder of a number below twice the range of the counter.
LEMMA Remainder ==
  ASSUME NEW n \in Nat, n < 2 * TICKS
  PROVE  n % TICKS = Wrap(n)
<1>. USE TicksAssumption DEF Wrap
<1>1. CASE n < TICKS
  BY <1>1
<1>2. CASE n >= TICKS
  BY <1>2
<1>. QED  BY <1>1, <1>2

-----------------------------------------------------------------------------
(* No call ends early.                                                   *)

\* What the assumptions say of the times that are asked for, and of where the counter can be.
LEMMA TimesAreShort ==
  /\ TICKS \in Nat /\ TICKS > 0 /\ LAG \in Nat /\ LAG > 0
  /\ \A n \in Times : n \in Nat /\ 0 < n /\ n < TICKS
BY TicksAssumption, LagAssumption, TimesAssumption

\* Counters, delays and ages may be 0.
LEMMA Zeros == 0 \in 0..LAG /\ 0 \in 0..CAP /\ 0 \in 0..TICKS - 1
BY TimesAreShort DEF CAP

\* Nothing is under way at first.
LEMMA InitEarly == Init => EarlyInv
<1>. SUFFICES ASSUME Init PROVE EarlyInv
  OBVIOUS
<1>. USE DEF Init
<1>1. TypeOK
  BY Zeros DEF TypeOK, PCs
<1>2. PlaceInv
  BY BuildsAssumption DEF PlaceInv, At, Handler, Queueing, Queued
<1>3. CallInv /\ SleepInv
  BY DEF CallInv, SleepInv, At, Queued
<1>. QED  BY <1>1, <1>2, <1>3 DEF EarlyInv

\* A tick: the counter and the age of the call advance together, and until the sleep is over
\* its match does not come.
LEMMA TickEarly == EarlyInv /\ Tick => EarlyInv'
<1>. SUFFICES ASSUME EarlyInv, Tick PROVE EarlyInv'
  OBVIOUS
<1>. USE TimesAreShort
<1>0. UNCHANGED <<ENABLE_GIC, OtherWakes, pc, call, us, ticks, irqs, back, queued_timer_irq_serviced,
                  busy, c1, start>>
  BY DEF Tick, build, core
<1>a. clo \in 0..TICKS - 1 /\ clo' = Wrap(clo + 1)
  <2>1. clo \in 0..TICKS - 1
    BY DEF EarlyInv, TypeOK
  <2>. QED  BY <2>1, Remainder DEF Tick
<1>b. elapsed \in 0..CAP /\ elapsed' = IF call # "none" /\ elapsed < CAP THEN elapsed + 1 ELSE elapsed
  BY DEF Tick, EarlyInv, TypeOK
<1>1. TypeOK'
  <2>1. clo' \in 0..TICKS - 1
    BY <1>a DEF Wrap
  <2>2. elapsed' \in 0..CAP
    BY <1>b DEF CAP
  <2>3. lag' \in 0..LAG
    BY DEF Tick, EarlyInv, TypeOK
  <2>4. cs' \in BOOLEAN
    BY DEF Tick, EarlyInv, TypeOK
  <2>. QED  BY <1>0, <2>1, <2>2, <2>3, <2>4 DEF EarlyInv, TypeOK
<1>2. PlaceInv'
  BY <1>0 DEF EarlyInv, PlaceInv, At
<1>3. CallInv'
  <2>1. ASSUME call # "none", start + elapsed' < 2 * TICKS
        PROVE  clo' = Wrap(start + elapsed')
    <3>1. start \in 0..TICKS - 1
      BY DEF EarlyInv, TypeOK
    <3>2. start + elapsed < 2 * TICKS
      BY <1>b, <2>1, <3>1 DEF CAP
    <3>3. clo = Wrap(start + elapsed)
      BY <2>1, <3>2 DEF EarlyInv, CallInv
    <3>4. elapsed' = elapsed + 1
      BY <1>b, <2>1, <3>1 DEF CAP
    <3>. QED  BY <1>a, <1>b, <2>1, <3>1, <3>3, <3>4 DEF Wrap
  <2>. QED  BY <1>0, <2>1 DEF EarlyInv, CallInv
<1>4. SleepInv'
  <2>1. ASSUME At \in Queued, elapsed' < us
        PROVE  c1 = Wrap(start + us) /\ ~cs' /\ back = "none"
    <3>1. call # "none"
      BY <2>1 DEF EarlyInv, PlaceInv, At, Queued
    <3>2. us \in Times /\ start \in 0..TICKS - 1
      BY <3>1 DEF EarlyInv, TypeOK, CallInv
    <3>3. elapsed < us
      BY <1>b, <2>1, <3>2 DEF CAP
    <3>4. c1 = Wrap(start + us) /\ ~cs /\ back = "none"
      BY <2>1, <3>3 DEF EarlyInv, SleepInv
    <3>5. clo' = Wrap(start + elapsed')
      BY <1>0, <1>3, <1>b, <2>1, <3>1, <3>2 DEF CallInv, CAP
    <3>6. clo' # c1
      BY <1>b, <2>1, <3>2, <3>4, <3>5 DEF Wrap, CAP
    <3>. QED  BY <3>4, <3>6 DEF Tick
  <2>2. At = "check" /\ ~OtherWakes => elapsed' >= us
    <3>1. us \in Nat
      BY DEF EarlyInv, TypeOK
    <3>. QED  BY <1>b, <3>1 DEF EarlyInv, SleepInv, Queued, CAP
  <2>. QED  BY <1>0, <2>1, <2>2 DEF SleepInv, At
<1>. QED  BY <1>1, <1>2, <1>3, <1>4 DEF EarlyInv

\* The polled usleep() waits or returns.
LEMMA SpinEarly == EarlyInv /\ Spin => EarlyInv'
<1>. SUFFICES ASSUME EarlyInv, Spin PROVE EarlyInv'
  OBVIOUS
<1>. USE DEF Spin, Step, Return, build, timer, past
<1>1. TypeOK'
  BY Zeros DEF EarlyInv, TypeOK, PlaceInv, PCs
<1>2. PlaceInv'
  BY DEF EarlyInv, TypeOK, PlaceInv, At, Handler, Queueing, Queued
<1>3. CallInv'
  BY DEF EarlyInv, CallInv, PlaceInv, At, Handler, Queueing, Queued
<1>4. SleepInv'
  BY DEF EarlyInv, SleepInv, PlaceInv, At, Handler, Queueing, Queued
<1>. QED  BY <1>1, <1>2, <1>3, <1>4 DEF EarlyInv

\* timer_queue_irq() resets the flag.
LEMMA QueueFlagEarly == EarlyInv /\ QueueFlag => EarlyInv'
<1>. SUFFICES ASSUME EarlyInv, QueueFlag PROVE EarlyInv'
  OBVIOUS
<1>. USE DEF QueueFlag, Step, build, timer, past
<1>1. TypeOK'
  BY Zeros DEF EarlyInv, TypeOK, PlaceInv, PCs
<1>2. PlaceInv'
  BY DEF EarlyInv, TypeOK, PlaceInv, At, Handler, Queueing, Queued
<1>3. CallInv'
  BY DEF EarlyInv, CallInv, PlaceInv, At, Handler, Queueing, Queued
<1>4. SleepInv'
  BY DEF EarlyInv, SleepInv, PlaceInv, At, Handler, Queueing, Queued
<1>. QED  BY <1>1, <1>2, <1>3, <1>4 DEF EarlyInv

\* timer_queue_irq() sets the match, at a time at which none is pending.
LEMMA QueueSetEarly == EarlyInv /\ QueueSet => EarlyInv'
<1>. SUFFICES ASSUME EarlyInv, QueueSet PROVE EarlyInv'
  OBVIOUS
<1>. USE DEF QueueSet, Step, build, timer, past
<1>1. TypeOK'
  <2>1. start \in 0..TICKS - 1 /\ us \in Times /\ ticks = start
    BY DEF EarlyInv, TypeOK, CallInv, PlaceInv, At, Queueing, Handler
  <2>2. c1' \in 0..TICKS - 1
    BY <2>1, Remainder, TimesAreShort DEF Wrap
  <2>. QED  BY <2>2, Zeros DEF EarlyInv, TypeOK, PCs
<1>2. PlaceInv'
  BY DEF EarlyInv, TypeOK, PlaceInv, At, Handler, Queueing, Queued
<1>3. CallInv'
  BY DEF EarlyInv, CallInv, PlaceInv, At, Handler, Queueing, Queued
<1>4. SleepInv'
  <2>1. start \in 0..TICKS - 1 /\ us \in Times /\ ticks = start /\ irqs
    BY DEF EarlyInv, TypeOK, CallInv, PlaceInv, At, Queueing, Handler
  <2>2. c1' = Wrap(start + us)
    BY <2>1, Remainder, TimesAreShort
  <2>3. ~cs /\ back = "none" /\ pc' = "wfi"
    BY <2>1 DEF Interrupted, EarlyInv, PlaceInv, Handler
  <2>. QED  BY <2>2, <2>3 DEF SleepInv, At
<1>. QED  BY <1>1, <1>2, <1>3, <1>4 DEF EarlyInv

\* The core stops.
LEMMA WfiEarly == EarlyInv /\ Wfi => EarlyInv'
<1>. SUFFICES ASSUME EarlyInv, Wfi PROVE EarlyInv'
  OBVIOUS
<1>. USE DEF Wfi, Step, build, timer, past
<1>1. TypeOK'
  BY Zeros DEF EarlyInv, TypeOK, PlaceInv, PCs
<1>2. PlaceInv'
  BY DEF EarlyInv, TypeOK, PlaceInv, At, Handler, Queueing, Queued
<1>3. CallInv'
  BY DEF EarlyInv, CallInv, PlaceInv, At, Handler, Queueing, Queued
<1>4. SleepInv'
  BY DEF EarlyInv, SleepInv, PlaceInv, At, Handler, Queueing, Queued
<1>. QED  BY <1>1, <1>2, <1>3, <1>4 DEF EarlyInv

\* WFI returns for another reason: the one way to look at the flag early.
LEMMA SpuriousWakeEarly == EarlyInv /\ SpuriousWake => EarlyInv'
<1>. SUFFICES ASSUME EarlyInv, SpuriousWake PROVE EarlyInv'
  OBVIOUS
<1>. USE DEF SpuriousWake, Step, build, timer, past
<1>1. TypeOK'
  BY Zeros DEF EarlyInv, TypeOK, PlaceInv, PCs
<1>2. PlaceInv'
  BY DEF EarlyInv, TypeOK, PlaceInv, At, Handler, Queueing, Queued
<1>3. CallInv'
  BY DEF EarlyInv, CallInv, PlaceInv, At, Handler, Queueing, Queued
<1>4. SleepInv'
  BY DEF EarlyInv, SleepInv, PlaceInv, At, Handler, Queueing, Queued
<1>. QED  BY <1>1, <1>2, <1>3, <1>4 DEF EarlyInv

\* usleep() looks at the flag.
LEMMA CheckServicedEarly == EarlyInv /\ CheckServiced => EarlyInv'
<1>. SUFFICES ASSUME EarlyInv, CheckServiced PROVE EarlyInv'
  OBVIOUS
<1>. USE DEF CheckServiced, Step, Return, build, timer, past
<1>1. TypeOK'
  BY Zeros DEF EarlyInv, TypeOK, PlaceInv, PCs
<1>2. PlaceInv'
  BY DEF EarlyInv, TypeOK, PlaceInv, At, Handler, Queueing, Queued
<1>3. CallInv'
  BY DEF EarlyInv, CallInv, PlaceInv, At, Handler, Queueing, Queued
<1>4. SleepInv'
  BY DEF EarlyInv, SleepInv, PlaceInv, At, Handler, Queueing, Queued
<1>. QED  BY <1>1, <1>2, <1>3, <1>4 DEF EarlyInv

\* An exception while a sleep is queued is for its own match, or later.
LEMMA IrqExceptionEarly == EarlyInv /\ IrqException => EarlyInv'
<1>. SUFFICES ASSUME EarlyInv, IrqException PROVE EarlyInv'
  OBVIOUS
<1>. USE DEF IrqException, Interrupted, build, timer, past
<1>1. TypeOK'
  BY Zeros DEF EarlyInv, TypeOK, PlaceInv, PCs
<1>2. PlaceInv'
  BY DEF EarlyInv, TypeOK, PlaceInv, At, Handler, Queueing, Queued
<1>3. CallInv'
  BY DEF EarlyInv, CallInv, PlaceInv, At, Handler, Queueing, Queued
<1>4. SleepInv'
  <2>1. elapsed < us => At \notin Queued
    BY DEF EarlyInv, SleepInv
  <2>2. At' \in Queued => At \in Queued
    BY DEF EarlyInv, PlaceInv, At, Queued, Handler
  <2>3. elapsed \in Int /\ us \in Int
    BY TimesAreShort DEF EarlyInv, TypeOK, CAP
  <2>4. At' \in Queued => elapsed >= us
    BY <2>1, <2>2, <2>3
  <2>. QED  BY <2>3, <2>4 DEF SleepInv, At, Queued
<1>. QED  BY <1>1, <1>2, <1>3, <1>4 DEF EarlyInv

\* The handler finds the timer.
LEMMA SourceEarly == EarlyInv /\ ic_irq_exception_handler => EarlyInv'
<1>. SUFFICES ASSUME EarlyInv, ic_irq_exception_handler PROVE EarlyInv'
  OBVIOUS
<1>. USE DEF ic_irq_exception_handler, FromHandler, build, timer, past
<1>1. TypeOK'
  BY Zeros DEF EarlyInv, TypeOK, PlaceInv, PCs
<1>2. PlaceInv'
  BY DEF EarlyInv, TypeOK, PlaceInv, At, Handler, Queueing, Queued
<1>3. CallInv'
  BY DEF EarlyInv, CallInv, PlaceInv, At, Handler, Queueing, Queued
<1>4. SleepInv'
  BY DEF EarlyInv, SleepInv, PlaceInv, At, Handler, Queueing, Queued
<1>. QED  BY <1>1, <1>2, <1>3, <1>4 DEF EarlyInv

\* The handler leaves 0 in the compare register.
LEMMA IsrC1Early == EarlyInv /\ timer_isr_c1 => EarlyInv'
<1>. SUFFICES ASSUME EarlyInv, timer_isr_c1 PROVE EarlyInv'
  OBVIOUS
<1>. USE DEF timer_isr_c1, FromHandler, build, timer, past
<1>1. TypeOK'
  BY Zeros DEF EarlyInv, TypeOK, PlaceInv, PCs
<1>2. PlaceInv'
  BY DEF EarlyInv, TypeOK, PlaceInv, At, Handler, Queueing, Queued
<1>3. CallInv'
  BY DEF EarlyInv, CallInv, PlaceInv, At, Handler, Queueing, Queued
<1>4. SleepInv'
  BY DEF EarlyInv, SleepInv, PlaceInv, At, Handler, Queueing, Queued
<1>. QED  BY <1>1, <1>2, <1>3, <1>4 DEF EarlyInv

\* The handler clears the match.
LEMMA IsrClearEarly == EarlyInv /\ timer_isr_clear => EarlyInv'
<1>. SUFFICES ASSUME EarlyInv, timer_isr_clear PROVE EarlyInv'
  OBVIOUS
<1>. USE DEF timer_isr_clear, FromHandler, ClearedMatches, build, timer, past
<1>1. TypeOK'
  BY Zeros DEF EarlyInv, TypeOK, PlaceInv, PCs
<1>2. PlaceInv'
  BY DEF EarlyInv, TypeOK, PlaceInv, At, Handler, Queueing, Queued
<1>3. CallInv'
  BY DEF EarlyInv, CallInv, PlaceInv, At, Handler, Queueing, Queued
<1>4. SleepInv'
  BY DEF EarlyInv, SleepInv, PlaceInv, At, Handler, Queueing, Queued
<1>. QED  BY <1>1, <1>2, <1>3, <1>4 DEF EarlyInv

\* The handler returns to where the exception was taken, past a WFI.
LEMMA IsrReturnEarly == EarlyInv /\ timer_isr_return => EarlyInv'
<1>. SUFFICES ASSUME EarlyInv, timer_isr_return PROVE EarlyInv'
  OBVIOUS
<1>. USE DEF timer_isr_return, FromHandler, Serviced, build, timer, past
<1>1. TypeOK'
  <2>1. pc' \in PCs
    BY DEF EarlyInv, TypeOK, PlaceInv, Handler
  <2>. QED  BY <2>1, Zeros DEF EarlyInv, TypeOK
<1>2. PlaceInv'
  BY DEF EarlyInv, TypeOK, PlaceInv, At, Handler, Queueing, Queued
<1>3. CallInv'
  BY DEF EarlyInv, CallInv, PlaceInv, At, Handler, Queueing, Queued
<1>4. SleepInv'
  BY DEF EarlyInv, SleepInv, PlaceInv, At, Handler, Queueing, Queued
<1>. QED  BY <1>1, <1>2, <1>3, <1>4 DEF EarlyInv

\* while_cond_timeout_infinite() looks at its condition.
LEMMA ConditionEarly == EarlyInv /\ Condition => EarlyInv'
<1>. SUFFICES ASSUME EarlyInv, Condition PROVE EarlyInv'
  OBVIOUS
<1>. USE DEF Condition, Step, Return, build, timer, past
<1>1. TypeOK'
  BY Zeros DEF EarlyInv, TypeOK, PlaceInv, PCs
<1>2. PlaceInv'
  BY DEF EarlyInv, TypeOK, PlaceInv, At, Handler, Queueing, Queued
<1>3. CallInv'
  BY DEF EarlyInv, CallInv, PlaceInv, At, Handler, Queueing, Queued
<1>4. SleepInv'
  BY DEF EarlyInv, SleepInv, PlaceInv, At, Handler, Queueing, Queued
<1>. QED  BY <1>1, <1>2, <1>3, <1>4 DEF EarlyInv

\* while_cond_timeout_infinite() looks at the time.
LEMMA LookAtTimerEarly == EarlyInv /\ LookAtTimer => EarlyInv'
<1>. SUFFICES ASSUME EarlyInv, LookAtTimer PROVE EarlyInv'
  OBVIOUS
<1>. USE DEF LookAtTimer, Step, build, timer, past
<1>1. TypeOK'
  BY Zeros DEF EarlyInv, TypeOK, PlaceInv, PCs
<1>2. PlaceInv'
  BY DEF EarlyInv, TypeOK, PlaceInv, At, Handler, Queueing, Queued
<1>3. CallInv'
  BY DEF EarlyInv, CallInv, PlaceInv, At, Handler, Queueing, Queued
<1>4. SleepInv'
  BY DEF EarlyInv, SleepInv, PlaceInv, At, Handler, Queueing, Queued
<1>. QED  BY <1>1, <1>2, <1>3, <1>4 DEF EarlyInv

\* The device is done.
LEMMA BusyEndsEarly == EarlyInv /\ BusyEnds => EarlyInv'
<1>. SUFFICES ASSUME EarlyInv, BusyEnds PROVE EarlyInv'
  OBVIOUS
<1>. USE DEF BusyEnds, core, build, timer, past
<1>1. TypeOK'
  BY Zeros DEF EarlyInv, TypeOK, PlaceInv, PCs
<1>2. PlaceInv'
  BY DEF EarlyInv, TypeOK, PlaceInv, At, Handler, Queueing, Queued
<1>3. CallInv'
  BY DEF EarlyInv, CallInv, PlaceInv, At, Handler, Queueing, Queued
<1>4. SleepInv'
  BY DEF EarlyInv, SleepInv, PlaceInv, At, Handler, Queueing, Queued
<1>. QED  BY <1>1, <1>2, <1>3, <1>4 DEF EarlyInv

\* Interrupts are enabled outside of calls only,
LEMMA IcEnableEarly == EarlyInv /\ ic_enable_interrupts => EarlyInv'
<1>. SUFFICES ASSUME EarlyInv, ic_enable_interrupts PROVE EarlyInv'
  OBVIOUS
<1>. USE DEF ic_enable_interrupts, Step, build, timer, past
<1>1. TypeOK'
  BY Zeros DEF EarlyInv, TypeOK, PlaceInv, PCs
<1>2. PlaceInv'
  BY DEF EarlyInv, TypeOK, PlaceInv, At, Handler, Queueing, Queued
<1>3. CallInv'
  BY DEF EarlyInv, CallInv, PlaceInv, At, Handler, Queueing, Queued
<1>4. SleepInv'
  BY DEF EarlyInv, SleepInv, PlaceInv, At, Handler, Queueing, Queued
<1>. QED  BY <1>1, <1>2, <1>3, <1>4 DEF EarlyInv

\* and disabled outside of calls only.
LEMMA IcDisableEarly == EarlyInv /\ ic_disable_interrupts => EarlyInv'
<1>. SUFFICES ASSUME EarlyInv, ic_disable_interrupts PROVE EarlyInv'
  OBVIOUS
<1>. USE DEF ic_disable_interrupts, Step, build, timer, past
<1>1. TypeOK'
  BY Zeros DEF EarlyInv, TypeOK, PlaceInv, PCs
<1>2. PlaceInv'
  BY DEF EarlyInv, TypeOK, PlaceInv, At, Handler, Queueing, Queued
<1>3. CallInv'
  BY DEF EarlyInv, CallInv, PlaceInv, At, Handler, Queueing, Queued
<1>4. SleepInv'
  BY DEF EarlyInv, SleepInv, PlaceInv, At, Handler, Queueing, Queued
<1>. QED  BY <1>1, <1>2, <1>3, <1>4 DEF EarlyInv

\* usleep() begins, with interrupts enabled or polled.
LEMMA UsleepEarly ==
  ASSUME EarlyInv, NEW n \in Times, ENABLE_GIC \/ irqs, usleep(n)
  PROVE  EarlyInv'
<1>. USE DEF usleep, Step, Begin, build, timer, past
<1>1. TypeOK'
  <2>1. clo \in 0..TICKS - 1 /\ n \in 0..TICKS - 1
    BY TimesAreShort DEF EarlyInv, TypeOK
  <2>2. After(n) \in 0..TICKS - 1
    BY <2>1, Remainder, TimesAreShort DEF After, Wrap
  <2>. QED  BY <2>1, <2>2, Zeros DEF EarlyInv, TypeOK, PCs
<1>2. PlaceInv'
  BY DEF EarlyInv, TypeOK, PlaceInv, At, Handler, Queueing, Queued
<1>3. CallInv'
  <2>1. clo \in 0..TICKS - 1 /\ n \in 0..TICKS - 1
    BY TimesAreShort DEF EarlyInv, TypeOK
  <2>2. After(n) = Wrap(clo + n) /\ Wrap(clo + 0) = clo
    BY <2>1, Remainder, TimesAreShort DEF After, Wrap
  <2>. QED  BY <2>1, <2>2 DEF CallInv
<1>4. SleepInv'
  BY DEF EarlyInv, SleepInv, PlaceInv, At, Handler, Queueing, Queued
<1>. QED  BY <1>1, <1>2, <1>3, <1>4 DEF EarlyInv

\* while_cond_timeout_infinite() begins.
LEMMA WaitCallEarly ==
  ASSUME EarlyInv, NEW n \in Times, while_cond_timeout_infinite(n)
  PROVE  EarlyInv'
<1>. USE DEF while_cond_timeout_infinite, Step, Begin, build, timer, past
<1>1. TypeOK'
  <2>1. clo \in 0..TICKS - 1 /\ n \in 0..TICKS - 1
    BY TimesAreShort DEF EarlyInv, TypeOK
  <2>2. After(n) \in 0..TICKS - 1
    BY <2>1, Remainder, TimesAreShort DEF After, Wrap
  <2>. QED  BY <2>1, <2>2, Zeros DEF EarlyInv, TypeOK, PCs
<1>2. PlaceInv'
  BY DEF EarlyInv, TypeOK, PlaceInv, At, Handler, Queueing, Queued
<1>3. CallInv'
  <2>1. clo \in 0..TICKS - 1 /\ n \in 0..TICKS - 1
    BY TimesAreShort DEF EarlyInv, TypeOK
  <2>2. After(n) = Wrap(clo + n) /\ Wrap(clo + 0) = clo
    BY <2>1, Remainder, TimesAreShort DEF After, Wrap
  <2>. QED  BY <2>1, <2>2 DEF CallInv
<1>4. SleepInv'
  BY DEF EarlyInv, SleepInv, PlaceInv, At, Handler, Queueing, Queued
<1>. QED  BY <1>1, <1>2, <1>3, <1>4 DEF EarlyInv

\* Every step keeps the first part of the invariant.
LEMMA NextEarly == EarlyInv /\ [Next]_vars => EarlyInv'
<1>. SUFFICES ASSUME EarlyInv, [Next]_vars PROVE EarlyInv'
  OBVIOUS
<1>1. CASE CoreStep
  BY <1>1, SpinEarly, QueueFlagEarly, QueueSetEarly, WfiEarly, CheckServicedEarly,
     IrqExceptionEarly, SourceEarly, IsrC1Early, IsrClearEarly, IsrReturnEarly, ConditionEarly,
     LookAtTimerEarly DEF CoreStep
<1>2. CASE UNCHANGED vars
  <2>. USE <1>2 DEF vars, build, core, timer, past
  <2>1. TypeOK'
    BY DEF EarlyInv, TypeOK
  <2>2. PlaceInv' /\ CallInv'
    BY DEF EarlyInv, PlaceInv, CallInv, At
  <2>3. SleepInv'
    BY DEF EarlyInv, SleepInv, At
  <2>. QED  BY <2>1, <2>2, <2>3 DEF EarlyInv
<1>. QED
  BY <1>1, <1>2, TickEarly, BusyEndsEarly, SpuriousWakeEarly, IcEnableEarly, IcDisableEarly,
     UsleepEarly, WaitCallEarly DEF Next

\* The first part of the invariant holds throughout.
LEMMA EarlyInvariance == Spec => []EarlyInv
BY InitEarly, NextEarly, PTL DEF Spec

\* Registers, timestamps and the age of a call stay in their ranges, whatever the width of the
\* counter; the core is never held up.
THEOREM TypeCorrect == Spec => []TypeOK
<1>1. EarlyInv => TypeOK
  BY DEF EarlyInv
<1>. QED  BY <1>1, EarlyInvariance, PTL

\* What the core has seen when a call ends.
LEMMA Ends ==
  ASSUME [Next]_vars
  PROVE  /\ pc = "spin" /\ pc' = "idle" => clo >= ticks
         /\ pc = "done" /\ pc' = "halt" => clo >= ticks
<1>. USE DEF vars, build, core, timer, past
<1>1. CASE CoreStep
  <2>1. CASE Spin \/ Condition \/ LookAtTimer
    BY <2>1 DEF Spin, Condition, LookAtTimer, Step, Return, timer_poll_done
  <2>2. CASE QueueFlag \/ QueueSet \/ Wfi \/ CheckServiced
    BY <2>2 DEF QueueFlag, QueueSet, Wfi, CheckServiced, Step, Return
  <2>3. CASE IrqException
    BY <2>3 DEF IrqException
  <2>4. CASE ic_irq_exception_handler \/ timer_isr_c1 \/ timer_isr_clear \/ timer_isr_return
    BY <2>4 DEF ic_irq_exception_handler, timer_isr_c1, timer_isr_clear, timer_isr_return,
           FromHandler
  <2>. QED  BY <1>1, <2>1, <2>2, <2>3, <2>4 DEF CoreStep
<1>2. CASE Tick \/ BusyEnds \/ SpuriousWake \/ ic_enable_interrupts \/ ic_disable_interrupts
  BY <1>2 DEF Tick, BusyEnds, SpuriousWake, ic_enable_interrupts, ic_disable_interrupts, Step
<1>3. CASE \E n \in Times : ((ENABLE_GIC \/ irqs) /\ usleep(n)) \/ while_cond_timeout_infinite(n)
  BY <1>3 DEF usleep, while_cond_timeout_infinite, Step
<1>4. CASE UNCHANGED vars
  BY <1>4
<1>. QED  BY <1>1, <1>2, <1>3, <1>4 DEF Next

\* A step of the core ends a call early only in the cases of NeverEarly.
LEMMA EndsInTime ==
  ASSUME EarlyInv, [Next]_vars, EndsEarly
  PROVE  IF pc = "check" THEN OtherWakes ELSE start + elapsed < TICKS /\ TICKS <= Deadline
<1>1. elapsed \in Nat /\ us \in Nat /\ start \in 0..TICKS - 1
  BY TimesAreShort DEF EarlyInv, TypeOK, CAP
<1>2. CASE pc = "check"
  <2>1. At = "check" /\ At \in Queued
    BY <1>2 DEF EarlyInv, PlaceInv, At, Handler, Queued
  <2>2. elapsed < us
    BY DEF EndsEarly
  <2>. QED  BY <1>1, <1>2, <2>1, <2>2 DEF EarlyInv, SleepInv
<1>3. CASE pc \in {"spin", "done"}
  <2>1. clo >= ticks /\ elapsed < us
    BY <1>3, Ends DEF EndsEarly
  <2>2. call # "none" /\ ~(call = "sleep" /\ ~ENABLE_GIC)
    BY <1>3 DEF EarlyInv, PlaceInv, At, Handler, Queueing, Queued
  <2>3. us \in Times /\ ticks = Wrap(start + us)
    BY <2>2 DEF EarlyInv, CallInv
  <2>4. us < TICKS /\ TICKS \in Nat
    BY <2>3, TimesAreShort
  <2>5. clo = Wrap(start + elapsed)
    BY <1>1, <2>1, <2>2, <2>4 DEF EarlyInv, CallInv
  <2>. QED  BY <1>1, <1>3, <2>1, <2>3, <2>4, <2>5 DEF Wrap, Deadline
<1>. QED  BY <1>2, <1>3 DEF EndsEarly

\* usleep() and while_cond_timeout_infinite() end early only by the warning at timer.h:44, a
\* timestamp that has overflowed before the counter; with interrupts, usleep() only if WFI also
\* returns for other reasons.  For every width of the counter, every delay and all times.
THEOREM NotEarly == Spec => NeverEarly
<1>1. EarlyInv /\ [Next]_vars
        => [EndsEarly => IF pc = "check" THEN OtherWakes
                         ELSE start + elapsed < TICKS /\ TICKS <= Deadline]_vars
  BY EndsInTime
<1>. QED  BY <1>1, EarlyInvariance, PTL DEF Spec, NeverEarly

-----------------------------------------------------------------------------
(* No call ends late.                                                      *)

\* The numbers among the variables.
LEMMA Numbers ==
  ASSUME TypeOK
  PROVE  /\ elapsed \in Nat /\ us \in Nat /\ lag \in Nat /\ lag <= LAG /\ LAG \in Nat /\ 0 < LAG
         /\ TICKS \in Nat /\ start \in Nat /\ start < TICKS /\ clo \in Nat /\ clo < TICKS
BY TimesAreShort DEF TypeOK, CAP

\* As long as neither has overflowed, the counter is past the timestamp by what the call is late.
LEMMA Window ==
  ASSUME NEW s \in Nat, s < TICKS, NEW u \in Nat, u < TICKS, NEW e \in Nat, NEW w \in Nat,
         Wrap(s + u) + w < TICKS, u <= e, e <= u + w
  PROVE  s + e < 2 * TICKS /\ Wrap(s + e) = Wrap(s + u) + (e - u)
BY TimesAreShort DEF Wrap

\* A poll that sees the counter before the timestamp is not late.
LEMMA NotDone ==
  ASSUME EarlyInv, call # "none", ~(call = "sleep" /\ ~ENABLE_GIC), clo < ticks,
         Wrap(start + us) + Slack < TICKS, elapsed <= us + Slack
  PROVE  elapsed <= us
<1>1. us \in Times /\ ticks = Wrap(start + us)
  BY DEF EarlyInv, CallInv
<1>2. us < TICKS /\ us \in Nat /\ elapsed \in Nat /\ start \in Nat /\ start < TICKS /\ Slack \in Nat
  BY <1>1, Numbers, TimesAreShort DEF EarlyInv, Slack
<1>3. ASSUME elapsed > us PROVE FALSE
  <2>1. start + elapsed < 2 * TICKS /\ Wrap(start + elapsed) = Wrap(start + us) + (elapsed - us)
    BY <1>2, <1>3, Window
  <2>2. clo = Wrap(start + elapsed)
    BY <2>1 DEF EarlyInv, CallInv
  <2>3. Wrap(start + us) \in Nat
    BY <1>2, TimesAreShort DEF Wrap
  <2>. QED  BY <1>1, <1>2, <1>3, <2>1, <2>2, <2>3
<1>. QED  BY <1>2, <1>3

\* Nothing is under way at first.
LEMMA InitLate == Init => LateInv
<1>. SUFFICES ASSUME Init PROVE LateInv
  OBVIOUS
<1>1. PollInv /\ WaitInv /\ ZeroInv
  BY DEF Init, PollInv, WaitInv, ZeroInv, At, Queued
<1>2. QueueInv /\ QueuedInv
  BY DEF Init, QueueInv, QueuedInv, At, Queueing, Queued
<1>. QED  BY <1>1, <1>2 DEF LateInv

\* A poll that goes on is not late.
LEMMA SpinLate == EarlyInv /\ LateInv /\ Spin => LateInv'
<1>. SUFFICES ASSUME EarlyInv, LateInv, Spin PROVE LateInv'
  OBVIOUS
<1>. USE DEF Spin, Step, Return, build, timer, past
<1>0. /\ elapsed \in Nat /\ us \in Nat /\ lag \in Nat /\ lag <= LAG /\ LAG \in Nat /\ 0 < LAG
      /\ TICKS \in Nat /\ start \in Nat /\ start < TICKS /\ clo \in Nat /\ clo < TICKS
  BY Numbers DEF EarlyInv
<1>1. PollInv'
  <2>1. ASSUME pc' = "spin", Wrap(start + us) + Slack < TICKS
        PROVE  elapsed <= us
    <3>1. call = "sleep" /\ ENABLE_GIC /\ clo < ticks
      BY <2>1 DEF EarlyInv, PlaceInv, At, Handler
    <3>2. elapsed <= us + LAG /\ Slack = 2 * LAG
      BY <1>0, <2>1, <3>1 DEF LateInv, PollInv, Late, Slack
    <3>. QED  BY <1>0, <2>1, <3>1, <3>2, NotDone
  <2>2. call' = "sleep" /\ ENABLE_GIC => pc' = "spin" /\ UNCHANGED <<us, start, elapsed>>
    BY DEF EarlyInv, PlaceInv, At, Handler, Queueing, Queued
  <2>. QED  BY <1>0, <2>1, <2>2 DEF PollInv, Late, Slack
<1>2. WaitInv'
  BY <1>0 DEF LateInv, WaitInv, Slack, Late, EarlyInv, PlaceInv, At, Handler, Queueing, Queued
<1>3. ZeroInv'
  BY <1>0 DEF LateInv, ZeroInv, EarlyInv, PlaceInv, At, Handler, Queueing, Queued
<1>4. QueueInv'
  BY <1>0 DEF LateInv, QueueInv, LongEnough, Old, EarlyInv, PlaceInv, At, Handler, Queueing, Queued
<1>5. QueuedInv'
  BY <1>0 DEF LateInv, QueuedInv, LongEnough, Old, Late, Over, EarlyInv, PlaceInv, At, Handler,
         Queueing, Queued
<1>. QED  BY <1>1, <1>2, <1>3, <1>4, <1>5 DEF LateInv

\* One more step of a call that has just begun.
LEMMA QueueFlagLate == EarlyInv /\ LateInv /\ QueueFlag => LateInv'
<1>. SUFFICES ASSUME EarlyInv, LateInv, QueueFlag PROVE LateInv'
  OBVIOUS
<1>. USE DEF QueueFlag, Step, build, timer, past
<1>0. /\ elapsed \in Nat /\ us \in Nat /\ lag \in Nat /\ lag <= LAG /\ LAG \in Nat /\ 0 < LAG
      /\ TICKS \in Nat /\ start \in Nat /\ start < TICKS /\ clo \in Nat /\ clo < TICKS
  BY Numbers DEF EarlyInv
<1>1. PollInv'
  BY <1>0 DEF LateInv, PollInv, Slack, Late, EarlyInv, PlaceInv, At, Handler, Queueing, Queued
<1>2. WaitInv'
  BY <1>0 DEF LateInv, WaitInv, Slack, Late, EarlyInv, PlaceInv, At, Handler, Queueing, Queued
<1>3. ZeroInv'
  BY <1>0 DEF LateInv, ZeroInv, EarlyInv, PlaceInv, At, Handler, Queueing, Queued
<1>4. QueueInv'
  <2>1. irqs /\ back = "none" /\ ~cs
    BY DEF EarlyInv, PlaceInv, At, Handler, Queueing, Interrupted
  <2>. QED  BY <1>0, <2>1 DEF LateInv, QueueInv, LongEnough, Old, At, Queueing
<1>5. QueuedInv'
  BY <1>0 DEF LateInv, QueuedInv, LongEnough, Old, Late, Over, EarlyInv, PlaceInv, At, Handler,
         Queueing, Queued
<1>. QED  BY <1>1, <1>2, <1>3, <1>4, <1>5 DEF LateInv

\* The match is set before it is due.
LEMMA QueueSetLate == EarlyInv /\ LateInv /\ QueueSet => LateInv'
<1>. SUFFICES ASSUME EarlyInv, LateInv, QueueSet PROVE LateInv'
  OBVIOUS
<1>. USE DEF QueueSet, Step, build, timer, past
<1>0. /\ elapsed \in Nat /\ us \in Nat /\ lag \in Nat /\ lag <= LAG /\ LAG \in Nat /\ 0 < LAG
      /\ TICKS \in Nat /\ start \in Nat /\ start < TICKS /\ clo \in Nat /\ clo < TICKS
  BY Numbers DEF EarlyInv
<1>1. PollInv'
  BY <1>0 DEF LateInv, PollInv, Slack, Late, EarlyInv, PlaceInv, At, Handler, Queueing, Queued
<1>2. WaitInv'
  BY <1>0 DEF LateInv, WaitInv, Slack, Late, EarlyInv, PlaceInv, At, Handler, Queueing, Queued
<1>3. ZeroInv'
  BY <1>0 DEF LateInv, ZeroInv, EarlyInv, PlaceInv, At, Handler, Queueing, Queued
<1>4. QueueInv'
  BY <1>0 DEF LateInv, QueueInv, LongEnough, Old, EarlyInv, PlaceInv, At, Handler, Queueing, Queued
<1>5. QueuedInv'
  <2>1. irqs /\ back = "none" /\ ~cs
    BY DEF EarlyInv, PlaceInv, At, Handler, Queueing, Interrupted
  <2>2. ~OtherWakes /\ LongEnough => Old(7)
    BY <1>0, <2>1 DEF LateInv, QueueInv, Old, At, Queueing
  <2>. QED  BY <1>0, <2>1, <2>2 DEF QueuedInv, LongEnough, Old, At, Queued
<1>. QED  BY <1>1, <1>2, <1>3, <1>4, <1>5 DEF LateInv

\* The core stops before the match is due.
LEMMA WfiLate == EarlyInv /\ LateInv /\ Wfi => LateInv'
<1>. SUFFICES ASSUME EarlyInv, LateInv, Wfi PROVE LateInv'
  OBVIOUS
<1>. USE DEF Wfi, Step, build, timer, past
<1>0. /\ elapsed \in Nat /\ us \in Nat /\ lag \in Nat /\ lag <= LAG /\ LAG \in Nat /\ 0 < LAG
      /\ TICKS \in Nat /\ start \in Nat /\ start < TICKS /\ clo \in Nat /\ clo < TICKS
  BY Numbers DEF EarlyInv
<1>1. PollInv'
  BY <1>0 DEF LateInv, PollInv, Slack, Late, EarlyInv, PlaceInv, At, Handler, Queueing, Queued
<1>2. WaitInv'
  BY <1>0 DEF LateInv, WaitInv, Slack, Late, EarlyInv, PlaceInv, At, Handler, Queueing, Queued
<1>3. ZeroInv'
  BY <1>0 DEF LateInv, ZeroInv, EarlyInv, PlaceInv, At, Handler, Queueing, Queued
<1>4. QueueInv'
  BY <1>0 DEF LateInv, QueueInv, LongEnough, Old, EarlyInv, PlaceInv, At, Handler, Queueing, Queued
<1>5. QueuedInv'
  BY <1>0 DEF LateInv, QueuedInv, LongEnough, Old, Late, Over, EarlyInv, PlaceInv, At, Handler,
         Queueing, Queued
<1>. QED  BY <1>1, <1>2, <1>3, <1>4, <1>5 DEF LateInv

\* Only sleeps without other wakes are claimed to be on time.
LEMMA SpuriousWakeLate == EarlyInv /\ LateInv /\ SpuriousWake => LateInv'
<1>. SUFFICES ASSUME EarlyInv, LateInv, SpuriousWake PROVE LateInv'
  OBVIOUS
<1>. USE DEF SpuriousWake, Step, build, timer, past
<1>0. /\ elapsed \in Nat /\ us \in Nat /\ lag \in Nat /\ lag <= LAG /\ LAG \in Nat /\ 0 < LAG
      /\ TICKS \in Nat /\ start \in Nat /\ start < TICKS /\ clo \in Nat /\ clo < TICKS
  BY Numbers DEF EarlyInv
<1>1. PollInv'
  BY <1>0 DEF LateInv, PollInv, Slack, Late, EarlyInv, PlaceInv, At, Handler, Queueing, Queued
<1>2. WaitInv'
  BY <1>0 DEF LateInv, WaitInv, Slack, Late, EarlyInv, PlaceInv, At, Handler, Queueing, Queued
<1>3. ZeroInv'
  BY <1>0 DEF LateInv, ZeroInv, EarlyInv, PlaceInv, At, Handler, Queueing, Queued
<1>4. QueueInv'
  BY <1>0 DEF LateInv, QueueInv, LongEnough, Old, EarlyInv, PlaceInv, At, Handler, Queueing, Queued
<1>5. QueuedInv'
  BY <1>0 DEF LateInv, QueuedInv, LongEnough, Old, Late, Over, EarlyInv, PlaceInv, At, Handler,
         Queueing, Queued
<1>. QED  BY <1>1, <1>2, <1>3, <1>4, <1>5 DEF LateInv

\* After the sleep's own interrupt the flag is set.
LEMMA CheckServicedLate == EarlyInv /\ LateInv /\ CheckServiced => LateInv'
<1>. SUFFICES ASSUME EarlyInv, LateInv, CheckServiced PROVE LateInv'
  OBVIOUS
<1>. USE DEF CheckServiced, Step, Return, build, timer, past
<1>0. /\ elapsed \in Nat /\ us \in Nat /\ lag \in Nat /\ lag <= LAG /\ LAG \in Nat /\ 0 < LAG
      /\ TICKS \in Nat /\ start \in Nat /\ start < TICKS /\ clo \in Nat /\ clo < TICKS
  BY Numbers DEF EarlyInv
<1>1. PollInv'
  BY <1>0 DEF LateInv, PollInv, Slack, Late, EarlyInv, PlaceInv, At, Handler, Queueing, Queued
<1>2. WaitInv'
  BY <1>0 DEF LateInv, WaitInv, Slack, Late, EarlyInv, PlaceInv, At, Handler, Queueing, Queued
<1>3. ZeroInv'
  BY <1>0 DEF LateInv, ZeroInv, EarlyInv, PlaceInv, At, Handler, Queueing, Queued
<1>4. QueueInv'
  BY <1>0 DEF LateInv, QueueInv, LongEnough, Old, EarlyInv, PlaceInv, At, Handler, Queueing, Queued
<1>5. QueuedInv'
  <2>1. ~ENABLE_GIC /\ back = "none"
    BY DEF EarlyInv, PlaceInv, At, Handler, Queueing, Queued
  <2>2. ~OtherWakes => pc' = "idle"
    BY <2>1 DEF LateInv, ZeroInv
  <2>. QED  BY <2>1, <2>2 DEF QueuedInv, At, Queued
<1>. QED  BY <1>1, <1>2, <1>3, <1>4, <1>5 DEF LateInv

\* An exception: one step, and four more before the program goes on.
LEMMA IrqExceptionLate == EarlyInv /\ LateInv /\ IrqException => LateInv'
<1>. SUFFICES ASSUME EarlyInv, LateInv, IrqException PROVE LateInv'
  OBVIOUS
<1>. USE DEF IrqException, Interrupted, build, timer, past
<1>0. /\ elapsed \in Nat /\ us \in Nat /\ lag \in Nat /\ lag <= LAG /\ LAG \in Nat /\ 0 < LAG
      /\ TICKS \in Nat /\ start \in Nat /\ start < TICKS /\ clo \in Nat /\ clo < TICKS
  BY Numbers DEF EarlyInv
<1>1. PollInv'
  BY <1>0 DEF LateInv, PollInv, Slack, Late, EarlyInv, PlaceInv, At, Handler, Queueing, Queued
<1>2. WaitInv'
  BY <1>0 DEF LateInv, WaitInv, Slack, Late, EarlyInv, PlaceInv, At, Handler, Queueing, Queued
<1>3. ZeroInv'
  BY <1>0 DEF LateInv, ZeroInv, EarlyInv, PlaceInv, At, Handler, Queueing, Queued
<1>4. QueueInv'
  BY <1>0 DEF LateInv, QueueInv, LongEnough, Old, EarlyInv, PlaceInv, At, Handler, Queueing, Queued
<1>5. QueuedInv'
  <2>. SUFFICES ASSUME At' \in Queued, ~OtherWakes, LongEnough
                PROVE  At' = "check" /\ (Late(0) \/ (Over(1) /\ Late(5)))
    BY <1>0 DEF QueuedInv, LongEnough, Late, Over, At
  <2>1. pc \in Queued /\ back = "none" /\ At = pc /\ cs
    BY DEF EarlyInv, PlaceInv, At, Queued, Handler
  <2>2. ~(elapsed < us)
    BY <2>1 DEF EarlyInv, SleepInv
  <2>3. pc # "wfi"
    BY <1>0, <2>1, <2>2 DEF LateInv, QueuedInv, Old, LongEnough
  <2>. QED  BY <2>1, <2>2, <2>3 DEF LateInv, QueuedInv, At, Queued
<1>. QED  BY <1>1, <1>2, <1>3, <1>4, <1>5 DEF LateInv

\* The steps of the handler, one after the other.
LEMMA SourceLate == EarlyInv /\ LateInv /\ ic_irq_exception_handler => LateInv'
<1>. SUFFICES ASSUME EarlyInv, LateInv, ic_irq_exception_handler PROVE LateInv'
  OBVIOUS
<1>. USE DEF ic_irq_exception_handler, FromHandler, build, timer, past
<1>0. /\ elapsed \in Nat /\ us \in Nat /\ lag \in Nat /\ lag <= LAG /\ LAG \in Nat /\ 0 < LAG
      /\ TICKS \in Nat /\ start \in Nat /\ start < TICKS /\ clo \in Nat /\ clo < TICKS
  BY Numbers DEF EarlyInv
<1>1. PollInv'
  BY <1>0 DEF LateInv, PollInv, Slack, Late, EarlyInv, PlaceInv, At, Handler, Queueing, Queued
<1>2. WaitInv'
  BY <1>0 DEF LateInv, WaitInv, Slack, Late, EarlyInv, PlaceInv, At, Handler, Queueing, Queued
<1>3. ZeroInv'
  BY <1>0 DEF LateInv, ZeroInv, EarlyInv, PlaceInv, At, Handler, Queueing, Queued
<1>4. QueueInv'
  BY <1>0 DEF LateInv, QueueInv, LongEnough, Old, EarlyInv, PlaceInv, At, Handler, Queueing, Queued
<1>5. QueuedInv'
  <2>1. At = back /\ At' = back
    BY DEF EarlyInv, PlaceInv, At, Handler
  <2>2. ASSUME At \in Queued, ~OtherWakes, LongEnough
        PROVE  At = "check"
    <3>1. ~(elapsed < us)
      BY <2>2 DEF EarlyInv, SleepInv, PlaceInv, Handler
    <3>2. At # "wfi"
      BY <1>0, <2>2, <3>1 DEF LateInv, QueuedInv, Old, LongEnough
    <3>3. At # "asleep"
      BY <2>1 DEF EarlyInv, PlaceInv
    <3>. QED  BY <2>2, <3>2, <3>3 DEF Queued
  <2>. QED  BY <1>0, <2>1, <2>2 DEF LateInv, QueuedInv, LongEnough, Late, Over
<1>. QED  BY <1>1, <1>2, <1>3, <1>4, <1>5 DEF LateInv

\* From here on only the match at 0 is left.
LEMMA IsrC1Late == EarlyInv /\ LateInv /\ timer_isr_c1 => LateInv'
<1>. SUFFICES ASSUME EarlyInv, LateInv, timer_isr_c1 PROVE LateInv'
  OBVIOUS
<1>. USE DEF timer_isr_c1, FromHandler, build, timer, past
<1>0. /\ elapsed \in Nat /\ us \in Nat /\ lag \in Nat /\ lag <= LAG /\ LAG \in Nat /\ 0 < LAG
      /\ TICKS \in Nat /\ start \in Nat /\ start < TICKS /\ clo \in Nat /\ clo < TICKS
  BY Numbers DEF EarlyInv
<1>1. PollInv'
  BY <1>0 DEF LateInv, PollInv, Slack, Late, EarlyInv, PlaceInv, At, Handler, Queueing, Queued
<1>2. WaitInv'
  BY <1>0 DEF LateInv, WaitInv, Slack, Late, EarlyInv, PlaceInv, At, Handler, Queueing, Queued
<1>3. ZeroInv'
  BY <1>0 DEF LateInv, ZeroInv, EarlyInv, PlaceInv, At, Handler, Queueing, Queued
<1>4. QueueInv'
  BY <1>0 DEF LateInv, QueueInv, LongEnough, Old, EarlyInv, PlaceInv, At, Handler, Queueing, Queued
<1>5. QueuedInv'
  <2>1. At = back /\ At' = back
    BY DEF EarlyInv, PlaceInv, At, Handler
  <2>2. ASSUME At \in Queued, ~OtherWakes, LongEnough
        PROVE  At = "check"
    <3>1. ~(elapsed < us)
      BY <2>2 DEF EarlyInv, SleepInv, PlaceInv, Handler
    <3>2. At # "wfi"
      BY <1>0, <2>2, <3>1 DEF LateInv, QueuedInv, Old, LongEnough
    <3>3. At # "asleep"
      BY <2>1 DEF EarlyInv, PlaceInv
    <3>. QED  BY <2>2, <3>2, <3>3 DEF Queued
  <2>. QED  BY <1>0, <2>1, <2>2 DEF LateInv, QueuedInv, LongEnough, Late, Over
<1>. QED  BY <1>1, <1>2, <1>3, <1>4, <1>5 DEF LateInv

\* From here on there may be a match again.
LEMMA IsrClearLate == EarlyInv /\ LateInv /\ timer_isr_clear => LateInv'
<1>. SUFFICES ASSUME EarlyInv, LateInv, timer_isr_clear PROVE LateInv'
  OBVIOUS
<1>. USE DEF timer_isr_clear, FromHandler, ClearedMatches, build, timer, past
<1>0. /\ elapsed \in Nat /\ us \in Nat /\ lag \in Nat /\ lag <= LAG /\ LAG \in Nat /\ 0 < LAG
      /\ TICKS \in Nat /\ start \in Nat /\ start < TICKS /\ clo \in Nat /\ clo < TICKS
  BY Numbers DEF EarlyInv
<1>1. PollInv'
  BY <1>0 DEF LateInv, PollInv, Slack, Late, EarlyInv, PlaceInv, At, Handler, Queueing, Queued
<1>2. WaitInv'
  BY <1>0 DEF LateInv, WaitInv, Slack, Late, EarlyInv, PlaceInv, At, Handler, Queueing, Queued
<1>3. ZeroInv'
  BY <1>0 DEF LateInv, ZeroInv, EarlyInv, PlaceInv, At, Handler, Queueing, Queued
<1>4. QueueInv'
  BY <1>0 DEF LateInv, QueueInv, LongEnough, Old, EarlyInv, PlaceInv, At, Handler, Queueing, Queued
<1>5. QueuedInv'
  <2>1. At = back /\ At' = back
    BY DEF EarlyInv, PlaceInv, At, Handler
  <2>2. ASSUME At \in Queued, ~OtherWakes, LongEnough
        PROVE  At = "check"
    <3>1. ~(elapsed < us)
      BY <2>2 DEF EarlyInv, SleepInv, PlaceInv, Handler
    <3>2. At # "wfi"
      BY <1>0, <2>2, <3>1 DEF LateInv, QueuedInv, Old, LongEnough
    <3>3. At # "asleep"
      BY <2>1 DEF EarlyInv, PlaceInv
    <3>. QED  BY <2>2, <3>2, <3>3 DEF Queued
  <2>. QED  BY <1>0, <2>1, <2>2 DEF LateInv, QueuedInv, LongEnough, Late, Over
<1>. QED  BY <1>1, <1>2, <1>3, <1>4, <1>5 DEF LateInv

\* The program goes on, unless the match at 0 has come meanwhile.
LEMMA IsrReturnLate == EarlyInv /\ LateInv /\ timer_isr_return => LateInv'
<1>. SUFFICES ASSUME EarlyInv, LateInv, timer_isr_return PROVE LateInv'
  OBVIOUS
<1>. USE DEF timer_isr_return, FromHandler, Serviced, build, timer, past
<1>0. /\ elapsed \in Nat /\ us \in Nat /\ lag \in Nat /\ lag <= LAG /\ LAG \in Nat /\ 0 < LAG
      /\ TICKS \in Nat /\ start \in Nat /\ start < TICKS /\ clo \in Nat /\ clo < TICKS
  BY Numbers DEF EarlyInv
<1>1. PollInv'
  BY <1>0 DEF LateInv, PollInv, Slack, Late, EarlyInv, PlaceInv, At, Handler, Queueing, Queued
<1>2. WaitInv'
  BY <1>0 DEF LateInv, WaitInv, Slack, Late, EarlyInv, PlaceInv, At, Handler, Queueing, Queued
<1>3. ZeroInv'
  BY <1>0 DEF LateInv, ZeroInv, EarlyInv, PlaceInv, At, Handler, Queueing, Queued
<1>4. QueueInv'
  BY <1>0 DEF LateInv, QueueInv, LongEnough, Old, EarlyInv, PlaceInv, At, Handler, Queueing, Queued
<1>5. QueuedInv'
  <2>1. At = back /\ At' = back
    BY DEF EarlyInv, PlaceInv, At, Handler
  <2>2. ASSUME At \in Queued, ~OtherWakes, LongEnough
        PROVE  At = "check"
    <3>1. ~(elapsed < us)
      BY <2>2 DEF EarlyInv, SleepInv, PlaceInv, Handler
    <3>2. At # "wfi"
      BY <1>0, <2>2, <3>1 DEF LateInv, QueuedInv, Old, LongEnough
    <3>3. At # "asleep"
      BY <2>1 DEF EarlyInv, PlaceInv
    <3>. QED  BY <2>2, <3>2, <3>3 DEF Queued
  <2>. QED  BY <1>0, <2>1, <2>2 DEF LateInv, QueuedInv, LongEnough, Late, Over
<1>. QED  BY <1>1, <1>2, <1>3, <1>4, <1>5 DEF LateInv

\* One more step before the next look at the time.
LEMMA ConditionLate == EarlyInv /\ LateInv /\ Condition => LateInv'
<1>. SUFFICES ASSUME EarlyInv, LateInv, Condition PROVE LateInv'
  OBVIOUS
<1>. USE DEF Condition, Step, Return, build, timer, past
<1>0. /\ elapsed \in Nat /\ us \in Nat /\ lag \in Nat /\ lag <= LAG /\ LAG \in Nat /\ 0 < LAG
      /\ TICKS \in Nat /\ start \in Nat /\ start < TICKS /\ clo \in Nat /\ clo < TICKS
  BY Numbers DEF EarlyInv
<1>1. PollInv'
  BY <1>0 DEF LateInv, PollInv, Slack, Late, EarlyInv, PlaceInv, At, Handler, Queueing, Queued
<1>2. WaitInv'
  <2>1. call = "wait" /\ back = "none" /\ ~(irqs /\ cs)
    BY DEF EarlyInv, PlaceInv, At, Handler, Interrupted
  <2>2. CASE pc' = "done" /\ UNCHANGED <<call, us, ticks, past>>
    BY <1>0, <2>1, <2>2 DEF LateInv, WaitInv, Slack, Late
  <2>. QED  BY <2>2 DEF WaitInv
<1>3. ZeroInv'
  BY <1>0 DEF LateInv, ZeroInv, EarlyInv, PlaceInv, At, Handler, Queueing, Queued
<1>4. QueueInv'
  BY <1>0 DEF LateInv, QueueInv, LongEnough, Old, EarlyInv, PlaceInv, At, Handler, Queueing, Queued
<1>5. QueuedInv'
  BY <1>0 DEF LateInv, QueuedInv, LongEnough, Old, Late, Over, EarlyInv, PlaceInv, At, Handler,
         Queueing, Queued
<1>. QED  BY <1>1, <1>2, <1>3, <1>4, <1>5 DEF LateInv

\* A wait that goes on is not late.
LEMMA LookAtTimerLate == EarlyInv /\ LateInv /\ LookAtTimer => LateInv'
<1>. SUFFICES ASSUME EarlyInv, LateInv, LookAtTimer PROVE LateInv'
  OBVIOUS
<1>. USE DEF LookAtTimer, Step, build, timer, past
<1>0. /\ elapsed \in Nat /\ us \in Nat /\ lag \in Nat /\ lag <= LAG /\ LAG \in Nat /\ 0 < LAG
      /\ TICKS \in Nat /\ start \in Nat /\ start < TICKS /\ clo \in Nat /\ clo < TICKS
  BY Numbers DEF EarlyInv
<1>1. PollInv'
  BY <1>0 DEF LateInv, PollInv, Slack, Late, EarlyInv, PlaceInv, At, Handler, Queueing, Queued
<1>2. WaitInv'
  <2>1. call = "wait" /\ back = "none" /\ ~(irqs /\ cs)
    BY DEF EarlyInv, PlaceInv, At, Handler, Interrupted
  <2>2. ASSUME pc' = "cond", Wrap(start + us) + Slack < TICKS
        PROVE  elapsed <= us
    <3>1. clo < ticks
      BY <1>0, <2>2 DEF timer_poll_done, EarlyInv, TypeOK
    <3>2. elapsed <= us + Slack
      BY <1>0, <2>1, <2>2 DEF LateInv, WaitInv, Late, Slack, EarlyInv, PlaceInv
    <3>. QED  BY <1>0, <2>1, <2>2, <3>1, <3>2, NotDone
  <2>3. pc' \in {"cond", "halt"} /\ UNCHANGED <<us, start, elapsed, ENABLE_GIC>>
    OBVIOUS
  <2>. QED  BY <1>0, <2>1, <2>2, <2>3 DEF WaitInv, Late, Slack
<1>3. ZeroInv'
  BY <1>0 DEF LateInv, ZeroInv, EarlyInv, PlaceInv, At, Handler, Queueing, Queued
<1>4. QueueInv'
  BY <1>0 DEF LateInv, QueueInv, LongEnough, Old, EarlyInv, PlaceInv, At, Handler, Queueing, Queued
<1>5. QueuedInv'
  BY <1>0 DEF LateInv, QueuedInv, LongEnough, Old, Late, Over, EarlyInv, PlaceInv, At, Handler,
         Queueing, Queued
<1>. QED  BY <1>1, <1>2, <1>3, <1>4, <1>5 DEF LateInv

\* The device does not count.
LEMMA BusyEndsLate == EarlyInv /\ LateInv /\ BusyEnds => LateInv'
<1>. SUFFICES ASSUME EarlyInv, LateInv, BusyEnds PROVE LateInv'
  OBVIOUS
<1>. USE DEF BusyEnds, core, build, timer, past
<1>0. /\ elapsed \in Nat /\ us \in Nat /\ lag \in Nat /\ lag <= LAG /\ LAG \in Nat /\ 0 < LAG
      /\ TICKS \in Nat /\ start \in Nat /\ start < TICKS /\ clo \in Nat /\ clo < TICKS
  BY Numbers DEF EarlyInv
<1>1. PollInv'
  BY <1>0 DEF LateInv, PollInv, Slack, Late, EarlyInv, PlaceInv, At, Handler, Queueing, Queued
<1>2. WaitInv'
  BY <1>0 DEF LateInv, WaitInv, Slack, Late, EarlyInv, PlaceInv, At, Handler, Queueing, Queued
<1>3. ZeroInv'
  BY <1>0 DEF LateInv, ZeroInv, EarlyInv, PlaceInv, At, Handler, Queueing, Queued
<1>4. QueueInv'
  BY <1>0 DEF LateInv, QueueInv, LongEnough, Old, EarlyInv, PlaceInv, At, Handler, Queueing, Queued
<1>5. QueuedInv'
  BY <1>0 DEF LateInv, QueuedInv, LongEnough, Old, Late, Over, EarlyInv, PlaceInv, At, Handler,
         Queueing, Queued
<1>. QED  BY <1>1, <1>2, <1>3, <1>4, <1>5 DEF LateInv

\* No call is under way.
LEMMA IcEnableLate == EarlyInv /\ LateInv /\ ic_enable_interrupts => LateInv'
<1>. SUFFICES ASSUME EarlyInv, LateInv, ic_enable_interrupts PROVE LateInv'
  OBVIOUS
<1>. USE DEF ic_enable_interrupts, Step, build, timer, past
<1>0. /\ elapsed \in Nat /\ us \in Nat /\ lag \in Nat /\ lag <= LAG /\ LAG \in Nat /\ 0 < LAG
      /\ TICKS \in Nat /\ start \in Nat /\ start < TICKS /\ clo \in Nat /\ clo < TICKS
  BY Numbers DEF EarlyInv
<1>1. PollInv'
  BY <1>0 DEF LateInv, PollInv, Slack, Late, EarlyInv, PlaceInv, At, Handler, Queueing, Queued
<1>2. WaitInv'
  BY <1>0 DEF LateInv, WaitInv, Slack, Late, EarlyInv, PlaceInv, At, Handler, Queueing, Queued
<1>3. ZeroInv'
  BY <1>0 DEF LateInv, ZeroInv, EarlyInv, PlaceInv, At, Handler, Queueing, Queued
<1>4. QueueInv'
  BY <1>0 DEF LateInv, QueueInv, LongEnough, Old, EarlyInv, PlaceInv, At, Handler, Queueing, Queued
<1>5. QueuedInv'
  BY <1>0 DEF LateInv, QueuedInv, LongEnough, Old, Late, Over, EarlyInv, PlaceInv, At, Handler,
         Queueing, Queued
<1>. QED  BY <1>1, <1>2, <1>3, <1>4, <1>5 DEF LateInv

\* No call is under way.
LEMMA IcDisableLate == EarlyInv /\ LateInv /\ ic_disable_interrupts => LateInv'
<1>. SUFFICES ASSUME EarlyInv, LateInv, ic_disable_interrupts PROVE LateInv'
  OBVIOUS
<1>. USE DEF ic_disable_interrupts, Step, build, timer, past
<1>0. /\ elapsed \in Nat /\ us \in Nat /\ lag \in Nat /\ lag <= LAG /\ LAG \in Nat /\ 0 < LAG
      /\ TICKS \in Nat /\ start \in Nat /\ start < TICKS /\ clo \in Nat /\ clo < TICKS
  BY Numbers DEF EarlyInv
<1>1. PollInv'
  BY <1>0 DEF LateInv, PollInv, Slack, Late, EarlyInv, PlaceInv, At, Handler, Queueing, Queued
<1>2. WaitInv'
  BY <1>0 DEF LateInv, WaitInv, Slack, Late, EarlyInv, PlaceInv, At, Handler, Queueing, Queued
<1>3. ZeroInv'
  BY <1>0 DEF LateInv, ZeroInv, EarlyInv, PlaceInv, At, Handler, Queueing, Queued
<1>4. QueueInv'
  BY <1>0 DEF LateInv, QueueInv, LongEnough, Old, EarlyInv, PlaceInv, At, Handler, Queueing, Queued
<1>5. QueuedInv'
  BY <1>0 DEF LateInv, QueuedInv, LongEnough, Old, Late, Over, EarlyInv, PlaceInv, At, Handler,
         Queueing, Queued
<1>. QED  BY <1>1, <1>2, <1>3, <1>4, <1>5 DEF LateInv

\* A sleep begins with no match pending.
LEMMA UsleepLate ==
  ASSUME EarlyInv, LateInv, NEW n \in Times, ENABLE_GIC \/ irqs, usleep(n)
  PROVE  LateInv'
<1>. USE DEF usleep, Step, Begin, build, timer, past
<1>0. /\ elapsed \in Nat /\ us \in Nat /\ lag \in Nat /\ lag <= LAG /\ LAG \in Nat /\ 0 < LAG
      /\ TICKS \in Nat /\ start \in Nat /\ start < TICKS /\ clo \in Nat /\ clo < TICKS
  BY Numbers DEF EarlyInv
<1>1. PollInv'
  BY <1>0, TimesAreShort DEF LateInv, PollInv, Slack, Late, EarlyInv, PlaceInv, At, Handler,
         Queueing, Queued
<1>2. WaitInv'
  BY <1>0 DEF LateInv, WaitInv, Slack, Late, EarlyInv, PlaceInv, At, Handler, Queueing, Queued
<1>3. ZeroInv'
  BY <1>0 DEF LateInv, ZeroInv, EarlyInv, PlaceInv, At, Handler, Queueing, Queued
<1>4. QueueInv'
  <2>1. pc' \in Queueing => irqs /\ ~cs /\ back = "none" /\ pc' = "queue_flag"
    BY DEF EarlyInv, PlaceInv, At, Handler, Queueing, Interrupted
  <2>2. start' + elapsed' < TICKS /\ elapsed' = 0 /\ lag' = 0 /\ back' = "none"
    BY <1>0 DEF EarlyInv, PlaceInv, Handler
  <2>. QED  BY <1>0, <2>1, <2>2 DEF QueueInv, Old, At
<1>5. QueuedInv'
  BY <1>0 DEF LateInv, QueuedInv, LongEnough, Old, Late, Over, EarlyInv, PlaceInv, At, Handler,
         Queueing, Queued
<1>. QED  BY <1>1, <1>2, <1>3, <1>4, <1>5 DEF LateInv

\* A wait may begin with a match pending, if interrupts are disabled.
LEMMA WaitCallLate ==
  ASSUME EarlyInv, LateInv, NEW n \in Times, while_cond_timeout_infinite(n)
  PROVE  LateInv'
<1>. USE DEF while_cond_timeout_infinite, Step, Begin, build, timer, past
<1>0. /\ elapsed \in Nat /\ us \in Nat /\ lag \in Nat /\ lag <= LAG /\ LAG \in Nat /\ 0 < LAG
      /\ TICKS \in Nat /\ start \in Nat /\ start < TICKS /\ clo \in Nat /\ clo < TICKS
  BY Numbers DEF EarlyInv
<1>1. PollInv'
  BY <1>0 DEF LateInv, PollInv, Slack, Late, EarlyInv, PlaceInv, At, Handler, Queueing, Queued
<1>2. WaitInv'
  <2>1. pc' = "cond" /\ us' = n /\ elapsed' = 0 /\ lag' = 0 /\ n \in Nat
    BY TimesAreShort
  <2>. QED  BY <1>0, <2>1 DEF WaitInv, Late
<1>3. ZeroInv'
  BY <1>0 DEF LateInv, ZeroInv, EarlyInv, PlaceInv, At, Handler, Queueing, Queued
<1>4. QueueInv'
  BY <1>0 DEF LateInv, QueueInv, LongEnough, Old, EarlyInv, PlaceInv, At, Handler, Queueing, Queued
<1>5. QueuedInv'
  BY <1>0 DEF LateInv, QueuedInv, LongEnough, Old, Late, Over, EarlyInv, PlaceInv, At, Handler,
         Queueing, Queued
<1>. QED  BY <1>1, <1>2, <1>3, <1>4, <1>5 DEF LateInv

\* A tick: a step that is due is at most one tick more overdue, and the only match that may add
\* an exception is the one of the overflow.
LEMMA TickLate == EarlyInv /\ LateInv /\ Tick => LateInv'
<1>. SUFFICES ASSUME EarlyInv, LateInv, Tick PROVE LateInv'
  OBVIOUS
<1>0. /\ elapsed \in Nat /\ us \in Nat /\ lag \in Nat /\ lag <= LAG /\ LAG \in Nat /\ 0 < LAG
      /\ TICKS \in Nat /\ start \in Nat /\ start < TICKS /\ clo \in Nat /\ clo < TICKS
  BY Numbers DEF EarlyInv
<1>a. UNCHANGED <<ENABLE_GIC, OtherWakes, pc, call, us, ticks, irqs, back, queued_timer_irq_serviced,
                  busy, c1, start>>
  BY DEF Tick, build, core
<1>b. /\ elapsed' \in Nat /\ elapsed <= elapsed' /\ elapsed' <= elapsed + 1
      /\ call # "none" /\ elapsed < TICKS => elapsed' = elapsed + 1
  BY <1>0 DEF Tick, CAP
<1>c. pc \notin {"idle", "asleep", "halt"} \/ Interrupted => lag < LAG /\ lag' = lag + 1
  BY DEF Tick, Due
<1>d. lag' \in Nat /\ lag' <= LAG
  BY <1>0 DEF Tick
<1>e. clo' \in Nat /\ (IF clo + 1 = TICKS THEN clo' = 0 ELSE clo' = clo + 1)
  <2>1. clo' = Wrap(clo + 1)
    BY <1>0, Remainder DEF Tick
  <2>. QED  BY <1>0, <2>1 DEF Wrap
<1>f. cs' <=> cs \/ clo' = c1
  BY DEF Tick
<1>g. CallInv'
  BY TickEarly DEF EarlyInv
<1>h. call # "none" => us \in Times /\ 0 < us /\ us < TICKS
  BY TimesAreShort DEF EarlyInv, CallInv
<1>1. PollInv'
  BY <1>0, <1>a, <1>b, <1>c DEF LateInv, PollInv, Late, Slack, EarlyInv, PlaceInv, At, Handler
<1>2. WaitInv'
  <2>. SUFFICES ASSUME call = "wait", pc # "halt", Wrap(start + us) + Slack < TICKS
                PROVE  WaitInv'
    BY <1>a DEF WaitInv, Slack
  <2>1. lag' = lag + 1 /\ lag < LAG /\ pc \in {"cond", "done"} \cup Handler
    BY <1>c DEF EarlyInv, PlaceInv, At, Handler
  <2>2. ASSUME irqs, c1 = 0, clo' = 0, elapsed' <= us + 8 * LAG
        PROVE  elapsed' <= us
    <3>1. Slack = 16 * LAG
      BY <2>2 DEF Slack, EarlyInv, PlaceInv
    <3>2. ASSUME elapsed' > us PROVE FALSE
      <4>1. start + elapsed' < 2 * TICKS /\ Wrap(start + elapsed') = Wrap(start + us) + (elapsed' - us)
        <5>. DEFINE w == 16 * LAG
        <5>1. w \in Nat /\ Wrap(start + us) + w < TICKS
          BY <1>0, <3>1
        <5>2. elapsed' \in Nat /\ us <= elapsed' /\ elapsed' <= us + w
          BY <1>0, <1>b, <2>2, <3>2
        <5>3. us \in Nat /\ us < TICKS /\ start \in Nat /\ start < TICKS
          BY <1>0, <1>h
        <5>. HIDE DEF w
        <5>. QED  BY <5>1, <5>2, <5>3, Window
      <4>2. clo' = Wrap(start + elapsed')
        BY <1>a, <1>g, <4>1 DEF CallInv
      <4>3. Wrap(start + us) \in Nat
        BY <1>0, <1>h DEF Wrap
      <4>. QED  BY <1>0, <1>b, <2>2, <3>2, <4>1, <4>2, <4>3
    <3>. QED  BY <1>0, <1>b, <3>2
  <2>3. CASE back = "none"
    <3>1. pc \in {"cond", "done"}
      BY <2>1, <2>3 DEF EarlyInv, PlaceInv
    <3>2. CASE ~irqs
      BY <1>0, <1>a, <1>b, <2>1, <2>3, <3>1, <3>2 DEF LateInv, WaitInv, Late
    <3>3. CASE irqs /\ cs
      BY <1>0, <1>a, <1>b, <1>f, <2>1, <2>3, <3>1, <3>3 DEF LateInv, WaitInv, Late
    <3>4. CASE irqs /\ ~cs /\ c1 # 0
      <4>1. (pc = "cond" => Late(0)) /\ (pc = "done" => Late(1))
        BY <2>3, <3>4 DEF LateInv, WaitInv
      <4>. QED  BY <1>0, <1>a, <1>b, <2>1, <2>3, <3>1, <3>4, <4>1 DEF WaitInv, Late
    <3>5. CASE irqs /\ ~cs /\ c1 = 0
      <4>1. (pc = "cond" => Late(6)) /\ (pc = "done" => Late(7))
        BY <2>3, <3>5 DEF LateInv, WaitInv
      <4>2. elapsed' <= us + 8 * LAG
        BY <1>0, <1>b, <2>1, <3>1, <4>1 DEF Late
      <4>3. cs' => elapsed' <= us
        BY <1>f, <2>2, <3>5, <4>2
      <4>. QED  BY <1>0, <1>a, <1>b, <2>1, <2>3, <3>1, <3>5, <4>1, <4>3 DEF WaitInv, Late
    <3>. QED  BY <3>2, <3>3, <3>4, <3>5
  <2>4. CASE back # "none"
    <3>1. irqs /\ pc \in Handler
      BY <2>4 DEF EarlyInv, PlaceInv
    <3>2. ASSUME pc = "isr_flag", ~cs, cs'
          PROVE  elapsed' <= us
      <4>1. c1 = 0 /\ Late(5)
        BY <3>2 DEF EarlyInv, PlaceInv, LateInv, WaitInv
      <4>2. elapsed' <= us + 8 * LAG
        BY <1>0, <1>b, <2>1, <4>1 DEF Late
      <4>. QED  BY <1>f, <2>2, <3>1, <3>2, <4>1, <4>2
    <3>. QED
      BY <1>0, <1>a, <1>b, <2>1, <2>4, <3>1, <3>2 DEF LateInv, WaitInv, Late, Handler
  <2>. QED  BY <2>3, <2>4
<1>3. ZeroInv'
  BY <1>a DEF LateInv, ZeroInv, At
<1>4. QueueInv'
  <2>. SUFFICES ASSUME At \in Queueing, ~OtherWakes, LongEnough
                PROVE  QueueInv'
    BY <1>a DEF QueueInv, At, LongEnough
  <2>1. call = "sleep" /\ irqs /\ ~ENABLE_GIC
    BY DEF EarlyInv, PlaceInv
  <2>2. c1 = 0
    BY <2>1 DEF LateInv, ZeroInv, Queueing, Queued
  <2>3. lag' = lag + 1 /\ lag < LAG /\ pc \in Queueing \cup Handler
    BY <1>c DEF EarlyInv, PlaceInv, At, Handler, Queueing
  <2>4. elapsed <= 7 * LAG + lag
    BY <1>0, <2>3 DEF LateInv, QueueInv, Old, EarlyInv, PlaceInv, Queueing, Handler
  <2>5. elapsed' = elapsed + 1 /\ elapsed' < us /\ start + elapsed' < 2 * TICKS
    <3>1. 9 * LAG < us /\ us < TICKS /\ call # "none"
      BY <1>0, <1>h, <2>1 DEF LongEnough
    <3>2. elapsed < TICKS /\ elapsed + 1 < us
      BY <1>0, <2>3, <2>4, <3>1
    <3>3. elapsed' = elapsed + 1
      BY <1>b, <3>1, <3>2
    <3>. QED  BY <1>0, <3>1, <3>2, <3>3
  <2>6. clo' = Wrap(start + elapsed')
    BY <1>a, <1>g, <2>1, <2>5 DEF CallInv
  <2>7. cs' <=> cs \/ start + elapsed' = TICKS
    BY <1>0, <1>f, <1>h, <2>1, <2>2, <2>5, <2>6 DEF Wrap
  <2>8. CASE start + elapsed < TICKS
    <3>1. ~cs /\ back = "none" /\ (pc = "queue_flag" => Old(0)) /\ (pc = "queue_set" => Old(1))
      BY <2>8 DEF LateInv, QueueInv
    <3>2. pc \in Queueing
      BY <3>1 DEF At
    <3>. QED  BY <1>0, <1>a, <2>3, <2>5, <2>7, <2>8, <3>1, <3>2 DEF QueueInv, Old, Queueing,
           LongEnough
  <2>9. CASE start + elapsed >= TICKS
    <3>1. cs' <=> cs
      BY <1>0, <2>5, <2>7, <2>9
    <3>. QED  BY <1>0, <1>a, <2>3, <2>5, <2>9, <3>1 DEF LateInv, QueueInv, Old
  <2>. QED  BY <1>0, <2>8, <2>9
<1>5. QueuedInv'
  <2>. SUFFICES ASSUME At \in Queued, ~OtherWakes, LongEnough
                PROVE  QueuedInv'
    BY <1>a DEF QueuedInv, At, LongEnough
  <2>1. call = "sleep" /\ irqs /\ ~ENABLE_GIC
    BY DEF EarlyInv, PlaceInv
  <2>2. 9 * LAG < TICKS /\ 9 * LAG < us
    BY <1>0, <1>h, <2>1 DEF LongEnough
  <2>3. CASE At = "wfi"
    <3>1. pc \in Handler \cup {"wfi"}
      BY <2>3 DEF EarlyInv, PlaceInv, At
    <3>2. lag' = lag + 1
      BY <1>c, <3>1 DEF Handler
    <3>. QED  BY <1>0, <1>a, <1>b, <2>3, <3>2 DEF LateInv, QueuedInv, Old, At
  <2>4. CASE At = "asleep"
    <3>1. pc = "asleep" /\ back = "none"
      BY <2>4 DEF EarlyInv, PlaceInv, At
    <3>2. CASE cs /\ Late(0)
      <4>1. lag' = lag + 1 /\ cs'
        BY <1>c, <1>f, <2>1, <3>1, <3>2 DEF Interrupted
      <4>. QED  BY <1>0, <1>a, <1>b, <3>1, <3>2, <4>1 DEF QueuedInv, Late, At
    <3>3. CASE elapsed < us
      <4>1. c1 = Wrap(start + us)
        BY <2>4, <3>3 DEF EarlyInv, SleepInv, Queued
      <4>2. elapsed' = elapsed + 1
        BY <1>0, <1>b, <1>h, <2>1, <3>3
      <4>3. CASE elapsed' = us
        <5>1. clo' = Wrap(start + us)
          BY <1>0, <1>a, <1>g, <1>h, <2>1, <4>3 DEF CallInv
        <5>2. cs' /\ Late(0)'
          <6>1. cs'
            BY <1>f, <4>1, <5>1
          <6>2. us' = us
            BY <1>a
          <6>3. us <= us + 0 * LAG + lag'
            <7>1. 0 * LAG = 0 /\ us \in Nat /\ lag' \in Nat
              BY <1>0, <1>d
            <7>2. \A n \in Nat : \A m \in Nat : m <= m + 0 + n
              OBVIOUS
            <7>. QED  BY <7>1, <7>2, Zenon
          <6>. QED  BY <4>3, <6>1, <6>2, <6>3 DEF Late
        <5>. QED  BY <1>a, <3>1, <5>2 DEF QueuedInv, At
      <4>4. CASE elapsed' < us
        BY <1>a, <3>1, <4>4 DEF QueuedInv, At
      <4>. QED  BY <1>0, <3>3, <4>2, <4>3, <4>4
    <3>. QED  BY <2>4, <3>2, <3>3 DEF LateInv, QueuedInv
  <2>5. CASE At = "check"
    <3>1. pc \in Handler \cup {"check"}
      BY <2>5 DEF EarlyInv, PlaceInv, At
    <3>2. lag' = lag + 1 /\ lag < LAG
      BY <1>c, <3>1 DEF Handler
    <3>3. At' = At
      BY <1>a DEF At
    <3>4. clo' <= clo + 1
      BY <1>0, <1>e
    <3>5. CASE pc \in {"source", "isr_c1", "isr_clear"}
      BY <1>0, <1>a, <1>b, <1>e, <2>5, <3>2, <3>3, <3>4, <3>5
         DEF LateInv, QueuedInv, Late, Over, LongEnough
    <3>6. CASE pc = "isr_flag"
      <4>1. c1 = 0
        BY <3>6 DEF EarlyInv, PlaceInv
      <4>2. CASE cs
        BY <1>0, <1>a, <1>b, <1>e, <1>f, <2>5, <3>2, <3>3, <3>4, <3>6, <4>2
           DEF LateInv, QueuedInv, Late, Over, LongEnough
      <4>3. CASE ~cs /\ Late(4)
        BY <1>0, <1>a, <1>b, <1>d, <1>e, <1>f, <2>5, <3>2, <3>3, <3>6, <4>1, <4>3
           DEF QueuedInv, Late, Over
      <4>4. CASE ~cs /\ Over(5) /\ Late(9)
        <5>1. clo + 1 < TICKS
          BY <1>0, <2>2, <3>2, <4>4 DEF Over
        <5>2. ~cs'
          BY <1>0, <1>e, <1>f, <4>1, <4>4, <5>1
        <5>. QED  BY <1>0, <1>a, <1>b, <1>e, <2>5, <3>2, <3>3, <3>4, <3>6, <4>4, <5>2
                  DEF QueuedInv, Late, Over
      <4>. QED  BY <2>5, <3>6, <4>2, <4>3, <4>4 DEF LateInv, QueuedInv
    <3>7. CASE pc = "check"
      <4>1. c1 = 0
        BY <2>1, <3>7 DEF LateInv, ZeroInv
      <4>2. CASE cs
        BY <1>0, <1>a, <1>b, <1>e, <1>f, <2>5, <3>2, <3>3, <3>4, <3>7, <4>2
           DEF LateInv, QueuedInv, Late, Over, LongEnough
      <4>3. CASE ~cs /\ Late(5)
        BY <1>0, <1>a, <1>b, <1>d, <1>e, <1>f, <2>5, <3>2, <3>3, <3>7, <4>1, <4>3
           DEF QueuedInv, Late, Over
      <4>4. CASE ~cs /\ Over(6) /\ Late(10)
        <5>1. clo + 1 < TICKS
          BY <1>0, <2>2, <3>2, <4>4 DEF Over
        <5>2. ~cs'
          BY <1>0, <1>e, <1>f, <4>1, <4>4, <5>1
        <5>. QED  BY <1>0, <1>a, <1>b, <1>e, <2>5, <3>2, <3>3, <3>4, <3>7, <4>4, <5>2
                  DEF QueuedInv, Late, Over
      <4>. QED  BY <2>5, <3>7, <4>2, <4>3, <4>4 DEF LateInv, QueuedInv
    <3>. QED  BY <3>1, <3>5, <3>6, <3>7 DEF Handler
  <2>. QED  BY <2>3, <2>4, <2>5 DEF Queued
<1>. QED  BY <1>1, <1>2, <1>3, <1>4, <1>5 DEF LateInv

\* Every step keeps the second part of the invariant.
LEMMA NextLate == EarlyInv /\ LateInv /\ [Next]_vars => LateInv'
<1>. SUFFICES ASSUME EarlyInv, LateInv, [Next]_vars PROVE LateInv'
  OBVIOUS
<1>1. CASE CoreStep
  BY <1>1, SpinLate, QueueFlagLate, QueueSetLate, WfiLate, CheckServicedLate,
     IrqExceptionLate, SourceLate, IsrC1Late, IsrClearLate, IsrReturnLate, ConditionLate,
     LookAtTimerLate DEF CoreStep
<1>2. CASE UNCHANGED vars
  <2>. USE <1>2 DEF vars, build, core, timer, past
  <2>1. PollInv' /\ WaitInv'
    BY DEF LateInv, PollInv, WaitInv, Slack, Late
  <2>2. ZeroInv' /\ QueueInv'
    BY DEF LateInv, ZeroInv, QueueInv, At, LongEnough, Old
  <2>3. QueuedInv'
    BY DEF LateInv, QueuedInv, At, LongEnough, Old, Late, Over
  <2>. QED  BY <2>1, <2>2, <2>3 DEF LateInv
<1>. QED
  BY <1>1, <1>2, TickLate, BusyEndsLate, SpuriousWakeLate, IcEnableLate, IcDisableLate,
     UsleepLate, WaitCallLate DEF Next

\* The invariant holds throughout.
LEMMA Invariance == Spec => []IInv
<1>1. Init => IInv
  BY InitEarly, InitLate DEF IInv
<1>2. IInv /\ [Next]_vars => IInv'
  BY NextEarly, NextLate DEF IInv
<1>. QED  BY <1>1, <1>2, PTL DEF Spec

\* Where the core is when a call is late.
LEMMA InTime ==
  ASSUME IInv
  PROVE  NeverLate
<1>. SUFFICES ASSUME call # "none", pc # "halt", elapsed > us + Slack,
                     IF call = "sleep" /\ ~ENABLE_GIC
                       THEN LongEnough /\ ~OtherWakes
                       ELSE (Deadline % TICKS) + Slack < TICKS
              PROVE  FALSE
  <2>1. (Deadline % TICKS) \in Int /\ Slack \in Int /\ TICKS \in Int
    <3>1. start \in Nat /\ us \in Nat /\ TICKS \in Nat /\ LAG \in Nat /\ TICKS > 0
      BY Numbers, TimesAreShort DEF IInv, EarlyInv
    <3>2. (start + us) % TICKS \in Int
      BY <3>1
    <3>. QED  BY <3>1, <3>2 DEF Deadline, Slack
  <2>2. (Deadline % TICKS) + Slack < TICKS \/ (Deadline % TICKS) + Slack >= TICKS
    BY <2>1
  <2>. QED  BY <2>2 DEF NeverLate
<1>0. /\ elapsed \in Nat /\ us \in Nat /\ lag \in Nat /\ lag <= LAG /\ LAG \in Nat /\ 0 < LAG
      /\ TICKS \in Nat /\ start \in Nat /\ start < TICKS /\ clo \in Nat /\ clo < TICKS
  BY Numbers DEF IInv, EarlyInv
<1>1. us \in Times /\ us < TICKS
  BY TimesAreShort DEF IInv, EarlyInv, CallInv
<1>2. Deadline % TICKS = Wrap(start + us)
  BY <1>0, <1>1, Remainder DEF Deadline
<1>3. CASE call = "sleep" /\ ENABLE_GIC
  BY <1>0, <1>2, <1>3 DEF IInv, LateInv, PollInv, Late, Slack
<1>4. CASE call = "wait"
  <2>1. pc \in {"cond", "done"} \cup Handler
    BY <1>4 DEF IInv, EarlyInv, PlaceInv, At
  <2>2. ENABLE_GIC => ~irqs /\ back = "none"
    BY DEF IInv, EarlyInv, PlaceInv
  <2>3. CASE ENABLE_GIC
    BY <1>0, <1>2, <1>4, <2>1, <2>2, <2>3
       DEF IInv, LateInv, WaitInv, Late, Slack, EarlyInv, PlaceInv
  <2>4. CASE ~ENABLE_GIC
    <3>1. elapsed <= us + 8 * LAG
      BY <1>0, <1>2, <1>4, <2>1, <2>4
         DEF IInv, LateInv, WaitInv, Late, EarlyInv, PlaceInv, Handler
    <3>. QED  BY <1>0, <2>4, <3>1 DEF Slack
  <2>. QED  BY <2>3, <2>4
<1>5. CASE call = "sleep" /\ ~ENABLE_GIC
  <2>1. At \in Queueing \cup Queued /\ Slack = 16 * LAG
    BY <1>5 DEF IInv, EarlyInv, PlaceInv, Slack
  <2>2. CASE At \in Queueing
    <3>1. pc \in Queueing \cup Handler
      BY <2>2 DEF IInv, EarlyInv, PlaceInv, At
    <3>2. elapsed <= 8 * LAG
      BY <1>0, <1>5, <2>2, <3>1
         DEF IInv, LateInv, QueueInv, Old, EarlyInv, PlaceInv, Queueing, Handler
    <3>. QED  BY <1>0, <2>1, <3>2
  <2>3. CASE At \in Queued
    <3>1. pc \in Queued \cup Handler /\ (back = "none" => pc = At)
      BY <2>3 DEF IInv, EarlyInv, PlaceInv, At
    <3>2. elapsed <= us + 11 * LAG
      <4>1. CASE At \in {"wfi", "asleep"}
        BY <1>0, <1>5, <2>3, <4>1 DEF IInv, LateInv, QueuedInv, Old, Late
      <4>2. CASE At = "check"
        <5>1. pc \in Handler \cup {"check"}
          BY <3>1, <4>2 DEF IInv, EarlyInv, PlaceInv
        <5>. QED  BY <1>0, <1>5, <2>3, <4>2, <5>1 DEF IInv, LateInv, QueuedInv, Late, Handler
      <4>. QED  BY <2>3, <4>1, <4>2 DEF Queued
    <3>. QED  BY <1>0, <2>1, <3>2
  <2>. QED  BY <2>1, <2>2, <2>3
<1>. QED  BY <1>3, <1>4, <1>5 DEF IInv, EarlyInv, TypeOK

\* usleep() and while_cond_timeout_infinite() are late by a bounded number of steps at most, but
\* for the exceptions that NeverLate names: for every width of the counter, every delay of the
\* core and all times.
THEOREM NotLate == Spec => []NeverLate
BY InTime, Invariance, PTL

-----------------------------------------------------------------------------
(* The error signal.                                                       *)

\* The sleeps of this signal end.
Enabled == ENABLE_GIC \/ irqs

SignalTyped ==
  /\ ENABLE_GIC \in BOOLEAN /\ OtherWakes = FALSE /\ irqs \in BOOLEAN /\ (ENABLE_GIC => ~irqs)
  /\ error \in Errors /\ over \in BOOLEAN
  /\ fsel \in [Pins -> {"input", "output", "alt5"}] /\ level \in [Pins -> BOOLEAN]

\* The pins of the log and of the LED keep their functions.
PinsInv == fsel[GPIO_PIN_TXD1] = "alt5" /\ fsel[GPIO_PIN_LED] = "output"

\* With interrupts masked signal_error() does not get beyond its first sleep.
MaskedInv ==
  /\ back = "none" /\ pc \in {"idle", "queue_flag", "queue_set", "wfi", "asleep"}
  /\ spc \in IF pc = "idle" THEN {"init", "pause"} ELSE {"loop"}
  /\ seen = 0

\* The dark phase t ticks after it began.
DarkAfter(t) == IF t < LONG_PAUSE THEN t ELSE LONG_PAUSE

\* The pause between two signals, and the one between two blinks of a signal.
LongPauseInv ==
  /\ seen \in {0, error}
  /\ IF call = "sleep" THEN us = LONG_PAUSE /\ dark = DarkAfter(elapsed) ELSE dark = LONG_PAUSE

GapInv ==
  /\ seen = error - i
  /\ IF call = "sleep" THEN us = SHORT_PAUSE /\ dark = DarkAfter(elapsed) ELSE dark \in 0..LONG_PAUSE - 1

\* How many blinks were seen and how long the LED has been dark, at each place.
BlinkInv ==
  /\ spc \in {"init", "pause", "lit", "gap"} => call = "none" /\ dark = 0
  /\ spc = "init" => seen = 0
  /\ spc \in {"init", "pause"} => ~level[GPIO_PIN_LED] /\ seen \in {0, error} /\ i = 0
  /\ spc = "loop" => ~level[GPIO_PIN_LED] /\ i \in 1..error /\ IF i = error THEN LongPauseInv ELSE GapInv
  /\ spc \in {"lit", "off"} => level[GPIO_PIN_LED] /\ dark = 0 /\ i \in 0..error - 1 /\ seen = error - i
  /\ spc = "off" /\ call = "sleep" => us = SHORT_PAUSE
  /\ spc = "gap" => ~level[GPIO_PIN_LED] /\ i \in 1..error - 1 /\ seen = error - i

\* A sleep that is under way ends before the counter overflows, if polled; none is, and no
\* exception to come, between two sleeps.
SleepsInv ==
  /\ spc \in {"init", "pause", "loop", "lit", "off", "gap"}
  /\ call \in {"none", "sleep"}
  /\ call = "none" => pc = "idle" /\ (irqs => ~cs)
  /\ call = "sleep" => spc \in {"loop", "off"}

InTimeInv == ENABLE_GIC /\ ~over /\ call = "sleep" => start + us + Slack < TICKS

SignalInv ==
  /\ SignalTyped /\ PinsInv
  /\ ~Enabled => MaskedInv
  /\ Enabled => IInv /\ SleepsInv /\ InTimeInv
  /\ Enabled /\ ~(ENABLE_GIC /\ over) => BlinkInv

-----------------------------------------------------------------------------
(* The numbers.                                                            *)

\* What the assumptions say of the pauses.
LEMMA TwoPauses ==
  /\ LAG \in Nat /\ TICKS \in Nat /\ LAG > 0
  /\ SHORT_PAUSE \in Times /\ SHORT_PAUSE \in Nat /\ SHORT_PAUSE > 9 * LAG /\ SHORT_PAUSE < TICKS
  /\ LONG_PAUSE \in Times /\ LONG_PAUSE \in Nat /\ LONG_PAUSE < TICKS
  /\ SHORT_PAUSE + 16 * LAG < LONG_PAUSE
BY TimesAreShort, PausesAssumption

\* The pins differ, and so do their GPFSEL registers.
LEMMA TwoPins ==
  /\ GPIO_PIN_TXD1 \in Pins /\ GPIO_PIN_LED \in Pins
  /\ GPIO_PIN_TXD1 # GPIO_PIN_LED /\ Gpfsel(GPIO_PIN_TXD1) # Gpfsel(GPIO_PIN_LED)
BY PinsAssumption DEF GPIO_PIN_TXD1, GPIO_PIN_LED, Gpfsel, PINS_PER_GPFSEL

-----------------------------------------------------------------------------
(* Pins: a part of the invariant that depends on no other.                 *)

ConnectInv == SignalTyped /\ PinsInv

LEMMA InitConnects == SignalInit => ConnectInv
<1>. SUFFICES ASSUME SignalInit PROVE ConnectInv
  OBVIOUS
<1>1. ENABLE_GIC \in BOOLEAN /\ OtherWakes = FALSE
  BY WakesAssumption DEF SignalInit
<1>. QED  BY <1>1, TwoPins DEF SignalInit, ConnectInv, SignalTyped, PinsInv

\* Every step leaves build and interrupts as they are.
LEMMA SameSignal ==
  ASSUME [SignalNext]_allvars
  PROVE  UNCHANGED <<build, irqs, error>>
<1>. USE DEF allvars, vars, svars, build, core
<1>1. CASE SignalTick
  BY <1>1 DEF SignalTick, Tick
<1>2. CASE led_init \/ led_turn_on \/ led_turn_off
  BY <1>2 DEF led_init, led_turn_on, led_turn_off
<1>3. CASE LongPause \/ Hold \/ Gap
  BY <1>3 DEF LongPause, Hold, Gap, Sleep, usleep
<1>4. CASE CoreStep /\ UNCHANGED svars
  BY <1>4 DEF CoreStep, Spin, QueueFlag, QueueSet, Wfi, CheckServiced, IrqException,
     ic_irq_exception_handler, timer_isr_c1, timer_isr_clear, timer_isr_return, Condition,
     LookAtTimer
<1>. QED  BY <1>1, <1>2, <1>3, <1>4 DEF SignalNext, SignalStep

LEMMA StepConnects == ConnectInv /\ [SignalNext]_allvars => ConnectInv'
<1>. SUFFICES ASSUME ConnectInv, [SignalNext]_allvars PROVE ConnectInv'
  OBVIOUS
<1>. USE DEF ConnectInv, SignalTyped, PinsInv
<1>0. UNCHANGED <<ENABLE_GIC, OtherWakes, irqs, error>>
  BY SameSignal DEF build
<1>1. CASE led_init
  BY <1>0, <1>1, TwoPins DEF led_init, gpio_pin_select_op
<1>2. CASE led_turn_on \/ led_turn_off
  BY <1>0, <1>2, TwoPins DEF led_turn_on, led_turn_off, gpio_pin_setclr
<1>3. CASE LongPause \/ Hold \/ Gap
  BY <1>0, <1>3 DEF LongPause, Hold, Gap, Sleep
<1>4. CASE UNCHANGED <<fsel, level, over>>
  BY <1>0, <1>4
<1>. QED  BY <1>1, <1>2, <1>3, <1>4 DEF SignalNext, SignalStep, SignalTick, allvars, svars

\* led_init() writes a whole GPFSEL register (gpio.c:53), but not the one of pin 14: the log of an
\* error can still be read while it is signalled.
THEOREM LogIsLeftAlone == SignalSpec => []LogStaysConnected
<1>1. ConnectInv => LogStaysConnected
  BY DEF ConnectInv, PinsInv, LogStaysConnected
<1>. QED  BY <1>1, InitConnects, StepConnects, PTL DEF SignalSpec
-----------------------------------------------------------------------------
(* Interrupts are masked.                                                  *)

LEMMA InitMasked == SignalInit => MaskedInv
BY DEF SignalInit, MaskedInv

LEMMA StepMasked ==
  ASSUME ConnectInv, ~Enabled, MaskedInv, [SignalNext]_allvars
  PROVE  MaskedInv'
<1>. USE DEF MaskedInv, allvars, vars, svars, build, core
<1>0. ~ENABLE_GIC /\ ~irqs /\ ~Interrupted
  BY DEF Enabled, Interrupted
<1>1. CASE SignalTick
  BY <1>1 DEF SignalTick, Tick
<1>2. CASE led_init \/ led_turn_on \/ led_turn_off
  BY <1>2 DEF led_init, led_turn_on, led_turn_off, Goto
<1>3. CASE LongPause \/ Hold \/ Gap
  BY <1>0, <1>3 DEF LongPause, Hold, Gap, Sleep, usleep, Goto, Step
<1>4. CASE CoreStep /\ UNCHANGED svars
  <2>1. CASE QueueFlag \/ QueueSet \/ Wfi
    BY <1>4, <2>1 DEF QueueFlag, QueueSet, Wfi, Step
  <2>2. CASE Spin \/ CheckServiced \/ Condition \/ LookAtTimer
    BY <2>2 DEF Spin, CheckServiced, Condition, LookAtTimer, Step
  <2>3. CASE IrqException
    BY <1>0, <2>3 DEF IrqException
  <2>4. CASE ic_irq_exception_handler \/ timer_isr_c1 \/ timer_isr_clear \/ timer_isr_return
    BY <2>4 DEF ic_irq_exception_handler, timer_isr_c1, timer_isr_clear, timer_isr_return,
       FromHandler
  <2>. QED  BY <1>4, <2>1, <2>2, <2>3, <2>4 DEF CoreStep
<1>. QED  BY <1>1, <1>2, <1>3, <1>4 DEF SignalNext, SignalStep

-----------------------------------------------------------------------------
(* Sleeps that end: each is one of Timer.                                  *)

LEMMA InitTimer == SignalInit => IInv
<1>. SUFFICES ASSUME SignalInit PROVE IInv
  OBVIOUS
<1>. USE DEF SignalInit
<1>1. TypeOK
  BY Zeros DEF TypeOK, PCs
<1>2. PlaceInv
  BY BuildsAssumption DEF PlaceInv, At, Handler, Queueing, Queued
<1>3. CallInv /\ SleepInv
  BY DEF CallInv, SleepInv, At, Queued
<1>4. PollInv /\ WaitInv /\ ZeroInv
  BY DEF PollInv, WaitInv, ZeroInv, At, Queued
<1>5. QueueInv /\ QueuedInv
  BY DEF QueueInv, QueuedInv, At, Queueing, Queued
<1>. QED  BY <1>1, <1>2, <1>3, <1>4, <1>5 DEF IInv, EarlyInv, LateInv

LEMMA StepsOfTimer ==
  ASSUME Enabled, [SignalNext]_allvars
  PROVE  [Next]_vars
<1>1. CASE SignalTick
  BY <1>1 DEF SignalTick, Next
<1>2. CASE led_init \/ led_turn_on \/ led_turn_off
  BY <1>2 DEF led_init, led_turn_on, led_turn_off
<1>3. CASE LongPause \/ Hold \/ Gap
  BY <1>3, TwoPauses DEF LongPause, Hold, Gap, Sleep, Enabled, Next
<1>4. CASE CoreStep /\ UNCHANGED svars
  BY <1>4 DEF Next
<1>. QED  BY <1>1, <1>2, <1>3, <1>4 DEF SignalNext, SignalStep, allvars

LEMMA TimerKeeps ==
  ASSUME Enabled, IInv, [SignalNext]_allvars
  PROVE  IInv'
BY StepsOfTimer, NextEarly, NextLate DEF IInv

\* The core is between two sleeps, or in one.
LEMMA Idle ==
  ASSUME IInv, SleepsInv
  PROVE  /\ pc = "idle" <=> call = "none"
         /\ call = "none" => ~Interrupted /\ back = "none"
         /\ pc \notin {"cond", "done", "halt"}
<1>1. pc = "idle" => call = "none"
  BY DEF IInv, EarlyInv, PlaceInv, At, Handler
<1>2. call = "none" => ~Interrupted /\ back = "none"
  BY DEF IInv, EarlyInv, PlaceInv, SleepsInv, Interrupted, Handler
<1>3. pc \notin {"cond", "done", "halt"}
  BY DEF IInv, EarlyInv, PlaceInv, At, Handler, SleepsInv
<1>. QED  BY <1>1, <1>2, <1>3 DEF SleepsInv

\* A step of the core within a sleep: it goes on, or it returns and is neither early nor late.
LEMMA SleepStep ==
  ASSUME SignalTyped, Enabled, IInv, SleepsInv, CoreStep
  PROVE  /\ call = "sleep"
         /\ \/ UNCHANGED <<call, us, start, elapsed>>
            \/ pc \in {"spin", "check"} /\ pc' = "idle" /\ call' = "none" /\ (irqs' => ~cs')
<1>1. call = "sleep"
  <2>. SUFFICES ASSUME pc = "idle", ~Interrupted PROVE FALSE
    BY Idle DEF SleepsInv
  <2>. QED  BY DEF CoreStep, Spin, QueueFlag, QueueSet, Wfi, CheckServiced, IrqException,
       ic_irq_exception_handler, timer_isr_c1, timer_isr_clear, timer_isr_return, Condition,
       LookAtTimer, Step, FromHandler
<1>2. pc \notin {"cond", "done", "halt"}
  BY Idle
<1>3. CASE Spin \/ CheckServiced
  <2>1. \/ UNCHANGED <<call, us, past>>
        \/ /\ pc \in {"spin", "check"} /\ pc' = "idle" /\ call' = "none" /\ ~Interrupted
           /\ UNCHANGED <<irqs, timer>>
    BY <1>3 DEF Spin, CheckServiced, Step, Return
  <2>2. pc \in {"spin", "check"} => back = "none"
    BY DEF IInv, EarlyInv, PlaceInv, Handler
  <2>. QED  BY <1>1, <2>1, <2>2 DEF past, timer, Interrupted
<1>4. CASE QueueFlag \/ QueueSet \/ Wfi
  BY <1>1, <1>4 DEF QueueFlag, QueueSet, Wfi, past
<1>5. CASE IrqException \/ ic_irq_exception_handler \/ timer_isr_c1 \/ timer_isr_clear
           \/ timer_isr_return
  BY <1>1, <1>5 DEF IrqException, ic_irq_exception_handler, timer_isr_c1, timer_isr_clear,
     timer_isr_return, past
<1>6. CASE Condition \/ LookAtTimer
  BY <1>2, <1>6 DEF Condition, LookAtTimer, Step
<1>. QED  BY <1>3, <1>4, <1>5, <1>6 DEF CoreStep

\* The numbers of a sleep, and where a polled one ends.
LEMMA SleepNumbers ==
  ASSUME SignalTyped, Enabled, IInv, SleepsInv, InTimeInv, ~(ENABLE_GIC /\ over),
         call = "sleep", us \in {SHORT_PAUSE, LONG_PAUSE}
  PROVE  /\ us \in Nat /\ LAG \in Nat /\ TICKS \in Nat /\ us > 9 * LAG
         /\ elapsed \in Nat /\ start \in Nat
         /\ Slack \in Nat /\ Slack <= 16 * LAG
         /\ ENABLE_GIC => Deadline < TICKS /\ Deadline % TICKS = Deadline
                          /\ Deadline + Slack < TICKS /\ Deadline \in Nat
<1>0. us \in Nat /\ LAG \in Nat /\ TICKS \in Nat /\ us > 9 * LAG
  BY TwoPauses
<1>1. elapsed \in Nat /\ start \in Nat
  BY Numbers DEF IInv, EarlyInv
<1>2. Slack \in Nat /\ Slack <= 16 * LAG
  BY <1>0 DEF Slack
<1>3. ENABLE_GIC => Deadline < TICKS /\ Deadline % TICKS = Deadline
                    /\ Deadline + Slack < TICKS /\ Deadline \in Nat
  BY <1>0, <1>1, <1>2 DEF InTimeInv, Deadline, SignalTyped
<1>. QED  BY <1>0, <1>1, <1>2, <1>3

\* A sleep is not late.
LEMMA HowLong ==
  ASSUME SignalTyped, Enabled, IInv, SleepsInv, InTimeInv, ~(ENABLE_GIC /\ over),
         call = "sleep", us \in {SHORT_PAUSE, LONG_PAUSE}
  PROVE  elapsed \in Nat /\ elapsed <= us + 16 * LAG
<1>0. elapsed <= us + Slack
  <2>. SUFFICES ASSUME elapsed > us + Slack PROVE FALSE
    BY SleepNumbers
  <2>1. pc # "halt" /\ LongEnough /\ ~OtherWakes
    BY SleepNumbers, Idle DEF LongEnough, SignalTyped
  <2>2. ENABLE_GIC
    BY <2>1, InTime DEF NeverLate
  <2>3. Deadline + Slack >= TICKS
    BY SleepNumbers, <2>1, <2>2, InTime DEF NeverLate
  <2>. QED  BY SleepNumbers, <2>2, <2>3
<1>. QED  BY <1>0, SleepNumbers

\* Nor is it early when usleep() returns.
LEMMA LongEnoughAtEnd ==
  ASSUME SignalTyped, Enabled, IInv, SleepsInv, InTimeInv, ~(ENABLE_GIC /\ over),
         call = "sleep", us \in {SHORT_PAUSE, LONG_PAUSE},
         CoreStep, pc \in {"spin", "check"}, pc' = "idle"
  PROVE  elapsed >= us
<1>. SUFFICES ASSUME elapsed < us PROVE FALSE
  BY SleepNumbers
<1>1. EndsEarly /\ [Next]_vars /\ EarlyInv
  BY DEF EndsEarly, Next, IInv
<1>2. IF pc = "check" THEN OtherWakes ELSE start + elapsed < TICKS /\ TICKS <= Deadline
  BY <1>1, EndsInTime
<1>3. pc = "spin" /\ TICKS <= Deadline
  BY <1>2 DEF SignalTyped
<1>4. ENABLE_GIC
  BY <1>3 DEF IInv, EarlyInv, PlaceInv, At, Handler
<1>. QED  BY SleepNumbers, <1>3, <1>4

-----------------------------------------------------------------------------
(* Every step of a signal whose sleeps end.                                *)

RunInv == IInv /\ SleepsInv /\ InTimeInv

LEMMA InitRuns == SignalInit => RunInv /\ BlinkInv
<1>. SUFFICES ASSUME SignalInit PROVE RunInv /\ BlinkInv
  OBVIOUS
<1>1. SleepsInv /\ InTimeInv
  BY DEF SignalInit, SleepsInv, InTimeInv
<1>2. BlinkInv
  BY TwoPins DEF SignalInit, BlinkInv
<1>. QED  BY <1>1, <1>2, InitTimer DEF RunInv

\* usleep() begins.
LEMMA SleepKeeps ==
  ASSUME ConnectInv, Enabled, RunInv, LongPause \/ Hold \/ Gap
  PROVE  /\ call = "none" /\ call' = "sleep" /\ elapsed' = 0
         /\ SleepsInv' /\ InTimeInv'
<1>1. call = "none"
  BY Idle DEF RunInv, LongPause, Hold, Gap, Sleep, usleep, Step
<1>2. PICK m \in {SHORT_PAUSE, LONG_PAUSE} :
        Sleep(m) /\ spc' \in {"loop", "off"}
  BY DEF LongPause, Hold, Gap, Goto
<1>3. /\ call' = "sleep" /\ us' = m /\ start' = clo /\ elapsed' = 0 /\ ENABLE_GIC' = ENABLE_GIC
      /\ over' = (over \/ clo + m + Slack >= TICKS)
  BY <1>2 DEF Sleep, usleep, Begin, build
<1>4. SleepsInv'
  BY <1>2, <1>3 DEF SleepsInv
<1>5. InTimeInv'
  <2>1. clo \in Nat /\ m \in Nat /\ Slack \in Nat /\ TICKS \in Nat /\ Slack' = Slack
    BY <1>3, Numbers, TwoPauses DEF RunInv, IInv, EarlyInv, Slack
  <2>2. ~over' => ~(clo + m + Slack >= TICKS)
    BY <1>3
  <2>3. ~over' => clo + m + Slack < TICKS
    BY <2>1, <2>2
  <2>. QED  BY <1>3, <2>1, <2>3 DEF InTimeInv
<1>. QED  BY <1>1, <1>3, <1>4, <1>5

LEMMA StepRuns ==
  ASSUME ConnectInv, Enabled, RunInv, [SignalNext]_allvars
  PROVE  RunInv'
<1>0. IInv' /\ UNCHANGED <<ENABLE_GIC, irqs>>
  BY TimerKeeps, SameSignal DEF RunInv, build
<1>1. CASE SignalTick
  <2>1. pc # "idle" /\ UNCHANGED <<pc, call, us, start, irqs, spc, over>>
    BY <1>1 DEF SignalTick, Tick, core
  <2>2. call # "none"
    BY <2>1 DEF RunInv, SleepsInv
  <2>. QED  BY <1>0, <2>1, <2>2 DEF RunInv, SleepsInv, InTimeInv, Slack
<1>2. CASE led_init \/ led_turn_on \/ led_turn_off
  <2>1. UNCHANGED <<pc, call, us, start, irqs, cs, over, ENABLE_GIC>> /\ pc = "idle"
        /\ spc' \in {"pause", "loop", "lit", "gap"}
    BY <1>2, Idle DEF led_init, led_turn_on, led_turn_off, Goto, AfterBlink, vars, core, timer,
       past, build, RunInv, SleepsInv
  <2>2. call = "none"
    BY <2>1, Idle DEF RunInv
  <2>. QED  BY <1>0, <2>1, <2>2 DEF RunInv, SleepsInv, InTimeInv
<1>3. CASE LongPause \/ Hold \/ Gap
  BY <1>0, <1>3, SleepKeeps DEF RunInv
<1>4. CASE CoreStep /\ UNCHANGED svars
  <2>1. UNCHANGED <<spc, over>>
    BY <1>4 DEF svars
  <2>2. call = "sleep"
        /\ \/ UNCHANGED <<call, us, start, elapsed>>
           \/ pc' = "idle" /\ call' = "none" /\ (irqs' => ~cs')
    BY <1>4, SleepStep DEF RunInv, ConnectInv
  <2>. QED  BY <1>0, <2>1, <2>2 DEF RunInv, SleepsInv, InTimeInv, Slack
<1>5. CASE UNCHANGED allvars
  BY <1>0, <1>5 DEF allvars, vars, svars, core, timer, past, build, RunInv, SleepsInv, InTimeInv,
     Slack
<1>. QED  BY <1>1, <1>2, <1>3, <1>4, <1>5 DEF SignalNext, SignalStep

\* The blinks and the dark phases between them.
LEMMA StepBlinks ==
  ASSUME ConnectInv, Enabled, RunInv, ~(ENABLE_GIC /\ over), BlinkInv, [SignalNext]_allvars
  PROVE  BlinkInv'
<1>0. /\ error \in Nat /\ error > 0 /\ error' = error
      /\ LONG_PAUSE \in Nat /\ SHORT_PAUSE \in Nat /\ 0 < LONG_PAUSE /\ SHORT_PAUSE < LONG_PAUSE
      /\ SHORT_PAUSE + 16 * LAG < LONG_PAUSE /\ LONG_PAUSE < CAP /\ LAG \in Nat
      /\ elapsed \in 0..CAP /\ CAP \in Nat
  <2>1. error \in 1..13 /\ elapsed \in 0..CAP
    BY ErrorsAssumption DEF ConnectInv, SignalTyped, RunInv, IInv, EarlyInv, TypeOK
  <2>. QED  BY <2>1, TwoPauses, SameSignal DEF CAP
<1>00. /\ Lit <=> level[GPIO_PIN_LED]
       /\ level \in [Pins -> BOOLEAN] /\ GPIO_PIN_LED \in Pins
  BY TwoPins DEF Lit, ConnectInv, PinsInv, SignalTyped
<1>1. CASE SignalTick
  <2>1. /\ UNCHANGED <<spc, i, level, seen, call, us>> /\ pc # "idle"
        /\ elapsed' = IF call # "none" /\ elapsed < CAP THEN elapsed + 1 ELSE elapsed
        /\ dark' = IF level[GPIO_PIN_LED] THEN 0 ELSE IF dark < LONG_PAUSE THEN dark + 1 ELSE dark
    BY <1>00, <1>1 DEF SignalTick, Tick, core
  <2>2. call = "sleep" /\ spc \in {"loop", "off"}
    BY <2>1 DEF RunInv, SleepsInv
  <2>3. CASE spc = "off"
    BY <1>0, <2>1, <2>2, <2>3 DEF BlinkInv
  <2>4. CASE spc = "loop"
    <3>1. dark = DarkAfter(elapsed) => dark' = DarkAfter(elapsed')
      BY <1>0, <2>1, <2>2, <2>4 DEF BlinkInv, DarkAfter
    <3>. QED  BY <1>0, <2>1, <2>2, <2>4, <3>1 DEF BlinkInv, LongPauseInv, GapInv, DarkAfter
  <2>. QED  BY <2>2, <2>3, <2>4
<1>2. CASE led_init
  BY <1>0, <1>2 DEF led_init, Goto, BlinkInv, vars, core
<1>3. CASE led_turn_on
  <2>1. /\ spc = "loop" /\ spc' = "lit" /\ i' = i - 1 /\ call' = call /\ dark' = 0
        /\ level' = [level EXCEPT ![GPIO_PIN_LED] = TRUE]
        /\ seen' = IF LongDark THEN 1 ELSE IF seen <= error THEN seen + 1 ELSE seen
    BY <1>3 DEF led_turn_on, Goto, gpio_pin_setclr, vars, core
  <2>2. call = "none"
    BY <1>3, Idle DEF RunInv, led_turn_on
  <2>3. i \in 1..error /\ seen' = error - i + 1
    <3>1. CASE i = error
      BY <1>0, <2>1, <2>2, <3>1 DEF BlinkInv, LongPauseInv, LongDark
    <3>2. CASE i # error
      BY <1>0, <2>1, <2>2, <3>2 DEF BlinkInv, GapInv, LongDark
    <3>. QED  BY <2>1, <3>1, <3>2 DEF BlinkInv
  <2>. QED  BY <1>0, <1>00, <2>1, <2>2, <2>3 DEF BlinkInv
<1>4. CASE led_turn_off
  <2>1. /\ spc = "off" /\ spc' = AfterBlink /\ UNCHANGED <<i, call, dark, seen>>
        /\ level' = [level EXCEPT ![GPIO_PIN_LED] = FALSE]
    BY <1>4 DEF led_turn_off, Goto, gpio_pin_setclr, vars, core
  <2>2. call = "none"
    BY <1>4, Idle DEF RunInv, led_turn_off
  <2>. QED  BY <1>0, <1>00, <2>1, <2>2 DEF BlinkInv, AfterBlink
<1>5. CASE LongPause \/ Hold \/ Gap
  <2>1. call' = "sleep" /\ elapsed' = 0 /\ DarkAfter(0) = 0
    BY <1>0, <1>5, SleepKeeps DEF DarkAfter
  <2>2. UNCHANGED <<level, seen, dark>>
    BY <1>5 DEF LongPause, Hold, Gap, Sleep
  <2>3. CASE LongPause
    BY <1>0, <2>1, <2>2, <2>3 DEF LongPause, Goto, Sleep, usleep, Begin, Blinks, BlinkInv,
       LongPauseInv, DarkAfter
  <2>4. CASE Hold
    BY <1>0, <2>1, <2>2, <2>4 DEF Hold, Goto, Sleep, usleep, Begin, BlinkInv
  <2>5. CASE Gap
    BY <1>0, <2>1, <2>2, <2>5 DEF Gap, Goto, Sleep, usleep, Begin, BlinkInv, GapInv, DarkAfter
  <2>. QED  BY <1>5, <2>3, <2>4, <2>5
<1>6. CASE CoreStep /\ UNCHANGED svars
  <2>0. UNCHANGED <<spc, i, level, seen, dark>>
    BY <1>6 DEF svars
  <2>1. call = "sleep" /\ spc \in {"loop", "off"}
    BY <1>6, SleepStep DEF RunInv, ConnectInv, SleepsInv
  <2>2. CASE UNCHANGED <<call, us, start, elapsed>>
    BY <1>0, <2>0, <2>2 DEF BlinkInv, LongPauseInv, GapInv, DarkAfter
  <2>3. CASE pc \in {"spin", "check"} /\ pc' = "idle" /\ call' = "none"
    <3>1. us \in {SHORT_PAUSE, LONG_PAUSE}
      BY <2>1 DEF BlinkInv, LongPauseInv, GapInv
    <3>2. elapsed <= us + 16 * LAG /\ elapsed >= us
      BY <1>6, <2>1, <2>3, <3>1, HowLong, LongEnoughAtEnd DEF RunInv, ConnectInv
    <3>3. CASE spc = "off"
      BY <1>0, <2>0, <2>3, <3>3 DEF BlinkInv
    <3>4. CASE spc = "loop" /\ i = error
      BY <1>0, <2>0, <2>1, <2>3, <3>2, <3>4 DEF BlinkInv, LongPauseInv, DarkAfter
    <3>5. CASE spc = "loop" /\ i # error
      BY <1>0, <2>0, <2>1, <2>3, <3>2, <3>5 DEF BlinkInv, GapInv, DarkAfter
    <3>. QED  BY <2>1, <3>3, <3>4, <3>5
  <2>. QED  BY <1>6, <2>2, <2>3, SleepStep DEF RunInv, ConnectInv
<1>7. CASE UNCHANGED allvars
  BY <1>0, <1>7 DEF allvars, vars, svars, core, past, BlinkInv, LongPauseInv, GapInv, DarkAfter
<1>. QED  BY <1>1, <1>2, <1>3, <1>4, <1>5, <1>6, <1>7 DEF SignalNext, SignalStep

-----------------------------------------------------------------------------
\* The invariant holds throughout.
LEMMA SignalInvariance == SignalSpec => []SignalInv
<1>1. SignalInit => SignalInv
  BY InitConnects, InitMasked, InitRuns DEF SignalInv, ConnectInv, RunInv
<1>2. SignalInv /\ [SignalNext]_allvars => SignalInv'
  <2>. SUFFICES ASSUME SignalInv, [SignalNext]_allvars PROVE SignalInv'
    OBVIOUS
  <2>1. ConnectInv /\ ConnectInv'
    BY StepConnects DEF SignalInv, ConnectInv
  <2>2. UNCHANGED <<ENABLE_GIC, irqs>> /\ Enabled' = Enabled
    BY SameSignal DEF build, Enabled
  <2>3. over => over'
    BY DEF SignalNext, SignalStep, SignalTick, led_init, led_turn_on, led_turn_off, LongPause,
       Hold, Gap, Sleep, allvars, svars
  <2>4. CASE ~Enabled
    <3>1. MaskedInv'
      BY <2>1, <2>4, StepMasked DEF SignalInv
    <3>. QED  BY <2>1, <2>2, <2>4, <3>1 DEF SignalInv, ConnectInv
  <2>5. CASE Enabled
    <3>1. RunInv /\ RunInv'
      BY <2>1, <2>5, StepRuns DEF SignalInv, RunInv
    <3>2. ~(ENABLE_GIC /\ over)' => BlinkInv'
      BY <2>1, <2>2, <2>3, <2>5, <3>1, StepBlinks DEF SignalInv
    <3>. QED  BY <2>1, <2>2, <2>5, <3>1, <3>2 DEF SignalInv, ConnectInv, RunInv
  <2>. QED  BY <2>4, <2>5
<1>. QED  BY <1>1, <1>2, PTL DEF SignalSpec

\* A user who counts the blinks of signal_error() (error.c:22) between long dark phases reads the
\* code of the error, for every error, every width of the counter and every delay of the core:
\* with interrupts always, with polled sleeps until one comes near to the overflow of the counter.
THEOREM TheCodeIsReadable == SignalSpec => []SignalReadsAtFirst
<1>1. ASSUME SignalInv PROVE SignalReadsAtFirst
  <2>. USE <1>1
  <2>0. error \in Nat /\ LONG_PAUSE \in Nat /\ 0 < LONG_PAUSE /\ LAG \in Nat
        /\ SHORT_PAUSE \in Nat /\ SHORT_PAUSE + 16 * LAG < LONG_PAUSE
    BY ErrorsAssumption, TwoPauses DEF SignalInv, SignalTyped
  <2>1. CASE ~Enabled
    BY <2>0, <2>1 DEF SignalInv, MaskedInv, SignalReadsAtFirst, SignalReads
  <2>2. CASE Enabled /\ ~(ENABLE_GIC /\ over)
    <3>1. CASE spc = "loop" /\ i # error /\ call = "sleep"
      <4>1. us = SHORT_PAUSE /\ dark = DarkAfter(elapsed) /\ seen = error - i /\ i \in 1..error
        BY <2>2, <3>1 DEF SignalInv, BlinkInv, GapInv
      <4>2. elapsed \in Nat /\ elapsed <= us + 16 * LAG
        BY <2>2, <3>1, <4>1, HowLong DEF SignalInv
      <4>. QED  BY <2>0, <4>1, <4>2 DEF SignalReadsAtFirst, SignalReads, LongDark, DarkAfter
    <3>2. CASE spc = "loop" /\ i # error /\ call # "sleep"
      BY <2>0, <2>2, <3>2 DEF SignalInv, BlinkInv, GapInv, SignalReadsAtFirst, SignalReads, LongDark
    <3>3. CASE spc = "loop" /\ i = error
      BY <2>0, <2>2, <3>3 DEF SignalInv, BlinkInv, LongPauseInv, SignalReadsAtFirst, SignalReads
    <3>4. CASE spc # "loop"
      BY <2>0, <2>2, <3>4 DEF SignalInv, SleepsInv, BlinkInv, SignalReadsAtFirst, SignalReads,
         LongDark
    <3>. QED  BY <3>1, <3>2, <3>3, <3>4
  <2>. QED  BY <2>1, <2>2 DEF SignalReadsAtFirst
<1>. QED  BY <1>1, SignalInvariance, PTL
=============================================================================
