------------------------------- MODULE Timer -------------------------------
(***************************************************************************)
(* Waiting: bld/timer.c in both of its builds, the legacy interrupt        *)
(* controller bld/ic.c and bld/int.c, and while_cond_timeout_infinite() of *)
(* bld/help.c.                                                             *)
(*                                                                         *)
(* The core shares the system timer with time itself: Tick advances the    *)
(* free running counter, of which the code sees the lower 32 bits, and     *)
(* raises a match.  The caches are off, so that a few ticks may pass       *)
(* between two steps of the core, but not arbitrarily many.                *)
(***************************************************************************)
EXTENDS Integers

CONSTANTS
  TICKS,        \* values of the counter register (2^32)
  LAG,          \* bound: ticks between two steps of the core
  Times,        \* microseconds that callers ask for
  Builds        \* the builds, each with and without wakes of WFI for other reasons

ASSUME TicksAssumption == TICKS \in Nat \ {0}
ASSUME BuildsAssumption == Builds \subseteq BOOLEAN \X BOOLEAN
ASSUME LagAssumption == LAG \in Nat \ {0}
ASSUME TimesAssumption == Times \subseteq 1..TICKS - 1

VARIABLES
  ENABLE_GIC,   \* the build: polled if TRUE, with interrupts if FALSE
  OtherWakes,   \* whether WFI also ends for reasons other than an interrupt
  pc,           \* where the call, or the exception handler, is
  call,         \* the call under way: "none", "sleep" or "wait"
  us,           \* its argument
  ticks,        \* its local copy of a counter value or timestamp
  busy,         \* what condition() of a wait returns
  irqs,         \* interrupts are enabled, in the core and in the controller
  back,         \* where the exception handler returns to, "none" outside of it
  queued_timer_irq_serviced,
  \* The system timer (external).
  clo, c1,
  cs,           \* the bit of CS for channel 1: the counter has matched c1
  lag,          \* ticks since the last step of the core
  \* History.
  start,        \* the counter at the time of the call
  elapsed       \* ticks since then, up to CAP

\* A bound: nothing is said of calls that last longer than this.
CAP == 2 * TICKS

build  == <<ENABLE_GIC, OtherWakes>>
core   == <<pc, call, us, ticks, irqs, back, queued_timer_irq_serviced>>
timer  == <<clo, c1, cs>>
past   == <<start, elapsed>>
vars   == <<build, core, busy, timer, lag, past>>

Init ==
  /\ \E b \in Builds : ENABLE_GIC = b[1] /\ OtherWakes = b[2]
  /\ pc = "idle" /\ call = "none" /\ us = 0 /\ ticks = 0 /\ busy = FALSE
  /\ irqs = FALSE /\ back = "none" /\ queued_timer_irq_serviced = FALSE
  /\ clo = 0 /\ c1 = 0 /\ cs = FALSE
  /\ lag = 0 /\ start = 0 /\ elapsed = 0

-----------------------------------------------------------------------------
(* Time (external).                                                        *)

\* The line of the timer is up and the core takes exceptions.
Interrupted == irqs /\ cs /\ back = "none" /\ pc # "halt"

\* The core has something to do.
Due == pc \notin {"idle", "asleep", "halt"} \/ Interrupted

Tick ==
  /\ Due => lag < LAG
  /\ lag' = IF Due THEN lag + 1 ELSE 0
  /\ clo' = (clo + 1) % TICKS
  /\ cs' = (cs \/ clo' = c1)
  /\ elapsed' = IF call # "none" /\ elapsed < CAP THEN elapsed + 1 ELSE elapsed
  /\ UNCHANGED <<build, core, busy, c1, start>>

-----------------------------------------------------------------------------
(* The core.  An exception is taken before the next step of the program.   *)

Step(from, to) == pc = from /\ ~Interrupted /\ pc' = to /\ lag' = 0

Return ==
  /\ call' = "none" /\ us' = 0 /\ ticks' = 0 /\ start' = 0 /\ elapsed' = 0

Begin(kind, n) == call' = kind /\ us' = n /\ start' = clo /\ elapsed' = 0

\* enable_interrupts() and ic_enable_interrupts(), and their counterparts; compiled out of
\* the polled build.
ic_enable_interrupts ==
  /\ ~ENABLE_GIC /\ ~irqs /\ Step("idle", "idle")
  /\ irqs' = TRUE
  /\ UNCHANGED <<build, call, us, ticks, back, queued_timer_irq_serviced, busy, timer, past>>

ic_disable_interrupts ==
  /\ ~ENABLE_GIC /\ irqs /\ Step("idle", "idle")
  /\ irqs' = FALSE
  /\ UNCHANGED <<build, call, us, ticks, back, queued_timer_irq_serviced, busy, timer, past>>

NotTruncated(n) == clo + n

\* The time n ticks from now, as a 32 bit number.
After(n) == (clo + n) % TICKS

\* usleep() and sleep(), up to the first look at the counter.
usleep(n) ==
  /\ Step("idle", IF ENABLE_GIC THEN "spin" ELSE "queue_flag")
  /\ Begin("sleep", n)
  /\ ticks' = IF ENABLE_GIC THEN After(n) ELSE clo
  /\ UNCHANGED <<build, irqs, back, queued_timer_irq_serviced, busy, timer>>

\* The polled build: one turn of the loop.  The comparison is one of unsigned numbers.
Spin ==
  /\ \/ clo < ticks /\ Step("spin", "spin") /\ UNCHANGED <<call, us, ticks, past>>
     \/ clo >= ticks /\ Step("spin", "idle") /\ Return
  /\ UNCHANGED <<build, irqs, back, queued_timer_irq_serviced, busy, timer>>

\* The build with interrupts: timer_queue_irq() after its read of the counter.
QueueFlag ==
  /\ Step("queue_flag", "queue_set")
  /\ queued_timer_irq_serviced' = FALSE
  /\ UNCHANGED <<build, call, us, ticks, irqs, back, busy, timer, past>>

QueueSet ==
  /\ Step("queue_set", "wfi")
  /\ c1' = (ticks + us) % TICKS
  /\ UNCHANGED <<build, call, us, ticks, irqs, back, queued_timer_irq_serviced, busy, clo, cs, past>>

\* The core stops until an interrupt, or for a reason of its own: WFI is a hint.
Wfi ==
  /\ Step("wfi", "asleep")
  /\ UNCHANGED <<build, call, us, ticks, irqs, back, queued_timer_irq_serviced, busy, timer, past>>

SpuriousWake ==
  /\ OtherWakes /\ Step("asleep", "check")
  /\ UNCHANGED <<build, call, us, ticks, irqs, back, queued_timer_irq_serviced, busy, timer, past>>

CheckServiced ==
  /\ \/ /\ ~queued_timer_irq_serviced /\ Step("check", "wfi") /\ UNCHANGED <<call, us, ticks, past>>
     \/ /\ queued_timer_irq_serviced /\ Step("check", "idle") /\ Return
  /\ UNCHANGED <<build, irqs, back, queued_timer_irq_serviced, busy, timer>>

-----------------------------------------------------------------------------
(* The exception handler.                                                  *)

IrqException ==
  /\ Interrupted
  /\ back' = IF pc = "asleep" THEN "check" ELSE pc
  /\ pc' = "source" /\ lag' = 0
  /\ UNCHANGED <<build, call, us, ticks, irqs, queued_timer_irq_serviced, busy, timer, past>>

\* Of the interrupts the bootloader enables only the timer's is ever raised: the generation of
\* the host controller's is left disabled.
get_irq_source == IF cs THEN "IRQ_VC_TIMER1" ELSE "IRQ_UNIMPLEMENTED"

FromHandler(from, to) == pc = from /\ pc' = to /\ lag' = 0

ic_irq_exception_handler ==
  /\ get_irq_source = "IRQ_VC_TIMER1"
  /\ FromHandler("source", "isr_c1")
  /\ UNCHANGED <<build, call, us, ticks, irqs, back, queued_timer_irq_serviced, busy, timer, past>>

timer_isr_c1 ==
  /\ FromHandler("isr_c1", "isr_clear")
  /\ c1' = 0
  /\ UNCHANGED <<build, call, us, ticks, irqs, back, queued_timer_irq_serviced, busy, clo, cs, past>>

NotCleared == cs

\* Ones that are written to CS clear the matches.
ClearedMatches == FALSE

\* register_enable_bits().
timer_isr_clear ==
  /\ FromHandler("isr_clear", "isr_flag")
  /\ cs' = ClearedMatches
  /\ UNCHANGED <<build, call, us, ticks, irqs, back, queued_timer_irq_serviced, busy, clo, c1, past>>

FlagForgotten == queued_timer_irq_serviced

Serviced == TRUE

timer_isr_return ==
  /\ FromHandler("isr_flag", back)
  /\ queued_timer_irq_serviced' = Serviced
  /\ back' = "none"
  /\ UNCHANGED <<build, call, us, ticks, irqs, busy, timer, past>>

-----------------------------------------------------------------------------
(* while_cond_timeout_infinite()                                           *)

while_cond_timeout_infinite(n) ==
  /\ Step("idle", "cond")
  /\ Begin("wait", n)
  /\ ticks' = After(n)
  /\ busy' = TRUE
  /\ UNCHANGED <<build, irqs, back, queued_timer_irq_serviced, timer>>

Condition ==
  /\ \/ busy /\ Step("cond", "done") /\ UNCHANGED <<call, us, ticks, past>>
     \/ ~busy /\ Step("cond", "idle") /\ Return
  /\ UNCHANGED <<build, irqs, back, queued_timer_irq_serviced, busy, timer>>

Signed(t) == IF 2 * t >= TICKS THEN t - TICKS ELSE t
SignedCompare(ts) == Signed(clo) >= Signed(ts)

timer_poll_done(ts) == clo >= ts

\* The timeout ends in signal_error(ERROR_INFINITE_LOOP).
LookAtTimer ==
  /\ \/ ~timer_poll_done(ticks) /\ Step("done", "cond")
     \/ timer_poll_done(ticks) /\ Step("done", "halt")
  /\ UNCHANGED <<build, call, us, ticks, past, irqs, back, queued_timer_irq_serviced, busy, timer>>

\* What is waited for happens (external).
BusyEnds == busy /\ busy' = FALSE /\ UNCHANGED <<build, core, timer, lag, past>>

-----------------------------------------------------------------------------
CoreStep ==
  \/ Spin \/ QueueFlag \/ QueueSet \/ Wfi \/ CheckServiced
  \/ IrqException \/ ic_irq_exception_handler \/ timer_isr_c1
  \/ timer_isr_clear \/ timer_isr_return
  \/ Condition \/ LookAtTimer

Next ==
  \/ Tick \/ BusyEnds \/ CoreStep \/ SpuriousWake
  \/ ic_enable_interrupts \/ ic_disable_interrupts
  \/ \E n \in Times : ((ENABLE_GIC \/ irqs) /\ usleep(n)) \/ while_cond_timeout_infinite(n)

Spec == Init /\ [][Next]_vars

\* Time passes, and the core goes on.
FairSpec == Spec /\ WF_vars(Tick) /\ WF_vars(CoreStep)

-----------------------------------------------------------------------------
(* Properties.                                                             *)

PCs == {"idle", "spin", "queue_flag", "queue_set", "wfi", "asleep", "check", "source", "isr_c1",
        "isr_clear", "isr_flag", "cond", "done", "halt"}

\* Registers and timestamps are 32 bit numbers, and the core is not held up.
TypeOK ==
  /\ pc \in PCs /\ back \in PCs \cup {"none"} /\ call \in {"none", "sleep", "wait"}
  /\ us \in Times \cup {0} /\ ticks \in 0..TICKS - 1 /\ start \in 0..TICKS - 1
  /\ clo \in 0..TICKS - 1 /\ c1 \in 0..TICKS - 1
  /\ {busy, irqs, cs, queued_timer_irq_serviced} \subseteq BOOLEAN
  /\ lag \in 0..LAG /\ elapsed \in 0..CAP

\* The time at which a call is to end.
Deadline == start + us

\* Ticks by which a call that ends on time may be late: a turn of a loop, and with interrupts
\* the handler before it, twice if the counter overflows.
Slack == IF ENABLE_GIC THEN 2 * LAG ELSE 16 * LAG

\* The sleep is queued and the core waits before it is over, even if the match that timer_isr()
\* leaves at 0 comes in between (the warning at timer.h:27 has the times that are too short).
LongEnough == us > 9 * LAG

EndsEarly ==
  /\ elapsed < us
  /\ \/ pc \in {"spin", "check"} /\ pc' = "idle"
     \/ pc = "done" /\ pc' = "halt"

\* No sleep returns early and no wait gives up early, but for polls while their timestamp has
\* overflowed and the counter has not (the warning at timer.h:44).  With interrupts a match that
\* was left over (timer_isr() leaves one at 0) does not end a sleep, unless it comes while the
\* sleep is queued and WFI then returns for another reason.
NeverEarly ==
  [][EndsEarly => IF pc = "check" THEN OtherWakes
                  ELSE start + elapsed < TICKS /\ TICKS <= Deadline]_vars

\* No call lasts longer than it should, with these exceptions: in the last moments before the
\* counter overflows no poll may see it past the timestamp; a sleep that is too short may miss
\* its own interrupt (the warning at timer.h:27), and so may one whose WFI has returned for
\* another reason, if the interrupt comes between the look at the flag and the next WFI
\* (timer.c:95).
NeverLate ==
  call # "none" /\ pc # "halt" /\ elapsed > us + Slack =>
    IF call = "sleep" /\ ~ENABLE_GIC
      THEN ~LongEnough \/ OtherWakes
      ELSE (Deadline % TICKS) + Slack >= TICKS

\* A sleep ends.  With interrupts this holds even for one that missed its own interrupt: timer_isr()
\* leaves 0 in the compare register, and the counter gets there.  A wait for a device ends, with or
\* without what it waits for.
SleepsAndWaitsEnd ==
  /\ (call = "sleep" /\ (ENABLE_GIC => (Deadline % TICKS) + Slack < TICKS)) ~> (call = "none")
  /\ (call = "wait" /\ (Deadline % TICKS) + Slack < TICKS) ~> (call = "none" \/ pc = "halt")
=============================================================================
