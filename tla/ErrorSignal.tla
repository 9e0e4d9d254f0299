---------------------------- MODULE ErrorSignal ----------------------------
(***************************************************************************)
(* signal_error() of bld/error.c with bld/led.c and bld/gpio.c below it,   *)
(* on top of the sleeps of Timer.                                          *)
(*                                                                         *)
(* The user reads the error code off the ACT LED by counting blinks        *)
(* between long dark phases, which is what the history variables do.  The  *)
(* few instructions between two sleeps take less than a tick.              *)
(***************************************************************************)
EXTENDS Timer

CONSTANTS
  SHORT_PAUSE,  \* SHORT_PAUSE_MS, LONG_PAUSE_MS in ticks
  LONG_PAUSE,
  Errors        \* values of enum error_code

ASSUME ErrorsAssumption == Errors \subseteq 1..13
\* The pauses of 370 and 2250 ms are long for the timer, and apart by more than any sleep is late.
ASSUME PausesAssumption ==
  /\ {SHORT_PAUSE, LONG_PAUSE} \subseteq Times
  /\ 9 * LAG < SHORT_PAUSE /\ SHORT_PAUSE + 16 * LAG < LONG_PAUSE

\* WFI returns for an interrupt only.
ASSUME WakesAssumption == Builds \subseteq BOOLEAN \X {FALSE}

VARIABLES
  spc,          \* where signal_error() is
  error, i,
  fsel,         \* the operation of every GPIO pin
  level,        \* the output level of every GPIO pin
  \* History.
  over,         \* a sleep came near to the overflow of the counter
  seen,         \* blinks since the last long dark phase, up to one too many
  dark          \* ticks since the LED went off, up to LONG_PAUSE

svars == <<spc, error, i, fsel, level, over, seen, dark>>
allvars == <<vars, svars>>

-----------------------------------------------------------------------------
(* bld/gpio.c and bld/led.c                                                *)

CONSTANT Pins   \* the GPIO pins that are looked at

GPIO_PIN_TXD1 == 14
GPIO_PIN_LED == 42
PINS_PER_GPFSEL == 10

ASSUME PinsAssumption == {GPIO_PIN_TXD1, GPIO_PIN_LED} \subseteq Pins /\ Pins \subseteq 0..57

AlwaysTheSame(pin) == 1

\* The index of the GPFSEL register of a pin.
Gpfsel(pin) == pin \div PINS_PER_GPFSEL

\* The whole register is written, and GPIO_OP_INPUT is 0.
gpio_pin_select_op(pin, op) ==
  fsel' = [p \in Pins |-> CASE p = pin -> op
                            [] Gpfsel(p) = Gpfsel(pin) /\ p # pin -> "input"
                            [] OTHER -> fsel[p]]

SetsOnly(pin, on) == level' = [level EXCEPT ![pin] = TRUE]

\* GPSET and GPCLR act on the bits that are written as 1.
gpio_pin_setclr(pin, on) == level' = [level EXCEPT ![pin] = on]

Lit == fsel[GPIO_PIN_LED] = "output" /\ level[GPIO_PIN_LED]

-----------------------------------------------------------------------------
\* uart_init() has connected the mini UART.  The LED is on only while the bootloader is loaded.
\* In the build with interrupts these are enabled or not: the error may happen before
\* ic_enable_interrupts() and after ic_disable_interrupts().
SignalInit ==
  /\ \E b \in Builds : ENABLE_GIC = b[1] /\ OtherWakes = b[2]
  /\ pc = "idle" /\ call = "none" /\ us = 0 /\ ticks = 0 /\ busy = FALSE
  /\ irqs \in BOOLEAN /\ (ENABLE_GIC => ~irqs) /\ back = "none" /\ queued_timer_irq_serviced = FALSE
  /\ clo = 0 /\ c1 = 0 /\ cs = FALSE
  /\ lag = 0 /\ start = 0 /\ elapsed = 0
  /\ spc = "init" /\ error \in Errors /\ i = 0
  /\ fsel = [p \in Pins |-> IF p = GPIO_PIN_TXD1 THEN "alt5" ELSE "output"]
  /\ level = [p \in Pins |-> FALSE]
  /\ over = FALSE /\ seen = 0 /\ dark = 0
-----------------------------------------------------------------------------
(* signal_error()                                                          *)

Goto(from, to) == spc = from /\ spc' = to

led_init ==
  /\ Goto("init", "pause")
  /\ gpio_pin_select_op(GPIO_PIN_LED, "output")
  /\ UNCHANGED <<vars, error, i, level, over, seen, dark>>

\* sleep(n), and what is next once it returns.
Sleep(n) ==
  /\ usleep(n)
  /\ over' = (over \/ clo + n + Slack >= TICKS)
  /\ UNCHANGED <<error, fsel, level, seen, dark>>

OneMore == error + 1

\* The number of blinks that the loop counts down from.
Blinks == error

LongPause == Goto("pause", "loop") /\ Sleep(LONG_PAUSE) /\ i' = Blinks
Hold      == Goto("lit", "off") /\ Sleep(SHORT_PAUSE) /\ i' = i
Gap       == Goto("gap", "loop") /\ Sleep(SHORT_PAUSE) /\ i' = i

\* A dark phase that the user takes for the pause between two signals.
LongDark == dark = LONG_PAUSE

led_turn_on ==
  /\ pc = "idle" /\ Goto("loop", "lit")
  /\ i' = i - 1
  /\ gpio_pin_setclr(GPIO_PIN_LED, TRUE)
  /\ seen' = IF LongDark THEN 1 ELSE IF seen <= error THEN seen + 1 ELSE seen
  /\ dark' = 0
  /\ UNCHANGED <<vars, error, fsel, over>>

\* No short pause before the long one.
AfterBlink == IF i # 0 THEN "gap" ELSE "pause"

led_turn_off ==
  /\ pc = "idle" /\ Goto("off", AfterBlink)
  /\ gpio_pin_setclr(GPIO_PIN_LED, FALSE)
  /\ UNCHANGED <<vars, error, i, fsel, over, seen, dark>>

\* Time passes only while the core sleeps.
SignalTick ==
  /\ pc # "idle" /\ Tick
  /\ dark' = IF Lit THEN 0 ELSE IF dark < LONG_PAUSE THEN dark + 1 ELSE dark
  /\ UNCHANGED <<spc, error, i, fsel, level, over, seen>>

SignalStep ==
  \/ led_init \/ LongPause \/ led_turn_on \/ Hold \/ led_turn_off \/ Gap
  \/ (CoreStep /\ UNCHANGED svars)

SignalNext == SignalTick \/ SignalStep

SignalSpec ==
  SignalInit /\ [][SignalNext]_allvars /\ WF_allvars(SignalTick) /\ WF_allvars(SignalStep)

-----------------------------------------------------------------------------
(* Properties.                                                             *)

\* The user reads the right code: at most so many blinks follow each other, and exactly so many
\* once the long dark phase is there.
SignalReads == seen <= error /\ (spc # "init" /\ LongDark => seen \in {0, error})

\* It is so until the counter of the polled sleeps overflows, about 71 minutes after power on;
\* with interrupts it is always so.
SignalReadsAtFirst == (ENABLE_GIC /\ over) \/ SignalReads

BlinksForever == []<>(Lit /\ i = 0) /\ []<>~Lit

\* The core polls for a timestamp so near to the overflow that the counter may be past the
\* overflow at the next look: the comparison is then false for another 71 minutes.
MayMissTimestamp == ENABLE_GIC /\ pc = "spin" /\ ticks + LAG > TICKS

\* The signal does not end, and neither does any blink of it, if interrupts are enabled when the
\* error happens.  With polled sleeps only one thing can hold it up: a sleep whose timestamp is
\* within one turn of the loop of the overflow, missed in each period of the counter (timer.c:100).
SignalsForever ==
  /\ irqs => BlinksForever
  /\ ENABLE_GIC => BlinksForever \/ <>[]MayMissTimestamp

\* The same for every error: signal_error() is to "continuously signal an error code to the user
\* through the LED until the raspberry pi is manually powered off" (error.h:29).
EveryErrorIsSignalled == BlinksForever

\* The signal leaves the serial log readable: initialising the LED writes a whole GPFSEL
\* register, but not the one that connects the transmitter of the mini UART.
LogStaysConnected == fsel[GPIO_PIN_TXD1] = "alt5"
=============================================================================
