-------------------------------- MODULE Uart --------------------------------
(***************************************************************************)
(* The mini UART: uart_init() and uart_transmit() of bld/uart.c against    *)
(* the transmitter and a receiver that is set to 115200 8N1.               *)
(*                                                                         *)
(* A message is a sequence of characters.  The transmitter drains its      *)
(* queue while the core fills it; each symbol leaves it in the format that *)
(* the registers select at that time.  Who calls uart_transmit(), and with *)
(* what, is in SerialLog.                                                  *)
(***************************************************************************)
EXTENDS Integers, Sequences

CONSTANT FIFO_SZ   \* symbols that the transmitter queues

ASSUME FifoAssumption == FIFO_SZ \in Nat \ {0}

VARIABLES
  pc,
  regs,         \* the registers: txd1 (the function of pin 14), enable, rx_en, baud, data_size
  data, n,      \* the message that uart_transmit() is sending, and the bytes of it that are left
  failing,      \* logs that are left before signal_error(), 0 if uart_init() has not failed
  \* The transmitter (external) and the receiver.
  fifo, stuck,
  line,         \* what the receiver made of every symbol
  sent          \* history: the bytes that were to be transmitted

uart == <<pc, regs, data, n, failing, fifo, stuck, line, sent>>

UartInit ==
  /\ pc = "idle"
  /\ regs = [txd1 |-> "input", enable |-> FALSE, rx_en |-> TRUE, baud |-> 0, data_size |-> 7]
  /\ data = <<>> /\ n = 0 /\ failing = 0
  /\ fifo = <<>> /\ stuck = FALSE /\ line = <<>> /\ sent = <<>>

-----------------------------------------------------------------------------
(* uart_init()                                                             *)

Set(from, to, new) ==
  /\ pc = from /\ pc' = to
  /\ regs' = new
  /\ UNCHANGED <<data, n, failing, fifo, stuck, line, sent>>

uart_init == Set("idle", "enable", [regs EXCEPT !.txd1 = "alt5"])
Enable    == Set("enable", "rx", [regs EXCEPT !.enable = TRUE])
DisableRx == Set("rx", "clock", [regs EXCEPT !.rx_en = FALSE])

BAUDRATE == 115200
OVERSAMPLING == 8

BAUD_MAX == 65535   \* the register has 16 bits

\* The rate that config.txt fixes the core clock to, in units of 100 Hz: 250 MHz, as uart.h:7
\* requires.  uart.h:10 reports that 200 MHz does not work, although the divisor would be as close.
CORE_RATE == 2500000

Inverted == (((BAUDRATE * OVERSAMPLING) \div 100) \div CORE_RATE) - 1

\* The value of the baud rate register.
baudrate_reg == (CORE_RATE \div ((BAUDRATE * OVERSAMPLING) \div 100)) - 1

\* uart_set_baudrate(), if tag_clock_get_rate() returns.
uart_set_baudrate == Set("clock", "size", [regs EXCEPT !.baud = baudrate_reg])

\* If it does not: the error is logged by tag.c, after vcmailbox.c if that found it, and then
\* signalled; a mailbox that does not answer is signalled at once.
ClockFailure ==
  /\ pc = "clock"
  /\ \/ failing' \in 1..2 /\ pc' = "ready"
     \/ failing' = 1 /\ pc' = "halt"
  /\ UNCHANGED <<regs, data, n, fifo, stuck, line, sent>>

AsInDatasheet == Set("size", "ready", [regs EXCEPT !.data_size = 7])

SetDataSize == Set("size", "ready", [regs EXCEPT !.data_size = 8])

-----------------------------------------------------------------------------
(* uart_transmit()                                                         *)

uart_transmit(msg) ==
  /\ pc = "ready" /\ pc' = "wait"
  /\ data' = msg /\ n' = Len(msg) /\ sent' = sent \o msg
  /\ UNCHANGED <<regs, failing, fifo, stuck, line>>

uart_lsr_transmitter_not_empty == Len(fifo) = FIFO_SZ

\* A character is written to a queue that has room for it, or lost.
TransmitByte ==
  /\ pc = "wait" /\ n > 0 /\ ~uart_lsr_transmitter_not_empty
  /\ fifo' = IF Len(fifo) < FIFO_SZ THEN Append(fifo, data[Len(data) - n + 1]) ELSE fifo
  /\ n' = n - 1
  /\ UNCHANGED <<pc, regs, data, failing, stuck, line, sent>>

TransmitReturns ==
  /\ pc = "wait" /\ n = 0
  /\ pc' = IF failing = 1 THEN "halt" ELSE "ready"
  /\ failing' = IF failing = 2 THEN 1 ELSE failing
  /\ UNCHANGED <<regs, data, n, fifo, stuck, line, sent>>

\* The loop polls again.
Poll == pc = "wait" /\ n > 0 /\ uart_lsr_transmitter_not_empty /\ UNCHANGED uart

NeverGivesUp == FALSE
GivesUp == n > 0 /\ uart_lsr_transmitter_not_empty /\ stuck

\* while_cond_timeout_infinite(): a byte takes less than the millisecond.
Timeout ==
  /\ pc = "wait" /\ GivesUp
  /\ pc' = "halt"
  /\ UNCHANGED <<regs, data, n, failing, fifo, stuck, line, sent>>

-----------------------------------------------------------------------------
(* The transmitter (external).                                             *)

\* The receiver samples at 115200 and keeps up with a difference of 2 %.
InTune ==
  LET rate == (regs.baud + 1) * ((BAUDRATE * OVERSAMPLING) \div 100)
  IN  98 * rate <= 100 * CORE_RATE /\ 100 * CORE_RATE <= 102 * rate

Readable == regs.txd1 = "alt5" /\ regs.enable /\ InTune /\ regs.data_size = 8

Drain ==
  /\ fifo # <<>> /\ ~stuck /\ regs.enable
  /\ line' = Append(line, IF Readable THEN Head(fifo) ELSE "garbled")
  /\ fifo' = Tail(fifo)
  /\ UNCHANGED <<pc, regs, data, n, failing, stuck, sent>>

\* At a symbol of the queue.
GetsStuck ==
  /\ fifo # <<>> /\ ~stuck /\ stuck' = TRUE
  /\ UNCHANGED <<pc, regs, data, n, failing, fifo, line, sent>>

UartStep ==
  \/ uart_init \/ Enable \/ DisableRx \/ uart_set_baudrate \/ ClockFailure \/ SetDataSize
  \/ TransmitByte \/ TransmitReturns \/ Timeout

\* Whoever calls uart_transmit(), whenever, with whatever text.  SerialLog is one such caller.
Caller == data' \in Seq(STRING) /\ uart_transmit(data')

UartNext == UartStep \/ Caller \/ Poll \/ Drain \/ GetsStuck

UartSpec == UartInit /\ [][UartNext]_uart

-----------------------------------------------------------------------------
(* Properties.                                                             *)

\* The variables have the types of the code, what is transmitted is text, and the queue is not
\* overrun.
TypeOK ==
  /\ pc \in {"idle", "enable", "rx", "clock", "size", "ready", "wait", "halt"}
  /\ data \in Seq(STRING) /\ n \in 0..Len(data) /\ Len(fifo) <= FIFO_SZ
  /\ regs.baud \in 0..BAUD_MAX /\ regs.data_size \in {7, 8} /\ failing \in 0..2

\* With the core clock at 250 MHz the receiver reads what was logged: no character is lost,
\* doubled, overtaken or garbled, however fast the core fills the queue.  What it has not read is
\* queued or still to be written.  A wait that gave up, and the logs of a failure of uart_init()
\* itself, which has not set the data size then, are the exceptions.
LogIsReadable ==
  pc # "halt" /\ failing = 0 => line \o fifo \o SubSeq(data, Len(data) - n + 1, Len(data)) = sent
=============================================================================
