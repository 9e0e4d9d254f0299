----------------------------- MODULE UartProofs -----------------------------
(***************************************************************************)
(* Proofs about Uart, for every size of the queue, every rate of the core  *)
(* clock and every sequence of messages: the receiver gets what was sent.  *)
(* Proofs about SerialLog, for buffers of every size and every program:    *)
(* Vsnprintf() stays within its formats, buffers and arguments.            *)
(***************************************************************************)
EXTENDS SerialLog, Induction, SequenceTheorems, FiniteSetTheorems, TLAPS

\* What the transmitter sends and the receiver reads: characters, and what it cannot read.
Symbols == STRING \cup {"garbled"}

Regs ==
  [txd1 : {"input", "alt5"}, enable : BOOLEAN, rx_en : BOOLEAN, baud : 0..BAUD_MAX, data_size : {7, 8}]

\* What uart_transmit() has not yet written to the queue.
Left == SubSeq(data, Len(data) - n + 1, Len(data))

\* The types, those of the hardware included.
UartTyped ==
  /\ pc \in {"idle", "enable", "rx", "clock", "size", "ready", "wait", "halt"}
  /\ regs \in Regs /\ failing \in 0..2 /\ stuck \in BOOLEAN
  /\ data \in Seq(STRING) /\ data \in Seq(Symbols) /\ n \in 0..Len(data)
  /\ fifo \in Seq(Symbols) /\ Len(fifo) <= FIFO_SZ
  /\ line \in Seq(Symbols) /\ sent \in Seq(Symbols)

\* uart_init() sets one register after the other, and nothing is sent before it is done.
SetUp == {"ready", "wait", "halt"}

InitInv ==
  /\ pc \notin SetUp => data = <<>> /\ n = 0 /\ failing = 0 /\ fifo = <<>> /\ line = <<>> /\ sent = <<>>
  /\ pc # "idle" => regs.txd1 = "alt5"
  /\ pc \notin {"idle", "enable"} => regs.enable
  /\ pc \in SetUp \cup {"size"} /\ failing = 0 => regs.baud = baudrate_reg
  /\ pc \in SetUp /\ failing = 0 => regs.data_size = 8

\* What was to be sent has been read, is queued, or is left, in this order.
SentInv ==
  /\ pc = "ready" => n = 0
  /\ failing = 0 => line \o fifo \o Left = sent

UartInv == UartTyped /\ InitInv /\ SentInv

-----------------------------------------------------------------------------
(* Numbers and sequences.                                                  *)

\* The value of the baud rate register fits its 16 bits, and the receiver keeps up with it.
LEMMA Divisor ==
  /\ baudrate_reg \in 0..BAUD_MAX
  /\ regs.baud = baudrate_reg => InTune
<1>1. (BAUDRATE * OVERSAMPLING) \div 100 = 9216
  BY DEF BAUDRATE, OVERSAMPLING
<1>2. baudrate_reg = 270
  BY <1>1 DEF baudrate_reg, CORE_RATE
<1>. QED  BY <1>1, <1>2 DEF InTune, BAUD_MAX, CORE_RATE

\* Text is made of symbols.
LEMMA TextIsSymbols ==
  ASSUME NEW s \in Seq(STRING)
  PROVE  s \in Seq(Symbols)
<1>1. STRING \subseteq Symbols
  BY DEF Symbols
<1>. QED  BY <1>1, SeqMonotonic

\* The byte that the loop of uart_transmit() writes is the first one that is left.
LEMMA FirstLeft ==
  ASSUME NEW s \in Seq(Symbols), NEW k \in 1..Len(s)
  PROVE  /\ s[Len(s) - k + 1] \in Symbols
         /\ SubSeq(s, Len(s) - k + 1, Len(s))
              = <<s[Len(s) - k + 1]>> \o SubSeq(s, Len(s) - (k - 1) + 1, Len(s))
<1>. DEFINE m == Len(s) - k + 1
<1>0. Len(s) \in Nat /\ m \in 1..Len(s)
  OBVIOUS
<1>1. s[m] \in Symbols
  BY <1>0
<1>2. SubSeq(s, m, Len(s)) = <<s[m]>> \o SubSeq(s, m + 1, Len(s))
  BY <1>0, SubSeqRecursiveFirst
<1>3. Len(s) - (k - 1) + 1 = m + 1
  OBVIOUS
<1>. QED  BY <1>1, <1>2, <1>3

\* A message that has just begun is left in full.
LEMMA AllLeft ==
  ASSUME NEW s \in Seq(Symbols)
  PROVE  SubSeq(s, Len(s) - Len(s) + 1, Len(s)) = s
<1>1. Len(s) - Len(s) + 1 = 1
  OBVIOUS
<1>. QED  BY <1>1, SubSeqFull

\* Nothing is left of one that is finished.
LEMMA NothingLeft ==
  ASSUME NEW s \in Seq(Symbols)
  PROVE  SubSeq(s, Len(s) - 0 + 1, Len(s)) = <<>>
BY SubSeqEmpty

LEMMA LeftIsText ==
  ASSUME NEW s \in Seq(Symbols), NEW k \in 0..Len(s)
  PROVE  SubSeq(s, Len(s) - k + 1, Len(s)) \in Seq(Symbols)
<1>1. CASE k = 0
  BY <1>1, NothingLeft
<1>2. CASE k # 0
  <2>1. \A m \in Len(s) - k + 1..Len(s) : s[m] \in Symbols
    BY <1>2
  <2>. QED  BY <1>2, <2>1, SubSeqProperties
<1>. QED  BY <1>1, <1>2

-----------------------------------------------------------------------------
(* uart_init()                                                             *)

LEMMA InitUart == UartInit => UartInv
<1>. SUFFICES ASSUME UartInit PROVE UartInv
  OBVIOUS
<1>. USE DEF UartInit
<1>1. UartTyped
  <2>1. regs \in Regs
    BY DEF Regs, BAUD_MAX
  <2>2. <<>> \in Seq(Symbols) /\ Len(<<>>) = 0 /\ FALSE \in BOOLEAN /\ 0 \in 0..0
    OBVIOUS
  <2>3. failing \in 0..2 /\ stuck \in BOOLEAN
    <3>1. failing = 0 /\ stuck = FALSE
      OBVIOUS
    <3>2. failing \in 0..2
      BY <3>1
    <3>. QED  BY <3>1, <3>2, Zenon
  <2>4. data \in Seq(STRING) /\ data \in Seq(Symbols) /\ n \in 0..Len(data)
    OBVIOUS
  <2>5. fifo \in Seq(Symbols) /\ Len(fifo) <= FIFO_SZ
    BY <2>2, FifoAssumption
  <2>6. line \in Seq(Symbols) /\ sent \in Seq(Symbols)
    OBVIOUS
  <2>. QED  BY <2>1, <2>3, <2>4, <2>5, <2>6 DEF UartTyped
<1>2. InitInv
  BY DEF InitInv, SetUp
<1>3. SentInv
  <2>1. Left = <<>>
    BY NothingLeft DEF Left
  <2>. QED  BY <2>1 DEF SentInv
<1>. QED  BY <1>1, <1>2, <1>3 DEF UartInv

\* A step that leaves the message and the transmitter alone keeps what SentInv says of them.
LEMMA SameSent ==
  ASSUME SentInv, UNCHANGED <<data, n, fifo, line, sent>>, pc' = "ready" => n = 0,
         failing' = 0 => failing = 0
  PROVE  SentInv'
BY DEF SentInv, Left

LEMMA SetKeeps ==
  ASSUME UartInv, uart_init \/ Enable \/ DisableRx \/ uart_set_baudrate \/ SetDataSize
  PROVE  UartInv'
<1>0. /\ pc \notin SetUp /\ UNCHANGED <<data, n, failing, fifo, stuck, line, sent>>
      /\ n = 0
  BY DEF uart_init, Enable, DisableRx, uart_set_baudrate, SetDataSize, Set, UartInv, InitInv, SetUp
<1>1. UartTyped' /\ InitInv'
  <2>. USE <1>0 DEF UartInv, UartTyped, InitInv, Regs, SetUp, Set
  <2>1. CASE uart_init
    BY <2>1 DEF uart_init
  <2>2. CASE Enable
    <3>1. regs' = [regs EXCEPT !.enable = TRUE] /\ regs' \in Regs
      BY <2>2 DEF Enable
    <3>. QED  BY <2>2, <3>1 DEF Enable
  <2>3. CASE DisableRx
    <3>1. regs' = [regs EXCEPT !.rx_en = FALSE] /\ regs' \in Regs
      BY <2>3 DEF DisableRx
    <3>. QED  BY <2>3, <3>1 DEF DisableRx
  <2>4. CASE uart_set_baudrate
    <3>1. baudrate_reg \in 0..BAUD_MAX
      BY Divisor
    <3>. QED  BY <2>4, <3>1 DEF uart_set_baudrate
  <2>5. CASE SetDataSize
    BY <2>5 DEF SetDataSize
  <2>. QED  BY <2>1, <2>2, <2>3, <2>4, <2>5
<1>2. SentInv'
  BY <1>0, SameSent DEF UartInv
<1>. QED  BY <1>1, <1>2 DEF UartInv

LEMMA FailureKeeps ==
  ASSUME UartInv, ClockFailure
  PROVE  UartInv'
<1>1. UartTyped' /\ InitInv'
  BY DEF UartInv, UartTyped, InitInv, ClockFailure, SetUp
<1>2. SentInv'
  BY DEF UartInv, InitInv, SentInv, ClockFailure, SetUp
<1>. QED  BY <1>1, <1>2 DEF UartInv

-----------------------------------------------------------------------------
(* uart_transmit()                                                         *)

\* The registers are as uart_init() left them.
LEMMA SameRegs ==
  ASSUME InitInv, pc \in SetUp, pc' \in SetUp, regs' = regs, failing' = 0 => failing = 0
  PROVE  InitInv'
BY DEF InitInv, SetUp, baudrate_reg

LEMMA CallerKeeps ==
  ASSUME UartInv, Caller
  PROVE  UartInv'
<1>. USE DEF UartInv, Caller, uart_transmit
<1>1. UartTyped'
  <2>1. data' \in Seq(Symbols)
    BY TextIsSymbols
  <2>2. sent \o data' \in Seq(Symbols) /\ Len(data') \in 0..Len(data')
    BY <2>1 DEF UartTyped
  <2>. QED  BY <2>1, <2>2 DEF UartTyped
<1>2. InitInv'
  BY SameRegs DEF SetUp
<1>3. SentInv'
  <2>1. Left = <<>>
    BY NothingLeft DEF UartTyped, SentInv, Left
  <2>2. Left' = data'
    BY <1>1, AllLeft DEF Left, UartTyped
  <2>3. failing' = 0 => line \o fifo = sent
    BY <2>1 DEF SentInv, UartTyped
  <2>. QED  BY <2>2, <2>3 DEF SentInv
<1>. QED  BY <1>1, <1>2, <1>3

LEMMA ByteKeeps ==
  ASSUME UartInv, TransmitByte
  PROVE  UartInv'
<1>. USE DEF UartInv, TransmitByte
<1>. DEFINE byte == data[Len(data) - n + 1]
<1>0. n \in 1..Len(data) /\ byte \in Symbols
  BY FirstLeft DEF UartTyped
<1>1. fifo' = Append(fifo, byte) /\ Len(fifo) < FIFO_SZ
  BY FifoAssumption DEF UartTyped, uart_lsr_transmitter_not_empty
<1>2. UartTyped'
  BY <1>0, <1>1, FifoAssumption DEF UartTyped
<1>3. InitInv'
  BY SameRegs DEF SetUp
<1>4. SentInv'
  <2>1. Left = <<byte>> \o Left'
    BY <1>0, FirstLeft DEF UartTyped, Left
  <2>2. Left' \in Seq(Symbols) /\ <<byte>> \in Seq(Symbols) /\ line \in Seq(Symbols)
        /\ fifo \in Seq(Symbols)
    BY <1>0, <1>2, LeftIsText DEF UartTyped, Left
  <2>3. fifo' = fifo \o <<byte>>
    BY <1>0, <1>1, AppendIsConcat DEF UartTyped
  <2>4. (line \o fifo) \o (<<byte>> \o Left') = (line \o (fifo \o <<byte>>)) \o Left'
    <3>1. line \o fifo \in Seq(Symbols)
      BY <2>2, ConcatProperties
    <3>2. (line \o fifo) \o (<<byte>> \o Left') = ((line \o fifo) \o <<byte>>) \o Left'
      <4>. DEFINE front == line \o fifo
                  rest == Left'
      <4>1. front \in Seq(Symbols) /\ <<byte>> \in Seq(Symbols) /\ rest \in Seq(Symbols)
        BY <2>2, <3>1
      <4>. HIDE DEF front, rest, byte
      <4>2. (front \o <<byte>>) \o rest = front \o (<<byte>> \o rest)
        BY <4>1, ConcatAssociative
      <4>. QED  BY <4>2 DEF front, rest
    <3>3. (line \o fifo) \o <<byte>> = line \o (fifo \o <<byte>>)
      BY <2>2, ConcatAssociative
    <3>. QED  BY <3>2, <3>3
  <2>. QED  BY <2>1, <2>3, <2>4 DEF SentInv
<1>. QED  BY <1>2, <1>3, <1>4

LEMMA EndKeeps ==
  ASSUME UartInv, TransmitReturns \/ Timeout
  PROVE  UartInv'
<1>. USE DEF UartInv, TransmitReturns, Timeout
<1>1. UartTyped'
  BY DEF UartTyped
<1>2. failing' = 0 => failing = 0
  OBVIOUS
<1>3. InitInv'
  BY <1>2, SameRegs DEF SetUp
<1>4. SentInv'
  BY <1>2, SameSent DEF SentInv
<1>. QED  BY <1>1, <1>3, <1>4

-----------------------------------------------------------------------------
(* The transmitter.                                                        *)

LEMMA DrainKeeps ==
  ASSUME UartInv, Drain
  PROVE  UartInv'
<1>. USE DEF UartInv, Drain
<1>0. /\ fifo \in Seq(Symbols) /\ fifo # <<>> /\ line \in Seq(Symbols)
      /\ Head(fifo) \in Symbols /\ Tail(fifo) \in Seq(Symbols) /\ Len(Tail(fifo)) = Len(fifo) - 1
  BY HeadTailProperties DEF UartTyped
<1>1. UartTyped'
  <2>0. "garbled" \in Symbols
    BY DEF Symbols
  <2>1. PICK c \in Symbols : line' = Append(line, c)
    <3>1. CASE Readable
      BY <1>0, <3>1
    <3>2. CASE ~Readable
      BY <2>0, <3>2
    <3>. QED  BY <3>1, <3>2
  <2>2. line' \in Seq(Symbols)
    BY <1>0, <2>1, AppendProperties
  <2>. QED  BY <1>0, <2>2, FifoAssumption DEF UartTyped
<1>2. InitInv' /\ pc \in SetUp
  <2>1. pc \in SetUp
    BY <1>0 DEF InitInv, UartTyped, SetUp
  <2>. QED  BY <2>1, SameRegs
<1>3. SentInv'
  <2>1. CASE failing # 0
    BY <2>1 DEF SentInv
  <2>2. CASE failing = 0
    <3>1. Readable
      BY <1>2, <2>2, Divisor DEF Readable, InitInv, SetUp, UartTyped
    <3>2. line' = line \o <<Head(fifo)>>
      BY <1>0, <3>1, AppendIsConcat
    <3>3. fifo = <<Head(fifo)>> \o fifo'
      BY <1>0
    <3>4. line \o (<<Head(fifo)>> \o fifo') = (line \o <<Head(fifo)>>) \o fifo'
      BY <1>0, ConcatAssociative
    <3>5. line' \o fifo' = line \o fifo /\ Left' = Left
      BY <3>2, <3>3, <3>4 DEF Left
    <3>. QED  BY <3>5 DEF SentInv
  <2>. QED  BY <2>1, <2>2 DEF UartTyped
<1>. QED  BY <1>1, <1>2, <1>3

LEMMA SameKeeps ==
  ASSUME UartInv, GetsStuck \/ Poll \/ UNCHANGED uart
  PROVE  UartInv'
<1>0. UNCHANGED <<pc, regs, data, n, failing, fifo, line, sent>> /\ stuck' \in BOOLEAN
  BY DEF UartInv, UartTyped, GetsStuck, Poll, uart
<1>1. UartTyped'
  BY <1>0 DEF UartInv, UartTyped
<1>2. InitInv'
  BY <1>0 DEF UartInv, InitInv, SetUp, baudrate_reg
<1>3. SentInv'
  BY <1>0, SameSent DEF UartInv, SentInv
<1>. QED  BY <1>1, <1>2, <1>3 DEF UartInv

-----------------------------------------------------------------------------
\* The invariant holds throughout.
LEMMA UartInvariance == UartSpec => []UartInv
<1>1. UartInv /\ [UartNext]_uart => UartInv'
  BY SetKeeps, FailureKeeps, CallerKeeps, ByteKeeps, EndKeeps, DrainKeeps, SameKeeps
     DEF UartNext, UartStep
<1>. QED  BY <1>1, InitUart, PTL DEF UartSpec

\* The registers and the loop of uart_transmit() (uart.c:102) stay in their ranges, and the queue is
\* not overrun, whatever its size.
THEOREM TypeCorrect == UartSpec => []TypeOK
<1>1. UartInv => TypeOK
  BY DEF UartInv, UartTyped, Regs, TypeOK
<1>. QED  BY <1>1, UartInvariance, PTL

\* Of whatever is passed to uart_transmit(), in whatever pieces, the receiver reads every character
\* once and in order, for every size of the queue.
THEOREM NothingIsGarbled == UartSpec => []LogIsReadable
<1>1. UartInv => LogIsReadable
  BY DEF UartInv, SentInv, Left, LogIsReadable
<1>. QED  BY <1>1, UartInvariance, PTL

-----------------------------------------------------------------------------
(* The numbers of Vsnprintf().                                             *)

\* The digits that uint_to_str_base() gives, of either base.
Digits == {hex_digits[d] : d \in 1..16}

LEMMA DigitsAreText == Digits \subseteq STRING /\ "%" \notin Digits /\ "NUL" \notin Digits
<1>1. Digits \subseteq STRING
  BY CharactersAssumption DEF Digits
<1>2. ASSUME NEW d \in 1..16
      PROVE  hex_digits[d] # "%" /\ hex_digits[d] # "NUL"
  BY d \in {1, 2, 3, 4, 5, 6, 7, 8, 9, 10, 11, 12, 13, 14, 15, 16} DEF hex_digits
<1>. QED  BY <1>1, <1>2 DEF Digits

\* What is left of a number after each turn of the loop of uint_to_str_base().
IsLeft(f, num, base, turns) ==
  f = [k \in 0..turns |-> IF k = 0 THEN num ELSE f[k - 1] \div base]

LeftOf(num, base) == CHOOSE f : IsLeft(f, num, base, 10)

Turns(num, base) ==
  CHOOSE k \in 0..10 : LeftOf(num, base)[k] = 0 /\ (k > 0 => LeftOf(num, base)[k - 1] # 0)

LEMMA LeftExists ==
  ASSUME NEW num, NEW base
  PROVE  \A m \in Nat : \E f : IsLeft(f, num, base, m)
<1>. DEFINE S == {m \in Nat : \E f : IsLeft(f, num, base, m)}
<1>1. 0 \in S
  <2>1. IsLeft([k \in 0..0 |-> num], num, base, 0)
    BY DEF IsLeft
  <2>. QED  BY <2>1
<1>2. ASSUME NEW m \in Nat, m \in S
      PROVE  m + 1 \in S
  <2>1. PICK f : IsLeft(f, num, base, m)
    BY <1>2
  <2>. DEFINE g == [k \in 0..m + 1 |-> IF k = m + 1 THEN f[m] \div base ELSE f[k]]
  <2>2. g = [k \in 0..m + 1 |-> IF k = 0 THEN num ELSE g[k - 1] \div base]
    BY <2>1 DEF IsLeft
  <2>3. IsLeft(g, num, base, m + 1)
    BY <2>2 DEF IsLeft
  <2>. HIDE DEF g
  <2>4. \E h : IsLeft(h, num, base, m + 1)
    BY <2>3
  <2>. QED  BY <2>4
<1>3. Nat \subseteq S
  <2>. HIDE DEF S
  <2>. QED  BY <1>1, <1>2, SetInduction
<1>. QED  BY <1>3

LEMMA LeftUnfolds ==
  ASSUME NEW num, NEW base
  PROVE  /\ LeftOf(num, base)[0] = num
         /\ \A k \in 1..10 : LeftOf(num, base)[k] = LeftOf(num, base)[k - 1] \div base
<1>1. \E f : IsLeft(f, num, base, 10)
  BY LeftExists
<1>2. IsLeft(LeftOf(num, base), num, base, 10)
  BY <1>1 DEF LeftOf
<1>. QED  BY <1>2 DEF IsLeft

LEMMA DigitsOf ==
  ASSUME NEW num, NEW base
  PROVE  uint_to_str_base(num, base) =
           IF num = 0 THEN <<"0">>
           ELSE Reverse([k \in 1..Turns(num, base) |-> hex_digits[(LeftOf(num, base)[k - 1] % base) + 1]])
BY Zenon DEF uint_to_str_base, Turns, LeftOf, IsLeft

\* One turn takes at least one decimal digit off a bound.
LEMMA OneTurn ==
  ASSUME NEW num \in Nat, NEW bound \in Nat, num <= 10 * bound + 9, NEW base \in {10, 16}
  PROVE  num \div base \in Nat /\ num \div base <= bound
<1>1. CASE base = 10
  BY <1>1
<1>2. CASE base = 16
  BY <1>2
<1>. QED  BY <1>1, <1>2

\* Ten turns are enough for 32 bits.
LEMMA LeftEnds ==
  ASSUME NEW num \in uint32, NEW base \in {10, 16}
  PROVE  /\ \A k \in 0..10 : LeftOf(num, base)[k] \in Nat
         /\ LeftOf(num, base)[10] = 0
<1>. DEFINE f == LeftOf(num, base)
<1>0. f[0] = num /\ \A k \in 1..10 : f[k] = f[k - 1] \div base
  BY LeftUnfolds
<1>. HIDE DEF f
<1>a. f[0] \in Nat /\ f[0] <= 4294967295
  BY <1>0 DEF uint32
<1>1. f[1] \in Nat /\ f[1] <= 429496729
  <2>1. f[1] = f[0] \div base
    BY <1>0
  <2>. QED  BY <2>1, <1>a, OneTurn
<1>2. f[2] \in Nat /\ f[2] <= 42949672
  <2>1. f[2] = f[1] \div base
    BY <1>0
  <2>. QED  BY <2>1, <1>1, OneTurn
<1>3. f[3] \in Nat /\ f[3] <= 4294967
  <2>1. f[3] = f[2] \div base
    BY <1>0
  <2>. QED  BY <2>1, <1>2, OneTurn
<1>4. f[4] \in Nat /\ f[4] <= 429496
  <2>1. f[4] = f[3] \div base
    BY <1>0
  <2>. QED  BY <2>1, <1>3, OneTurn
<1>5. f[5] \in Nat /\ f[5] <= 42949
  <2>1. f[5] = f[4] \div base
    BY <1>0
  <2>. QED  BY <2>1, <1>4, OneTurn
<1>6. f[6] \in Nat /\ f[6] <= 4294
  <2>1. f[6] = f[5] \div base
    BY <1>0
  <2>. QED  BY <2>1, <1>5, OneTurn
<1>7. f[7] \in Nat /\ f[7] <= 429
  <2>1. f[7] = f[6] \div base
    BY <1>0
  <2>. QED  BY <2>1, <1>6, OneTurn
<1>8. f[8] \in Nat /\ f[8] <= 42
  <2>1. f[8] = f[7] \div base
    BY <1>0
  <2>. QED  BY <2>1, <1>7, OneTurn
<1>9. f[9] \in Nat /\ f[9] <= 4
  <2>1. f[9] = f[8] \div base
    BY <1>0
  <2>. QED  BY <2>1, <1>8, OneTurn
<1>10. f[10] \in Nat /\ f[10] <= 0
  <2>1. f[10] = f[9] \div base
    BY <1>0
  <2>. QED  BY <2>1, <1>9, OneTurn
<1>11. \A k \in 0..10 : f[k] \in Nat
  <2>1. \A k \in 0..10 : k \in {0, 1, 2, 3, 4, 5, 6, 7, 8, 9, 10}
    OBVIOUS
  <2>. QED  BY <2>1, <1>a, <1>1, <1>2, <1>3, <1>4, <1>5, <1>6, <1>7, <1>8, <1>9, <1>10
<1>. QED  BY <1>10, <1>11 DEF f

LEMMA TurnsType ==
  ASSUME NEW num \in uint32, NEW base \in {10, 16}
  PROVE  Turns(num, base) \in 0..10
<1>. DEFINE f == LeftOf(num, base)
            T == {k \in 0..10 : f[k] = 0}
<1>1. f[10] = 0
  BY LeftEnds
<1>2. PICK k \in T : \A j \in T : k <= j
  <2>1. T \subseteq Nat /\ T # {}
    BY <1>1
  <2>. HIDE DEF T
  <2>. QED  BY <2>1, LeastElement
<1>3. k \in 0..10 /\ f[k] = 0 /\ (k > 0 => f[k - 1] # 0)
  BY <1>2
<1>4. \E x \in 0..10 : f[x] = 0 /\ (x > 0 => f[x - 1] # 0)
  BY <1>3
<1>. HIDE DEF f
<1>5. (CHOOSE x \in 0..10 : f[x] = 0 /\ (x > 0 => f[x - 1] # 0)) \in 0..10
  BY <1>4
<1>. QED  BY <1>5 DEF Turns, f

\* uint_to_str_base() gives digits.
LEMMA NumbersAreDigits ==
  ASSUME NEW num \in uint32, NEW base \in {10, 16}
  PROVE  uint_to_str_base(num, base) \in Seq(Digits)
<1>. DEFINE f == LeftOf(num, base)
            turns == Turns(num, base)
            s == [k \in 1..turns |-> hex_digits[(f[k - 1] % base) + 1]]
<1>1. turns \in 0..10 /\ \A k \in 0..10 : f[k] \in Nat
  BY LeftEnds, TurnsType
<1>. HIDE DEF turns, f
<1>2. ASSUME NEW k \in 1..turns
      PROVE  s[k] \in Digits
  <2>1. k - 1 \in 0..10 /\ f[k - 1] \in Nat
    BY <1>1
  <2>2. \A x \in Nat : (x % 10) + 1 \in 1..16 /\ (x % 16) + 1 \in 1..16
    OBVIOUS
  <2>3. (f[k - 1] % base) + 1 \in 1..16
    BY <2>1, <2>2
  <2>. QED  BY <2>3 DEF Digits
<1>3. s \in Seq(Digits) /\ Len(s) = turns
  BY <1>1, <1>2
<1>. HIDE DEF s
<1>4. Reverse(s) \in Seq(Digits)
  <2>1. \A k \in 1..Len(s) : s[(Len(s) - k) + 1] \in Digits
    BY <1>3
  <2>2. Len(s) \in Nat
    BY <1>3
  <2>. QED  BY <2>1, <2>2 DEF Reverse
<1>5. <<"0">> \in Seq(Digits)
  <2>1. hex_digits[1] = "0" /\ hex_digits[1] \in Digits
    BY DEF hex_digits, Digits
  <2>. QED  BY <2>1
<1>. QED  BY <1>4, <1>5, DigitsOf DEF s, f, turns

\* The value of the first digits, as str_to_int() adds them up.
IsValue(f, s, len) ==
  f = [k \in 0..len |-> IF k = 0 THEN 0 ELSE 10 * f[k - 1] + char_digit_to_int(s[k])]

LEMMA ValueExists ==
  ASSUME NEW s
  PROVE  \A m \in Nat : \E f : IsValue(f, s, m)
<1>. DEFINE S == {m \in Nat : \E f : IsValue(f, s, m)}
<1>1. 0 \in S
  <2>1. IsValue([k \in 0..0 |-> 0], s, 0)
    BY DEF IsValue
  <2>. QED  BY <2>1
<1>2. ASSUME NEW m \in Nat, m \in S
      PROVE  m + 1 \in S
  <2>1. PICK f : IsValue(f, s, m)
    BY <1>2
  <2>. DEFINE last == 10 * f[m] + char_digit_to_int(s[m + 1])
              g == [k \in 0..m + 1 |-> IF k = m + 1 THEN last ELSE f[k]]
  <2>2. g = [k \in 0..m + 1 |-> IF k = 0 THEN 0 ELSE 10 * g[k - 1] + char_digit_to_int(s[k])]
    BY <2>1 DEF IsValue
  <2>3. IsValue(g, s, m + 1)
    BY <2>2 DEF IsValue
  <2>. HIDE DEF g
  <2>4. \E h : IsValue(h, s, m + 1)
    BY <2>3
  <2>. QED  BY <2>4
<1>3. Nat \subseteq S
  <2>. HIDE DEF S
  <2>. QED  BY <1>1, <1>2, SetInduction
<1>. QED  BY <1>3

LEMMA DigitType ==
  ASSUME NEW c \in DecimalDigits
  PROVE  char_digit_to_int(c) \in 0..9
<1>1. PICK d \in 1..10 : hex_digits[d] = c
  BY DEF DecimalDigits
<1>2. d - 1 \in 0..9 /\ hex_digits[(d - 1) + 1] = c
  BY <1>1
<1>3. \E e \in 0..9 : hex_digits[e + 1] = c
  BY <1>2
<1>. QED  BY <1>3 DEF char_digit_to_int

\* str_to_int() gives a number for every string of digits.
LEMMA ValueType ==
  ASSUME NEW s \in Seq(DecimalDigits)
  PROVE  str_to_int(s) \in Nat
<1>. DEFINE f == CHOOSE g : IsValue(g, s, Len(s))
            S == {k \in Nat : k <= Len(s) => f[k] \in Nat}
<1>0. Len(s) \in Nat
  OBVIOUS
<1>1. IsValue(f, s, Len(s))
  <2>1. \E g : IsValue(g, s, Len(s))
    BY <1>0, ValueExists
  <2>. QED  BY <2>1
<1>2. str_to_int(s) = f[Len(s)]
  BY Zenon DEF str_to_int, IsValue
<1>. HIDE DEF f
<1>3. f[0] = 0 /\ \A k \in 1..Len(s) : f[k] = 10 * f[k - 1] + char_digit_to_int(s[k])
  BY <1>0, <1>1 DEF IsValue
<1>4. 0 \in S
  BY <1>3
<1>5. ASSUME NEW k \in Nat, k \in S
      PROVE  k + 1 \in S
  <2>1. CASE k + 1 <= Len(s)
    <3>1. f[k] \in Nat /\ k + 1 \in 1..Len(s) /\ s[k + 1] \in DecimalDigits
      BY <2>1, <1>0, <1>5
    <3>2. f[k + 1] = 10 * f[k] + char_digit_to_int(s[k + 1])
      BY <1>3, <3>1
    <3>3. char_digit_to_int(s[k + 1]) \in 0..9
      BY <3>1, DigitType
    <3>4. f[k + 1] \in Nat
      BY <3>1, <3>2, <3>3
    <3>. QED  BY <3>4
  <2>2. CASE ~(k + 1 <= Len(s))
    BY <2>2
  <2>. QED  BY <2>1, <2>2
<1>6. Nat \subseteq S
  <2>. HIDE DEF S
  <2>. QED  BY <1>4, <1>5, SetInduction
<1>7. f[Len(s)] \in Nat
  BY <1>0, <1>6
<1>. QED  BY <1>2, <1>7

-----------------------------------------------------------------------------
(* Vsnprintf()                                                             *)

\* A string that is terminated has a text, which ends before the terminator.
LEMMA TextOf ==
  ASSUME NEW size \in Nat, NEW s \in [0..size - 1 -> STRING], NEW last \in 0..size - 1, s[last] = "NUL"
  PROVE  /\ Text(s) \in Seq(STRING) /\ Len(Text(s)) \in 0..last
         /\ \A p \in 1..Len(Text(s)) : Text(s)[p] = s[p - 1]
<1>. DEFINE T == {k \in 0..size - 1 : s[k] = "NUL"}
            IsEnd(k) == s[k] = "NUL" /\ \A j \in DOMAIN s : j < k => s[j] # "NUL"
            end == CHOOSE k \in DOMAIN s : IsEnd(k)
<1>1. PICK k \in T : \A j \in T : k <= j
  <2>1. T \subseteq Nat /\ T # {}
    OBVIOUS
  <2>. HIDE DEF T
  <2>. QED  BY <2>1, LeastElement
<1>2. k \in DOMAIN s /\ IsEnd(k)
  BY <1>1
<1>3. end \in DOMAIN s /\ IsEnd(end)
  <2>. HIDE DEF IsEnd
  <2>. QED  BY <1>2
<1>4. end \in 0..last
  BY <1>3
<1>5. Text(s) = [p \in 1..end |-> s[p - 1]]
  BY DEF Text
<1>. HIDE DEF end
<1>. QED  BY <1>4, <1>5

\* Where the conversion at r is: the format goes at least to its specifier, if it has one, and the
\* width consists of digits.
LEMMA SpecPlace ==
  ASSUME Fmt \in Seq(STRING), r \in Nat, r < Len(Fmt)
  PROVE  /\ WidthAt \in Nat /\ WidthLen \in Int
         /\ SpecAt \in r + 1..Len(Fmt)
         /\ WidthLen > 0 =>
              \A k \in WidthAt..WidthAt + WidthLen - 1 : k < Len(Fmt) /\ At(k) \in DecimalDigits
         /\ ~Malformed => SpecAt < Len(Fmt) /\ At(SpecAt) \in {"u", "x", "s"}
<1>0. Len(Fmt) \in Nat
  OBVIOUS
<1>1. WidthAt \in r + 1..Len(Fmt)
  BY <1>0 DEF WidthAt, PadAt, ZeroPad, At
<1>. DEFINE ends == {k \in WidthAt..Len(Fmt) - 1 : At(k) \notin DecimalDigits}
            least == CHOOSE k \in ends : \A j \in ends : k <= j
<1>2. WidthLen = IF ends = {} THEN -1 ELSE least - WidthAt
  BY DEF WidthLen
<1>3. ends # {} => least \in ends /\ \A j \in ends : least <= j
  <2>1. ends \subseteq Nat
    BY <1>1
  <2>. HIDE DEF ends
  <2>2. ends # {} => \E k \in ends : \A j \in ends : k <= j
    BY <2>1, LeastElement
  <2>. QED  BY <2>2
<1>. HIDE DEF least
<1>4. WidthLen \in Int
  BY <1>1, <1>2, <1>3
<1>5. WidthLen > 0 => SpecAt = least /\ least \in ends
  BY <1>1, <1>2, <1>3, <1>4 DEF SpecAt
<1>6. SpecAt \in r + 1..Len(Fmt)
  BY <1>0, <1>1, <1>4, <1>5 DEF SpecAt
<1>7. ASSUME WidthLen > 0, NEW k \in WidthAt..WidthAt + WidthLen - 1
      PROVE  k < Len(Fmt) /\ At(k) \in DecimalDigits
  <2>1. WidthLen = least - WidthAt /\ least \in ends /\ \A j \in ends : least <= j
    BY <1>7, <1>2, <1>3, <1>5
  <2>2. least \in Int /\ least < Len(Fmt) /\ WidthAt \in Int
    BY <2>1, <1>1
  <2>3. k < least /\ k \in WidthAt..Len(Fmt) - 1
    BY <2>1, <2>2, <1>0
  <2>4. k \notin ends
    <3>. HIDE DEF ends
    <3>. QED  BY <2>1, <2>2, <2>3
  <2>. QED  BY <2>3, <2>4, <1>0
<1>8. ~Malformed => SpecAt < Len(Fmt) /\ At(SpecAt) \in {"u", "x", "s"}
  BY <1>0, <1>6 DEF Malformed, At
<1>. QED  BY <1>1, <1>4, <1>6, <1>7, <1>8

LEMMA WidthType ==
  ASSUME Fmt \in Seq(STRING), r \in Nat, r < Len(Fmt)
  PROVE  field_width \in Nat
<1>1. CASE WidthLen > 0
  <2>. DEFINE s == SubSeq(Fmt, WidthAt + 1, WidthAt + WidthLen)
  <2>1. /\ WidthAt \in Nat /\ WidthLen \in Int /\ Len(Fmt) \in Nat
        /\ \A k \in WidthAt..WidthAt + WidthLen - 1 : k < Len(Fmt) /\ At(k) \in DecimalDigits
    BY <1>1, SpecPlace
  <2>2. \A k \in WidthAt + 1..WidthAt + WidthLen : k \in 1..Len(Fmt) /\ Fmt[k] \in DecimalDigits
    <3>. SUFFICES ASSUME NEW k \in WidthAt + 1..WidthAt + WidthLen
                  PROVE  k \in 1..Len(Fmt) /\ Fmt[k] \in DecimalDigits
      OBVIOUS
    <3>1. k - 1 \in WidthAt..WidthAt + WidthLen - 1 /\ k - 1 \in Nat /\ (k - 1) + 1 = k
      BY <2>1
    <3>2. k - 1 < Len(Fmt) /\ At(k - 1) \in DecimalDigits
      BY <2>1, <3>1
    <3>. QED  BY <2>1, <3>1, <3>2 DEF At
  <2>. DEFINE f == Fmt
              a == WidthAt + 1
              b == WidthAt + WidthLen
  <2>3. /\ f \in Seq(STRING) /\ a \in Nat /\ a >= 1 /\ b \in Int
        /\ \A k \in a..b : k \in 1..Len(f) /\ f[k] \in DecimalDigits
    BY <2>1, <2>2
  <2>. HIDE DEF f, a, b
  <2>4. SubSeq(f, a, b) \in Seq(DecimalDigits)
    BY <2>3
  <2>5. s \in Seq(DecimalDigits)
    BY <2>4 DEF f, a, b
  <2>6. str_to_int(s) \in Nat
    <3>. HIDE DEF s
    <3>. QED  BY <2>5, ValueType
  <2>. QED  BY <1>1, <2>6 DEF field_width
<1>2. CASE ~(WidthLen > 0)
  BY <1>2 DEF field_width
<1>. QED  BY <1>1, <1>2

LEMMA RepeatType ==
  ASSUME NEW S, NEW c \in S, NEW times \in Int
  PROVE  Repeat(c, times) \in Seq(S)
BY DEF Repeat

LEMMA ArgumentType ==
  ASSUME Args[used + 1] \in Arguments, At(SpecAt) \in {"u", "x", "s"}
  PROVE  /\ sarg \in Seq(STRING)
         /\ At(SpecAt) = "u" => sarg \in Seq(Digits)
<1>. DEFINE arg == Args[used + 1]
<1>1. arg.num \in uint32 /\ arg.str \in Seq(STRING)
  BY DEF Arguments
<1>2. /\ uint_to_str_base(arg.num, 10) \in Seq(Digits)
      /\ uint_to_str_base(arg.num, 16) \in Seq(Digits)
  BY <1>1, NumbersAreDigits
<1>3. Seq(Digits) \subseteq Seq(STRING)
  BY DigitsAreText, SeqMonotonic
<1>. HIDE DEF arg
<1>4. CASE At(SpecAt) = "u"
  <2>1. sarg = uint_to_str_base(arg.num, 10)
    BY <1>4 DEF sarg, arg
  <2>. QED  BY <2>1, <1>2, <1>3, <1>4
<1>5. CASE At(SpecAt) = "x"
  <2>1. sarg = uint_to_str_base(arg.num, 16)
    BY <1>5 DEF sarg, arg
  <2>. QED  BY <2>1, <1>2, <1>3, <1>5
<1>6. CASE At(SpecAt) = "s"
  <2>1. sarg = arg.str
    BY <1>6 DEF sarg, arg
  <2>. QED  BY <2>1, <1>1, <1>6
<1>. QED  BY <1>4, <1>5, <1>6

LEMMA Pair ==
  ASSUME NEW S, NEW a \in S, NEW b \in S
  PROVE  <<a, b>> \in Seq(S)
OBVIOUS

\* A conversion gives text.
LEMMA ConversionType ==
  ASSUME Fmt \in Seq(STRING), r \in Nat, r < Len(Fmt), ~Malformed, Args[used + 1] \in Arguments
  PROVE  Conversion \in Seq(STRING)
<1>1. At(SpecAt) \in {"u", "x", "s"}
  BY SpecPlace
<1>2. sarg \in Seq(STRING) /\ Len(sarg) \in Nat
  BY <1>1, ArgumentType
<1>3. field_width - Len(sarg) \in Int
  BY <1>2, WidthType
<1>4. {"0", "x", " "} \subseteq STRING
  <2>1. hex_digits[1] = "0" /\ hex_digits[1] \in Digits
    BY DEF hex_digits, Digits
  <2>. QED  BY <2>1, CharactersAssumption, DigitsAreText
<1>5. \A c \in {"0", " "} : Repeat(c, field_width - Len(sarg)) \in Seq(STRING)
  BY <1>3, <1>4, RepeatType
<1>6. (IF At(SpecAt) = "x" THEN <<"0", "x">> ELSE <<>>) \in Seq(STRING)
  <2>1. <<"0", "x">> \in Seq(STRING)
    BY <1>4, Pair
  <2>2. CASE At(SpecAt) = "x"
    BY <2>1, <2>2
  <2>3. CASE At(SpecAt) # "x"
    BY <2>3
  <2>. QED  BY <2>2, <2>3
<1>. QED  BY <1>2, <1>5, <1>6, ConcatProperties DEF Conversion

-----------------------------------------------------------------------------
(* Conversions of a format are counted by their %.                         *)

LEMMA PercentsFinite ==
  ASSUME NEW f \in Seq(STRING)
  PROVE  IsFiniteSet(Percents(f)) /\ Cardinality(Percents(f)) \in Nat
<1>1. Percents(f) \in SUBSET (1..Len(f)) /\ Len(f) \in Nat
  BY DEF Percents
<1>2. IsFiniteSet(1..Len(f))
  BY <1>1, FS_Interval
<1>. QED  BY <1>1, <1>2, FS_Subset, FS_CardinalityType

\* A format that has a % only where another one has it, some places further on, has no more.
LEMMA FewerPercents ==
  ASSUME NEW f \in Seq(STRING), NEW g \in Seq(STRING), NEW b \in Int,
         \A p \in Percents(f) : p - b \in Percents(g)
  PROVE  Cardinality(Percents(f)) <= Cardinality(Percents(g))
<1>. DEFINE S == Percents(f)
            T == Percents(g)
            move == [p \in S |-> p - b]
<1>1. S \subseteq Int /\ IsFiniteSet(T)
  BY PercentsFinite DEF Percents
<1>2. \A p \in S : p - b \in T
  OBVIOUS
<1>. HIDE DEF S, T
<1>3. move \in Injection(S, T)
  BY <1>1, <1>2 DEF Injection, IsInjective
<1>. HIDE DEF move
<1>4. Cardinality(S) <= Cardinality(T)
  BY <1>1, <1>3, FS_Injection
<1>. QED  BY <1>4 DEF S, T

\* The conversions before a place of a format.
Passed(f, at) == {p \in Percents(f) : p <= at}

LEMMA PassedCount ==
  ASSUME NEW f \in Seq(STRING), NEW at \in Nat, NEW to \in Nat, at <= to
  PROVE  /\ Cardinality(Passed(f, at)) \in Nat /\ Cardinality(Passed(f, to)) \in Nat
         /\ Cardinality(Passed(f, at)) <= Cardinality(Passed(f, to))
         /\ Cardinality(Passed(f, to)) <= Cardinality(Percents(f))
<1>1. IsFiniteSet(Percents(f)) /\ Percents(f) \subseteq Int
  BY PercentsFinite DEF Percents
<1>2. Passed(f, to) \in SUBSET Percents(f)
  BY DEF Passed
<1>3. Passed(f, at) \in SUBSET Passed(f, to)
  BY <1>1 DEF Passed
<1>4. IsFiniteSet(Passed(f, to)) /\ Cardinality(Passed(f, to)) <= Cardinality(Percents(f))
  BY <1>1, <1>2, FS_Subset
<1>5. IsFiniteSet(Passed(f, at)) /\ Cardinality(Passed(f, at)) <= Cardinality(Passed(f, to))
  BY <1>3, <1>4, FS_Subset
<1>. QED  BY <1>4, <1>5, FS_CardinalityType

\* A conversion at a place is one more.
LEMMA PassedOneMore ==
  ASSUME NEW f \in Seq(STRING), NEW at \in Nat, NEW to \in Nat,
         at < Len(f), f[at + 1] = "%", at + 1 <= to
  PROVE  Cardinality(Passed(f, at)) + 1 <= Cardinality(Passed(f, to))
<1>1. Len(f) \in Nat /\ at + 1 \in Percents(f)
  BY DEF Percents
<1>2. Passed(f, at + 1) = Passed(f, at) \cup {at + 1} /\ at + 1 \notin Passed(f, at)
  BY <1>1 DEF Passed, Percents
<1>3. IsFiniteSet(Passed(f, at))
  <2>1. Passed(f, at) \in SUBSET Percents(f)
    BY DEF Passed
  <2>. QED  BY <2>1, PercentsFinite, FS_Subset
<1>4. Cardinality(Passed(f, at + 1)) = Cardinality(Passed(f, at)) + 1
  BY <1>2, <1>3, FS_AddElement
<1>5. Cardinality(Passed(f, at + 1)) <= Cardinality(Passed(f, to))
  BY PassedCount
<1>. QED  BY <1>4, <1>5

-----------------------------------------------------------------------------
(* The invariant of serial_log().                                          *)

\* Every % among the first characters of a buffer is one of a format, in its place.
PercentsFrom(text, limit, f) ==
  \E b \in Int : \A k \in 0..limit - 1 : text[k] = "%" => k - b \in Percents(f)

LogTyped ==
  /\ stage \in {"none", "newfmt", "buf", "halt"}
  /\ calls \in Seq(LogCalls) /\ user \in Seq(STRING) /\ args \in Seq(Arguments) /\ ts \in uint32
  /\ Cardinality(Percents(user)) <= Len(args)
  /\ newfmt \in [0..FMT_SZ - 1 -> STRING] /\ buf \in [0..BUF_SZ - 1 -> STRING]

\* A call of Vsnprintf() starts with its indices at 0.
RestInv == stage = "none" => r = 0 /\ w = 0 /\ used = 0

\* While the line is made: where Vsnprintf() is in its template, and what it has copied.
LineInv ==
  stage = "newfmt" =>
    /\ w \in 0..FMT_SZ
    /\ \/ used = 0 /\ r \in {0, 1}
       \/ used = 1 /\ r \in {5, 6, 7}
       \/ used = 2 /\ r \in {9, 10, 11}
    /\ used < 2 => \A k \in 0..w - 1 : newfmt[k] # "%"
    /\ PercentsFrom(newfmt, w, user)

\* While the message is made: the line is terminated and asks for no more than the caller has
\* passed, and no more than the conversions so far have been taken.
MessageInv ==
  stage = "buf" =>
    /\ \E k \in 0..FMT_SZ - 1 : newfmt[k] = "NUL"
    /\ Cardinality(Percents(Text(newfmt))) <= Len(args)
    /\ w \in 0..BUF_SZ /\ r \in 0..Len(Text(newfmt)) /\ used \in Nat
    /\ used <= Cardinality(Passed(Text(newfmt), r))

LogInv == LogTyped /\ RestInv /\ LineInv /\ MessageInv

\* A number of 32 bits.
LEMMA ZeroIsNumber == 0 \in uint32
BY DEF uint32

LEMMA TemplateFacts ==
  /\ Template \in Seq(STRING) /\ Len(Template) = 11
  /\ \A k \in 1..11 : Template[k] \in STRING /\ (Template[k] = "%" => k \in {2, 8})
<1>1. Len(Template) = 11 /\ \A k \in 1..11 : Template[k] = "%" => k \in {2, 8}
  BY DEF Template
<1>2. ASSUME NEW k \in 1..11
      PROVE  Template[k] \in STRING
  <2>1. /\ hex_digits[1] = "0" /\ hex_digits[1] \in Digits
        /\ hex_digits[2] = "1" /\ hex_digits[2] \in Digits
    BY DEF hex_digits, Digits
  <2>2. {"[", "%", "1", "0", "u", "]", " ", "%", "s", "CR", "LF"} \subseteq STRING
    BY <2>1, DigitsAreText, CharactersAssumption
  <2>. HIDE DEF Digits
  <2>3. /\ Template[1] = "[" /\ Template[2] = "%" /\ Template[3] = "1" /\ Template[4] = "0"
        /\ Template[5] = "u" /\ Template[6] = "]" /\ Template[7] = " " /\ Template[8] = "%"
        /\ Template[9] = "s" /\ Template[10] = "CR" /\ Template[11] = "LF"
    BY DEF Template
  <2>4. k \in {1, 2, 3, 4, 5, 6, 7, 8, 9, 10, 11}
    OBVIOUS
  <2>. QED  BY <2>2, <2>3, <2>4
<1>3. Template = [k \in 1..11 |-> Template[k]]
  BY DEF Template
<1>4. Template \in Seq(STRING)
  <2>. DEFINE t == Template
  <2>1. t = [k \in 1..11 |-> t[k]] /\ \A k \in 1..11 : t[k] \in STRING
    BY <1>2, <1>3
  <2>. HIDE DEF t
  <2>2. t \in Seq(STRING)
    BY <2>1
  <2>. QED  BY <2>2 DEF t
<1>. QED  BY <1>1, <1>2, <1>4

\* The format, the arguments and the buffer of either stage.
LEMMA StageFacts ==
  ASSUME LogInv, stage \in {"newfmt", "buf"}
  PROVE  /\ Fmt \in Seq(STRING) /\ Len(Fmt) \in Nat /\ r \in 0..Len(Fmt)
         /\ Size \in Nat \ {0} /\ w \in 0..Size
         /\ stage = "newfmt" => Len(Fmt) = 11 /\ Fmt = Template
<1>. USE DEF LogInv
<1>1. CASE stage = "newfmt"
  <2>1. Fmt = Template /\ Size = FMT_SZ
    BY <1>1 DEF Fmt, Size
  <2>2. w \in 0..FMT_SZ /\ r \in 0..11
    BY <1>1 DEF LineInv
  <2>. QED  BY <2>1, <2>2, TemplateFacts, SizesAssumption
<1>2. CASE stage = "buf"
  <2>1. Fmt = Text(newfmt) /\ Size = BUF_SZ
    BY <1>2 DEF Fmt, Size
  <2>2. PICK k \in 0..FMT_SZ - 1 : newfmt[k] = "NUL"
    BY <1>2 DEF MessageInv
  <2>3. Text(newfmt) \in Seq(STRING) /\ Len(Text(newfmt)) \in Nat
    <3>1. FMT_SZ \in Nat /\ newfmt \in [0..FMT_SZ - 1 -> STRING]
      BY SizesAssumption DEF LogTyped
    <3>. QED  BY <2>2, <3>1, TextOf
  <2>4. w \in 0..BUF_SZ /\ r \in 0..Len(Text(newfmt))
    BY <1>2 DEF MessageInv
  <2>. QED  BY <1>2, <2>1, <2>3, <2>4, SizesAssumption
<1>. QED  BY <1>1, <1>2

-----------------------------------------------------------------------------
(* The two conversions of the template.                                    *)

LEMMA WidthEnds ==
  ASSUME WidthAt \in Nat, Len(Fmt) \in Nat, NEW m \in WidthAt..Len(Fmt) - 1, At(m) \notin DecimalDigits,
         \A k \in WidthAt..m - 1 : At(k) \in DecimalDigits
  PROVE  WidthLen = m - WidthAt
<1>. DEFINE ends == {k \in WidthAt..Len(Fmt) - 1 : At(k) \notin DecimalDigits}
            least == CHOOSE k \in ends : \A j \in ends : k <= j
<1>1. m \in ends /\ \A j \in ends : m <= j
  OBVIOUS
<1>2. ends \subseteq Int
  OBVIOUS
<1>3. WidthLen = least - WidthAt
  BY <1>1 DEF WidthLen
<1>. HIDE DEF ends
<1>4. least \in ends /\ \A j \in ends : least <= j
  BY <1>1
<1>5. least = m
  <2>1. least \in Int /\ m \in Int /\ least <= m /\ m <= least
    BY <1>1, <1>2, <1>4
  <2>. HIDE DEF least
  <2>. QED  BY <2>1
<1>. QED  BY <1>3, <1>5

LEMMA SomeDigits ==
  /\ "0" \in DecimalDigits /\ "1" \in DecimalDigits
  /\ "u" \notin DecimalDigits /\ "s" \notin DecimalDigits
<1>1. hex_digits[1] = "0" /\ hex_digits[2] = "1"
  BY DEF hex_digits
<1>2. ASSUME NEW d \in 1..10
      PROVE  hex_digits[d] # "u" /\ hex_digits[d] # "s"
  BY d \in {1, 2, 3, 4, 5, 6, 7, 8, 9, 10} DEF hex_digits
<1>. QED  BY <1>1, <1>2 DEF DecimalDigits

LEMMA TemplateAt ==
  ASSUME LogInv, stage = "newfmt"
  PROVE  /\ Len(Fmt) = 11 /\ At(2) = "1" /\ At(3) = "0" /\ At(4) = "u" /\ At(8) = "s"
         /\ \A k \in 0..10 : At(k) \in STRING /\ (At(k) = "%" => k \in {1, 7})
<1>1. Fmt = Template /\ Len(Fmt) = 11
  BY StageFacts
<1>2. \A k \in 0..10 : At(k) = Template[k + 1]
  BY <1>1 DEF At
<1>3. At(2) = "1" /\ At(3) = "0" /\ At(4) = "u" /\ At(8) = "s"
  <2>1. At(2) = Template[3] /\ At(3) = Template[4] /\ At(4) = Template[5] /\ At(8) = Template[9]
    BY <1>2
  <2>2. Template[3] = "1" /\ Template[4] = "0" /\ Template[5] = "u" /\ Template[9] = "s"
    BY DEF Template
  <2>. QED  BY <2>1, <2>2
<1>4. ASSUME NEW k \in 0..10
      PROVE  At(k) \in STRING /\ (At(k) = "%" => k \in {1, 7})
  <2>1. k + 1 \in 1..11 /\ (k + 1 \in {2, 8} => k \in {1, 7})
    OBVIOUS
  <2>2. Template[k + 1] \in STRING
    BY <2>1, TemplateFacts
  <2>3. Template[k + 1] = "%" => k + 1 \in {2, 8}
    BY <2>1, TemplateFacts
  <2>. QED  BY <1>2, <2>1, <2>2, <2>3
<1>. QED  BY <1>1, <1>3, <1>4

\* The time stamp: digits, padded with spaces.
LEMMA TimestampConversion ==
  ASSUME LogInv, stage = "newfmt", r = 1
  PROVE  /\ SpecAt = 4 /\ used = 0 /\ Args[used + 1] \in Arguments
         /\ Conversion \in Seq(Digits \cup {" "})
<1>1. At(2) = "1" /\ At(3) = "0" /\ At(4) = "u" /\ Len(Fmt) = 11 /\ Fmt \in Seq(STRING)
  BY TemplateAt, StageFacts
<1>2. ~ZeroPad /\ WidthAt = 2
  BY <1>1 DEF ZeroPad, PadAt, WidthAt
<1>3. WidthLen = 2
  <2>1. \A k \in 2..4 - 1 : k = 2 \/ k = 3
    OBVIOUS
  <2>2. \A k \in WidthAt..4 - 1 : At(k) \in DecimalDigits
    BY <1>1, <1>2, <2>1, SomeDigits
  <2>3. At(4) \notin DecimalDigits /\ 4 \in WidthAt..Len(Fmt) - 1
    BY <1>1, <1>2, SomeDigits
  <2>4. WidthLen = 4 - WidthAt
    BY <1>1, <1>2, <2>2, <2>3, WidthEnds
  <2>. QED  BY <1>2, <2>4
<1>4. SpecAt = 4
  BY <1>2, <1>3 DEF SpecAt
<1>5. used = 0
  BY DEF LogInv, LineInv
<1>6. Args[used + 1] \in Arguments
  <2>1. Args[1] = [num |-> ts, str |-> <<>>]
    BY DEF Args
  <2>2. ts \in uint32
    BY DEF LogInv, LogTyped
  <2>3. \A num \in uint32 : [num |-> num, str |-> <<>>] \in Arguments
    BY DEF Arguments
  <2>4. Args[1] \in Arguments
    BY <2>1, <2>2, <2>3
  <2>. QED  BY <1>5, <2>4
<1>7. sarg \in Seq(Digits)
  BY <1>1, <1>4, <1>6, ArgumentType
<1>8. Conversion \in Seq(Digits \cup {" "})
  <2>. DEFINE S == Digits \cup {" "}
  <2>1. field_width - Len(sarg) \in Int
    BY <1>1, <1>7, WidthType
  <2>2. sarg \in Seq(S)
    BY <1>7, SeqMonotonic, Digits \subseteq S
  <2>3. Repeat(" ", field_width - Len(sarg)) \in Seq(S)
    BY <2>1, RepeatType
  <2>4. Conversion = <<>> \o Repeat(" ", field_width - Len(sarg)) \o sarg
    BY <1>1, <1>2, <1>4 DEF Conversion
  <2>. HIDE DEF S
  <2>5. <<>> \in Seq(S)
    OBVIOUS
  <2>6. Conversion \in Seq(S)
    BY <2>2, <2>3, <2>4, <2>5, ConcatProperties
  <2>. QED  BY <2>6 DEF S
<1>. QED  BY <1>4, <1>5, <1>6, <1>8

\* The format of the caller is copied as it is.
LEMMA UserConversion ==
  ASSUME LogInv, stage = "newfmt", r = 7
  PROVE  SpecAt = 8 /\ used = 1 /\ Args[used + 1] \in Arguments /\ Conversion = user
<1>1. At(8) = "s" /\ Len(Fmt) = 11 /\ Fmt \in Seq(STRING)
  BY TemplateAt, StageFacts
<1>2. ~ZeroPad /\ WidthAt = 8
  BY <1>1 DEF ZeroPad, PadAt, WidthAt
<1>3. WidthLen = 0
  <2>1. \A k \in WidthAt..8 - 1 : At(k) \in DecimalDigits
    BY <1>2
  <2>2. At(8) \notin DecimalDigits /\ 8 \in WidthAt..Len(Fmt) - 1
    BY <1>1, <1>2, SomeDigits
  <2>3. WidthLen = 8 - WidthAt
    BY <1>1, <1>2, <2>1, <2>2, WidthEnds
  <2>. QED  BY <1>2, <2>3
<1>4. SpecAt = 8 /\ field_width = 0
  BY <1>2, <1>3 DEF SpecAt, field_width
<1>5. used = 1
  BY DEF LogInv, LineInv
<1>6. Args[used + 1] = [num |-> 0, str |-> user] /\ user \in Seq(STRING)
  BY <1>5 DEF Args, LogInv, LogTyped
<1>7. Args[used + 1] \in Arguments
  BY <1>6, ZeroIsNumber DEF Arguments
<1>8. sarg = user
  BY <1>1, <1>4, <1>6 DEF sarg
<1>9. Repeat(" ", field_width - Len(sarg)) = <<>>
  <2>1. Len(user) \in Nat
    BY <1>6
  <2>2. ~(0 - Len(user) > 0)
    BY <2>1
  <2>3. Repeat(" ", 0 - Len(user)) = <<>>
    BY <2>2, Zenon DEF Repeat
  <2>. QED  BY <1>4, <1>8, <2>3
<1>10. Conversion = <<>> \o <<>> \o user
  BY <1>1, <1>2, <1>4, <1>8, <1>9 DEF Conversion
<1>. QED  BY <1>4, <1>5, <1>6, <1>7, <1>10

-----------------------------------------------------------------------------
(* Text that is written.                                                   *)

\* The buffer gets a part of the text from w on, which stays within it.
Copied(old, new, text, from, to, size) ==
  /\ new \in [0..size - 1 -> STRING] /\ to \in from..size
  /\ \A k \in 0..from - 1 : new[k] = old[k]
  /\ \A k \in from..to - 1 : k - from + 1 \in 1..Len(text) /\ new[k] = text[k - from + 1]

LEMMA WrittenIs ==
  ASSUME NEW text \in Seq(STRING), Size \in Nat, w \in 0..Size, NEW dest \in [0..Size - 1 -> STRING]
  PROVE  Copied(dest, Written(text, dest), text, w, w + Room(text), Size)
<1>. DEFINE new == Written(text, dest)
            to == w + Room(text)
<1>1. Len(text) \in Nat
  OBVIOUS
<1>2. to \in w..Size /\ to <= w + Len(text)
  BY <1>1 DEF Room, Min2
<1>3. new = [k \in 0..Size - 1 |-> IF w <= k /\ k < to THEN text[k - w + 1] ELSE dest[k]]
  BY DEF Written
<1>. HIDE DEF new, to
<1>4. \A k \in w..to - 1 : k - w + 1 \in 1..Len(text) /\ k \in 0..Size - 1 /\ text[k - w + 1] \in STRING
  <2>. SUFFICES ASSUME NEW k \in w..to - 1
                PROVE  k - w + 1 \in 1..Len(text) /\ k \in 0..Size - 1 /\ text[k - w + 1] \in STRING
    OBVIOUS
  <2>1. k - w + 1 \in 1..Len(text) /\ k \in 0..Size - 1
    BY <1>1, <1>2
  <2>. QED  BY <2>1
<1>5. ASSUME NEW k \in 0..Size - 1
      PROVE  new[k] \in STRING
  <2>1. CASE w <= k /\ k < to
    <3>1. k \in w..to - 1 /\ new[k] = text[k - w + 1]
      BY <1>2, <1>3, <2>1
    <3>. QED  BY <3>1, <1>4
  <2>2. CASE ~(w <= k /\ k < to)
    <3>1. new[k] = dest[k]
      BY <1>3, <2>2
    <3>. QED  BY <3>1
  <2>. QED  BY <2>1, <2>2
<1>6. new \in [0..Size - 1 -> STRING]
  BY <1>3, <1>5
<1>7. ASSUME NEW k \in w..to - 1
      PROVE  new[k] = text[k - w + 1]
  <2>1. k \in 0..Size - 1 /\ w <= k /\ k < to
    BY <1>2, <1>4
  <2>. QED  BY <2>1, <1>3
<1>8. ASSUME NEW k \in 0..w - 1
      PROVE  new[k] = dest[k]
  <2>1. k \in 0..Size - 1 /\ ~(w <= k)
    OBVIOUS
  <2>. QED  BY <2>1, <1>3
<1>9. Copied(dest, new, text, w, to, Size)
  BY <1>2, <1>4, <1>6, <1>7, <1>8 DEF Copied
<1>. QED  BY <1>9 DEF new, to

\* Text without a % adds none.
LEMMA PlainText ==
  ASSUME NEW old, NEW new, NEW text, NEW from \in Nat, NEW to, NEW size \in Nat, NEW f,
         Copied(old, new, text, from, to, size), \A k \in 1..Len(text) : text[k] # "%"
  PROVE  /\ (\A k \in 0..from - 1 : old[k] # "%") => (\A k \in 0..to - 1 : new[k] # "%")
         /\ PercentsFrom(old, from, f) => PercentsFrom(new, to, f)
<1>1. ASSUME NEW k \in 0..to - 1
      PROVE  new[k] = "%" => k \in 0..from - 1 /\ old[k] = "%"
  <2>1. to \in Int
    BY DEF Copied
  <2>2. CASE k \in 0..from - 1
    BY <2>2 DEF Copied
  <2>3. CASE k \notin 0..from - 1
    <3>1. k \in from..to - 1
      BY <2>1, <2>3
    <3>2. k - from + 1 \in 1..Len(text) /\ new[k] = text[k - from + 1]
      BY <3>1 DEF Copied
    <3>. QED  BY <3>2
  <2>. QED  BY <2>2, <2>3
<1>2. ASSUME PercentsFrom(old, from, f)
      PROVE  PercentsFrom(new, to, f)
  <2>1. PICK b \in Int : \A k \in 0..from - 1 : old[k] = "%" => k - b \in Percents(f)
    BY <1>2 DEF PercentsFrom
  <2>2. \A k \in 0..to - 1 : new[k] = "%" => k - b \in Percents(f)
    BY <1>1, <2>1
  <2>. QED  BY <2>2 DEF PercentsFrom
<1>. QED  BY <1>1, <1>2

\* A format that is copied behind such text adds its own.
LEMMA FormatText ==
  ASSUME NEW old, NEW new, NEW f \in Seq(STRING), NEW from \in Nat, NEW to, NEW size \in Nat,
         Copied(old, new, f, from, to, size), \A k \in 0..from - 1 : old[k] # "%"
  PROVE  PercentsFrom(new, to, f)
<1>1. to \in Int
  BY DEF Copied
<1>2. ASSUME NEW k \in 0..to - 1, new[k] = "%"
      PROVE  k - (from - 1) \in Percents(f)
  <2>1. k \notin 0..from - 1
    BY <1>2 DEF Copied
  <2>2. k \in from..to - 1
    BY <1>1, <2>1
  <2>3. k - from + 1 \in 1..Len(f) /\ f[k - from + 1] = "%"
    BY <1>2, <2>2 DEF Copied
  <2>4. k - (from - 1) = k - from + 1
    OBVIOUS
  <2>. QED  BY <2>3, <2>4 DEF Percents
<1>3. from - 1 \in Int
  OBVIOUS
<1>. QED  BY <1>2, <1>3 DEF PercentsFrom

\* What Write() does to either buffer.
LEMMA WriteIs ==
  ASSUME LogInv, stage \in {"newfmt", "buf"}, NEW text \in Seq(STRING), Write(text)
  PROVE  /\ newfmt' \in [0..FMT_SZ - 1 -> STRING] /\ buf' \in [0..BUF_SZ - 1 -> STRING]
         /\ w' \in 0..Size
         /\ stage = "newfmt" => Copied(newfmt, newfmt', text, w, w', FMT_SZ)
         /\ stage = "buf" => newfmt' = newfmt
<1>0. Size \in Nat /\ w \in 0..Size /\ w' = w + Room(text)
  BY StageFacts DEF Write
<1>1. newfmt \in [0..FMT_SZ - 1 -> STRING] /\ buf \in [0..BUF_SZ - 1 -> STRING]
  BY DEF LogInv, LogTyped
<1>2. CASE stage = "newfmt"
  <2>1. Size = FMT_SZ /\ newfmt' = Written(text, newfmt) /\ buf' = buf
    BY <1>2 DEF Write, Size
  <2>2. Copied(newfmt, newfmt', text, w, w', FMT_SZ)
    BY <1>0, <1>1, <2>1, WrittenIs
  <2>3. newfmt' \in [0..FMT_SZ - 1 -> STRING] /\ w' \in w..FMT_SZ
    BY <2>2 DEF Copied
  <2>. QED  BY <1>0, <1>1, <1>2, <2>1, <2>2, <2>3
<1>3. CASE stage = "buf"
  <2>1. Size = BUF_SZ /\ buf' = Written(text, buf) /\ newfmt' = newfmt
    BY <1>3 DEF Write, Size
  <2>2. Copied(buf, buf', text, w, w', BUF_SZ)
    BY <1>0, <1>1, <2>1, WrittenIs
  <2>3. buf' \in [0..BUF_SZ - 1 -> STRING] /\ w' \in w..BUF_SZ
    BY <2>2 DEF Copied
  <2>. QED  BY <1>0, <1>1, <1>3, <2>1, <2>3
<1>. QED  BY <1>2, <1>3

-----------------------------------------------------------------------------
(* One lemma for each step of serial_log().                                *)

\* A turn of the loop keeps the invariant if it moves on in the format as LineInv or MessageInv say.
LEMMA LineTurn ==
  ASSUME LogInv, stage = "newfmt", NEW text \in Seq(STRING), Write(text),
         UNCHANGED <<calls, stage, user, args, ts>>,
         \/ used' = 0 /\ r' \in {0, 1}
         \/ used' = 1 /\ r' \in {5, 6, 7}
         \/ used' = 2 /\ r' \in {9, 10, 11},
         used' < 2 => \A k \in 0..w' - 1 : newfmt'[k] # "%",
         PercentsFrom(newfmt', w', user)
  PROVE  LogInv'
<1>1. newfmt' \in [0..FMT_SZ - 1 -> STRING] /\ buf' \in [0..BUF_SZ - 1 -> STRING] /\ w' \in 0..FMT_SZ
  BY WriteIs DEF Size
<1>2. LogTyped'
  BY <1>1 DEF LogInv, LogTyped
<1>3. LineInv'
  BY <1>1 DEF LineInv
<1>4. RestInv' /\ MessageInv'
  BY DEF RestInv, MessageInv
<1>. QED  BY <1>2, <1>3, <1>4 DEF LogInv

LEMMA MessageTurn ==
  ASSUME LogInv, stage = "buf", NEW text \in Seq(STRING), Write(text),
         UNCHANGED <<calls, stage, user, args, ts>>,
         r' \in 0..Len(Text(newfmt)), used' \in Nat, used' <= Cardinality(Passed(Text(newfmt), r'))
  PROVE  LogInv'
<1>1. /\ newfmt' = newfmt /\ newfmt' \in [0..FMT_SZ - 1 -> STRING] /\ buf' \in [0..BUF_SZ - 1 -> STRING]
      /\ w' \in 0..BUF_SZ
  BY WriteIs DEF Size
<1>2. LogTyped'
  BY <1>1 DEF LogInv, LogTyped
<1>3. MessageInv'
  BY <1>1 DEF LogInv, MessageInv
<1>4. RestInv' /\ LineInv'
  BY DEF RestInv, LineInv
<1>. QED  BY <1>2, <1>3, <1>4 DEF LogInv

LEMMA CharacterKeeps ==
  ASSUME LogInv, Character
  PROVE  LogInv'
<1>0. /\ stage \in {"newfmt", "buf"} /\ r < Len(Fmt) /\ At(r) # "%"
      /\ Write(<<At(r)>>) /\ r' = r + 1 /\ UNCHANGED <<calls, stage, user, args, ts, used>>
  BY DEF Character, Going
<1>1. Fmt \in Seq(STRING) /\ Len(Fmt) \in Nat /\ r \in Nat
  BY <1>0, StageFacts
<1>2. At(r) \in STRING
  BY <1>0, <1>1 DEF At
<1>. DEFINE c == At(r)
            text == <<c>>
<1>3. text \in Seq(STRING) /\ \A k \in 1..Len(text) : text[k] # "%"
  <2>1. c \in STRING /\ c # "%"
    BY <1>0, <1>2
  <2>. HIDE DEF c
  <2>2. text \in Seq(STRING) /\ Len(text) = 1 /\ text[1] = c
    BY <2>1
  <2>. QED  BY <2>1, <2>2
<1>4. CASE stage = "newfmt"
  <2>1. /\ w \in Nat /\ FMT_SZ \in Nat /\ PercentsFrom(newfmt, w, user)
        /\ used < 2 => \A k \in 0..w - 1 : newfmt[k] # "%"
        /\ \/ used = 0 /\ r \in {0, 1}
           \/ used = 1 /\ r \in {5, 6, 7}
           \/ used = 2 /\ r \in {9, 10, 11}
    BY <1>4, SizesAssumption DEF LogInv, LineInv
  <2>2. Copied(newfmt, newfmt', text, w, w', FMT_SZ)
    BY <1>0, <1>3, <1>4, WriteIs
  <2>. HIDE DEF text
  <2>3. /\ used < 2 => \A k \in 0..w' - 1 : newfmt'[k] # "%"
        /\ PercentsFrom(newfmt', w', user)
    <3>1. /\ (\A k \in 0..w - 1 : newfmt[k] # "%") => (\A k \in 0..w' - 1 : newfmt'[k] # "%")
          /\ PercentsFrom(newfmt, w, user) => PercentsFrom(newfmt', w', user)
      BY <1>3, <2>1, <2>2, PlainText
    <3>. QED  BY <2>1, <3>1
  <2>4. r < 11 /\ r # 1 /\ r # 7
    <3>1. At(1) = "%" /\ At(7) = "%"
      <4>1. Fmt = Template /\ Len(Fmt) = 11
        BY <1>4, StageFacts
      <4>2. Template[2] = "%" /\ Template[8] = "%"
        BY DEF Template
      <4>. QED  BY <4>1, <4>2 DEF At
    <3>. QED  BY <1>0, <1>4, <3>1, TemplateAt
  <2>5. \/ used' = 0 /\ r' \in {0, 1}
        \/ used' = 1 /\ r' \in {5, 6, 7}
        \/ used' = 2 /\ r' \in {9, 10, 11}
    BY <1>0, <2>1, <2>4
  <2>6. used' = used
    BY <1>0
  <2>. QED  BY <1>0, <1>3, <1>4, <2>3, <2>5, <2>6, LineTurn DEF text
<1>5. CASE stage = "buf"
  <2>1. Fmt = Text(newfmt)
    BY <1>5 DEF Fmt
  <2>2. r \in Nat /\ r' \in 0..Len(Text(newfmt)) /\ r' \in Nat /\ r <= r'
    BY <1>0, <1>1, <2>1
  <2>3. used' = used /\ used \in Nat /\ used <= Cardinality(Passed(Text(newfmt), r))
    BY <1>0, <1>5 DEF LogInv, MessageInv
  <2>4. /\ Cardinality(Passed(Text(newfmt), r)) <= Cardinality(Passed(Text(newfmt), r'))
        /\ Cardinality(Passed(Text(newfmt), r)) \in Nat /\ Cardinality(Passed(Text(newfmt), r')) \in Nat
    BY <1>1, <2>1, <2>2, PassedCount
  <2>5. used' \in Nat /\ used' <= Cardinality(Passed(Text(newfmt), r'))
    BY <2>3, <2>4
  <2>. QED  BY <1>0, <1>3, <1>5, <2>2, <2>5, MessageTurn
<1>. QED  BY <1>0, <1>4, <1>5

\* There is an argument for every conversion of the line.
LEMMA ArgumentLeft ==
  ASSUME LogInv, stage = "buf", r < Len(Fmt), At(r) = "%"
  PROVE  /\ used \in Nat /\ used < Len(args)
         /\ \A to \in Nat : r + 1 <= to => used + 1 <= Cardinality(Passed(Fmt, to))
<1>0. Fmt = Text(newfmt) /\ Fmt \in Seq(STRING) /\ Len(Fmt) \in Nat /\ r \in Nat
  BY StageFacts DEF Fmt
<1>1. used \in Nat /\ used <= Cardinality(Passed(Fmt, r)) /\ Cardinality(Percents(Fmt)) <= Len(args)
  BY <1>0 DEF LogInv, MessageInv
<1>2. Fmt[r + 1] = "%"
  BY <1>0 DEF At
<1>. DEFINE f == Fmt
<1>3. f \in Seq(STRING) /\ f[r + 1] = "%" /\ r < Len(f)
  BY <1>0, <1>2
<1>. HIDE DEF f
<1>4. ASSUME NEW to \in Nat, r + 1 <= to
      PROVE  used + 1 <= Cardinality(Passed(f, to))
  <2>1. Cardinality(Passed(f, r)) + 1 <= Cardinality(Passed(f, to))
    BY <1>0, <1>3, <1>4, PassedOneMore
  <2>2. Cardinality(Passed(f, r)) \in Nat /\ Cardinality(Passed(f, to)) \in Nat
    <3>1. r <= to
      BY <1>0, <1>4
    <3>. QED  BY <1>0, <1>3, <3>1, PassedCount
  <2>. QED  BY <1>1, <2>1, <2>2 DEF f
<1>5. used < Len(args)
  <2>1. used + 1 <= Cardinality(Passed(f, r + 1))
    BY <1>0, <1>4
  <2>2. /\ Cardinality(Passed(f, r + 1)) <= Cardinality(Percents(f))
        /\ Cardinality(Passed(f, r + 1)) \in Nat /\ Cardinality(Percents(f)) \in Nat
    <3>1. r + 1 \in Nat /\ r <= r + 1
      BY <1>0
    <3>. QED  BY <1>0, <1>3, <3>1, PassedCount, PercentsFinite
  <2>3. Cardinality(Percents(f)) <= Len(args)
    BY <1>1 DEF f
  <2>4. Len(args) \in Nat
    BY DEF LogInv, LogTyped
  <2>. QED  BY <1>1, <2>1, <2>2, <2>3, <2>4
<1>. QED  BY <1>1, <1>4, <1>5 DEF f

LEMMA ConvertKeeps ==
  ASSUME LogInv, Convert
  PROVE  LogInv'
<1>0. /\ stage \in {"newfmt", "buf"} /\ r < Len(Fmt) /\ At(r) = "%" /\ ~Malformed
      /\ Write(Conversion) /\ r' = SpecAt + 1 /\ used' = used + 1
      /\ UNCHANGED <<calls, stage, user, args, ts>>
  BY DEF Convert, Going
<1>1. Fmt \in Seq(STRING) /\ Len(Fmt) \in Nat /\ r \in Nat
  BY <1>0, StageFacts
<1>2. CASE stage = "newfmt"
  <2>1. /\ w \in Nat /\ FMT_SZ \in Nat /\ PercentsFrom(newfmt, w, user)
        /\ used < 2 => \A k \in 0..w - 1 : newfmt[k] # "%"
    BY <1>2, SizesAssumption DEF LogInv, LineInv
  <2>2. r \in {1, 7}
    <3>1. r \in 0..10
      <4>1. Len(Fmt) = 11
        BY <1>2, StageFacts
      <4>. QED  BY <1>0, <1>1, <4>1
    <3>. QED  BY <1>0, <1>2, <3>1, TemplateAt
  <2>3. CASE r = 1
    <3>1. SpecAt = 4 /\ used = 0 /\ Conversion \in Seq(Digits \cup {" "})
      BY <1>2, <2>3, TimestampConversion
    <3>. DEFINE text == Conversion
    <3>2. text \in Seq(STRING) /\ \A k \in 1..Len(text) : text[k] # "%"
      <4>. DEFINE S == Digits \cup {" "}
      <4>1. S \subseteq STRING /\ "%" \notin S
        BY DigitsAreText, CharactersAssumption
      <4>2. text \in Seq(S)
        BY <3>1
      <4>. HIDE DEF S, text
      <4>3. text \in Seq(STRING)
        BY <4>1, <4>2, SeqMonotonic
      <4>4. \A k \in 1..Len(text) : text[k] \in S
        BY <4>2
      <4>. QED  BY <4>1, <4>3, <4>4
    <3>3. Copied(newfmt, newfmt', text, w, w', FMT_SZ)
      BY <1>0, <1>2, <3>2, WriteIs
    <3>. HIDE DEF text
    <3>4. /\ (\A k \in 0..w - 1 : newfmt[k] # "%") => (\A k \in 0..w' - 1 : newfmt'[k] # "%")
          /\ PercentsFrom(newfmt, w, user) => PercentsFrom(newfmt', w', user)
      BY <2>1, <3>2, <3>3, PlainText
    <3>8. SpecAt = 4 /\ used = 0
      BY <3>1
    <3>5. \A k \in 0..w - 1 : newfmt[k] # "%"
      BY <2>1, <3>8
    <3>6. used' = 1 /\ r' \in {5, 6, 7}
      BY <1>0, <3>8
    <3>7. Write(text)
      BY <1>0 DEF text
    <3>. QED  BY <1>0, <1>2, <2>1, <3>2, <3>4, <3>5, <3>6, <3>7, LineTurn
  <2>4. CASE r = 7
    <3>1. SpecAt = 8 /\ used = 1 /\ Conversion = user
      BY <1>2, <2>4, UserConversion
    <3>2. user \in Seq(STRING) /\ Write(user)
      BY <1>0, <3>1 DEF LogInv, LogTyped
    <3>3. Copied(newfmt, newfmt', user, w, w', FMT_SZ)
      BY <1>2, <3>2, WriteIs
    <3>4. \A k \in 0..w - 1 : newfmt[k] # "%"
      BY <2>1, <3>1
    <3>5. PercentsFrom(newfmt', w', user)
      BY <2>1, <3>2, <3>3, <3>4, FormatText
    <3>6. used' = 2 /\ r' \in {9, 10, 11}
      BY <1>0, <3>1
    <3>. QED  BY <1>0, <1>2, <3>2, <3>5, <3>6, LineTurn
  <2>. QED  BY <2>2, <2>3, <2>4
<1>3. CASE stage = "buf"
  <2>1. Fmt = Text(newfmt) /\ Args = args
    BY <1>3 DEF Fmt, Args
  <2>2. used \in Nat /\ used < Len(args) /\ args \in Seq(Arguments)
    BY <1>0, <1>3, ArgumentLeft DEF LogInv, LogTyped
  <2>3. Args[used + 1] \in Arguments
    <3>1. used + 1 \in 1..Len(args)
      BY <2>2
    <3>. QED  BY <2>1, <2>2, <3>1
  <2>4. Conversion \in Seq(STRING)
    BY <1>0, <1>1, <2>3, ConversionType
  <2>5. SpecAt \in r + 1..Len(Fmt) /\ SpecAt < Len(Fmt)
    BY <1>0, <1>1, SpecPlace
  <2>6. r' \in 0..Len(Text(newfmt)) /\ r' \in Nat /\ r + 1 <= r'
    BY <1>0, <1>1, <2>1, <2>5
  <2>7. used' \in Nat /\ used' <= Cardinality(Passed(Text(newfmt), r'))
    BY <1>0, <1>3, <2>1, <2>2, <2>6, ArgumentLeft
  <2>. QED  BY <1>0, <1>3, <2>4, <2>6, <2>7, MessageTurn
<1>. QED  BY <1>0, <1>2, <1>3

LEMMA CallKeeps ==
  ASSUME LogInv, serial_log
  PROVE  LogInv'
<1>0. /\ stage = "none" /\ calls # <<>> /\ stage' = "newfmt"
      /\ user' = Head(calls).fmt /\ args' = Head(calls).args /\ calls' = Tail(calls)
      /\ UNCHANGED <<ts, r, w, used, newfmt, buf>>
  BY DEF serial_log
<1>1. calls \in Seq(LogCalls)
  BY DEF LogInv, LogTyped
<1>2. Head(calls) \in LogCalls /\ Tail(calls) \in Seq(LogCalls)
  <2>. DEFINE c == calls
              S == LogCalls
  <2>1. c \in Seq(S) /\ c # <<>>
    BY <1>0, <1>1
  <2>. HIDE DEF c, S
  <2>2. Head(c) \in S /\ Tail(c) \in Seq(S)
    BY <2>1, HeadTailProperties
  <2>. QED  BY <2>2 DEF c, S
<1>3. /\ user' \in Seq(STRING) /\ args' \in Seq(Arguments)
      /\ Cardinality(Percents(user')) <= Len(args')
  BY <1>0, <1>2 DEF LogCalls
<1>4. LogTyped'
  BY <1>0, <1>2, <1>3 DEF LogInv, LogTyped
<1>5. LineInv'
  <2>1. r' = 0 /\ w' = 0 /\ used' = 0
    BY <1>0 DEF LogInv, RestInv
  <2>2. \A k \in 0..w' - 1 : FALSE
    BY <2>1
  <2>3. PercentsFrom(newfmt', w', user')
    BY <2>2 DEF PercentsFrom
  <2>. QED  BY <2>1, <2>2, <2>3, SizesAssumption DEF LineInv
<1>6. RestInv' /\ MessageInv'
  BY <1>0 DEF RestInv, MessageInv
<1>. QED  BY <1>4, <1>5, <1>6 DEF LogInv

LEMMA ErrorKeeps ==
  ASSUME LogInv, SignalError
  PROVE  LogInv'
BY DEF LogInv, SignalError, LogTyped, RestInv, LineInv, MessageInv

\* The terminator is put into the buffer.
LEMMA EndType ==
  ASSUME LogInv, stage \in {"newfmt", "buf"}
  PROVE  End \in 0..Size - 1 /\ End <= w /\ Size \in Nat /\ w \in Nat
<1>1. Size \in Nat \ {0} /\ w \in 0..Size
  BY StageFacts
<1>. QED  BY <1>1 DEF End

LEMMA LineDoneKeeps ==
  ASSUME LogInv, LineDone
  PROVE  LogInv'
<1>0. /\ stage = "newfmt" /\ newfmt' = [newfmt EXCEPT ![End] = "NUL"] /\ stage' = "buf"
      /\ r' = 0 /\ w' = 0 /\ used' = 0 /\ UNCHANGED <<calls, user, args, ts, buf>>
  BY DEF LineDone
<1>1. End \in 0..FMT_SZ - 1 /\ End <= w /\ w \in Nat /\ FMT_SZ \in Nat
  BY <1>0, EndType, SizesAssumption DEF Size
<1>2. newfmt \in [0..FMT_SZ - 1 -> STRING] /\ user \in Seq(STRING) /\ args \in Seq(Arguments)
  BY DEF LogInv, LogTyped
<1>3. newfmt' \in [0..FMT_SZ - 1 -> STRING] /\ newfmt'[End] = "NUL"
  BY <1>0, <1>1, <1>2, CharactersAssumption
<1>4. LogTyped'
  BY <1>0, <1>3 DEF LogInv, LogTyped
<1>. DEFINE f == Text(newfmt')
<1>5. f \in Seq(STRING) /\ Len(f) \in 0..End /\ \A p \in 1..Len(f) : f[p] = newfmt'[p - 1]
  BY <1>1, <1>3, TextOf
<1>6. Cardinality(Percents(f)) <= Len(args)
  <2>1. PICK b \in Int : \A k \in 0..w - 1 : newfmt[k] = "%" => k - b \in Percents(user)
    BY <1>0 DEF LogInv, LineInv, PercentsFrom
  <2>2. ASSUME NEW p \in Percents(f)
        PROVE  p - (b + 1) \in Percents(user)
    <3>1. p \in 1..Len(f) /\ f[p] = "%"
      BY DEF Percents
    <3>. HIDE DEF f
    <3>2. p - 1 \in 0..w - 1 /\ p - 1 \in 0..FMT_SZ - 1 /\ p - 1 # End
      BY <1>1, <1>5, <3>1
    <3>3. newfmt'[p - 1] = newfmt[p - 1]
      BY <1>0, <1>2, <3>2
    <3>4. (p - 1) - b \in Percents(user)
      BY <1>5, <2>1, <3>1, <3>2, <3>3
    <3>5. p \in Int /\ (p - 1) - b = p - (b + 1)
      BY <1>5, <3>1
    <3>. QED  BY <3>4, <3>5
  <2>3. b + 1 \in Int
    OBVIOUS
  <2>. HIDE DEF f
  <2>4. Cardinality(Percents(f)) <= Cardinality(Percents(user))
    BY <1>2, <1>5, <2>2, <2>3, FewerPercents
  <2>5. Cardinality(Percents(user)) <= Len(args)
    BY DEF LogInv, LogTyped
  <2>6. Cardinality(Percents(f)) \in Nat /\ Cardinality(Percents(user)) \in Nat /\ Len(args) \in Nat
    BY <1>2, <1>5, PercentsFinite
  <2>. QED  BY <2>4, <2>5, <2>6
<1>7. MessageInv'
  <2>1. 0 \in 0..Len(f) /\ 0 \in 0..BUF_SZ
    BY <1>1, <1>5, SizesAssumption
  <2>2. Cardinality(Passed(f, 0)) \in Nat
    <3>. HIDE DEF f
    <3>. QED  BY <1>5, PassedCount
  <2>3. 0 <= Cardinality(Passed(f, 0))
    <3>. HIDE DEF f
    <3>. QED  BY <2>2
  <2>4. \E k \in 0..FMT_SZ - 1 : newfmt'[k] = "NUL"
    BY <1>1, <1>3
  <2>. QED  BY <1>0, <1>6, <2>1, <2>3, <2>4 DEF MessageInv
<1>8. RestInv' /\ LineInv'
  BY <1>0 DEF RestInv, LineInv
<1>. QED  BY <1>4, <1>7, <1>8 DEF LogInv

LEMMA MessageDoneKeeps ==
  ASSUME LogInv, MessageDone
  PROVE  LogInv' /\ data' \in Seq(STRING)
<1>0. /\ stage = "buf" /\ buf' = [buf EXCEPT ![End] = "NUL"] /\ stage' = "none"
      /\ uart_transmit(Text(buf')) /\ r' = 0 /\ w' = 0 /\ used' = 0
      /\ UNCHANGED <<calls, user, args, ts, newfmt>>
  BY DEF MessageDone
<1>1. End \in 0..BUF_SZ - 1 /\ BUF_SZ \in Nat
  BY <1>0, EndType, SizesAssumption DEF Size
<1>2. buf' \in [0..BUF_SZ - 1 -> STRING] /\ buf'[End] = "NUL"
  BY <1>0, <1>1, CharactersAssumption DEF LogInv, LogTyped
<1>3. Text(buf') \in Seq(STRING)
  BY <1>1, <1>2, TextOf
<1>4. LogTyped'
  BY <1>0, <1>2 DEF LogInv, LogTyped
<1>5. RestInv' /\ LineInv' /\ MessageInv'
  BY <1>0 DEF RestInv, LineInv, MessageInv
<1>. QED  BY <1>0, <1>3, <1>4, <1>5 DEF LogInv, uart_transmit

LEMMA SameLogKeeps ==
  ASSUME LogInv, UNCHANGED log
  PROVE  LogInv'
BY DEF LogInv, log, LogTyped, RestInv, LineInv, MessageInv

LEMMA InitLog == Init => LogInv
<1>. SUFFICES ASSUME Init PROVE LogInv
  OBVIOUS
<1>. USE DEF Init
<1>1. "u" \in STRING
  BY CharactersAssumption
<1>2. Cardinality(Percents(<<>>)) = 0
  <2>1. Percents(<<>>) = {}
    BY DEF Percents
  <2>. QED  BY <2>1, FS_EmptySet
<1>3. LogTyped
  BY <1>1, <1>2, ProgramsAssumption DEF LogTyped
<1>4. RestInv /\ LineInv /\ MessageInv
  BY DEF RestInv, LineInv, MessageInv
<1>. QED  BY <1>3, <1>4 DEF LogInv

LEMMA UartKeepsLog ==
  ASSUME LogInv, data \in Seq(STRING), (UartStep \/ Poll \/ Drain \/ GetsStuck) /\ UNCHANGED log
  PROVE  LogInv' /\ data' \in Seq(STRING)
<1>1. data' = data
  BY DEF UartStep, uart_init, Enable, DisableRx, uart_set_baudrate, ClockFailure, SetDataSize, Set,
     TransmitByte, TransmitReturns, Timeout, Poll, Drain, GetsStuck, uart
<1>. QED  BY <1>1, SameLogKeeps

\* The invariant holds throughout, and what is transmitted is text.
LEMMA LogInvariance == Spec => [](LogInv /\ data \in Seq(STRING))
<1>1. Init => LogInv /\ data \in Seq(STRING)
  BY InitLog DEF Init, UartInit
<1>2. LogInv /\ data \in Seq(STRING) /\ [Next]_vars => (LogInv /\ data \in Seq(STRING))'
  <2>. SUFFICES ASSUME LogInv, data \in Seq(STRING), [Next]_vars
                PROVE  LogInv' /\ data' \in Seq(STRING)
    OBVIOUS
  <2>1. CASE LogStep
    <3>1. CASE MessageDone
      BY <3>1, MessageDoneKeeps
    <3>2. CASE serial_log \/ Character \/ Convert \/ SignalError \/ LineDone
      <4>1. data' = data
        BY <3>2 DEF serial_log, Character, Convert, SignalError, LineDone, uart
      <4>2. LogInv'
        BY <3>2, CallKeeps, CharacterKeeps, ConvertKeeps, ErrorKeeps, LineDoneKeeps
      <4>. QED  BY <4>1, <4>2
    <3>. QED  BY <2>1, <3>1, <3>2 DEF LogStep
  <2>2. CASE (UartStep \/ Poll \/ Drain \/ GetsStuck) /\ UNCHANGED log
    BY <2>2, UartKeepsLog
  <2>3. CASE UNCHANGED vars
    <3>1. UNCHANGED log /\ data' = data
      BY <2>3 DEF vars, uart
    <3>. QED  BY <3>1, SameLogKeeps
  <2>. QED  BY <2>1, <2>2, <2>3 DEF Next, Core, Finished
<1>. QED  BY <1>1, <1>2, PTL DEF Spec

\* Vsnprintf() (debug.c:150) reads no format past its terminator, writes no buffer past its end, and
\* asks for no argument that was not passed, for buffers of every size, all time stamps, and all
\* calls whose arguments are as many as the conversions of the format.
THEOREM VsnprintfStaysInBounds == Spec => []InBounds
<1>1. ASSUME LogInv
      PROVE  InBounds
  <2>. SUFFICES ASSUME stage \in {"newfmt", "buf"}
                PROVE  /\ w \in 0..Size /\ r \in 0..Len(Fmt)
                       /\ Going /\ At(r) = "%" => SpecAt <= Len(Fmt) /\ (~Malformed => used < Len(Args))
    BY DEF InBounds
  <2>1. /\ Fmt \in Seq(STRING) /\ Len(Fmt) \in Nat /\ r \in 0..Len(Fmt) /\ r \in Nat
        /\ w \in 0..Size
    BY <1>1, StageFacts
  <2>2. ASSUME Going, At(r) = "%"
        PROVE  SpecAt <= Len(Fmt) /\ used < Len(Args)
    <3>1. r < Len(Fmt)
      BY <2>2 DEF Going
    <3>2. SpecAt <= Len(Fmt)
      <4>1. SpecAt \in r + 1..Len(Fmt)
        BY <2>1, <3>1, SpecPlace
      <4>. QED  BY <2>1, <4>1
    <3>3. CASE stage = "newfmt"
      <4>1. r \in {1, 7}
        <5>1. Len(Fmt) = 11
          BY <1>1, <3>3, StageFacts
        <5>2. r \in 0..10
          BY <2>1, <3>1, <5>1
        <5>. QED  BY <1>1, <2>2, <3>3, <5>2, TemplateAt
      <4>2. used \in {0, 1}
        BY <1>1, <3>3, <4>1, TimestampConversion, UserConversion
      <4>3. Len(Args) = 2
        BY <3>3 DEF Args
      <4>. QED  BY <3>2, <4>2, <4>3
    <3>4. CASE stage = "buf"
      BY <1>1, <2>2, <3>1, <3>2, <3>4, ArgumentLeft DEF Args
    <3>. QED  BY <3>3, <3>4
  <2>. QED  BY <2>1, <2>2
<1>. QED  BY <1>1, LogInvariance, PTL

-----------------------------------------------------------------------------
\* serial_log() (debug.c:231) calls uart_transmit() as any caller may, and with text: the log is read
\* as it was formatted.
THEOREM TheLogIsRead == Spec => UartSpec /\ []TypeOK /\ []LogIsReadable
<1>1. Init => UartInit
  BY DEF Init
<1>2. [Next]_vars /\ (data \in Seq(STRING))' => [UartNext]_uart
  <2>. SUFFICES ASSUME [Next]_vars, data' \in Seq(STRING) PROVE [UartNext]_uart
    OBVIOUS
  <2>1. CASE LogStep
    <3>1. CASE MessageDone
      <4>1. \E msg : uart_transmit(msg)
        BY <3>1 DEF MessageDone
      <4>2. uart_transmit(data')
        BY <4>1 DEF uart_transmit
      <4>. QED  BY <4>2 DEF UartNext, Caller
    <3>2. CASE serial_log \/ Character \/ Convert \/ SignalError \/ LineDone
      BY <3>2 DEF serial_log, Character, Convert, SignalError, LineDone
    <3>. QED  BY <2>1, <3>1, <3>2 DEF LogStep
  <2>2. CASE UartStep \/ Poll \/ Drain \/ GetsStuck
    BY <2>2 DEF UartNext
  <2>3. CASE Finished \/ UNCHANGED vars
    BY <2>3 DEF Finished, vars
  <2>. QED  BY <2>1, <2>2, <2>3 DEF Next, Core
<1>3. Spec /\ [](data \in Seq(STRING)) => UartSpec
  BY <1>1, <1>2, PTL DEF Spec, UartSpec
<1>. QED  BY <1>3, LogInvariance, TypeCorrect, NothingIsGarbled, PTL
=============================================================================
