----------------------------- MODULE SerialLog -----------------------------
(***************************************************************************)
(* serial_log() of bld/debug.c on top of the mini UART of Uart: the format *)
(* is put into a line with a time stamp, that line is used as a format in  *)
(* turn, and the result goes to uart_transmit().                           *)
(*                                                                         *)
(* Vsnprintf() takes one step per turn of its loop, while the transmitter  *)
(* still drains the message before.  Characters are strings of length one; *)
(* "CR", "LF" and "NUL" stand for themselves.  The two buffers are static, *)
(* and hold what an earlier call left.                                     *)
(***************************************************************************)
EXTENDS Uart, SequencesExt

CONSTANTS
  FMT_SZ,       \* sizeof(newfmt)
  BUF_SZ,       \* sizeof(buf)
  Timestamps,   \* values of timer_current()
  Programs      \* what a program logs, call by call: a format and its arguments, each of
                \* them as a number (num) and as a string (str)

ASSUME SizesAssumption == {FMT_SZ, BUF_SZ} \subseteq Nat \ {0}

VARIABLES
  calls,        \* the calls of serial_log() to come
  stage,        \* "newfmt" and "buf" name the buffer that Vsnprintf() fills
  user,         \* the format that serial_log() was called with
  args,         \* its arguments
  ts,           \* timer_current()
  r, w,         \* indices of Vsnprintf()
  used,         \* arguments that va_arg() has returned
  newfmt, buf

log == <<calls, stage, user, args, ts, r, w, used, newfmt, buf>>
vars == <<uart, log>>

Min2(a, b) == IF a < b THEN a ELSE b

\* The characters of a string in memory, up to its terminator.
Text(s) ==
  LET end == CHOOSE k \in DOMAIN s : s[k] = "NUL" /\ \A j \in DOMAIN s : j < k => s[j] # "NUL"
  IN  [k \in 1..end |-> s[k - 1]]

Template == <<"[", "%", "1", "0", "u", "]", " ", "%", "s", "CR", "LF">>

\* The format, the arguments and the size of the buffer of the current stage.
Fmt == IF stage = "newfmt" THEN Template ELSE Text(newfmt)
Args == IF stage = "newfmt" THEN <<[num |-> ts, str |-> <<>>], [num |-> 0, str |-> user]>> ELSE args
Size == IF stage = "newfmt" THEN FMT_SZ ELSE BUF_SZ

Init ==
  /\ UartInit
  /\ calls \in Programs /\ ts \in Timestamps
  /\ stage = "none" /\ user = <<>> /\ args = <<>>
  /\ r = 0 /\ w = 0 /\ used = 0
  /\ newfmt = [k \in 0..FMT_SZ - 1 |-> "u"] /\ buf = [k \in 0..BUF_SZ - 1 |-> "u"]

-----------------------------------------------------------------------------
(* Numbers.                                                                *)

hex_digits == <<"0", "1", "2", "3", "4", "5", "6", "7", "8", "9", "a", "b", "c", "d", "e", "f">>
DecimalDigits == {hex_digits[d] : d \in 1..10}
char_digit_to_int(c) == CHOOSE d \in 0..9 : hex_digits[d + 1] = c

\* left[k] is what is left of the number after k turns of the loop.  The digits come out last
\* one first, and are reversed.
uint_to_str_base(num, base) ==
  LET left[k \in 0..10] == IF k = 0 THEN num ELSE left[k - 1] \div base
      turns == CHOOSE k \in 0..10 : left[k] = 0 /\ (k > 0 => left[k - 1] # 0)
  IN  IF num = 0 THEN <<"0">> ELSE Reverse([k \in 1..turns |-> hex_digits[(left[k - 1] % base) + 1]])

str_to_int(s) ==
  LET val[k \in 0..Len(s)] == IF k = 0 THEN 0 ELSE 10 * val[k - 1] + char_digit_to_int(s[k])
  IN  val[Len(s)]

\* The characters that Vsnprintf() writes of its own accord are strings.  This holds of all
\* literals, but the provers do not know it.
ASSUME CharactersAssumption ==
  {hex_digits[d] : d \in 1..16} \cup {"[", "]", " ", "%", "s", "u", "x", "CR", "LF", "NUL"}
    \subseteq STRING

-----------------------------------------------------------------------------
(* Vsnprintf()                                                             *)

\* fmt[k], with the terminator and what is beyond it.
At(k) == IF k < Len(Fmt) THEN Fmt[k + 1] ELSE IF k = Len(Fmt) THEN "NUL" ELSE "beyond"

\* The conversion whose % is at r: where the pad character, the width and the specifier are.
PadAt == r + 1
ZeroPad == At(PadAt) = "0"
WidthAt == IF ZeroPad THEN PadAt + 1 ELSE PadAt

\* str_find_char_not_in_set(), -1 if digits are all that is left.
WidthLen ==
  LET ends == {k \in WidthAt..Len(Fmt) - 1 : At(k) \notin DecimalDigits}
  IN  IF ends = {} THEN -1 ELSE (CHOOSE k \in ends : \A j \in ends : k <= j) - WidthAt

SpecAt == IF WidthLen > 0 THEN WidthAt + WidthLen ELSE WidthAt

\* The checks that end in signal_error(ERROR_VSNPRINTF).
Malformed ==
  \/ WidthLen > 0 /\ (SpecAt >= Len(Fmt) \/ At(SpecAt) \notin {"u", "x"})
  \/ At(SpecAt) \notin {"u", "x", "s"}

field_width == IF WidthLen > 0 THEN str_to_int(SubSeq(Fmt, WidthAt + 1, WidthAt + WidthLen)) ELSE 0

sarg ==
  LET arg == Args[used + 1]
  IN  CASE At(SpecAt) = "u" -> uint_to_str_base(arg.num, 10)
        [] At(SpecAt) = "x" -> uint_to_str_base(arg.num, 16)
        [] At(SpecAt) = "s" -> arg.str

Repeat(c, times) == IF times > 0 THEN [k \in 1..times |-> c] ELSE <<>>

PrefixPadded ==
  Repeat(IF ZeroPad THEN "0" ELSE " ", field_width - Len(sarg))
    \o (IF At(SpecAt) = "x" THEN <<"0", "x">> ELSE <<>>) \o sarg

\* What a conversion writes: a prefix that does not count for the width, the padding, the argument.
Conversion ==
  LET text == sarg
      padding == Repeat(IF ZeroPad THEN "0" ELSE " ", field_width - Len(text))
  IN  (IF At(SpecAt) = "x" THEN <<"0", "x">> ELSE <<>>) \o padding \o text

NoLimit(text) == Len(text)

\* How much of a text there is room for.
Room(text) == Min2(Size - w, Len(text))

\* Text is copied to the buffer as far as it goes.
Written(text, dest) ==
  [k \in DOMAIN dest |-> IF w <= k /\ k < w + Room(text) THEN text[k - w + 1] ELSE dest[k]]

Write(text) ==
  /\ newfmt' = IF stage = "newfmt" THEN Written(text, newfmt) ELSE newfmt
  /\ buf' = IF stage = "buf" THEN Written(text, buf) ELSE buf
  /\ w' = w + Room(text)

Going == stage \in {"newfmt", "buf"} /\ r < Len(Fmt) /\ w < Size

serial_log ==
  /\ pc = "ready" /\ stage = "none" /\ calls # <<>>
  /\ stage' = "newfmt"
  /\ user' = Head(calls).fmt /\ args' = Head(calls).args /\ calls' = Tail(calls)
  /\ UNCHANGED <<uart, ts, r, w, used, newfmt, buf>>

Character ==
  /\ Going /\ At(r) # "%"
  /\ Write(<<At(r)>>) /\ r' = r + 1
  /\ UNCHANGED <<uart, calls, stage, user, args, ts, used>>

Convert ==
  /\ Going /\ At(r) = "%" /\ ~Malformed
  /\ \E text \in {Conversion} : Write(text)
  /\ r' = SpecAt + 1 /\ used' = used + 1
  /\ UNCHANGED <<uart, calls, stage, user, args, ts>>

SignalError ==
  /\ Going /\ At(r) = "%" /\ Malformed
  /\ stage' = "halt"
  /\ UNCHANGED <<uart, calls, user, args, ts, r, w, used, newfmt, buf>>

\* The place of the terminator.
End == IF w < Size THEN w ELSE Size - 1

\* The end of Vsnprintf() in serial_log()'s two stages.
LineDone ==
  /\ stage = "newfmt" /\ ~Going
  /\ newfmt' = [newfmt EXCEPT ![End] = "NUL"] /\ stage' = "buf"
  /\ r' = 0 /\ w' = 0 /\ used' = 0
  /\ UNCHANGED <<uart, calls, user, args, ts, buf>>

MessageDone ==
  /\ stage = "buf" /\ ~Going
  /\ buf' = [buf EXCEPT ![End] = "NUL"] /\ stage' = "none"
  /\ uart_transmit(Text(buf'))
  /\ r' = 0 /\ w' = 0 /\ used' = 0
  /\ UNCHANGED <<calls, user, args, ts, newfmt>>

LogStep == serial_log \/ Character \/ Convert \/ SignalError \/ LineDone \/ MessageDone

Core == LogStep \/ (UartStep /\ UNCHANGED log)

\* Nothing is left to be logged, or signal_error() has taken over.
Finished ==
  /\ stage = "halt" \/ pc = "halt" \/ (pc = "ready" /\ stage = "none" /\ calls = <<>>)
  /\ UNCHANGED vars

Next == Core \/ ((Poll \/ Drain \/ GetsStuck) /\ UNCHANGED log) \/ Finished

\* The core goes on, and so does the transmitter until it is stuck.
Spec == Init /\ [][Next]_vars /\ WF_vars(Core) /\ WF_vars(Drain /\ UNCHANGED log)

-----------------------------------------------------------------------------
(* What the log is to look like, read off the comment at debug.h:10-28.    *)

RefDigits(num, base) ==
  LET len == CHOOSE l \in 1..10 : num < base ^ l /\ \A k \in 1..l - 1 : num >= base ^ k
  IN  [k \in 1..len |-> hex_digits[((num \div (base ^ (len - k))) % base) + 1]]

\* The specifier of the conversion at position p of a format, and the digits in between.
SpecOf(f, p) ==
  CHOOSE q \in p + 1..Len(f) :
    f[q] \notin DecimalDigits /\ \A k \in p + 1..q - 1 : f[k] \in DecimalDigits
WidthOf(f, p) == SubSeq(f, p + 1, SpecOf(f, p) - 1)
Percents(f) == {p \in 1..Len(f) : f[p] = "%"}

\* Arguments are 32 bit numbers or strings, and a caller passes one for each conversion.
uint32 == {num \in Nat : num \div 65536 < 65536}
Arguments == [num : uint32, str : Seq(STRING)]
LogCalls ==
  {call \in [fmt : Seq(STRING), args : Seq(Arguments)] :
     Cardinality(Percents(call.fmt)) <= Len(call.args)}

ASSUME ProgramsAssumption == Timestamps \subseteq uint32 /\ Programs \subseteq Seq(LogCalls)

WellFormed(f) ==
  \A p \in Percents(f) :
    \E q \in p + 1..Len(f) :
      /\ \A k \in p + 1..q - 1 : f[k] \in DecimalDigits
      /\ f[q] \in {"u", "x"} \/ (f[q] = "s" /\ SubSeq(f, p + 1, q - 1) \in {<<>>, <<"0">>})

RefConversion(f, p, arg) ==
  LET spec == f[SpecOf(f, p)]
      width == WidthOf(f, p)
      zero == width # <<>> /\ Head(width) = "0"
      text == CASE spec = "u" -> RefDigits(arg.num, 10)
                [] spec = "x" -> RefDigits(arg.num, 16)
                [] spec = "s" -> arg.str
  IN  (IF spec = "x" THEN <<"0", "x">> ELSE <<>>)
        \o Repeat(IF zero THEN "0" ELSE " ", str_to_int(width) - Len(text)) \o text

\* A format of which every conversion is replaced by its argument.
Reference(f, as) ==
  FlattenSeq([k \in 1..Len(f) |->
    IF k \in Percents(f) THEN RefConversion(f, k, as[Cardinality({p \in Percents(f) : p <= k})])
    ELSE IF \E p \in Percents(f) : p < k /\ k <= SpecOf(f, p) THEN <<>> ELSE <<f[k]>>])

Cut(text, size) == SubSeq(text, 1, Min2(Len(text), size - 1))

Line ==
  <<"[">> \o RefConversion(<<"%", "1", "0", "u">>, 1, [num |-> ts]) \o <<"]", " ">> \o user
    \o <<"CR", "LF">>

-----------------------------------------------------------------------------
(* Properties.                                                             *)

\* Vsnprintf() reads no format past its terminator and writes no buffer past its end, at a %
\* at the end of a format and at a buffer that is full too.
InBounds ==
  stage \in {"newfmt", "buf"} =>
    /\ w \in 0..Size /\ r \in 0..Len(Fmt)
    /\ Going /\ At(r) = "%" => SpecAt <= Len(Fmt) /\ (~Malformed => used < Len(Args))

\* What is handed to uart_transmit() is the format, completed, put in a line, and cut to the
\* sizes of the buffers; in particular the buffers are terminated, and nothing of an earlier
\* message shows.  The log is the end of the program only for a format that is wrong ("unsupported
\* or unfinished conversion specifier", debug.c:144), and then always, unless the line is full before.
\* A format that newfmt cuts within one of its conversions is such a format (debug.c:242).
LogsWhatItShould ==
  [][LET fmt == Cut(Line, FMT_SZ)
     IN  /\ MessageDone => IF WellFormed(fmt) THEN data' = Cut(Reference(fmt, args), BUF_SZ)
                                              ELSE Len(data') = BUF_SZ - 1
         /\ SignalError => ~WellFormed(fmt)]_vars

\* A call of serial_log() ends: it returns, or the program ends in signal_error(), even if the
\* transmitter does not go on.
LogCallEnds == (stage = "newfmt") ~> (stage = "halt" \/ pc = "halt" \/ (pc = "ready" /\ stage = "none"))
=============================================================================
