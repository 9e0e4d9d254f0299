---------------------------- MODULE SdInitProofs ----------------------------
(***************************************************************************)
(* Proofs about SdInit, for every clock rate that an 8 bit divider can     *)
(* reach, every address of the card and any number of tries.  The          *)
(* inductive invariant says, step by step of sd_init() and sd_reset(),     *)
(* what card and host controller have been brought to.                     *)
(***************************************************************************)
EXTENDS SdInit, TLAPS

\* The steps before the first command, at the slow clock, and at the fast one.
Before      == {"assert_vc", "reset", "reset_wait", "power", "clock_ident", "cmd_irpts", "cmd0"}
Identifying == {"cmd_irpts", "cmd0", "cmd8", "acmd41_inquiry", "acmd41", "cmd2", "cmd3",
                "clock_default"}
Selected    == {"cmd7", "cmd13", "transfer_irpts", "acmd51", "acmd6", "ready"}

\* The two waits for the clock.
SlowWait == pc = "clock_wait" /\ rate = IDENTIFICATION_HZ
FastWait == pc = "clock_wait" /\ rate = DEFAULT_SPEED_HZ

\* The host controller.
HostInv ==
  /\ pc \in Waits \cup {"stopped"} \/ pending = "none"
  /\ pc \in {"reset_wait", "reset_again_wait"} =>
       pending \in {"none", "reset"} /\ (pending = "none" => host = ResetHost)
  /\ pc = "clock_wait" =>
       /\ pending \in {"none", "clock"} /\ (SlowWait \/ FastWait)
       /\ host.freq_sel = sd_8bit_clock_divider(BASE_HZ, rate)
  /\ pc \in {"clock_ident", "clock_wait"} \cup Identifying \cup Selected => host.power
  /\ pc \in {"power", "clock_ident", "clock_wait"} \cup Identifying \cup (Selected \ {"ready"}) =>
       host.width = 1
  /\ pc \in Identifying => host.hz \in 1..IDENTIFICATION_HZ
  /\ pc \in Selected => host.hz \in IDENTIFICATION_HZ + 1..DEFAULT_SPEED_HZ
  /\ pc \in (Identifying \ {"cmd_irpts"}) \cup Selected \/ FastWait => CmdIrpts \subseteq host.mask
  /\ pc \in {"acmd51", "acmd6", "ready"} => TransferIrpts \subseteq host.mask

\* The card.
CardInv ==
  /\ pc \in Before \/ SlowWait => cstate \in {"idle", "stby", "tran"}
  /\ pc \in {"cmd8", "acmd41_inquiry", "acmd41"} => cstate = "idle"
  /\ pc = "cmd2" => cstate = "ready"
  /\ pc = "cmd3" => cstate = "ident"
  /\ pc \in {"clock_default", "cmd7"} \/ FastWait => cstate = "stby"
  /\ pc \in {"cmd13", "transfer_irpts", "acmd51", "acmd6", "ready"} => cstate = "tran"
  /\ pc \in (Identifying \ {"cmd_irpts", "cmd0"}) \cup (Selected \ {"ready"}) \/ FastWait => cwidth = 1
  /\ pc \in {"reset_again", "reset_again_wait"} => cstate = "idle" /\ cwidth = 1 /\ crca = 0

\* What the driver knows of the card.
KnownInv ==
  /\ pc \in {"clock_default"} \cup Selected \/ FastWait => card.rca = crca
  /\ pc \in {"cmd2", "cmd3", "clock_default"} \cup Selected \/ FastWait =>
       facts.vdd /\ card.sdhc_or_sdxc = facts.hc
  /\ pc \in {"transfer_irpts", "acmd51", "acmd6", "ready"} => card.state = "tran"
  /\ pc \in {"acmd6", "ready"} => card.cmd23_supported = facts.cmd23
  /\ pc = "acmd6" => facts.four
  /\ pc = "ready" => host.width = cwidth /\ (facts.four => host.width = 4)

\* After sd_reset() nothing changes any more.
ResetInv ==
  result = "RESET" =>
    /\ pc = "stopped" /\ pending = "none"
    /\ host = ResetHost /\ cstate = "idle" /\ cwidth = 1 /\ crca = 0

IInv == TypeOK /\ HostInv /\ CardInv /\ KnownInv /\ ResetInv /\ NeverOutOfTurn

-----------------------------------------------------------------------------
(* The clock.                                                              *)

Powers == {2^i : i \in 0..28}

\* The powers of two that a divider of 8 bits can stand for.
Small == {1, 2, 4, 8, 16, 32, 64, 128, 256}

\* The powers of two are the small ones and greater ones.
LEMMA PowersOfTwo ==
  /\ Small \subseteq Powers
  /\ \A d \in Powers : d \in Nat /\ (d \in Small \/ d > 256)
<1>. DEFINE P(i) == 2^i
<1>1. /\ P(0) = 1 /\ P(1) = 2 /\ P(2) = 4 /\ P(3) = 8 /\ P(4) = 16 /\ P(5) = 32 /\ P(6) = 64
      /\ P(7) = 128 /\ P(8) = 256
  OBVIOUS
<1>2. /\ P(9) = 512 /\ P(10) = 1024 /\ P(11) = 2048 /\ P(12) = 4096 /\ P(13) = 8192
      /\ P(14) = 16384 /\ P(15) = 32768 /\ P(16) = 65536 /\ P(17) = 131072 /\ P(18) = 262144
      /\ P(19) = 524288 /\ P(20) = 1048576 /\ P(21) = 2097152 /\ P(22) = 4194304
      /\ P(23) = 8388608 /\ P(24) = 16777216 /\ P(25) = 33554432 /\ P(26) = 67108864
      /\ P(27) = 134217728 /\ P(28) = 268435456
  OBVIOUS
<1>3. Powers = {P(i) : i \in 0..28}
  BY Zenon DEF Powers
<1>. HIDE DEF P
<1>4. \A i \in 0..28 : P(i) \in Nat /\ (P(i) \in Small \/ P(i) > 256)
  BY <1>1, <1>2 DEF Small
<1>5. \A d \in Small : \E i \in 0..28 : d = P(i)
  BY <1>1 DEF Small
<1>. QED  BY <1>3, <1>4, <1>5, Zenon

\* The loop ends at the first divisor that makes the clock slow enough.
LEMMA LeastDivisor ==
  ASSUME NEW base \in Nat, NEW target \in Nat, target < base, base \div 256 <= target
  PROVE  LET d == Min({x \in Powers : base \div x <= target})
         IN  /\ d \in Small \ {1}
             /\ base \div d <= target
             /\ ~(base \div (d \div 2) <= target)
<1>. DEFINE S == {x \in Powers : base \div x <= target}
<1>0. 256 \in S
  BY PowersOfTwo DEF Small
<1>1. \A x \in S : x \in Small \/ x > 256
  BY PowersOfTwo
<1>2. \A x \in Small : x \in S <=> base \div x <= target
  BY PowersOfTwo
<1>3. ~(base \div 1 <= target)
  OBVIOUS
<1>4. \E d \in S : \A x \in S : d <= x
  <2>1. \A x \in S : x \in Nat
    BY PowersOfTwo
  <2>. HIDE DEF S
  <2>. QED  BY <1>0, <1>1, <2>1 DEF Small
<1>. DEFINE m == Min(S)
<1>5. m \in S /\ \A x \in S : m <= x
  BY <1>4, Zenon DEF Min
<1>6. m \in Small
  <2>. HIDE DEF m
  <2>. QED  BY <1>0, <1>1, <1>5, PowersOfTwo
<1>7. m # 1
  BY <1>2, <1>3, <1>5
<1>8. m \div 2 \in Small /\ m \div 2 < m
  <2>. HIDE DEF m
  <2>. QED  BY <1>6, <1>7 DEF Small
<1>9. ~(m \div 2 \in S)
  <2>. HIDE DEF m, S
  <2>. QED  BY <1>5, <1>6, <1>8 DEF Small
<1>10. ~(base \div (m \div 2) <= target)
  <2>. HIDE DEF m, S
  <2>. QED  BY <1>2, <1>8, <1>9, Zenon
<1>11. base \div m <= target
  <2>. HIDE DEF m
  <2>. QED  BY <1>5
<1>. QED
  BY <1>6, <1>7, <1>10, <1>11, Zenon

\* The divider fits its field, and the clock that it gives is not faster than the rate asked
\* for, but at least half as fast.
LEMMA Divider ==
  ASSUME NEW target \in Nat \ {0}, target < BASE_HZ, BASE_HZ \div 256 <= target
  PROVE  LET n == sd_8bit_clock_divider(BASE_HZ, target)
         IN  /\ n \in 0..255
             /\ DividedClock(n) \in 1..target
             /\ 2 * DividedClock(n) >= target
<1>. DEFINE d == Min({x \in Powers : BASE_HZ \div x <= target})
            n == d \div 2
<1>1. BASE_HZ \in Nat
  BY ClockAssumption
<1>2. /\ d \in Small \ {1}
      /\ BASE_HZ \div d <= target
      /\ ~(BASE_HZ \div (d \div 2) <= target)
  BY <1>1, LeastDivisor
<1>3. n = sd_8bit_clock_divider(BASE_HZ, target)
  BY Zenon DEF sd_8bit_clock_divider, Powers
<1>. HIDE DEF d
<1>4. n \in 0..255 /\ n # 0 /\ 2 * n = d
  BY <1>2 DEF Small
<1>5. DividedClock(n) = (BASE_HZ + d - 1) \div d
  BY <1>4, Zenon DEF DividedClock
<1>a. PICK k \in Nat : BASE_HZ = 256 * k
  BY <1>1, ClockAssumption
<1>b. (BASE_HZ + d - 1) \div d = BASE_HZ \div d
  BY <1>2, <1>a DEF Small
<1>6. BASE_HZ \div d \in 1..target /\ 2 * (BASE_HZ \div d) >= target
  <2>1. CASE d = 2
    BY <1>1, <1>2, <2>1
  <2>2. CASE d = 4
    BY <1>1, <1>2, <2>2
  <2>3. CASE d = 8
    BY <1>1, <1>2, <2>3
  <2>4. CASE d = 16
    BY <1>1, <1>2, <2>4
  <2>5. CASE d = 32
    BY <1>1, <1>2, <2>5
  <2>6. CASE d = 64
    BY <1>1, <1>2, <2>6
  <2>7. CASE d = 128
    BY <1>1, <1>2, <2>7
  <2>8. CASE d = 256
    BY <1>1, <1>2, <2>8
  <2>. QED  BY <1>2, <2>1, <2>2, <2>3, <2>4, <2>5, <2>6, <2>7, <2>8 DEF Small
<1>. HIDE DEF n
<1>7. n \in 0..255 /\ DividedClock(n) \in 1..target /\ 2 * DividedClock(n) >= target
  BY <1>4, <1>5, <1>6, <1>b
<1>. QED  BY <1>3, <1>7, Zenon

-----------------------------------------------------------------------------
(* The initial states, and the steps of the host controller.               *)

\* What the driver does to the registers.
LEMMA ResetHostIsOne == ResetHost \in Hosts /\ ResetHost.width = 1
BY ClockAssumption DEF ResetHost, Hosts

\* sd_supply_bus_power() touches the power bit alone.
LEMMA PoweredHost ==
  ASSUME NEW h \in Hosts
  PROVE  LET k == [h EXCEPT !.power = TRUE]
         IN  k \in Hosts /\ k.power = TRUE /\ k.width = h.width
BY DEF Hosts

\* The clock that is given to the card touches no other register.
LEMMA ClockedHost ==
  ASSUME NEW h \in Hosts, NEW hz \in 0..BASE_HZ
  PROVE  LET k == [h EXCEPT !.hz = hz]
         IN  /\ k \in Hosts /\ k.power = h.power /\ k.width = h.width /\ k.mask = h.mask
             /\ k.freq_sel = h.freq_sel /\ k.hz = hz
BY DEF Hosts

\* Nor does the clock divider, with which the clock is turned off.
LEMMA DividedHost ==
  ASSUME NEW h \in Hosts, NEW n \in 0..255
  PROVE  LET k == [h EXCEPT !.hz = 0, !.freq_sel = n]
         IN  /\ k \in Hosts /\ k.power = h.power /\ k.width = h.width /\ k.mask = h.mask
             /\ k.freq_sel = n
<1>. DEFINE k == [h EXCEPT !.hz = 0, !.freq_sel = n]
            j == [h EXCEPT !.hz = 0]
<1>1. 0 \in 0..BASE_HZ
  BY ClockAssumption
<1>2. j \in Hosts /\ j.power = h.power /\ j.width = h.width /\ j.mask = h.mask
  BY <1>1, ClockedHost
<1>3. k = [j EXCEPT !.freq_sel = n]
  OBVIOUS
<1>. HIDE DEF j
<1>. QED  BY <1>2, <1>3 DEF Hosts

\* Interrupts are added to those that are enabled.
LEMMA EnabledHost ==
  ASSUME NEW h \in Hosts, NEW m \in {CmdIrpts, TransferIrpts}
  PROVE  LET k == [h EXCEPT !.mask = @ \cup m]
         IN  /\ k \in Hosts /\ k.power = h.power /\ k.width = h.width /\ k.hz = h.hz
             /\ k.mask = h.mask \cup m
<1>. DEFINE M == CmdIrpts \cup TransferIrpts
            k == [h EXCEPT !.mask = @ \cup m]
<1>1. h.mask \in SUBSET M
  BY DEF Hosts
<1>2. h.mask \cup m \in SUBSET M
  BY <1>1
<1>3. k = [h EXCEPT !.mask = h.mask \cup m]
  OBVIOUS
<1>. QED
  <2>. HIDE DEF M
  <2>. QED  BY <1>2, <1>3 DEF Hosts, M

\* The data width is a field of its own.
LEMMA WideHost ==
  ASSUME NEW h \in Hosts
  PROVE  LET k == [h EXCEPT !.width = 4]
         IN  /\ k \in Hosts /\ k.power = h.power /\ k.width = 4 /\ k.mask = h.mask /\ k.hz = h.hz
BY DEF Hosts

\* The registers as the firmware may leave them.
LEMMA FirmwareHostIsOne ==
  [power |-> TRUE, width |-> 4, mask |-> CmdIrpts \cup TransferIrpts, freq_sel |-> 2,
   hz |-> DEFAULT_SPEED_HZ] \in Hosts
BY ClockAssumption DEF Hosts

\* The states in which sd_init() may find card and controller.
LEMMA InitIInv == Init => IInv
<1>. SUFFICES ASSUME Init PROVE IInv
  OBVIOUS
<1>1. TypeOK
  <2>1. host \in Hosts
    BY ResetHostIsOne, FirmwareHostIsOne DEF Init
  <2>2. card \in Cards
    BY DEF Init, NoCard, Cards
  <2>. QED  BY <2>1, <2>2, TriesAssumption DEF Init, TypeOK, Steps, Results
<1>2. HostInv
  BY DEF Init, HostInv, Waits, Identifying, Selected, FastWait
<1>3. CardInv
  BY DEF Init, CardInv, Before, Identifying, Selected, FastWait
<1>4. KnownInv
  BY DEF Init, KnownInv, Selected, FastWait
<1>5. ResetInv /\ NeverOutOfTurn
  BY DEF Init, ResetInv, NeverOutOfTurn
<1>. QED  BY <1>1, <1>2, <1>3, <1>4, <1>5 DEF IInv

\* No state of the controller is relied on before it is reset.
LEMMA AssertVcStep == IInv /\ sd_assert_vc_init => IInv'
<1>. SUFFICES ASSUME IInv, sd_assert_vc_init PROVE IInv'
  OBVIOUS
<1>. USE DEF sd_assert_vc_init, Stop, thecard
<1>1. TypeOK'
  <2>1. pc' \in Steps /\ result' \in Results
    BY DEF IInv, TypeOK, Steps, Results
  <2>. QED  BY <2>1 DEF IInv, TypeOK
<1>2. HostInv'
  BY DEF IInv, HostInv, Waits, Identifying, Selected, FastWait
<1>3. CardInv'
  BY DEF IInv, CardInv, Before, Identifying, Selected, SlowWait, FastWait
<1>4. KnownInv'
  BY DEF IInv, KnownInv, Selected, FastWait
<1>5. ResetInv' /\ NeverOutOfTurn'
  BY DEF IInv, ResetInv, NeverOutOfTurn
<1>. QED  BY <1>1, <1>2, <1>3, <1>4, <1>5 DEF IInv

\* Both resets begin with the controller idle.
LEMMA ResetHostStep == IInv /\ sd_reset_host => IInv'
<1>. SUFFICES ASSUME IInv, sd_reset_host PROVE IInv'
  OBVIOUS
<1>. USE DEF sd_reset_host, thecard
<1>1. TypeOK'
  BY DEF IInv, TypeOK, Steps, Results
<1>2. HostInv'
  BY DEF IInv, HostInv, Waits, Identifying, Selected, FastWait
<1>3. CardInv'
  BY DEF IInv, CardInv, Before, Identifying, Selected, SlowWait, FastWait
<1>4. KnownInv'
  BY DEF IInv, KnownInv, Selected, FastWait
<1>5. ResetInv' /\ NeverOutOfTurn'
  BY DEF IInv, ResetInv, NeverOutOfTurn
<1>. QED  BY <1>1, <1>2, <1>3, <1>4, <1>5 DEF IInv

\* The wait for the reset ends with the registers reset.
LEMMA ResetHostDoneStep == IInv /\ sd_reset_host_done => IInv'
<1>. SUFFICES ASSUME IInv, sd_reset_host_done PROVE IInv'
  OBVIOUS
<1>. USE DEF sd_reset_host_done, thecard
<1>1. TypeOK'
  BY DEF IInv, TypeOK, Steps, Results
<1>2. HostInv'
  BY DEF IInv, HostInv, Waits, Identifying, Selected, FastWait, ResetHost
<1>3. CardInv'
  BY DEF IInv, CardInv, Before, Identifying, Selected, SlowWait, FastWait
<1>4. KnownInv'
  BY DEF IInv, KnownInv, Selected, FastWait
<1>5. ResetInv' /\ NeverOutOfTurn'
  BY DEF IInv, ResetInv, NeverOutOfTurn, HostInv, CardInv
<1>. QED  BY <1>1, <1>2, <1>3, <1>4, <1>5 DEF IInv

\* Power, on a controller that was reset.
LEMMA BusPowerStep == IInv /\ sd_supply_bus_power => IInv'
<1>. SUFFICES ASSUME IInv, sd_supply_bus_power PROVE IInv'
  OBVIOUS
<1>. USE DEF sd_supply_bus_power, thecard
<1>0. pc' = "clock_ident" /\ result' = result
  BY DEF Proceed, Then
<1>a. host' \in Hosts /\ host'.power = TRUE /\ host'.width = host.width
  BY PoweredHost DEF IInv, TypeOK
<1>. HIDE DEF sd_supply_bus_power
<1>b. UNCHANGED <<rate, tries, card, pending, vc, facts, thecard, broken>> /\ pc = "power"
  BY DEF sd_supply_bus_power
<1>1. TypeOK'
  BY <1>0, <1>a, <1>b DEF IInv, TypeOK, Steps, Results
<1>2. HostInv'
  BY <1>0, <1>a, <1>b DEF IInv, TypeOK, HostInv, Waits, Identifying, Selected, FastWait
<1>3. CardInv'
  BY <1>0, <1>a, <1>b DEF IInv, CardInv, Before, Identifying, Selected, SlowWait, FastWait
<1>4. KnownInv'
  BY <1>0, <1>a, <1>b DEF IInv, KnownInv, Selected, FastWait
<1>5. ResetInv' /\ NeverOutOfTurn'
  BY <1>0, <1>a, <1>b DEF IInv, ResetInv, NeverOutOfTurn
<1>. QED  BY <1>1, <1>2, <1>3, <1>4, <1>5 DEF IInv

\* Both rates are ones that the divider reaches, and the fast one stays above the slow one.
LEMMA Rates ==
  /\ IDENTIFICATION_HZ # DEFAULT_SPEED_HZ /\ IDENTIFICATION_HZ \in Nat /\ DEFAULT_SPEED_HZ \in Nat
  /\ \A r \in {IDENTIFICATION_HZ, DEFAULT_SPEED_HZ} :
       /\ sd_8bit_clock_divider(BASE_HZ, r) \in 0..255
       /\ DividedClock(sd_8bit_clock_divider(BASE_HZ, r)) \in 1..r
       /\ r <= BASE_HZ
  /\ DividedClock(sd_8bit_clock_divider(BASE_HZ, DEFAULT_SPEED_HZ)) > IDENTIFICATION_HZ
<1>1. \A r \in {IDENTIFICATION_HZ, DEFAULT_SPEED_HZ} :
        r \in Nat \ {0} /\ r < BASE_HZ /\ BASE_HZ \div 256 <= r
  BY ClockAssumption
<1>2. \A r \in {IDENTIFICATION_HZ, DEFAULT_SPEED_HZ} :
        LET n == sd_8bit_clock_divider(BASE_HZ, r)
        IN  n \in 0..255 /\ DividedClock(n) \in 1..r /\ 2 * DividedClock(n) >= r
  BY <1>1, Divider, Zenon
<1>. DEFINE f == DividedClock(sd_8bit_clock_divider(BASE_HZ, DEFAULT_SPEED_HZ))
<1>3. f \in 1..DEFAULT_SPEED_HZ /\ 2 * f >= DEFAULT_SPEED_HZ
  BY <1>2, Zenon
<1>4. f > IDENTIFICATION_HZ
  <2>. HIDE DEF f
  <2>. QED  BY <1>3, ClockAssumption
<1>5. \A r \in {IDENTIFICATION_HZ, DEFAULT_SPEED_HZ} : r <= BASE_HZ
  BY ClockAssumption
<1>6. IDENTIFICATION_HZ # DEFAULT_SPEED_HZ /\ IDENTIFICATION_HZ \in Nat /\ DEFAULT_SPEED_HZ \in Nat
  BY ClockAssumption
<1>. QED  BY <1>2, <1>4, <1>5, <1>6, Zenon

\* Each rate is asked for at its own point of the initialisation.
LEMMA ClockStep == IInv /\ sd_supply_clock => IInv'
<1>. SUFFICES ASSUME IInv, sd_supply_clock PROVE IInv'
  OBVIOUS
<1>. USE DEF sd_supply_clock, thecard
<1>0. /\ pc' = "clock_wait" /\ rate' \in {IDENTIFICATION_HZ, DEFAULT_SPEED_HZ}
      /\ pc = "clock_ident" <=> rate' = IDENTIFICATION_HZ
      /\ pc = "clock_default" <=> rate' = DEFAULT_SPEED_HZ
  BY Rates
<1>a. /\ host' \in Hosts /\ host'.power = host.power /\ host'.width = host.width
      /\ host'.mask = host.mask /\ host'.freq_sel = sd_8bit_clock_divider(BASE_HZ, rate')
  BY <1>0, Rates, DividedHost DEF IInv, TypeOK
<1>b. /\ pc \in {"clock_ident", "clock_default"} /\ pending' = "clock"
      /\ UNCHANGED <<tries, card, result, vc, facts, thecard, broken>>
  OBVIOUS
<1>. HIDE DEF sd_supply_clock
<1>1. TypeOK'
  BY <1>0, <1>a, <1>b DEF IInv, TypeOK, Steps
<1>2. HostInv'
  BY <1>0, <1>a, <1>b, Rates DEF IInv, TypeOK, HostInv, Waits, Identifying, Selected, FastWait,
         SlowWait
<1>3. CardInv'
  BY <1>0, <1>b, Rates DEF IInv, CardInv, Before, Identifying, Selected, SlowWait, FastWait
<1>4. KnownInv'
  BY <1>0, <1>b, Rates DEF IInv, KnownInv, Selected, FastWait
<1>5. ResetInv' /\ NeverOutOfTurn'
  BY <1>0, <1>b DEF IInv, ResetInv, NeverOutOfTurn
<1>. QED  BY <1>1, <1>2, <1>3, <1>4, <1>5 DEF IInv

\* The card gets the rate that was asked for.
LEMMA ClockDoneStep == IInv /\ sd_supply_clock_done => IInv'
<1>. SUFFICES ASSUME IInv, sd_supply_clock_done PROVE IInv'
  OBVIOUS
<1>. DEFINE hz == DividedClock(sd_8bit_clock_divider(BASE_HZ, rate))
<1>0. /\ pc = "clock_wait" /\ host' = [host EXCEPT !.hz = hz]
      /\ UNCHANGED <<rate, tries, card, result, pending, vc, facts, thecard, broken>>
      /\ pending = "none"
  <2>1. host.freq_sel = sd_8bit_clock_divider(BASE_HZ, rate)
    BY DEF sd_supply_clock_done, IInv, HostInv
  <2>. QED  BY <2>1, Zenon DEF sd_supply_clock_done
<1>a. /\ \/ SlowWait /\ pc' = "cmd_irpts" /\ hz \in 1..IDENTIFICATION_HZ
         \/ FastWait /\ pc' = "cmd7" /\ hz \in IDENTIFICATION_HZ + 1..DEFAULT_SPEED_HZ
      /\ hz \in 0..BASE_HZ
  <2>1. rate \in {IDENTIFICATION_HZ, DEFAULT_SPEED_HZ}
    BY <1>0 DEF IInv, HostInv, SlowWait, FastWait
  <2>2. CASE rate = IDENTIFICATION_HZ
    <3>1. hz \in 1..IDENTIFICATION_HZ /\ IDENTIFICATION_HZ <= BASE_HZ
      BY <2>2, Rates, Zenon
    <3>2. SlowWait /\ pc' = "cmd_irpts"
      BY <1>0, <2>2 DEF SlowWait, Then, sd_supply_clock_done
    <3>. HIDE DEF hz
    <3>. QED  BY <3>1, <3>2, ClockAssumption
  <2>3. CASE rate = DEFAULT_SPEED_HZ
    <3>1. hz \in 1..DEFAULT_SPEED_HZ /\ DEFAULT_SPEED_HZ <= BASE_HZ /\ hz > IDENTIFICATION_HZ
      BY <2>3, Rates, Zenon
    <3>2. FastWait /\ pc' = "cmd7"
      BY <1>0, <2>3, Rates DEF FastWait, Then, sd_supply_clock_done
    <3>. HIDE DEF hz
    <3>. QED  BY <3>1, <3>2, ClockAssumption
  <2>. QED  BY <2>1, <2>2, <2>3
<1>b. /\ host' \in Hosts /\ host'.power = host.power /\ host'.width = host.width
      /\ host'.mask = host.mask /\ host'.hz = hz
  BY <1>0, <1>a, ClockedHost DEF IInv, TypeOK
<1>. HIDE DEF hz
<1>. USE DEF thecard
<1>1. TypeOK'
  BY <1>0, <1>a, <1>b DEF IInv, TypeOK, Steps
<1>2. HostInv'
  BY <1>0, <1>a, <1>b DEF IInv, HostInv, Waits, Identifying, Selected, FastWait, SlowWait
<1>3. CardInv'
  BY <1>0, <1>a, Rates DEF IInv, CardInv, Before, Identifying, Selected, SlowWait, FastWait
<1>4. KnownInv'
  BY <1>0, <1>a, Rates DEF IInv, KnownInv, Selected, FastWait, SlowWait
<1>5. ResetInv' /\ NeverOutOfTurn'
  BY <1>0, <1>a DEF IInv, ResetInv, NeverOutOfTurn
<1>. QED  BY <1>1, <1>2, <1>3, <1>4, <1>5 DEF IInv

\* A wait that times out leaves nothing to keep.
LEMMA InfiniteLoopStep == IInv /\ while_cond_timeout_infinite => IInv'
<1>. SUFFICES ASSUME IInv, while_cond_timeout_infinite PROVE IInv'
  OBVIOUS
<1>. USE DEF while_cond_timeout_infinite, thecard, Stop
<1>1. TypeOK'
  BY DEF IInv, TypeOK, Steps, Results
<1>2. HostInv'
  BY DEF IInv, HostInv, Waits, Identifying, Selected, FastWait
<1>3. CardInv'
  BY DEF IInv, CardInv, Before, Identifying, Selected, SlowWait, FastWait
<1>4. KnownInv'
  BY DEF IInv, KnownInv, Selected, FastWait
<1>5. ResetInv' /\ NeverOutOfTurn'
  BY DEF IInv, ResetInv, NeverOutOfTurn
<1>. QED  BY <1>1, <1>2, <1>3, <1>4, <1>5 DEF IInv

\* Masks only grow.
LEMMA InterruptsStep == IInv /\ sd_enable_interrupts => IInv'
<1>. SUFFICES ASSUME IInv, sd_enable_interrupts PROVE IInv'
  OBVIOUS
<1>0. /\ UNCHANGED <<rate, tries, card, pending, vc, facts, thecard, broken, result>>
      /\ \/ pc = "cmd_irpts" /\ pc' = "cmd0" /\ host' = [host EXCEPT !.mask = @ \cup CmdIrpts]
         \/ /\ pc = "transfer_irpts" /\ pc' = "acmd51"
            /\ host' = [host EXCEPT !.mask = @ \cup TransferIrpts]
  BY DEF sd_enable_interrupts, Proceed, Then
<1>a. /\ host' \in Hosts /\ host'.power = host.power /\ host'.width = host.width
      /\ host'.hz = host.hz
      /\ \/ pc = "cmd_irpts" /\ pc' = "cmd0" /\ host'.mask = host.mask \cup CmdIrpts
         \/ pc = "transfer_irpts" /\ pc' = "acmd51" /\ host'.mask = host.mask \cup TransferIrpts
  BY <1>0, EnabledHost DEF IInv, TypeOK
<1>. USE DEF thecard
<1>1. TypeOK'
  BY <1>0, <1>a DEF IInv, TypeOK, Steps
<1>b. /\ UNCHANGED <<rate, tries, card, pending, vc, facts, thecard, broken, result>>
  BY <1>0
<1>2. HostInv'
  BY <1>a, <1>b DEF IInv, HostInv, Waits, Identifying, Selected, FastWait, SlowWait
<1>3. CardInv'
  BY <1>a, <1>b DEF IInv, CardInv, Before, Identifying, Selected, SlowWait, FastWait
<1>4. KnownInv'
  BY <1>a, <1>b DEF IInv, KnownInv, Selected, FastWait
<1>5. ResetInv' /\ NeverOutOfTurn'
  BY <1>a, <1>b DEF IInv, ResetInv, NeverOutOfTurn
<1>. QED  BY <1>1, <1>2, <1>3, <1>4, <1>5 DEF IInv

\* A reset or a clock takes effect only while the driver waits, or after it has stopped.
LEMMA HostSettlesStep == IInv /\ HostSettles => IInv'
<1>. SUFFICES ASSUME IInv, HostSettles PROVE IInv'
  OBVIOUS
<1>. USE DEF HostSettles, thecard, driver
<1>0. pc \in {"reset_wait", "reset_again_wait", "clock_wait", "stopped"}
  BY DEF IInv, HostInv, Waits
<1>1. TypeOK'
  BY ResetHostIsOne DEF IInv, TypeOK
<1>2. HostInv'
  BY <1>0 DEF IInv, TypeOK, HostInv, Waits, Identifying, Selected, FastWait, SlowWait
<1>3. CardInv'
  BY <1>0 DEF IInv, CardInv, Before, Identifying, Selected, SlowWait, FastWait
<1>4. KnownInv'
  BY <1>0 DEF IInv, KnownInv, Selected, FastWait
<1>5. ResetInv' /\ NeverOutOfTurn'
  BY <1>0 DEF IInv, ResetInv, NeverOutOfTurn
<1>. QED  BY <1>1, <1>2, <1>3, <1>4, <1>5 DEF IInv

-----------------------------------------------------------------------------
(* The commands.                                                           *)

Commands == {"cmd0", "cmd8", "acmd41_inquiry", "acmd41", "cmd2", "cmd3", "cmd7", "cmd13",
             "acmd51", "acmd6"}

\* What each command does to the card.
LEMMA Execution ==
  /\ Executes("cmd0") => cstate' = "idle" /\ cwidth' = 1 /\ crca' = 0
  /\ \A c \in {"cmd8", "acmd41_inquiry", "cmd13", "acmd51"} : Executes(c) => UNCHANGED thecard
  /\ Executes("acmd41") => /\ UNCHANGED <<cwidth, crca>>
                           /\ IF facts.vdd THEN cstate' \in {"idle", "ready"}
                                           ELSE cstate' = "inactive"
  /\ Executes("cmd2") => cstate' = "ident" /\ UNCHANGED <<cwidth, crca>>
  /\ Executes("cmd3") => cstate' = "stby" /\ crca' \in Rcas /\ UNCHANGED cwidth
  /\ Executes("cmd7") => cstate' = "tran" /\ UNCHANGED <<cwidth, crca>>
  /\ Executes("acmd6") => cwidth' = 4 /\ UNCHANGED <<cstate, crca>>
<1>1. \A c \in {"cmd8", "acmd41_inquiry", "cmd13", "acmd51"} : Executes(c) => UNCHANGED thecard
  BY DEF Executes
<1>2. Executes("acmd41") => /\ UNCHANGED <<cwidth, crca>>
                            /\ IF facts.vdd THEN cstate' \in {"idle", "ready"}
                                            ELSE cstate' = "inactive"
  BY DEF Executes
<1>. QED  BY <1>1, <1>2 DEF Executes

\* A card has no other states.
LEMMA ExecutionTyped ==
  ASSUME TypeOK, NEW c \in Commands, Executes(c)
  PROVE  /\ cstate' \in {"idle", "ready", "ident", "stby", "tran", "inactive"}
         /\ cwidth' \in {1, 4} /\ crca' \in Rcas \cup {0}
BY Execution DEF Commands, TypeOK, thecard

\* Where a command is sent, the card can serve it.
LEMMA Served ==
  ASSUME IInv
  PROVE  /\ pc \in {"cmd0", "ready"} => Obstacles("cmd0") = {}
         /\ \A c \in Commands : pc = c => Obstacles(c) = {}
<1>. SUFFICES ASSUME NEW c \in Commands, pc = c \/ (c = "cmd0" /\ pc = "ready")
              PROVE  Obstacles(c) = {}
  BY DEF Commands
<1>0. pc \in (Identifying \ {"cmd_irpts", "clock_default"}) \cup Selected
  BY DEF Commands, Identifying, Selected
<1>1. cstate \in AcceptedIn(c)
  <2>1. CASE c = "cmd0"
    BY <2>1 DEF IInv, CardInv, AcceptedIn, Before
  <2>2. CASE c \in {"cmd8", "acmd41_inquiry", "acmd41", "cmd2", "cmd3"}
    BY <2>2 DEF IInv, CardInv, AcceptedIn
  <2>3. CASE c \in {"cmd7", "cmd13", "acmd51", "acmd6"}
    BY <2>3 DEF IInv, CardInv, AcceptedIn
  <2>. QED  BY <2>1, <2>2, <2>3 DEF Commands
<1>2. ~(c \in {"cmd7", "cmd13", "acmd51", "acmd6"} /\ card.rca # crca)
  BY DEF IInv, KnownInv, Selected
<1>3. ~(~host.power \/ host.hz = 0)
  BY <1>0, ClockAssumption DEF IInv, HostInv
<1>4. ~(host.hz > MaxHz)
  <2>1. CASE pc \in Identifying
    BY <1>0, <2>1, ClockAssumption DEF IInv, HostInv, MaxHz
  <2>2. CASE pc \in Selected
    <3>1. cstate \in {"stby", "tran"}
      BY <2>2 DEF IInv, CardInv, Selected
    <3>. QED  BY <1>0, <2>2, <3>1, ClockAssumption DEF IInv, HostInv, MaxHz
  <2>. QED  BY <1>0, <2>1, <2>2
<1>5. CmdIrpts \subseteq host.mask
  BY <1>0 DEF IInv, HostInv
<1>6. ~(c = "acmd51" /\ ~(TransferIrpts \subseteq host.mask))
  BY DEF IInv, HostInv
<1>7. ~(c = "acmd51" /\ host.width # cwidth)
  BY DEF IInv, HostInv, CardInv, Selected
<1>. QED
  BY <1>1, <1>2, <1>3, <1>4, <1>5, <1>6, <1>7, Zenon DEF Obstacles

\* An error ends the initialisation, or the reset.
LEMMA StopStep ==
  ASSUME IInv, NEW e \in {IssueError, Unusable, "ERROR_SD_RESET"}, Stop(e), broken' = broken,
         UNCHANGED <<rate, card, host, pending, vc, facts>>, tries' \in 0..TRIES,
         UNCHANGED thecard \/ \E c \in Commands : Executes(c)
  PROVE  IInv'
<1>0. /\ pc' = "stopped" /\ result' = e /\ broken' = {}
      /\ UNCHANGED <<rate, card, host, pending, vc, facts>>
  BY DEF Stop, IInv, NeverOutOfTurn
<1>a. /\ cstate' \in {"idle", "ready", "ident", "stby", "tran", "inactive"}
      /\ cwidth' \in {1, 4} /\ crca' \in Rcas \cup {0}
  <2>1. CASE UNCHANGED thecard
    BY <2>1 DEF IInv, TypeOK, thecard
  <2>2. CASE \E c \in Commands : Executes(c)
    BY <2>2, ExecutionTyped DEF IInv
  <2>. QED  BY <2>1, <2>2
<1>1. TypeOK'
  BY <1>0, <1>a DEF IInv, TypeOK, Steps, Results
<1>2. HostInv'
  BY <1>0 DEF HostInv, Waits, Identifying, Selected, FastWait
<1>3. CardInv'
  BY <1>0 DEF CardInv, Before, Identifying, Selected, SlowWait, FastWait
<1>4. KnownInv'
  BY <1>0 DEF KnownInv, Selected, FastWait
<1>5. ResetInv' /\ NeverOutOfTurn'
  BY <1>0 DEF ResetInv, NeverOutOfTurn, IssueError, Unusable
<1>. QED  BY <1>1, <1>2, <1>3, <1>4, <1>5 DEF IInv

\* So does a command that fails; as the card could have served it, there is no one to blame.
LEMMA FailsStep ==
  ASSUME IInv, NEW c \in Commands, NEW e \in {IssueError, Unusable, "ERROR_SD_RESET"},
         Obstacles(c) = {}, Fails(c, e)
  PROVE  IInv'
<1>1. /\ Stop(e) /\ broken' = broken /\ UNCHANGED <<rate, card, host, pending, vc, facts>>
      /\ tries' = tries
      /\ UNCHANGED thecard \/ Executes(c)
  BY DEF Fails
<1>2. tries' \in 0..TRIES
  BY <1>1 DEF IInv, TypeOK
<1>. QED  BY <1>1, <1>2, StopStep, Zenon

\* What the driver notes of the card.
LEMMA NotedState ==
  ASSUME NEW k \in Cards, NEW st \in {"idle", "ready", "ident", "stby", "tran"}
  PROVE  LET n == [k EXCEPT !.state = st]
         IN  /\ n \in Cards /\ n.state = st /\ n.rca = k.rca
             /\ n.sdhc_or_sdxc = k.sdhc_or_sdxc /\ n.cmd23_supported = k.cmd23_supported
BY DEF Cards

\* OCR: the capacity.
LEMMA NotedSize ==
  ASSUME NEW k \in Cards, NEW hc \in BOOLEAN
  PROVE  LET n == [k EXCEPT !.sdhc_or_sdxc = hc]
         IN  n \in Cards /\ n.sdhc_or_sdxc = hc
BY DEF Cards

\* CMD3: the address.
LEMMA NotedAddress ==
  ASSUME NEW k \in Cards, NEW r \in Rcas
  PROVE  LET n == [k EXCEPT !.rca = r]
         IN  n \in Cards /\ n.rca = r /\ n.sdhc_or_sdxc = k.sdhc_or_sdxc
BY DEF Cards

\* SCR: CMD23.
LEMMA NotedCmd23 ==
  ASSUME NEW k \in Cards, NEW b \in BOOLEAN
  PROVE  LET n == [k EXCEPT !.cmd23_supported = b]
         IN  /\ n \in Cards /\ n.cmd23_supported = b /\ n.state = k.state
             /\ n.rca = k.rca /\ n.sdhc_or_sdxc = k.sdhc_or_sdxc
BY DEF Cards

-----------------------------------------------------------------------------
(* Each command, as the driver sends it.                                   *)

\* From whatever state the card was in, CMD0 takes it to the idle state.
LEMMA Cmd0Step == IInv /\ Cmd0 => IInv'
<1>. SUFFICES ASSUME IInv, Cmd0 PROVE IInv'
  OBVIOUS
<1>1. CASE Fails("cmd0", IssueError)
  BY <1>1, Served, FailsStep DEF Cmd0, Commands
<1>2. CASE /\ Answered("cmd0") /\ Proceed
            /\ card' = [card EXCEPT !.state = "idle"]
            /\ UNCHANGED <<rate, tries, host>>
  <2>a. /\ pc = "cmd0" /\ pc' = "cmd8"
        /\ UNCHANGED <<rate, tries, result, host, pending, vc, facts, broken>>
        /\ cstate' = "idle" /\ cwidth' = 1 /\ crca' = 0
    BY <1>2, Execution DEF Cmd0, Answered, Proceed, Then
  <2>b. card' \in Cards
    BY <1>2, NotedState DEF IInv, TypeOK
  <2>1. TypeOK'
    BY <2>a, <2>b DEF IInv, TypeOK, Steps, thecard
  <2>2. HostInv'
    BY <2>a, <2>b DEF IInv, HostInv, Waits, Identifying, Selected, FastWait
  <2>3. CardInv'
    BY <2>a, <2>b DEF IInv, CardInv, Before, Identifying, Selected, SlowWait, FastWait, thecard
  <2>4. KnownInv'
    BY <2>a, <2>b DEF IInv, KnownInv, Selected, FastWait, thecard
  <2>5. ResetInv' /\ NeverOutOfTurn'
    BY <2>a, <2>b DEF IInv, ResetInv, NeverOutOfTurn
  <2>. QED  BY <2>1, <2>2, <2>3, <2>4, <2>5 DEF IInv
<1>. QED  BY <1>1, <1>2 DEF Cmd0

\* CMD8 asks and does not change the card.
LEMMA Cmd8Step == IInv /\ Cmd8 => IInv'
<1>. SUFFICES ASSUME IInv, Cmd8 PROVE IInv'
  OBVIOUS
<1>1. CASE Fails("cmd8", IssueError)
  BY <1>1, Served, FailsStep DEF Cmd8, Commands
<1>2. CASE Answered("cmd8") /\ Stop(Unusable) /\ UNCHANGED <<rate, tries, card, host>>
  <2>1. tries' \in 0..TRIES
    BY <1>2 DEF IInv, TypeOK
  <2>2. UNCHANGED <<rate, card, host, pending, vc, facts>> /\ broken' = broken /\ UNCHANGED thecard
    BY <1>2, Execution DEF Answered
  <2>. QED  BY <1>2, <2>1, <2>2, StopStep
<1>3. CASE Answered("cmd8") /\ Proceed /\ UNCHANGED <<rate, tries, card, host>>
  <2>a. /\ pc = "cmd8" /\ pc' = "acmd41_inquiry"
        /\ UNCHANGED <<rate, tries, result, card, host, pending, vc, facts, broken>>
        /\ UNCHANGED thecard
    BY <1>3, Execution DEF Cmd8, Answered, Proceed, Then
  <2>1. TypeOK'
    BY <2>a DEF IInv, TypeOK, Steps, thecard
  <2>2. HostInv'
    BY <2>a DEF IInv, HostInv, Waits, Identifying, Selected, FastWait
  <2>3. CardInv'
    BY <2>a DEF IInv, CardInv, Before, Identifying, Selected, SlowWait, FastWait, thecard
  <2>4. KnownInv'
    BY <2>a DEF IInv, KnownInv, Selected, FastWait, thecard
  <2>5. ResetInv' /\ NeverOutOfTurn'
    BY <2>a DEF IInv, ResetInv, NeverOutOfTurn
  <2>. QED  BY <2>1, <2>2, <2>3, <2>4, <2>5 DEF IInv
<1>. QED  BY <1>1, <1>2, <1>3 DEF Cmd8

\* The comparison of the voltages is never true, so that the inquiry rejects no card.
LEMMA InquiryAcmd41Step == IInv /\ InquiryAcmd41 => IInv'
<1>. SUFFICES ASSUME IInv, InquiryAcmd41 PROVE IInv'
  OBVIOUS
<1>1. CASE Acmd41Fails("acmd41_inquiry")
  BY <1>1, Served, FailsStep DEF InquiryAcmd41, Acmd41Fails, Commands
<1>2. CASE Answered("acmd41_inquiry") /\ Proceed /\ UNCHANGED <<rate, tries, card, host>>
  <2>a. /\ pc = "acmd41_inquiry" /\ pc' = "acmd41"
        /\ UNCHANGED <<rate, tries, result, card, host, pending, vc, facts, broken>>
        /\ UNCHANGED thecard
    BY <1>2, Execution DEF InquiryAcmd41, Answered, Proceed, Then
  <2>1. TypeOK'
    BY <2>a DEF IInv, TypeOK, Steps, thecard
  <2>2. HostInv'
    BY <2>a DEF IInv, HostInv, Waits, Identifying, Selected, FastWait
  <2>3. CardInv'
    BY <2>a DEF IInv, CardInv, Before, Identifying, Selected, SlowWait, FastWait, thecard
  <2>4. KnownInv'
    BY <2>a DEF IInv, KnownInv, Selected, FastWait, thecard
  <2>5. ResetInv' /\ NeverOutOfTurn'
    BY <2>a DEF IInv, ResetInv, NeverOutOfTurn
  <2>. QED  BY <2>1, <2>2, <2>3, <2>4, <2>5 DEF IInv
<1>3. \A ocr : ~VoltageRejected(ocr)
  BY DEF VoltageRejected
<1>. QED  BY <1>1, <1>2, <1>3 DEF InquiryAcmd41

\* A card that becomes ready supports the voltage.
LEMMA InitAcmd41Step == IInv /\ InitAcmd41 => IInv'
<1>. SUFFICES ASSUME IInv, InitAcmd41 PROVE IInv'
  OBVIOUS
<1>1. CASE Acmd41Fails("acmd41")
  BY <1>1, Served, FailsStep DEF InitAcmd41, Acmd41Fails, Commands
<1>2. CASE /\ Answered("acmd41") /\ cstate' = "ready"
           /\ card' = [card EXCEPT !.sdhc_or_sdxc = facts.hc, !.state = "ready"]
           /\ Proceed
           /\ UNCHANGED <<rate, tries, host>>
  <2>a. /\ pc = "acmd41" /\ pc' = "cmd2"
        /\ UNCHANGED <<rate, tries, result, host, pending, vc, facts, broken>>
        /\ UNCHANGED <<cwidth, crca>> /\ cstate' = "ready" /\ facts.vdd
    BY <1>2, Execution DEF InitAcmd41, Answered, Proceed, Then
  <2>b. card' \in Cards /\ card'.sdhc_or_sdxc = facts.hc
    <3>. DEFINE k == [card EXCEPT !.sdhc_or_sdxc = facts.hc]
    <3>1. facts.hc \in BOOLEAN /\ card \in Cards
      BY DEF IInv, TypeOK, Capabilities
    <3>2. k \in Cards /\ k.sdhc_or_sdxc = facts.hc
      BY <3>1, NotedSize
    <3>3. card' = [k EXCEPT !.state = "ready"]
      BY <1>2
    <3>. HIDE DEF k
    <3>. QED  BY <3>2, <3>3, NotedState
  <2>1. TypeOK'
    BY <2>a, <2>b DEF IInv, TypeOK, Steps, thecard
  <2>2. HostInv'
    BY <2>a, <2>b DEF IInv, HostInv, Waits, Identifying, Selected, FastWait
  <2>3. CardInv'
    BY <2>a, <2>b DEF IInv, CardInv, Before, Identifying, Selected, SlowWait, FastWait, thecard
  <2>4. KnownInv'
    BY <2>a, <2>b DEF IInv, KnownInv, Selected, FastWait, thecard
  <2>5. ResetInv' /\ NeverOutOfTurn'
    BY <2>a, <2>b DEF IInv, ResetInv, NeverOutOfTurn
  <2>. QED  BY <2>1, <2>2, <2>3, <2>4, <2>5 DEF IInv
<1>3. CASE /\ Answered("acmd41") /\ cstate' = "idle"
           /\ ~PowerUpTimeout /\ UNCHANGED <<pc, result>>
           /\ tries' = IF tries + 1 < TRIES THEN tries + 1 ELSE tries
           /\ UNCHANGED <<rate, card, host>>
  <2>a. /\ pc = "acmd41" /\ pc' = "acmd41" /\ cstate' = "idle"
        /\ UNCHANGED <<rate, result, card, host, pending, vc, facts, broken, cwidth, crca>>
    BY <1>3, Execution DEF InitAcmd41, Answered
  <2>b. tries' \in 0..TRIES
    <3>1. tries \in 0..TRIES /\ (tries' = IF tries + 1 < TRIES THEN tries + 1 ELSE tries)
      BY <1>3 DEF IInv, TypeOK
    <3>. QED  BY <3>1, TriesAssumption
  <2>1. TypeOK'
    BY <2>a, <2>b DEF IInv, TypeOK, Steps, thecard
  <2>2. HostInv'
    BY <2>a, <2>b DEF IInv, HostInv, Waits, Identifying, Selected, FastWait
  <2>3. CardInv'
    BY <2>a, <2>b DEF IInv, CardInv, Before, Identifying, Selected, SlowWait, FastWait, thecard
  <2>4. KnownInv'
    BY <2>a, <2>b DEF IInv, KnownInv, Selected, FastWait, thecard
  <2>5. ResetInv' /\ NeverOutOfTurn'
    BY <2>a, <2>b DEF IInv, ResetInv, NeverOutOfTurn
  <2>. QED  BY <2>1, <2>2, <2>3, <2>4, <2>5 DEF IInv
<1>4. CASE /\ Answered("acmd41") /\ cstate' = "idle"
           /\ Stop(IssueError)
           /\ tries' = IF tries + 1 < TRIES THEN tries + 1 ELSE tries
           /\ UNCHANGED <<rate, card, host>>
  <2>1. tries' \in 0..TRIES
    <3>1. tries \in 0..TRIES /\ (tries' = IF tries + 1 < TRIES THEN tries + 1 ELSE tries)
      BY <1>4 DEF IInv, TypeOK
    <3>. QED  BY <3>1, TriesAssumption
  <2>2. /\ UNCHANGED <<rate, card, host, pending, vc, facts>> /\ broken' = broken
        /\ Executes("acmd41") /\ Stop(IssueError)
    BY <1>4 DEF Answered
  <2>. QED  BY <2>1, <2>2, StopStep DEF Commands
<1>. QED  BY <1>1, <1>2, <1>3, <1>4 DEF InitAcmd41

\* CMD2: from ready to identification.
LEMMA Cmd2Step == IInv /\ Cmd2 => IInv'
<1>. SUFFICES ASSUME IInv, Cmd2 PROVE IInv'
  OBVIOUS
<1>1. CASE Fails("cmd2", IssueError)
  BY <1>1, Served, FailsStep DEF Cmd2, Commands
<1>2. CASE /\ Answered("cmd2") /\ Proceed
            /\ card' = [card EXCEPT !.state = "ident"]
            /\ UNCHANGED <<rate, tries, host>>
  <2>a. /\ pc = "cmd2" /\ pc' = "cmd3"
        /\ UNCHANGED <<rate, tries, result, host, pending, vc, facts, broken>>
        /\ cstate' = "ident" /\ UNCHANGED <<cwidth, crca>>
    BY <1>2, Execution DEF Cmd2, Answered, Proceed, Then
  <2>b. card' \in Cards /\ card'.sdhc_or_sdxc = card.sdhc_or_sdxc
    BY <1>2, NotedState DEF IInv, TypeOK
  <2>1. TypeOK'
    BY <2>a, <2>b DEF IInv, TypeOK, Steps, thecard
  <2>2. HostInv'
    BY <2>a, <2>b DEF IInv, HostInv, Waits, Identifying, Selected, FastWait
  <2>3. CardInv'
    BY <2>a, <2>b DEF IInv, CardInv, Before, Identifying, Selected, SlowWait, FastWait, thecard
  <2>4. KnownInv'
    BY <2>a, <2>b DEF IInv, KnownInv, Selected, FastWait, thecard
  <2>5. ResetInv' /\ NeverOutOfTurn'
    BY <2>a, <2>b DEF IInv, ResetInv, NeverOutOfTurn
  <2>. QED  BY <2>1, <2>2, <2>3, <2>4, <2>5 DEF IInv
<1>. QED  BY <1>1, <1>2 DEF Cmd2

\* CMD3: the address that is noted is the address of the card.
LEMMA Cmd3Step == IInv /\ Cmd3 => IInv'
<1>. SUFFICES ASSUME IInv, Cmd3 PROVE IInv'
  OBVIOUS
<1>1. CASE Fails("cmd3", IssueError)
  BY <1>1, Served, FailsStep DEF Cmd3, Commands
<1>2. CASE /\ Answered("cmd3") /\ Proceed
            /\ card' = [card EXCEPT !.state = "stby", !.rca = crca']
            /\ UNCHANGED <<rate, tries, host>>
  <2>a. /\ pc = "cmd3" /\ pc' = "clock_default"
        /\ UNCHANGED <<rate, tries, result, host, pending, vc, facts, broken>>
        /\ cstate' = "stby" /\ crca' \in Rcas /\ UNCHANGED cwidth
    BY <1>2, Execution DEF Cmd3, Answered, Proceed, Then
  <2>b. card' \in Cards /\ card'.rca = crca' /\ card'.sdhc_or_sdxc = card.sdhc_or_sdxc
    <3>. DEFINE k == [card EXCEPT !.state = "stby"]
    <3>1. k \in Cards /\ k.sdhc_or_sdxc = card.sdhc_or_sdxc
      BY NotedState DEF IInv, TypeOK
    <3>2. card' = [k EXCEPT !.rca = crca']
      BY <1>2
    <3>. HIDE DEF k
    <3>. QED  BY <2>a, <3>1, <3>2, NotedAddress
  <2>1. TypeOK'
    BY <2>a, <2>b DEF IInv, TypeOK, Steps, thecard
  <2>2. HostInv'
    BY <2>a, <2>b DEF IInv, HostInv, Waits, Identifying, Selected, FastWait
  <2>3. CardInv'
    BY <2>a, <2>b DEF IInv, CardInv, Before, Identifying, Selected, SlowWait, FastWait, thecard
  <2>4. KnownInv'
    BY <2>a, <2>b DEF IInv, KnownInv, Selected, FastWait, thecard
  <2>5. ResetInv' /\ NeverOutOfTurn'
    BY <2>a, <2>b DEF IInv, ResetInv, NeverOutOfTurn
  <2>. QED  BY <2>1, <2>2, <2>3, <2>4, <2>5 DEF IInv
<1>. QED  BY <1>1, <1>2 DEF Cmd3

\* CMD7 selects the card.
LEMMA Cmd7Step == IInv /\ Cmd7 => IInv'
<1>. SUFFICES ASSUME IInv, Cmd7 PROVE IInv'
  OBVIOUS
<1>1. CASE Fails("cmd7", IssueError)
  BY <1>1, Served, FailsStep DEF Cmd7, Commands
<1>2. CASE /\ Answered("cmd7") /\ Proceed
            /\ UNCHANGED <<rate, tries, card, host>>
  <2>a. /\ pc = "cmd7" /\ pc' = "cmd13"
        /\ UNCHANGED <<rate, tries, result, card, host, pending, vc, facts, broken>>
        /\ cstate' = "tran" /\ UNCHANGED <<cwidth, crca>>
    BY <1>2, Execution DEF Cmd7, Answered, Proceed, Then
  <2>1. TypeOK'
    BY <2>a DEF IInv, TypeOK, Steps, thecard
  <2>2. HostInv'
    BY <2>a DEF IInv, HostInv, Waits, Identifying, Selected, FastWait
  <2>3. CardInv'
    BY <2>a DEF IInv, CardInv, Before, Identifying, Selected, SlowWait, FastWait, thecard
  <2>4. KnownInv'
    BY <2>a DEF IInv, KnownInv, Selected, FastWait, thecard
  <2>5. ResetInv' /\ NeverOutOfTurn'
    BY <2>a DEF IInv, ResetInv, NeverOutOfTurn
  <2>. QED  BY <2>1, <2>2, <2>3, <2>4, <2>5 DEF IInv
<1>. QED  BY <1>1, <1>2 DEF Cmd7

\* CMD13 confirms the state that the card is in.
LEMMA Cmd13Step == IInv /\ Cmd13 => IInv'
<1>. SUFFICES ASSUME IInv, Cmd13 PROVE IInv'
  OBVIOUS
<1>1. CASE Fails("cmd13", IssueError)
  BY <1>1, Served, FailsStep DEF Cmd13, Commands
<1>2. CASE Answered("cmd13") /\ Stop(IssueError) /\ UNCHANGED <<rate, tries, card, host>>
  <2>1. tries' \in 0..TRIES
    BY <1>2 DEF IInv, TypeOK
  <2>2. UNCHANGED <<rate, card, host, pending, vc, facts>> /\ broken' = broken /\ UNCHANGED thecard
    BY <1>2, Execution DEF Answered
  <2>. QED  BY <1>2, <2>1, <2>2, StopStep
<1>3. CASE /\ Answered("cmd13") /\ Proceed /\ card' = [card EXCEPT !.state = "tran"]
           /\ UNCHANGED <<rate, tries, host>>
  <2>a. /\ pc = "cmd13" /\ pc' = "transfer_irpts"
        /\ UNCHANGED <<rate, tries, result, host, pending, vc, facts, broken>>
        /\ UNCHANGED thecard
    BY <1>3, Execution DEF Cmd13, Answered, Proceed, Then
  <2>b. /\ card' \in Cards /\ card'.state = "tran" /\ card'.rca = card.rca
        /\ card'.sdhc_or_sdxc = card.sdhc_or_sdxc
    BY <1>3, NotedState DEF IInv, TypeOK
  <2>1. TypeOK'
    BY <2>a, <2>b DEF IInv, TypeOK, Steps, thecard
  <2>2. HostInv'
    BY <2>a, <2>b DEF IInv, HostInv, Waits, Identifying, Selected, FastWait
  <2>3. CardInv'
    BY <2>a, <2>b DEF IInv, CardInv, Before, Identifying, Selected, SlowWait, FastWait, thecard
  <2>4. KnownInv'
    BY <2>a, <2>b DEF IInv, KnownInv, Selected, FastWait, thecard
  <2>5. ResetInv' /\ NeverOutOfTurn'
    BY <2>a, <2>b DEF IInv, ResetInv, NeverOutOfTurn
  <2>. QED  BY <2>1, <2>2, <2>3, <2>4, <2>5 DEF IInv
<1>. QED  BY <1>1, <1>2, <1>3 DEF Cmd13

\* ACMD51 is the first transfer of data, still on one line.
LEMMA Acmd51Step == IInv /\ Acmd51 => IInv'
<1>. SUFFICES ASSUME IInv, Acmd51 PROVE IInv'
  OBVIOUS
<1>1. CASE Fails("acmd51", IssueError)
  BY <1>1, Served, FailsStep DEF Acmd51, Commands
<1>2. CASE /\ Answered("acmd51") /\ Proceed
            /\ card' = [card EXCEPT !.cmd23_supported = facts.cmd23]
            /\ UNCHANGED <<rate, tries, host>>
  <2>a. /\ pc = "acmd51" /\ pc' = IF facts.four THEN "acmd6" ELSE "ready"
        /\ UNCHANGED <<rate, tries, result, host, pending, vc, facts, broken>>
        /\ UNCHANGED thecard
    BY <1>2, Execution DEF Acmd51, Answered, Proceed, Then
  <2>b. /\ card' \in Cards /\ card'.cmd23_supported = facts.cmd23 /\ card'.state = card.state
        /\ card'.rca = card.rca /\ card'.sdhc_or_sdxc = card.sdhc_or_sdxc
    <3>1. facts.cmd23 \in BOOLEAN /\ card \in Cards
      BY DEF IInv, TypeOK, Capabilities
    <3>. QED  BY <1>2, <3>1, NotedCmd23
  <2>1. TypeOK'
    BY <2>a, <2>b DEF IInv, TypeOK, Steps, thecard
  <2>2. HostInv'
    BY <2>a, <2>b DEF IInv, HostInv, Waits, Identifying, Selected, FastWait
  <2>3. CardInv'
    BY <2>a, <2>b DEF IInv, CardInv, Before, Identifying, Selected, SlowWait, FastWait, thecard
  <2>4. KnownInv'
    BY <2>a, <2>b DEF IInv, HostInv, CardInv, KnownInv, Identifying, Selected, FastWait, thecard
  <2>5. ResetInv' /\ NeverOutOfTurn'
    BY <2>a, <2>b DEF IInv, ResetInv, NeverOutOfTurn
  <2>. QED  BY <2>1, <2>2, <2>3, <2>4, <2>5 DEF IInv
<1>. QED  BY <1>1, <1>2 DEF Acmd51

\* ACMD6: host and card change their width together.
LEMMA Acmd6Step == IInv /\ Acmd6 => IInv'
<1>. SUFFICES ASSUME IInv, Acmd6 PROVE IInv'
  OBVIOUS
<1>1. CASE Fails("acmd6", IssueError)
  BY <1>1, Served, FailsStep DEF Acmd6, Commands
<1>2. CASE /\ Answered("acmd6") /\ Proceed
            /\ host' = Host4Bit
            /\ UNCHANGED <<rate, tries, card>>
  <2>a. /\ pc = "acmd6" /\ pc' = "ready"
        /\ UNCHANGED <<rate, tries, result, card, pending, vc, facts, broken>>
        /\ cwidth' = 4 /\ UNCHANGED <<cstate, crca>>
    BY <1>2, Execution DEF Acmd6, Answered, Proceed, Then
  <2>b. /\ host' \in Hosts /\ host'.power = host.power /\ host'.width = 4
        /\ host'.mask = host.mask /\ host'.hz = host.hz
    BY <1>2, WideHost DEF IInv, TypeOK, Host4Bit
  <2>1. TypeOK'
    BY <2>a, <2>b DEF IInv, TypeOK, Steps, thecard
  <2>2. HostInv'
    BY <2>a, <2>b DEF IInv, HostInv, Waits, Identifying, Selected, FastWait
  <2>3. CardInv'
    BY <2>a, <2>b DEF IInv, CardInv, Before, Identifying, Selected, SlowWait, FastWait, thecard
  <2>4. KnownInv'
    BY <2>a, <2>b DEF IInv, KnownInv, Selected, FastWait, thecard
  <2>5. ResetInv' /\ NeverOutOfTurn'
    BY <2>a, <2>b DEF IInv, ResetInv, NeverOutOfTurn
  <2>. QED  BY <2>1, <2>2, <2>3, <2>4, <2>5 DEF IInv
<1>. QED  BY <1>1, <1>2 DEF Acmd6

\* CMD0 once more, at full speed.
LEMMA ResetCardStep == IInv /\ ResetCard => IInv'
<1>. SUFFICES ASSUME IInv, ResetCard PROVE IInv'
  OBVIOUS
<1>1. CASE Fails("cmd0", "ERROR_SD_RESET")
  BY <1>1, Served, FailsStep DEF ResetCard, Commands
<1>2. CASE /\ Answered("cmd0") /\ pc' = AfterCardReset
            /\ card' = [card EXCEPT !.state = "idle"]
            /\ UNCHANGED <<rate, tries, result, host>>
  <2>a. /\ pc = "ready" /\ pc' = "reset_again"
        /\ UNCHANGED <<rate, tries, result, host, pending, vc, facts, broken>>
        /\ cstate' = "idle" /\ cwidth' = 1 /\ crca' = 0
    BY <1>2, Execution DEF ResetCard, Answered, AfterCardReset
  <2>b. card' \in Cards
    BY <1>2, NotedState DEF IInv, TypeOK
  <2>1. TypeOK'
    BY <2>a, <2>b DEF IInv, TypeOK, Steps, thecard
  <2>2. HostInv'
    BY <2>a, <2>b DEF IInv, HostInv, Waits, Identifying, Selected, FastWait
  <2>3. CardInv'
    BY <2>a, <2>b DEF IInv, CardInv, Before, Identifying, Selected, SlowWait, FastWait, thecard
  <2>4. KnownInv'
    BY <2>a, <2>b DEF IInv, KnownInv, Selected, FastWait, thecard
  <2>5. ResetInv' /\ NeverOutOfTurn'
    BY <2>a, <2>b DEF IInv, ResetInv, NeverOutOfTurn
  <2>. QED  BY <2>1, <2>2, <2>3, <2>4, <2>5 DEF IInv
<1>. QED  BY <1>1, <1>2 DEF ResetCard

-----------------------------------------------------------------------------
(* The theorems.                                                           *)

\* Every step keeps the invariant.
LEMMA NextIInv == IInv /\ [Next]_vars => IInv'
<1>. SUFFICES ASSUME IInv, [Next]_vars PROVE IInv'
  OBVIOUS
<1>1. CASE Driver
  BY <1>1, AssertVcStep, ResetHostStep, ResetHostDoneStep, BusPowerStep, ClockStep, ClockDoneStep,
     InfiniteLoopStep, InterruptsStep, Cmd0Step, Cmd8Step, InquiryAcmd41Step, InitAcmd41Step,
     Cmd2Step, Cmd3Step, Cmd7Step, Cmd13Step, Acmd51Step, Acmd6Step, ResetCardStep DEF Driver
<1>2. CASE HostSettles
  BY <1>2, HostSettlesStep
<1>3. CASE UNCHANGED vars
  <2>. USE <1>3 DEF vars, driver, thecard
  <2>1. TypeOK'
    BY DEF IInv, TypeOK
  <2>2. HostInv'
    BY DEF IInv, HostInv, SlowWait, FastWait
  <2>3. CardInv'
    BY DEF IInv, CardInv, SlowWait, FastWait
  <2>4. KnownInv'
    BY DEF IInv, KnownInv, FastWait
  <2>5. ResetInv' /\ NeverOutOfTurn'
    BY DEF IInv, ResetInv, NeverOutOfTurn
  <2>. QED  BY <2>1, <2>2, <2>3, <2>4, <2>5 DEF IInv
<1>. QED  BY <1>1, <1>2, <1>3 DEF Next, Stopped

\* The invariant holds throughout.
LEMMA Invariance == Spec => []IInv
BY InitIInv, NextIInv, PTL DEF Spec

\* The types of the state of sd_init() and sd_reset(), among them that the divider of
\* sd_8bit_clock_divider() fits the 8 bits of its field whatever the rates.
THEOREM TypeCorrect == Spec => []TypeOK
<1>1. IInv => TypeOK
  BY DEF IInv
<1>. QED  BY <1>1, Invariance, PTL

\* No command of sd_init_card() or sd_reset_card() is sent to a card that could not serve it,
\* whatever state the firmware left, whatever fails, and for every clock, address and number
\* of tries.
THEOREM CommandsInTurn == Spec => []NeverOutOfTurn
<1>1. IInv => NeverOutOfTurn
  BY DEF IInv
<1>. QED  BY <1>1, Invariance, PTL

\* sd_init() returns success only with a card that is what struct card says, at a clock between
\* the identification rate and the default speed, and a bus that is as wide at both ends.
THEOREM SuccessMeansAgreement == Spec => []InitAgrees
<1>1. IInv => InitAgrees
  <2>. SUFFICES ASSUME IInv, pc = "ready"
                PROVE  /\ card = [state |-> cstate, sdhc_or_sdxc |-> facts.hc, rca |-> crca,
                                  cmd23_supported |-> facts.cmd23]
                       /\ cstate = "tran" /\ facts.vdd
                       /\ host.width = cwidth /\ (facts.four => host.width = 4)
                       /\ host.hz > IDENTIFICATION_HZ /\ host.hz <= DEFAULT_SPEED_HZ
    BY DEF InitAgrees
  <2>1. /\ cstate = "tran" /\ facts.vdd /\ host.width = cwidth /\ (facts.four => host.width = 4)
        /\ card.state = cstate /\ card.rca = crca /\ card.sdhc_or_sdxc = facts.hc
        /\ card.cmd23_supported = facts.cmd23
    BY DEF IInv, CardInv, KnownInv, Selected
  <2>2. host.hz > IDENTIFICATION_HZ /\ host.hz <= DEFAULT_SPEED_HZ
    BY ClockAssumption DEF IInv, HostInv, Selected
  <2>3. card \in Cards
    BY DEF IInv, TypeOK
  <2>4. card = [state |-> card.state, sdhc_or_sdxc |-> card.sdhc_or_sdxc, rca |-> card.rca,
                cmd23_supported |-> card.cmd23_supported]
    BY <2>3 DEF Cards
  <2>. QED  BY <2>1, <2>2, <2>4
<1>. QED  BY <1>1, Invariance, PTL

\* sd_reset() leaves card and controller as they are at boot.
THEOREM ResetIsComplete == Spec => []ResetToBoot
<1>1. IInv => ResetToBoot
  BY DEF IInv, ResetInv, ResetToBoot
<1>. QED  BY <1>1, Invariance, PTL

=============================================================================
