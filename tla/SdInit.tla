------------------------------- MODULE SdInit -------------------------------
(***************************************************************************)
(* Bringing up the SD card, and resetting it: the first half and the end   *)
(* of bld/sd/sd.c, with the wrappers of bld/sd/cmd.c that it uses.         *)
(*                                                                         *)
(* The steps of sd_init() and sd_reset() run in a fixed order against a    *)
(* host controller, whose reset and clock take their time, and a card with *)
(* a state machine of its own (both external, modelled from what the code  *)
(* expects of them).  The firmware has used the card before, so that it    *)
(* may be in any state.  A command is one step: it succeeds, or fails with *)
(* the card having executed it or not (see SdCommand).                     *)
(***************************************************************************)
EXTENDS Integers, FiniteSetsExt

CONSTANTS
  BASE_HZ,              \* EMMC2_EXPECTED_BASE_CLOCK_HZ
  IDENTIFICATION_HZ,    \* IDENTIFICATION_CLOCK_RATE_HZ
  DEFAULT_SPEED_HZ,     \* DEFAULT_SPEED_CLOCK_RATE_HZ
  TRIES,                \* bound: init ACMD41s that fit into the second the card may take
  Rcas,                 \* relative addresses that the card may publish
  Faults                \* whether commands and the host controller may fail

ASSUME ClockAssumption ==
  /\ BASE_HZ \in Nat \ {0} /\ IDENTIFICATION_HZ \in Nat \ {0} /\ DEFAULT_SPEED_HZ \in Nat
  /\ 2 * IDENTIFICATION_HZ < DEFAULT_SPEED_HZ /\ DEFAULT_SPEED_HZ < BASE_HZ
  /\ BASE_HZ \div 256 <= IDENTIFICATION_HZ     \* a divider of 8 bits, one of them set, is enough
  /\ BASE_HZ % 256 = 0        \* and divides exactly: the integer division of sd.c:181 drops nothing
ASSUME TriesAssumption == TRIES \in Nat \ {0}
ASSUME RcasAssumption == Rcas \subseteq Nat \ {0} /\ Rcas # {}
ASSUME FaultsAssumption == Faults \in BOOLEAN

VARIABLES
  \* The driver.
  pc,           \* the step at hand
  rate,         \* argument of sd_supply_clock()
  tries,        \* init ACMD41s issued
  card,         \* struct card
  result,       \* what sd_init() or sd_reset() returned, or the error signalled
  \* The host controller (registers external).
  host,         \* bus power, data width, interrupt mask, clock divider, SD clock in Hz
  pending,      \* a reset or a clock change that has not taken effect
  \* The card and the VideoCore (external).
  vc,           \* what the VideoCore has set up
  facts,        \* what the card is capable of
  cstate, cwidth, crca,
  \* History.
  broken        \* reasons for which the card could not have served a command it was sent

driver == <<pc, rate, tries, card, result>>
thecard == <<cstate, cwidth, crca>>
vars == <<driver, host, pending, vc, facts, thecard, broken>>

CmdIrpts == {"cmd_complete", "cmd_errors"}
TransferIrpts == {"read_ready", "transfer_complete", "data_errors"}

\* The registers after a reset of the whole controller.
ResetHost == [power |-> FALSE, width |-> 1, mask |-> {}, freq_sel |-> 0, hz |-> 0]

VcSettings == {"clock", "voltage_3v3", "card_power"}

\* mzero() leaves the bookkeeping of the card in the idle state.
NoCard == [state |-> "idle", sdhc_or_sdxc |-> FALSE, rca |-> 0, cmd23_supported |-> FALSE]

Capabilities == [hc : BOOLEAN, vdd : BOOLEAN, four : BOOLEAN, cmd23 : BOOLEAN]

Init ==
  /\ pc = "assert_vc" /\ rate = 0 /\ tries = 0 /\ card = NoCard /\ result = "none"
  /\ host \in {ResetHost, [power |-> TRUE, width |-> 4, mask |-> CmdIrpts \cup TransferIrpts,
                           freq_sel |-> 2, hz |-> DEFAULT_SPEED_HZ]}
  /\ pending = "none"
  /\ vc \in SUBSET VcSettings
  /\ facts \in Capabilities
  /\ \/ cstate = "idle" /\ cwidth = 1 /\ crca = 0
     \/ cstate \in {"stby", "tran"} /\ cwidth \in {1, 4} /\ crca \in Rcas
  /\ broken = {}

-----------------------------------------------------------------------------
(* The order of the steps.                                                 *)

FastBeforeIdentified(step) ==
  CASE step = "power" -> "clock_default"
    [] step = "clock_default" -> "cmd_irpts"
    [] step = "cmd_irpts" -> "cmd0"
    [] step = "cmd0" -> "cmd8"
    [] step = "cmd8" -> "acmd41_inquiry"
    [] step = "acmd41_inquiry" -> "acmd41"
    [] step = "acmd41" -> "cmd2"
    [] step = "cmd2" -> "cmd3"
    [] step = "cmd3" -> "cmd7"
    [] step = "cmd7" -> "cmd13"
    [] step = "cmd13" -> "transfer_irpts"
    [] step = "transfer_irpts" -> "acmd51"
    [] step = "acmd51" -> (IF facts.four THEN "acmd6" ELSE "ready")
    [] step = "acmd6" -> "ready"

\* The step after one that succeeded: sd_pre_cmd_init(), sd_card_init_and_identify(), and the
\* rest of sd_init_card().
Then(step) ==
  CASE step = "power" -> "clock_ident"
    [] step = "clock_ident" -> "cmd_irpts"
    [] step = "cmd_irpts" -> "cmd0"
    [] step = "cmd0" -> "cmd8"
    [] step = "cmd8" -> "acmd41_inquiry"
    [] step = "acmd41_inquiry" -> "acmd41"
    [] step = "acmd41" -> "cmd2"
    [] step = "cmd2" -> "cmd3"
    [] step = "cmd3" -> "clock_default"
    [] step = "clock_default" -> "cmd7"
    [] step = "cmd7" -> "cmd13"
    [] step = "cmd13" -> "transfer_irpts"
    [] step = "transfer_irpts" -> "acmd51"
    [] step = "acmd51" -> (IF facts.four THEN "acmd6" ELSE "ready")
    [] step = "acmd6" -> "ready"

\* An error ends in signal_error().
Stop(e) == pc' = "stopped" /\ result' = e

Proceed == pc' = Then(pc) /\ UNCHANGED result

-----------------------------------------------------------------------------
(* The host controller.                                                    *)

sd_assert_vc_init ==
  /\ pc = "assert_vc"
  /\ \/ vc = VcSettings /\ pc' = "reset" /\ UNCHANGED result
     \/ vc # VcSettings /\ Stop("ERROR_VC_NOT_INIT_MMC")
  /\ UNCHANGED <<rate, tries, card, host, pending, vc, facts, thecard, broken>>

\* Set the reset bit, then wait for it to go low.
sd_reset_host ==
  /\ pc \in {"reset", "reset_again"}
  /\ pending' = "reset"
  /\ pc' = IF pc = "reset" THEN "reset_wait" ELSE "reset_again_wait"
  /\ UNCHANGED <<rate, tries, card, result, host, vc, facts, thecard, broken>>

sd_reset_host_done ==
  /\ pending = "none"
  /\ \/ pc = "reset_wait" /\ pc' = "power" /\ UNCHANGED result
     \/ pc = "reset_again_wait" /\ pc' = "stopped" /\ result' = "RESET"
  /\ UNCHANGED <<rate, tries, card, host, pending, vc, facts, thecard, broken>>

sd_supply_bus_power ==
  /\ pc = "power"
  /\ host' = [host EXCEPT !.power = TRUE]
  /\ Proceed
  /\ UNCHANGED <<rate, tries, card, pending, vc, facts, thecard, broken>>

NotHalved(base, target) ==
  Min({d \in {2^i : i \in 0..28} : base \div d <= target})

\* The loop doubles the divisor until the clock is slow enough.
sd_8bit_clock_divider(base, target) ==
  Min({d \in {2^i : i \in 0..28} : base \div d <= target}) \div 2

\* The clock that a divider in the clock frequency select field gives (external), in Hz and
\* rounded up: a clock that is above its target by a fraction only still shows.
DividedClock(n) == IF n = 0 THEN BASE_HZ ELSE (BASE_HZ + 2 * n - 1) \div (2 * n)

\* Turn the clock off, set the divider, turn the internal clock on and wait for it.
sd_supply_clock ==
  /\ pc \in {"clock_ident", "clock_default"}
  /\ rate' = IF pc = "clock_ident" THEN IDENTIFICATION_HZ ELSE DEFAULT_SPEED_HZ
  /\ host' = [host EXCEPT !.hz = 0, !.freq_sel = sd_8bit_clock_divider(BASE_HZ, rate')]
  /\ pending' = "clock"
  /\ pc' = "clock_wait"
  /\ UNCHANGED <<tries, card, result, vc, facts, thecard, broken>>

\* The internal clock is stable: give it to the card.
sd_supply_clock_done ==
  /\ pc = "clock_wait" /\ pending = "none"
  /\ host' = [host EXCEPT !.hz = DividedClock(host.freq_sel)]
  /\ pc' = Then(IF rate = IDENTIFICATION_HZ THEN "clock_ident" ELSE "clock_default")
  /\ UNCHANGED <<rate, tries, card, result, pending, vc, facts, thecard, broken>>

WaitsForever == {}

\* The steps that wait in while_cond_timeout_infinite().
Waits == {"reset_wait", "reset_again_wait", "clock_wait"}

while_cond_timeout_infinite ==
  /\ pc \in Waits /\ pending # "none" /\ Faults
  /\ Stop("ERROR_INFINITE_LOOP")
  /\ UNCHANGED <<rate, tries, card, host, pending, vc, facts, thecard, broken>>

sd_enable_interrupts ==
  /\ \/ pc = "cmd_irpts" /\ host' = [host EXCEPT !.mask = @ \cup CmdIrpts]
     \/ pc = "transfer_irpts" /\ host' = [host EXCEPT !.mask = @ \cup TransferIrpts]
  /\ Proceed
  /\ UNCHANGED <<rate, tries, card, pending, vc, facts, thecard, broken>>

\* The controller finishes a reset or a change of its clock (external).
HostSettles ==
  /\ pending # "none"
  /\ host' = IF pending = "reset" THEN ResetHost ELSE host
  /\ pending' = "none"
  /\ UNCHANGED <<driver, vc, facts, thecard, broken>>

-----------------------------------------------------------------------------
(* The card: which commands it serves in which state (external).           *)

AcceptedIn(c) ==
  CASE c = "cmd0" -> {"idle", "ready", "ident", "stby", "tran"}
    [] c \in {"cmd8", "acmd41_inquiry", "acmd41"} -> {"idle"}
    [] c = "cmd2" -> {"ready"}
    [] c = "cmd3" -> {"ident"}
    [] c = "cmd7" -> {"stby"}
    [] c = "cmd13" -> {"stby", "tran"}
    [] c \in {"acmd51", "acmd6"} -> {"tran"}

MaxHz == IF cstate \in {"idle", "ready", "ident"} THEN IDENTIFICATION_HZ ELSE DEFAULT_SPEED_HZ

\* Why the card could not serve a command sent to it now.
Obstacles(c) ==
  (IF cstate \notin AcceptedIn(c) THEN {"state"} ELSE {}) \cup
  (IF c \in {"cmd7", "cmd13", "acmd51", "acmd6"} /\ card.rca # crca THEN {"address"} ELSE {}) \cup
  (IF ~host.power \/ host.hz = 0 THEN {"no clock or power"} ELSE {}) \cup
  (IF host.hz > MaxHz THEN {"clock too fast"} ELSE {}) \cup
  (IF ~(CmdIrpts \subseteq host.mask) THEN {"command interrupts masked"} ELSE {}) \cup
  (IF c = "acmd51" /\ ~(TransferIrpts \subseteq host.mask)
     THEN {"transfer interrupts masked"} ELSE {}) \cup
  (IF c = "acmd51" /\ host.width # cwidth THEN {"bus width"} ELSE {})

\* The card executes a command.  A card that does not run on the supplied voltage goes
\* inactive with the first ACMD41 that is more than an inquiry.
Executes(c) ==
  CASE c = "cmd0" -> cstate' = "idle" /\ cwidth' = 1 /\ crca' = 0
    [] c = "acmd41" /\ ~facts.vdd -> cstate' = "inactive" /\ UNCHANGED <<cwidth, crca>>
    [] c = "acmd41" /\ facts.vdd -> cstate' \in {"idle", "ready"} /\ UNCHANGED <<cwidth, crca>>
    [] c = "cmd2" -> cstate' = "ident" /\ UNCHANGED <<cwidth, crca>>
    [] c = "cmd3" -> cstate' = "stby" /\ crca' \in Rcas /\ UNCHANGED cwidth
    [] c = "cmd7" -> cstate' = "tran" /\ UNCHANGED <<cwidth, crca>>
    [] c = "acmd6" -> cwidth' = 4 /\ UNCHANGED <<cstate, crca>>
    [] OTHER -> UNCHANGED thecard

\* The command c is sent and answered.
Answered(c) ==
  /\ Obstacles(c) = {}
  /\ Executes(c)
  /\ cstate' # "inactive"
  /\ UNCHANGED <<pending, vc, facts, broken>>

\* The command c fails: the card cannot serve it, does not run on this voltage, or, with
\* faults, is not heard.
Fails(c, e) ==
  /\ Stop(e)
  /\ \/ /\ Faults \/ Obstacles(c) # {}
        /\ UNCHANGED thecard
     \/ /\ Obstacles(c) = {} /\ Executes(c)
        /\ Faults \/ cstate' = "inactive"
  /\ broken' = broken \cup Obstacles(c)
  /\ UNCHANGED <<rate, tries, card, host, pending, vc, facts>>

-----------------------------------------------------------------------------
(* sd_card_init_and_identify()                                             *)

IssueError == "SD_INIT_ERROR_ISSUE_CMD"
Unusable == "SD_INIT_ERROR_UNUSABLE_CARD"

Cmd0 ==
  /\ pc = "cmd0"
  /\ \/ Answered("cmd0") /\ Proceed /\ card' = [card EXCEPT !.state = "idle"]
        /\ UNCHANGED <<rate, tries, host>>
     \/ Fails("cmd0", IssueError)

\* sd_issue_cmd8(): the voltage and the check pattern are echoed, or the card is unusable.
Cmd8 ==
  /\ pc = "cmd8"
  /\ \/ /\ Answered("cmd8")
        /\ \/ Proceed
           \/ Faults /\ Stop(Unusable)
        /\ UNCHANGED <<rate, tries, card, host>>
     \/ Fails("cmd8", IssueError)

VoltageBits == {"2V7_TO_3V6"}

\* The test of sd_issue_acmd41(): != binds tighter than &, and so the OCR is masked with the
\* outcome of a comparison of OCR_VDD_2V7_TO_3V6 with itself.
VoltageRejected(ocr) == ocr \cap (IF VoltageBits # VoltageBits THEN {"bit0"} ELSE {}) # {}

\* A CMD55 whose response lacks the application command bit makes the card an unusable one.
Acmd41Fails(c) == Fails(c, IssueError) \/ (Faults /\ Fails(c, Unusable))

InquiryAcmd41 ==
  /\ pc = "acmd41_inquiry"
  /\ \/ /\ Answered("acmd41_inquiry")
        /\ LET ocr == IF facts.vdd THEN VoltageBits ELSE {}
           IN  IF VoltageRejected(ocr) THEN Stop(Unusable) ELSE Proceed
        /\ UNCHANGED <<rate, tries, card, host>>
     \/ Acmd41Fails("acmd41_inquiry")

\* The second that the card may take to power up is over.
PowerUpTimeout == tries + 1 >= TRIES

\* One turn of the loop of sd_issue_acmd41().
InitAcmd41 ==
  /\ pc = "acmd41"
  /\ \/ /\ Answered("acmd41") /\ cstate' = "ready"
        /\ card' = [card EXCEPT !.sdhc_or_sdxc = facts.hc, !.state = "ready"]
        /\ Proceed
        /\ UNCHANGED <<rate, tries, host>>
     \/ /\ Answered("acmd41") /\ cstate' = "idle"
        /\ \/ ~PowerUpTimeout /\ UNCHANGED <<pc, result>>
           \/ PowerUpTimeout /\ Stop(IssueError)
        /\ tries' = IF tries + 1 < TRIES THEN tries + 1 ELSE tries
        /\ UNCHANGED <<rate, card, host>>
     \/ Acmd41Fails("acmd41")

Cmd2 ==
  /\ pc = "cmd2"
  /\ \/ Answered("cmd2") /\ Proceed /\ card' = [card EXCEPT !.state = "ident"]
        /\ UNCHANGED <<rate, tries, host>>
     \/ Fails("cmd2", IssueError)

\* sd_issue_cmd3(): the card publishes its address.
Cmd3 ==
  /\ pc = "cmd3"
  /\ \/ Answered("cmd3") /\ Proceed /\ card' = [card EXCEPT !.state = "stby", !.rca = crca']
        /\ UNCHANGED <<rate, tries, host>>
     \/ Fails("cmd3", IssueError)

-----------------------------------------------------------------------------
(* The rest of sd_init_card()                                              *)

Cmd7 ==
  /\ pc = "cmd7"
  /\ \/ Answered("cmd7") /\ Proceed /\ UNCHANGED <<rate, tries, card, host>>
     \/ Fails("cmd7", IssueError)

\* The card says which state it is in.
Cmd13 ==
  /\ pc = "cmd13"
  /\ \/ /\ Answered("cmd13") /\ cstate = "tran"
        /\ Proceed /\ card' = [card EXCEPT !.state = "tran"]
        /\ UNCHANGED <<rate, tries, host>>
     \/ /\ Answered("cmd13")
        /\ Faults \/ cstate # "tran"
        /\ Stop(IssueError)
        /\ UNCHANGED <<rate, tries, card, host>>
     \/ Fails("cmd13", IssueError)

Acmd51 ==
  /\ pc = "acmd51"
  /\ \/ Answered("acmd51") /\ Proceed
        /\ card' = [card EXCEPT !.cmd23_supported = facts.cmd23]
        /\ UNCHANGED <<rate, tries, host>>
     \/ Fails("acmd51", IssueError)

HostLeftAt1Bit == host

\* The host controller follows the card to 4 bits.
Host4Bit == [host EXCEPT !.width = 4]

\* sd_set_4bit_data_bus_width(): the interrupt mask is put back as it was.
Acmd6 ==
  /\ pc = "acmd6"
  /\ \/ Answered("acmd6") /\ Proceed /\ host' = Host4Bit /\ UNCHANGED <<rate, tries, card>>
     \/ Fails("acmd6", IssueError)

HostNotReset == "reset_again_wait"

\* After the card the controller is reset.
AfterCardReset == "reset_again"

\* sd_reset_card(), after the last read.
ResetCard ==
  /\ pc = "ready"
  /\ \/ Answered("cmd0") /\ pc' = AfterCardReset /\ card' = [card EXCEPT !.state = "idle"]
        /\ UNCHANGED <<rate, tries, result, host>>
     \/ Fails("cmd0", "ERROR_SD_RESET")

-----------------------------------------------------------------------------
Driver ==
  \/ sd_assert_vc_init \/ sd_reset_host \/ sd_reset_host_done \/ sd_supply_bus_power
  \/ sd_supply_clock \/ sd_supply_clock_done \/ while_cond_timeout_infinite
  \/ sd_enable_interrupts \/ Cmd0 \/ Cmd8 \/ InquiryAcmd41 \/ InitAcmd41 \/ Cmd2 \/ Cmd3
  \/ Cmd7 \/ Cmd13 \/ Acmd51 \/ Acmd6 \/ ResetCard

\* signal_error(), or the jump to the kernel.
Stopped == pc = "stopped" /\ UNCHANGED vars

Next == Driver \/ HostSettles \/ Stopped

Spec == Init /\ [][Next]_vars

\* The driver runs without interruption; without faults the controller settles in time.
FairSpec == Spec /\ WF_vars(Driver) /\ (Faults \/ WF_vars(HostSettles))

-----------------------------------------------------------------------------
(* Properties.                                                             *)

Steps == {"assert_vc", "reset", "reset_wait", "power", "clock_ident", "clock_default",
          "clock_wait", "cmd_irpts", "cmd0", "cmd8", "acmd41_inquiry", "acmd41", "cmd2",
          "cmd3", "cmd7", "cmd13", "transfer_irpts", "acmd51", "acmd6", "ready",
          "reset_again", "reset_again_wait", "stopped"}

Cards == [state : {"idle", "ready", "ident", "stby", "tran"}, sdhc_or_sdxc : BOOLEAN,
          rca : Rcas \cup {0}, cmd23_supported : BOOLEAN]

Hosts == [power : BOOLEAN, width : {1, 4}, mask : SUBSET (CmdIrpts \cup TransferIrpts),
          freq_sel : 0..255, hz : 0..BASE_HZ]

Results == {"none", "RESET", "ERROR_VC_NOT_INIT_MMC", "ERROR_INFINITE_LOOP", "ERROR_SD_RESET",
            IssueError, Unusable}

\* Registers and bookkeeping have their types, among them: the clock divider fits the 8 bits of
\* its field.
TypeOK ==
  /\ pc \in Steps /\ rate \in {0, IDENTIFICATION_HZ, DEFAULT_SPEED_HZ} /\ tries \in 0..TRIES
  /\ card \in Cards /\ result \in Results
  /\ host \in Hosts /\ pending \in {"none", "reset", "clock"}
  /\ vc \subseteq VcSettings /\ facts \in Capabilities
  /\ cstate \in {"idle", "ready", "ident", "stby", "tran", "inactive"}
  /\ cwidth \in {1, 4} /\ crca \in Rcas \cup {0}
  /\ broken \subseteq {"state", "address", "no clock or power", "clock too fast",
                      "command interrupts masked", "transfer interrupts masked", "bus width"}

\* No command is sent to a card that could not serve it: in whatever state the firmware left
\* card and controller, and whatever failed before, the card is in a state that accepts the
\* command, at a clock that it keeps up with, on a bus of the width that it uses, and the
\* interrupts that the driver is going to wait for are enabled.
NeverOutOfTurn == broken = {}

\* When sd_init() returns success, what the driver believes of the card is so, and host and
\* card agree on how to transfer data.
InitAgrees ==
  pc = "ready" =>
    /\ card = [state |-> cstate, sdhc_or_sdxc |-> facts.hc, rca |-> crca,
               cmd23_supported |-> facts.cmd23]
    /\ cstate = "tran" /\ facts.vdd
    /\ host.width = cwidth /\ (facts.four => host.width = 4)
    /\ host.hz > IDENTIFICATION_HZ /\ host.hz <= DEFAULT_SPEED_HZ

\* sd_reset() leaves "the SD card and host controller [in] its state at boot".
ResetToBoot ==
  result = "RESET" => host = ResetHost /\ cstate = "idle" /\ cwidth = 1 /\ crca = 0

\* sd_init() and sd_reset() come to an end, even if the controller never leaves its reset,
\* its clock never becomes stable or the card never powers up.
InitEnds == <>(pc = "stopped")

\* A card that does not support the voltage is found out by the inquiry, and is not put into
\* the inactive state by an init ACMD41.
InquiryProtectsCard == cstate # "inactive"
=============================================================================
