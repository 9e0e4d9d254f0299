----------------------------- MODULE SdCommand -----------------------------
(***************************************************************************)
(* Issuing commands to the SD card: bld/sd/cmd.c, down to the registers.   *)
(*                                                                         *)
(* Two actors share the registers.  The driver writes CMDTM and then polls *)
(* INTERRUPT, clearing whatever it finds there.  The host controller with  *)
(* the card behind it (external: modelled from how cmd.c and sd.c use it)  *)
(* answers the command, fills its one-block buffer and raises flags in     *)
(* INTERRUPT whenever it likes.  Every register access is a step.          *)
(*                                                                         *)
(* A register is the set of its bits that are high.                        *)
(***************************************************************************)
EXTENDS Integers

CONSTANTS
  MaxBlocks,    \* bound: blocks of one multi block read (65535 in the code)
  POLLS,        \* bound: 50 us polls that fit into the 500 ms of one wait
  Boards        \* sets of quirks: what the hardware of a board may do beyond answering
                \* correctly, slowly and in time

ASSUME MaxBlocksAssumption == MaxBlocks \in Nat \ {0, 1}
ASSUME PollsAssumption == POLLS \in Nat \ {0}
ASSUME BoardsAssumption == Boards \subseteq SUBSET
  {"fault",       \* flag an error, or answer with an error in the card status
   "late",        \* take longer than the 500 ms the driver waits, or never answer
   "fast_data",   \* have the first block ready before the driver has seen the command complete
   "long_busy"}   \* stay busy after SELECT_CARD was answered

VARIABLES
  \* The driver.
  pc,           \* where sd_issue_cmd(), its wrappers and its waits are
  idx,          \* index of the command being issued
  app,          \* application command that follows an APP_CMD, or "none"
  nreq, nblks,  \* blocks requested, and the read loop's count of those still to copy
  dest,         \* dest[i]: what the i-th block of the destination in RAM holds, 0 for nothing
  want,         \* the interrupt flag being waited for
  irpt,         \* local copy of INTERRUPT
  polls,        \* polls since timer_poll_start()
  error,        \* enum cmd_error of the last command
  \* The registers and the hardware behind them.
  Quirks,       \* the board's, which stay
  interrupt, irpt_mask, cmdtm, blkcnt,
  inhibit,      \* STATUS: the lines in use, a subset of {"CMD", "DAT"}
  resp,         \* RESP0, as far as the driver looks at it
  sent,         \* blocks of the current transfer the card has sent
  buffer,       \* the block in the controller's buffer, 0 for none
  \* History, read by no action.
  stale,        \* flags in INTERRUPT that no part of the current command raised
  dat_stale     \* the DAT line is in use by an earlier command

driver   == <<pc, idx, app, nreq, nblks, dest, want, irpt, polls, error>>
hardware == <<interrupt, irpt_mask, cmdtm, blkcnt, inhibit, resp, sent, buffer>>
history  == <<stale, dat_stale>>
vars     == <<Quirks, driver, hardware, history>>

-----------------------------------------------------------------------------
(* The table of commands, by type and by response.                         *)

ADTC == {"READ_SINGLE_BLOCK", "READ_MULTIPLE_BLOCK", "SD_SEND_SCR"}
R1b  == {"SELECT_CARD"}
R1   == {"SEND_STATUS", "READ_SINGLE_BLOCK", "READ_MULTIPLE_BLOCK", "SET_BLOCK_COUNT",
         "APP_CMD", "SET_BUS_WIDTH", "SD_SEND_SCR"}
R2   == {"ALL_SEND_CID"}
R3   == {"SD_SEND_OP_COND"}
R6R7 == {"SEND_RELATIVE_ADDR", "SEND_IF_COND"}
NoResponse == {"GO_IDLE_STATE"}
Commands == NoResponse \cup R1 \cup R1b \cup R2 \cup R3 \cup R6R7
AppCommands == {"SET_BUS_WIDTH", "SD_SEND_OP_COND", "SD_SEND_SCR"}

CmdErrors  == {"cmd_timeout_error", "cmd_crc_error", "cmd_end_bit_error", "cmd_index_error"}
DataErrors == {"data_timeout_error", "data_crc_error", "data_end_bit_error"}
CmdFlags   == {"cmd_complete"} \cup CmdErrors
DataFlags  == {"read_ready", "transfer_complete"} \cup DataErrors
Flags      == CmdFlags \cup DataFlags \cup {"error"}

\* The bits of CMDTM that a command needs set.
set_cmdtm(i) ==
  (IF i \in R1 \cup R1b \cup R2 \cup R3 \cup R6R7 THEN {"response"} ELSE {}) \cup
  (IF i \in R1b THEN {"busy"} ELSE {}) \cup
  (IF i \in R1 \cup R1b \cup R2 \cup R6R7 THEN {"crc_chk"} ELSE {}) \cup
  (IF i \in R1 \cup R1b \cup R6R7 THEN {"index_chk"} ELSE {}) \cup
  (IF i \in ADTC THEN {"data_present"} ELSE {}) \cup
  (IF i \in {"READ_SINGLE_BLOCK", "READ_MULTIPLE_BLOCK", "SD_SEND_SCR"}
     THEN {"dir_read"} ELSE {}) \cup
  (IF i = "READ_MULTIPLE_BLOCK" THEN {"block_cnt_en", "multi_block"} ELSE {})

CmdtmBits == {"response", "busy", "crc_chk", "index_chk", "data_present", "dir_read",
              "block_cnt_en", "multi_block"}

Nothing == [i \in 1..MaxBlocks |-> 0]

Init ==
  /\ Quirks \in Boards
  /\ pc = "idle" /\ idx = "GO_IDLE_STATE" /\ app = "none"
  /\ nreq = 0 /\ nblks = 0 /\ dest = Nothing
  /\ want = "cmd_complete" /\ irpt = {} /\ polls = 0 /\ error = "NONE"
  /\ interrupt = {} /\ irpt_mask = CmdFlags      \* after sd_pre_cmd_init()
  /\ cmdtm = {} /\ blkcnt = 0 /\ inhibit = {} /\ resp = {} /\ sent = 0 /\ buffer = 0
  /\ stale = {} /\ dat_stale = FALSE

-----------------------------------------------------------------------------
(* The callers.  sd_init_card() issues the commands that move no data,     *)
(* then enables the transfer interrupts; everything later may move data.   *)
(* No caller issues anything after a failure: they end in signal_error().  *)

Callable ==
  IF "read_ready" \in irpt_mask
    THEN {"SD_SEND_SCR", "SET_BUS_WIDTH", "SET_BLOCK_COUNT", "READ_SINGLE_BLOCK",
          "READ_MULTIPLE_BLOCK", "GO_IDLE_STATE"}
    ELSE {"GO_IDLE_STATE", "SEND_IF_COND", "SD_SEND_OP_COND", "ALL_SEND_CID",
          "SEND_RELATIVE_ADDR", "SELECT_CARD", "SEND_STATUS"}

CountFieldOverflows(i) ==
  CASE i = "READ_MULTIPLE_BLOCK" -> 2..MaxBlocks + 1
    [] i \in {"READ_SINGLE_BLOCK", "SD_SEND_SCR"} -> {1}
    [] OTHER -> {0}

\* The blocks a caller asks of a command.
BlocksOf(i) ==
  CASE i = "READ_MULTIPLE_BLOCK" -> 2..MaxBlocks
    [] i \in {"READ_SINGLE_BLOCK", "SD_SEND_SCR"} -> {1}
    [] OTHER -> {0}

\* Enter sd_issue_cmd(), or sd_issue_acmd() for an application command, setting
\* the block count first when data is to follow.
Call(i, n) ==
  /\ pc = "idle"
  /\ pc' = "issue"
  /\ idx' = IF i \in AppCommands THEN "APP_CMD" ELSE i
  /\ app' = IF i \in AppCommands THEN i ELSE "none"
  /\ nreq' = n /\ nblks' = n /\ dest' = Nothing
  /\ blkcnt' = IF i \in ADTC THEN n ELSE blkcnt
  /\ UNCHANGED <<Quirks, want, irpt, polls, error, interrupt, irpt_mask, cmdtm, inhibit, resp,
                 sent, buffer, history>>

sd_enable_transfer_interrupts ==
  /\ pc = "idle"
  /\ irpt_mask' = irpt_mask \cup DataFlags
  /\ irpt_mask' # irpt_mask
  /\ UNCHANGED <<Quirks, driver, interrupt, cmdtm, blkcnt, inhibit, resp, sent, buffer, history>>

-----------------------------------------------------------------------------
(* sd_issue_cmd()                                                          *)

\* Give up: the error goes back through every caller to signal_error().
Fail(e) == error' = e /\ pc' = "halt"

NoDatInhibitCheck(i) ==
  CASE i \notin Commands -> "COMMAND_UNIMPLEMENTED"
    [] "CMD" \in inhibit -> "COMMAND_INHIBIT_CMD_BIT_SET"
    [] OTHER -> "NONE"

\* Why a command may not be issued now.
IssueError(i) ==
  CASE i \notin Commands -> "COMMAND_UNIMPLEMENTED"
    [] "CMD" \in inhibit -> "COMMAND_INHIBIT_CMD_BIT_SET"
    [] i \in ADTC \cup R1b /\ "DAT" \in inhibit -> "COMMAND_INHIBIT_DAT_BIT_SET"
    [] OTHER -> "NONE"

\* sd_wait_for_any_interrupt() begins.
WaitFor(f) == pc' = "poll" /\ want' = f /\ polls' = 0

\* Refuse the command, or write ARG1 and CMDTM and begin to wait.  The write sets
\* the command going: the controller marks the lines that it uses.
sd_issue_cmd ==
  /\ pc = "issue"
  /\ \/ /\ IssueError(idx) # "NONE"
        /\ Fail(IssueError(idx))
        /\ UNCHANGED <<want, polls, cmdtm, inhibit, sent, history>>
     \/ /\ IssueError(idx) = "NONE"
        /\ WaitFor("cmd_complete")
        /\ cmdtm' = set_cmdtm(idx)
        /\ inhibit' = inhibit \cup {"CMD"}
             \cup (IF {"data_present", "busy"} \cap cmdtm' # {} THEN {"DAT"} ELSE {})
        /\ sent' = 0
        /\ stale' = interrupt
        /\ dat_stale' = ("DAT" \in inhibit)
        /\ UNCHANGED error
  /\ UNCHANGED <<Quirks, idx, app, nreq, nblks, dest, irpt, interrupt, irpt_mask, blkcnt, resp, buffer>>

-----------------------------------------------------------------------------
(* sd_wait_for_any_interrupt(): poll INTERRUPT, clear what was found.      *)

PollInterrupt ==
  /\ pc = "poll"
  /\ irpt' = interrupt
  /\ pc' = IF interrupt = {} THEN "sleep" ELSE "clear"
  /\ UNCHANGED <<Quirks, idx, app, nreq, nblks, dest, want, polls, error, hardware, history>>

\* The controller or the card has something to do that does not wait for the driver.
Answering ==
  \/ "CMD" \in inhibit
  \/ "data_present" \in cmdtm /\ buffer = 0 /\ "DAT" \in inhibit
  \/ "DAT" \in inhibit /\ ("busy" \in cmdtm \/ dat_stale)

\* Hardware that is never late has answered before the last poll of the 500 ms.
OnTime == "late" \notin Quirks /\ (Answering \/ interrupt # {})

NeverDone == FALSE

\* The 500 ms are over after POLLS polls.  The 32 bit timestamps of timer.c:110-120 may wrap
\* around and end them at once: left out here, as timer.h:50 assumes that the counter starts
\* from 0 at power on and has not been running for 71 minutes (module Timer has the overflow).
timer_poll_done == polls + 1 = POLLS /\ ~OnTime

\* usleep(50), then look at the timer.  What is raised during the last usleep(50) is not
\* looked at.
SleepAndCheckTimer ==
  /\ pc = "sleep"
  /\ polls' = IF polls + 1 < POLLS THEN polls + 1 ELSE polls
  /\ \/ ~timer_poll_done /\ pc' = "poll" /\ UNCHANGED error
     \/ timer_poll_done /\ Fail("WAIT_FOR_INTERRUPT_TIMEOUT")
  /\ UNCHANGED <<Quirks, idx, app, nreq, nblks, dest, want, irpt, hardware, history>>

AnyFlagWillDo ==
  IF "error" \in irpt THEN "INTERRUPT_ERROR" ELSE "NONE"

\* What sd_wait_for_interrupt() makes of the flags it was given.
WaitResult ==
  CASE "error" \in irpt -> "INTERRUPT_ERROR"
    [] want \notin irpt -> "EXPECTED_INTERRUPT_NOT_TRIGGERED"
    [] OTHER -> "NONE"

\* INTERRUPT after the write of irpt back to it: a flag raised since the poll survives.
Cleared == interrupt \ irpt

\* The command was answered: look at the response, then go on as the wrapper does.
AfterCmdComplete ==
  CASE idx \in R1 \cup R1b /\ "error_bit" \in resp ->
         Fail("CARD_STATUS_ERROR") /\ UNCHANGED <<idx, app, want, polls>>
    [] app # "none" /\ "app_cmd" \notin resp ->
         Fail("RESPONSE_CONTENTS") /\ UNCHANGED <<idx, app, want, polls>>
    [] app # "none" /\ "app_cmd" \in resp ->
         pc' = "issue" /\ idx' = app /\ app' = "none" /\ UNCHANGED <<want, polls, error>>
    [] app = "none" /\ idx \in ADTC ->
         WaitFor("read_ready") /\ UNCHANGED <<idx, app, error>>
    [] OTHER ->
         pc' = "idle" /\ UNCHANGED <<idx, app, want, polls, error>>

ClearInterrupt ==
  /\ pc = "clear"
  /\ interrupt' = Cleared
  /\ stale' = stale \cap interrupt'
  /\ \/ /\ WaitResult # "NONE"
        /\ Fail(WaitResult)
        /\ UNCHANGED <<idx, app, want, polls>>
     \/ /\ WaitResult = "NONE" /\ want = "cmd_complete"
        /\ AfterCmdComplete
     \/ /\ WaitResult = "NONE" /\ want = "read_ready"
        /\ pc' = "copy"
        /\ UNCHANGED <<idx, app, want, polls, error>>
     \/ /\ WaitResult = "NONE" /\ want = "transfer_complete"
        /\ pc' = "idle"
        /\ UNCHANGED <<idx, app, want, polls, error>>
  /\ UNCHANGED <<Quirks, nreq, nblks, dest, irpt, irpt_mask, cmdtm, blkcnt, inhibit, resp, sent,
                 buffer, dat_stale>>

StopOneBlockEarly ==
  IF nblks > 2 THEN WaitFor("read_ready") ELSE WaitFor("transfer_complete")

NoWaitForTheEnd ==
  IF nblks > 1 THEN WaitFor("read_ready") ELSE pc' = "idle" /\ UNCHANGED <<want, polls>>

\* The read loop's next wait, after the block at hand.
NextWait ==
  IF nblks > 1 THEN WaitFor("read_ready") ELSE WaitFor("transfer_complete")

PointerNotAdvanced == 1

\* Where in RAM the block at hand goes: r5 in the copy loop.
Place == nreq - nblks + 1

\* Copy the block in the controller's buffer to the next place in RAM.
CopyBlock ==
  /\ pc = "copy"
  /\ dest' = [dest EXCEPT ![Place] = buffer]
  /\ buffer' = 0
  /\ nblks' = nblks - 1
  /\ NextWait
  /\ UNCHANGED <<Quirks, idx, app, nreq, irpt, error, interrupt, irpt_mask, cmdtm, blkcnt,
                 inhibit, resp, sent, history>>

-----------------------------------------------------------------------------
(* The host controller and the card (external).                            *)

\* Flags raised by the current command: only the enabled ones reach INTERRUPT, and
\* any error among them raises "error" as well.
Raise(fs) ==
  LET on == fs \cap irpt_mask
      up == on \cup (IF on \cap (CmdErrors \cup DataErrors) # {} THEN {"error"} ELSE {})
  IN  interrupt' = interrupt \cup up /\ stale' = stale \ up

Total == IF "multi_block" \in cmdtm THEN blkcnt ELSE 1

Responses ==
  {"app_cmd"} \cup (IF "fault" \in Quirks THEN {"error_bit"} ELSE {})

\* The command is answered.  The card may still be holding the DAT line busy.
Respond ==
  /\ "CMD" \in inhibit
  /\ resp' \in (IF "fault" \in Quirks THEN SUBSET Responses ELSE {Responses})
  /\ \/ /\ "busy" \in cmdtm /\ ~dat_stale
        /\ inhibit' = {}
        /\ Raise({"cmd_complete", "transfer_complete"})
     \/ /\ "busy" \in cmdtm /\ ~dat_stale => "long_busy" \in Quirks
        /\ inhibit' = inhibit \ {"CMD"}
        /\ Raise({"cmd_complete"})
  /\ UNCHANGED <<Quirks, driver, irpt_mask, cmdtm, blkcnt, sent, buffer, dat_stale>>

\* An error takes the place of the answer; the CMD line stays in use.
CmdFault ==
  /\ "fault" \in Quirks /\ "CMD" \in inhibit
  /\ \E f \in {"cmd_end_bit_error"}
         \cup (IF "response" \in cmdtm THEN {"cmd_timeout_error"} ELSE {})
         \cup (IF "crc_chk" \in cmdtm THEN {"cmd_crc_error"} ELSE {})
         \cup (IF "index_chk" \in cmdtm THEN {"cmd_index_error"} ELSE {}) : Raise({f})
  /\ UNCHANGED <<Quirks, driver, irpt_mask, cmdtm, blkcnt, inhibit, resp, sent, buffer, dat_stale>>

\* A transfer is under way and its next block has not arrived.
Transferring ==
  /\ {"data_present", "dir_read"} \subseteq cmdtm
  /\ "CMD" \notin inhibit /\ "DAT" \in inhibit

\* The next block arrives in the buffer, which the driver has emptied.
BlockReady ==
  /\ Transferring /\ sent < Total /\ buffer = 0
  /\ "cmd_complete" \in interrupt => "fast_data" \in Quirks
  /\ sent' = sent + 1
  /\ buffer' = sent + 1
  /\ Raise({"read_ready"})
  /\ UNCHANGED <<Quirks, driver, irpt_mask, cmdtm, blkcnt, inhibit, resp, dat_stale>>

\* The transfer breaks off.
DataFault ==
  /\ "fault" \in Quirks
  /\ Transferring /\ sent < Total /\ buffer = 0
  /\ \E f \in DataErrors : Raise({f})
  /\ UNCHANGED <<Quirks, driver, irpt_mask, cmdtm, blkcnt, inhibit, resp, sent, buffer, dat_stale>>

\* All blocks have been fetched from the buffer.
TransferDone ==
  /\ Transferring /\ ~dat_stale /\ sent = Total /\ buffer = 0
  /\ inhibit' = inhibit \ {"DAT"}
  /\ Raise({"transfer_complete"})
  /\ UNCHANGED <<Quirks, driver, irpt_mask, cmdtm, blkcnt, resp, sent, buffer, dat_stale>>

\* The card releases DAT after a busy answer, to this command or to an earlier one.
\* The flag it raises in the latter case is stale.
BusyDone ==
  /\ "DAT" \in inhibit
  /\ \/ /\ ~dat_stale /\ "busy" \in cmdtm /\ "CMD" \notin inhibit
        /\ Raise({"transfer_complete"})
     \/ /\ dat_stale
        /\ interrupt' = interrupt \cup ({"transfer_complete"} \cap irpt_mask)
        /\ stale' = stale \cup ({"transfer_complete"} \cap (irpt_mask \ interrupt))
  /\ inhibit' = inhibit \ {"DAT"}
  /\ dat_stale' = FALSE
  /\ UNCHANGED <<Quirks, driver, irpt_mask, cmdtm, blkcnt, resp, sent, buffer>>

-----------------------------------------------------------------------------
Caller   == \/ \E i \in Callable : \E n \in BlocksOf(i) : Call(i, n)
            \/ sd_enable_transfer_interrupts
Driver   == sd_issue_cmd \/ PollInterrupt \/ SleepAndCheckTimer \/ ClearInterrupt \/ CopyBlock
Hardware == Respond \/ CmdFault \/ BlockReady \/ DataFault \/ TransferDone \/ BusyDone

\* The bootloader has stopped in signal_error().
Halted == pc = "halt" /\ UNCHANGED vars

Next == Caller \/ Driver \/ Hardware \/ Halted

\* The one core runs the driver without interruption.  Hardware that is never late
\* answers; hardware that may be late need not.
Fairness ==
  /\ WF_vars(Driver)
  /\ WF_vars("late" \notin Quirks /\ (Respond \/ BlockReady \/ TransferDone \/ BusyDone))

Spec == Init /\ [][Next]_vars
FairSpec == Spec /\ Fairness
-----------------------------------------------------------------------------
(* Properties.                                                             *)

PCs == {"idle", "issue", "poll", "sleep", "clear", "copy", "halt"}

Errors == {"NONE", "COMMAND_INHIBIT_CMD_BIT_SET", "COMMAND_INHIBIT_DAT_BIT_SET",
           "COMMAND_UNIMPLEMENTED", "WAIT_FOR_INTERRUPT_TIMEOUT", "INTERRUPT_ERROR",
           "EXPECTED_INTERRUPT_NOT_TRIGGERED", "CARD_STATUS_ERROR", "RESPONSE_CONTENTS"}

\* The registers hold the bits they have, and the counters of the read loop stay
\* within the request.
TypeOK ==
  /\ pc \in PCs /\ idx \in Commands /\ app \in AppCommands \cup {"none"}
  /\ nreq \in 0..MaxBlocks /\ nblks \in 0..nreq
  /\ dest \in [1..MaxBlocks -> 0..MaxBlocks]
  /\ want \in {"cmd_complete", "read_ready", "transfer_complete"}
  /\ irpt \subseteq Flags /\ polls \in 0..POLLS - 1 /\ error \in Errors
  /\ interrupt \subseteq Flags /\ irpt_mask \subseteq Flags /\ cmdtm \subseteq CmdtmBits
  /\ blkcnt \in 0..MaxBlocks /\ inhibit \subseteq {"CMD", "DAT"}
  /\ resp \subseteq {"app_cmd", "error_bit"}
  /\ sent \in 0..MaxBlocks /\ buffer \in 0..MaxBlocks
  /\ stale \subseteq Flags /\ dat_stale \in BOOLEAN

\* sd_issue_cmd() issues a command without clearing INTERRUPT first.  All the same a wait
\* is never satisfied by a flag that an earlier command left there or raised late: the
\* inhibit checks and the clearing of every flag read keep them apart.
NoStaleCompletion ==
  pc = "clear" /\ WaitResult = "NONE" => want \notin stale

\* The copy loop of sd_issue_read_cmd() reads the DATA register without looking whether
\* there is anything in it.  When it does so the controller's buffer holds the very block
\* that belongs at the current place in RAM.
NoUnderrun ==
  pc = "copy" => buffer = nreq - nblks + 1

\* A data transfer that succeeded leaves nothing behind: the lines are free, the buffer is
\* empty and no flag is pending that the next command could take for its own.
QuietOnSuccess ==
  pc = "idle" /\ error = "NONE" /\ nreq > 0 =>
    inhibit = {} /\ buffer = 0 /\ interrupt = {}

Phase == CASE pc = "idle" -> "idle" [] pc = "halt" -> "failed" [] OTHER -> "busy"

Transfer == INSTANCE BlockTransfer WITH phase <- Phase, total <- nreq

\* The register level implements what a command promises: blocks arrive in order, and
\* success means that all of the requested blocks are in RAM.
ImplementsBlockTransfer == Transfer!Spec

\* Every command comes back to its caller, with success or with an error, whatever the
\* hardware does: no wait is without a timeout.
CallReturns == pc \notin {"idle", "halt"} ~> pc \in {"idle", "halt"}

\* With hardware that answers correctly and in time, and that gives the driver the time to
\* see a command complete before it has data ready, every command ends in success, as long as
\* the counter of the timer does not overflow (timer.h:50, see timer_poll_done).
CallSucceeds == (Quirks = {} /\ pc # "idle") ~> pc = "idle"

\* sd_wait_for_interrupt() waits "for a particular interrupt", so it times out only when
\* that interrupt did not come: no block is in the buffer when the wait for READ_READY
\* times out.
TimeoutMeansNotRaised ==
  error = "WAIT_FOR_INTERRUPT_TIMEOUT" /\ want = "read_ready" => buffer = 0
=============================================================================
