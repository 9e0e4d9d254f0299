-------------------------- MODULE SdCommandProofs --------------------------
(***************************************************************************)
(* Proofs about SdCommand, for every number of blocks, of polls, and every *)
(* set of boards.  The inductive invariant IInv says which actor may have  *)
(* raised which flag by when: the driver has always taken the flags of one *)
(* wait before it begins the next, and the controller has nothing to raise *)
(* that belongs to a later one.                                            *)
(***************************************************************************)
EXTENDS SdCommand, TLAPS

Errs == CmdErrors \cup DataErrors

\* A command has been issued and is being waited for.
Active == pc \in {"poll", "sleep", "clear", "copy"}

\* The command in CMDTM moves data.
Data == "data_present" \in cmdtm

\* The command that the caller asked for.
Asked == IF app # "none" THEN app ELSE idx

\* The arguments of the call, and the progress of the read loop.
CallInv ==
  /\ pc # "halt" => error = "NONE"
  /\ dest = Transfer!Prefix(nreq - nblks)
  /\ pc = "idle" => nblks = 0
  /\ pc = "issue" \/ Active =>
       /\ nreq \in BlocksOf(Asked)
       /\ Asked \in ADTC => blkcnt = nreq
       /\ app # "none" => idx = "APP_CMD"
  /\ pc = "issue" => nblks = nreq
  /\ Active =>
       /\ cmdtm = set_cmdtm(idx)
       /\ want = "cmd_complete" => nblks = nreq
       /\ want # "cmd_complete" => idx \in ADTC
       /\ want = "read_ready" => nblks > 0
       /\ want = "transfer_complete" => nblks = 0
       /\ pc = "copy" => want = "read_ready"

\* A command is answered once, and only after it was issued; a flag that was read is still there
\* when it is cleared; an error flag is never seen without the summary flag.
CmdInv ==
  /\ "CMD" \in inhibit => "cmd_complete" \notin interrupt
  /\ "CMD" \in inhibit \/ "cmd_complete" \in interrupt =>
       \/ pc = "halt"
       \/ pc \in {"poll", "sleep", "clear"} /\ want = "cmd_complete"
  /\ "cmd_complete" \notin stale
  /\ stale \subseteq interrupt
  /\ pc = "clear" => irpt \subseteq interrupt /\ (irpt \cap Errs # {} => "error" \in irpt)
  /\ pc # "halt" /\ interrupt \cap Errs # {} => "error" \in interrupt

\* Between two commands nothing is in the buffer and no transfer is under way.
RestInv ==
  /\ Data => "busy" \notin cmdtm /\ ~dat_stale
  /\ pc # "halt" /\ ~Data => buffer = 0
  /\ pc # "halt" /\ "read_ready" \in interrupt => buffer # 0
  /\ pc \in {"idle", "issue"} => buffer = 0 /\ (Data => "DAT" \notin inhibit)
  /\ pc = "idle" /\ nreq > 0 => inhibit = {} /\ interrupt = {}

\* During a transfer: the card is ahead of the driver by the block in the buffer, and of the flags
\* that earlier commands left behind none survives the first wait.
DataInv ==
  Active /\ Data =>
    /\ sent = nreq - nblks + (IF buffer # 0 THEN 1 ELSE 0) /\ sent <= nreq
    /\ buffer # 0 => buffer = sent
    /\ want = "cmd_complete" =>
         /\ interrupt \subseteq stale \cup {"cmd_complete", "read_ready", "error"} \cup Errs
         /\ pc = "clear" => stale \subseteq irpt
    /\ want # "cmd_complete" => stale = {}
    /\ want = "read_ready" => interrupt \subseteq {"read_ready", "error"} \cup Errs
    /\ pc = "clear" /\ want = "read_ready" /\ "read_ready" \in irpt => interrupt = irpt
    /\ pc = "copy" => interrupt = {} /\ buffer # 0
    /\ want = "transfer_complete" =>
         interrupt \subseteq {"transfer_complete"} /\ (interrupt # {} => "DAT" \notin inhibit)

IInv == TypeOK /\ CallInv /\ CmdInv /\ RestInv /\ DataInv

-----------------------------------------------------------------------------
(* The operators of the model.                                             *)

\* What CMDTM says of a command.
LEMMA CmdtmOf ==
  ASSUME NEW i \in Commands
  PROVE  /\ set_cmdtm(i) \subseteq CmdtmBits
         /\ "data_present" \in set_cmdtm(i) <=> i \in ADTC
         /\ "busy" \in set_cmdtm(i) <=> i \in R1b
         /\ "multi_block" \in set_cmdtm(i) <=> i = "READ_MULTIPLE_BLOCK"
<1>1. set_cmdtm(i) \subseteq CmdtmBits
  BY DEF set_cmdtm, CmdtmBits
<1>. QED  BY <1>1 DEF set_cmdtm

\* A command moves data if and only if blocks are asked of it.
LEMMA BlocksOfCommand ==
  ASSUME NEW i \in Commands, NEW n \in BlocksOf(i)
  PROVE  /\ n \in 0..MaxBlocks
         /\ n > 0 <=> i \in ADTC
         /\ i \in ADTC /\ i # "READ_MULTIPLE_BLOCK" => n = 1
BY MaxBlocksAssumption DEF BlocksOf, ADTC

\* The commands that move data have no busy answer, and APP_CMD is not one of them.
LEMMA KindsOfCommands ==
  /\ ADTC \cap R1b = {} /\ ADTC \subseteq Commands /\ AppCommands \subseteq Commands
  /\ "APP_CMD" \in Commands /\ "APP_CMD" \notin ADTC
BY DEF ADTC, R1b, Commands, AppCommands, NoResponse, R1, R2, R3, R6R7

\* What is raised are flags, and the summary flag with every error.
LEMMA Raises ==
  ASSUME NEW fs, Raise(fs), fs \subseteq Flags, irpt_mask \subseteq Flags
  PROVE  \E up \in SUBSET Flags :
           /\ interrupt' = interrupt \cup up /\ stale' = stale \ up
           /\ up \subseteq fs \cup {"error"}
           /\ "error" \in fs \/ fs \cap Errs # {} \/ "error" \notin up
           /\ up \cap Errs # {} => "error" \in up
<1>. DEFINE on == fs \cap irpt_mask
            up == on \cup (IF on \cap (CmdErrors \cup DataErrors) # {} THEN {"error"} ELSE {})
<1>1. interrupt' = interrupt \cup up /\ stale' = stale \ up
  BY DEF Raise
<1>2. up \in SUBSET Flags
  BY DEF Flags
<1>3. "error" \notin Errs
  BY DEF Errs, CmdErrors, DataErrors
<1>. WITNESS up \in SUBSET Flags
<1>. QED  BY <1>1, <1>3 DEF Errs

\* Copying the block that is due extends what is in RAM by one block.
LEMMA PrefixGrows ==
  ASSUME NEW m \in 0..MaxBlocks - 1
  PROVE  [Transfer!Prefix(m) EXCEPT ![m + 1] = m + 1] = Transfer!Prefix(m + 1)
<1>1. \A i \in 1..MaxBlocks :
        (IF i = m + 1 THEN m + 1 ELSE IF i <= m THEN i ELSE 0) = IF i <= m + 1 THEN i ELSE 0
  BY MaxBlocksAssumption
<1>2. m + 1 \in 1..MaxBlocks
  BY MaxBlocksAssumption
<1>. QED  BY <1>1, <1>2 DEF Transfer!Prefix

\* Nothing has been copied yet.
LEMMA PrefixNothing == Nothing = Transfer!Prefix(0)
BY MaxBlocksAssumption DEF Transfer!Prefix, Nothing

-----------------------------------------------------------------------------
(* The invariant.                                                          *)

\* The states that begin a behaviour satisfy it.
LEMMA InitIInv == Init => IInv
<1>. SUFFICES ASSUME Init PROVE IInv
  OBVIOUS
<1>. USE DEF Init
<1>1. TypeOK
  <2>1. dest \in [1..MaxBlocks -> 0..MaxBlocks]
    BY MaxBlocksAssumption DEF Nothing
  <2>2. irpt_mask \subseteq Flags /\ idx \in Commands
    BY DEF Flags, CmdFlags, Commands, NoResponse
  <2>3. dat_stale \in BOOLEAN
    OBVIOUS
  <2>4. 0 \in 0..MaxBlocks /\ 0 \in 0..0 /\ 0 \in 0..POLLS - 1
    BY MaxBlocksAssumption, PollsAssumption
  <2>. QED  BY <2>1, <2>2, <2>3, <2>4 DEF TypeOK, PCs, Errors
<1>2. CallInv
  BY PrefixNothing DEF CallInv, Active
<1>3. CmdInv /\ RestInv /\ DataInv
  BY DEF CmdInv, RestInv, DataInv, Active, Data
<1>. QED  BY <1>1, <1>2, <1>3 DEF IInv

\* A call keeps it: the command before it has left nothing behind.
LEMMA CallKeeps ==
  ASSUME IInv, NEW i \in Callable, NEW n \in BlocksOf(i), Call(i, n)
  PROVE  IInv'
<1>. USE DEF Call
<1>1. i \in Commands /\ n \in 0..MaxBlocks /\ i # "APP_CMD"
  <2>1. i \in Commands /\ i # "APP_CMD"
    BY DEF Callable, Commands, NoResponse, R1, R1b, R2, R3, R6R7
  <2>. QED  BY <2>1, BlocksOfCommand
<1>2. TypeOK'
  BY <1>1, KindsOfCommands, MaxBlocksAssumption DEF IInv, TypeOK, PCs, Nothing, history
<1>3. CallInv'
  <2>1. Asked' = i
    BY DEF Asked, AppCommands
  <2>. QED  BY <1>1, <2>1, PrefixNothing, KindsOfCommands DEF IInv, TypeOK, CallInv, Active,
         AppCommands
<1>4. CmdInv'
  BY DEF IInv, CmdInv, history
<1>5. RestInv' /\ DataInv'
  BY DEF IInv, RestInv, DataInv, Active, Data, history
<1>. QED  BY <1>2, <1>3, <1>4, <1>5 DEF IInv

LEMMA EnableKeeps ==
  ASSUME IInv, sd_enable_transfer_interrupts
  PROVE  IInv'
<1>. USE DEF sd_enable_transfer_interrupts, driver, history
<1>1. TypeOK'
  BY DEF IInv, TypeOK, Flags
<1>2. CallInv'
  BY DEF IInv, CallInv, Active, Asked
<1>3. CmdInv' /\ RestInv' /\ DataInv'
  BY DEF IInv, CmdInv, RestInv, DataInv, Active, Data
<1>. QED  BY <1>1, <1>2, <1>3 DEF IInv

\* Issuing a command: the flags that are up are those of earlier commands, and no completion is
\* among them.
LEMMA IssueKeeps ==
  ASSUME IInv, sd_issue_cmd
  PROVE  IInv'
<1>1. CASE IssueError(idx) # "NONE"
  <2>1. /\ pc' = "halt" /\ error' \in Errors
        /\ UNCHANGED <<idx, app, nreq, nblks, dest, want, irpt, polls, interrupt, irpt_mask, cmdtm,
                       blkcnt, inhibit, resp, sent, buffer, stale, dat_stale>>
    BY <1>1 DEF sd_issue_cmd, Fail, IssueError, Errors, history
  <2>2. TypeOK'
    BY <2>1 DEF IInv, TypeOK, PCs
  <2>3. CallInv' /\ CmdInv' /\ RestInv' /\ DataInv'
    BY <2>1 DEF IInv, CallInv, CmdInv, RestInv, DataInv, Active, Data
  <2>. QED  BY <2>2, <2>3 DEF IInv
<1>2. CASE IssueError(idx) = "NONE"
  <2>1. /\ pc = "issue" /\ pc' = "poll" /\ want' = "cmd_complete" /\ polls' = 0
        /\ cmdtm' = set_cmdtm(idx)
        /\ inhibit' = inhibit \cup {"CMD"}
             \cup (IF {"data_present", "busy"} \cap cmdtm' # {} THEN {"DAT"} ELSE {})
        /\ sent' = 0 /\ stale' = interrupt /\ dat_stale' = ("DAT" \in inhibit)
        /\ UNCHANGED <<idx, app, nreq, nblks, dest, irpt, error, interrupt, irpt_mask, blkcnt, resp,
                       buffer>>
    BY <1>2 DEF sd_issue_cmd, WaitFor
  <2>2. idx \in ADTC => "DAT" \notin inhibit
    BY <1>2 DEF IssueError
  <2>3. idx \in Commands
    BY DEF IInv, TypeOK
  <2>4. TypeOK'
    <3>1. inhibit' \subseteq {"CMD", "DAT"} /\ cmdtm' \subseteq CmdtmBits
      BY <2>1, <2>3, CmdtmOf DEF IInv, TypeOK
    <3>2. dat_stale' \in BOOLEAN
      BY <2>1
    <3>3. polls' \in 0..POLLS - 1 /\ sent' \in 0..MaxBlocks
      BY <2>1, PollsAssumption, MaxBlocksAssumption
    <3>. QED  BY <2>1, <3>1, <3>2, <3>3 DEF IInv, TypeOK, PCs
  <2>5. CallInv'
    BY <2>1 DEF IInv, CallInv, Active, Asked
  <2>6. CmdInv'
    BY <2>1 DEF IInv, CmdInv
  <2>7. RestInv'
    BY <2>1, <2>2, <2>3, CmdtmOf, KindsOfCommands DEF IInv, RestInv, Data
  <2>8. DataInv'
    <3>1. buffer = 0 /\ nreq = nblks /\ nreq \in Nat
      BY <2>1 DEF IInv, RestInv, CallInv, TypeOK
    <3>. QED  BY <2>1, <3>1 DEF DataInv, Active, Data
  <2>. QED  BY <2>4, <2>5, <2>6, <2>7, <2>8 DEF IInv
<1>. QED  BY <1>1, <1>2

\* A look at INTERRUPT copies what is there.
LEMMA PollKeeps ==
  ASSUME IInv, PollInterrupt
  PROVE  IInv'
<1>. USE DEF PollInterrupt, hardware, history
<1>1. TypeOK'
  BY DEF IInv, TypeOK, PCs
<1>2. CallInv'
  BY DEF IInv, CallInv, Active, Asked
<1>3. CmdInv'
  BY DEF IInv, CmdInv
<1>4. RestInv' /\ DataInv'
  BY DEF IInv, CmdInv, RestInv, DataInv, Active, Data
<1>. QED  BY <1>1, <1>2, <1>3, <1>4 DEF IInv

LEMMA SleepKeeps ==
  ASSUME IInv, SleepAndCheckTimer
  PROVE  IInv'
<1>1. /\ pc = "sleep" /\ pc' \in {"poll", "halt"} /\ error' \in Errors
      /\ pc' = "poll" => error' = error
      /\ polls' \in 0..POLLS - 1
      /\ UNCHANGED <<idx, app, nreq, nblks, dest, want, irpt, hardware, history>>
  BY PollsAssumption DEF IInv, TypeOK, SleepAndCheckTimer, Fail, Errors
<1>. USE DEF hardware, history
<1>2. TypeOK'
  BY <1>1 DEF IInv, TypeOK, PCs
<1>3. CallInv'
  BY <1>1 DEF IInv, CallInv, Active, Asked
<1>4. CmdInv' /\ RestInv' /\ DataInv'
  BY <1>1 DEF IInv, CmdInv, RestInv, DataInv, Active, Data
<1>. QED  BY <1>2, <1>3, <1>4 DEF IInv

\* What becomes of the flags that were read: the driver gives up, or the flag it waited for is
\* among them and no error is, and it goes on.
LEMMA ClearCases ==
  ASSUME TypeOK, ClearInterrupt
  PROVE  /\ pc = "clear" /\ interrupt' = interrupt \ irpt /\ stale' = stale \cap interrupt'
         /\ UNCHANGED <<nreq, nblks, dest, irpt, irpt_mask, cmdtm, blkcnt, inhibit, resp, sent,
                        buffer, dat_stale>>
         /\ \/ pc' = "halt" /\ error' \in Errors /\ UNCHANGED <<idx, app, want, polls>>
            \/ /\ want \in irpt /\ "error" \notin irpt /\ error' = error
               /\ \/ /\ want = "cmd_complete" /\ app # "none"
                     /\ pc' = "issue" /\ idx' = app /\ app' = "none" /\ UNCHANGED <<want, polls>>
                  \/ /\ want = "cmd_complete" /\ app = "none" /\ idx \in ADTC
                     /\ pc' = "poll" /\ want' = "read_ready" /\ polls' = 0 /\ UNCHANGED <<idx, app>>
                  \/ /\ want = "cmd_complete" /\ app = "none" /\ idx \notin ADTC
                     /\ pc' = "idle" /\ UNCHANGED <<idx, app, want, polls>>
                  \/ /\ want = "read_ready"
                     /\ pc' = "copy" /\ UNCHANGED <<idx, app, want, polls>>
                  \/ /\ want = "transfer_complete"
                     /\ pc' = "idle" /\ UNCHANGED <<idx, app, want, polls>>
<1>1. WaitResult = "NONE" => want \in irpt /\ "error" \notin irpt
  BY DEF WaitResult
<1>2. WaitResult # "NONE" => WaitResult \in Errors
  BY DEF WaitResult, Errors
<1>3. AfterCmdComplete =>
        \/ pc' = "halt" /\ error' \in Errors /\ UNCHANGED <<idx, app, want, polls>>
        \/ /\ app # "none" /\ error' = error
           /\ pc' = "issue" /\ idx' = app /\ app' = "none" /\ UNCHANGED <<want, polls>>
        \/ /\ app = "none" /\ idx \in ADTC /\ error' = error
           /\ pc' = "poll" /\ want' = "read_ready" /\ polls' = 0 /\ UNCHANGED <<idx, app>>
        \/ /\ app = "none" /\ idx \notin ADTC /\ error' = error
           /\ pc' = "idle" /\ UNCHANGED <<idx, app, want, polls>>
  BY DEF AfterCmdComplete, Fail, WaitFor, Errors
<1>4. pc = "clear" /\ interrupt' = interrupt \ irpt /\ stale' = stale \cap interrupt'
  BY DEF ClearInterrupt, Cleared
<1>5. UNCHANGED <<nreq, nblks, dest, irpt, irpt_mask, cmdtm, blkcnt, inhibit, resp, sent,
                  buffer, dat_stale>>
  BY DEF ClearInterrupt
<1>6. CASE WaitResult # "NONE"
  BY <1>2, <1>4, <1>5, <1>6 DEF ClearInterrupt, Fail
<1>7. CASE WaitResult = "NONE" /\ want = "cmd_complete"
  <2>1. AfterCmdComplete
    BY <1>7 DEF ClearInterrupt
  <2>. QED  BY <1>1, <1>3, <1>4, <1>5, <1>7, <2>1
<1>8. CASE WaitResult = "NONE" /\ want # "cmd_complete"
  BY <1>1, <1>4, <1>5, <1>8 DEF ClearInterrupt
<1>. QED  BY <1>6, <1>7, <1>8

\* Clearing what was read: a flag raised since the look stays up, and it belongs to the wait that
\* comes next or makes it fail.
LEMMA ClearKeeps ==
  ASSUME IInv, ClearInterrupt
  PROVE  IInv'
<1>. TypeOK
  BY DEF IInv
<1>. USE ClearCases
<1>1. TypeOK'
  <2>1. idx' \in Commands /\ app' \in AppCommands \cup {"none"} /\ polls' \in 0..POLLS - 1
    BY KindsOfCommands, PollsAssumption DEF IInv, TypeOK
  <2>2. /\ interrupt' \subseteq Flags /\ stale' \subseteq Flags /\ error' \in Errors
        /\ want' \in {"cmd_complete", "read_ready", "transfer_complete"} /\ pc' \in PCs
    BY DEF IInv, TypeOK, PCs
  <2>3. UNCHANGED <<nreq, nblks, dest, irpt, irpt_mask, cmdtm, blkcnt, inhibit, resp, sent, buffer,
                    dat_stale>>
    OBVIOUS
  <2>. QED  BY <2>1, <2>2, <2>3 DEF IInv, TypeOK
<1>2. CallInv'
  <2>1. Active
    BY DEF Active
  <2>2. pc' = "idle" => nblks' = 0
    <3>1. CASE want = "transfer_complete"
      BY <2>1, <3>1 DEF IInv, CallInv
    <3>2. CASE want = "cmd_complete" /\ app = "none" /\ idx \notin ADTC
      BY <2>1, <3>2, BlocksOfCommand DEF IInv, CallInv, Asked, TypeOK
    <3>. QED  BY <3>1, <3>2
  <2>3. pc' = "issue" \/ Active' => Asked' = Asked
    BY DEF Asked, Active, IInv, CallInv
  <2>4. pc' # "halt" => error' = "NONE"
    BY DEF IInv, CallInv
  <2>5. pc' = "issue" => app' = "none" /\ nblks' = nreq'
    BY <2>1 DEF IInv, CallInv
  <2>6. Active' => /\ idx' = idx /\ app' = app /\ cmdtm' = set_cmdtm(idx')
                   /\ want' # "cmd_complete" /\ idx' \in ADTC
                   /\ want' = "read_ready" => nblks' > 0
                   /\ want' = "transfer_complete" => nblks' = 0
                   /\ pc' = "copy" => want' = "read_ready"
    <3>1. want = "cmd_complete" /\ app = "none" /\ idx \in ADTC => nblks > 0
      BY <2>1, BlocksOfCommand DEF IInv, CallInv, Asked, TypeOK
    <3>. QED  BY <2>1, <3>1 DEF IInv, CallInv, Active
  <2>. QED  BY <2>1, <2>2, <2>3, <2>4, <2>5, <2>6 DEF IInv, CallInv
<1>3. CmdInv'
  BY DEF IInv, CmdInv
<1>4. RestInv'
  <2>1. pc' = "issue" => ~Data
    BY CmdtmOf, KindsOfCommands DEF IInv, CallInv, TypeOK, Active, Data
  <2>2. pc' = "idle" /\ want = "cmd_complete" => ~Data /\ nreq = 0
    BY CmdtmOf, BlocksOfCommand DEF IInv, CallInv, TypeOK, Active, Data, Asked
  <2>3. pc' = "idle" /\ want = "transfer_complete" =>
          buffer = 0 /\ inhibit = {} /\ interrupt' = {}
    <3>. SUFFICES ASSUME pc' = "idle", want = "transfer_complete" PROVE
           buffer = 0 /\ inhibit = {} /\ interrupt' = {}
      OBVIOUS
    <3>1. Active /\ Data
      BY CmdtmOf DEF IInv, CallInv, TypeOK, Active, Data
    <3>2. want \in interrupt /\ interrupt' = {} /\ "DAT" \notin inhibit
      BY <3>1 DEF IInv, CmdInv, DataInv
    <3>3. "CMD" \notin inhibit
      BY DEF IInv, CmdInv
    <3>. QED  BY <3>1, <3>2, <3>3 DEF IInv, TypeOK, CallInv, DataInv
  <2>. QED  BY <2>1, <2>2, <2>3 DEF IInv, RestInv, Data
<1>5. DataInv'
  <2>. SUFFICES ASSUME Active', Data' PROVE DataInv'
    BY DEF DataInv
  <2>1. Active /\ Data
    BY DEF Active, Data
  <2>2. CASE want = "cmd_complete"
    <3>1. pc' = "poll" /\ want' = "read_ready" /\ "cmd_complete" \in irpt
      BY <2>2 DEF Active
    <3>2. stale' = {} /\ interrupt' \subseteq {"read_ready", "error"} \cup Errs
      BY <2>1, <2>2, <3>1 DEF IInv, DataInv
    <3>. QED  BY <2>1, <3>1, <3>2 DEF IInv, DataInv
  <2>3. CASE want = "read_ready"
    <3>1. pc' = "copy" /\ want' = "read_ready" /\ "read_ready" \in irpt /\ "error" \notin irpt
      BY <2>3 DEF Active
    <3>2. interrupt = irpt /\ "read_ready" \in interrupt /\ interrupt' = {}
      BY <2>1, <2>3, <3>1 DEF IInv, DataInv
    <3>3. buffer # 0
      BY <3>2 DEF IInv, RestInv
    <3>. QED  BY <2>1, <2>3, <3>1, <3>2, <3>3 DEF IInv, DataInv
  <2>4. CASE want = "transfer_complete"
    BY <2>4 DEF Active
  <2>. QED  BY <2>2, <2>3, <2>4 DEF TypeOK
<1>. QED  BY <1>1, <1>2, <1>3, <1>4, <1>5 DEF IInv

\* The number of blocks that the controller transfers is the one that was asked for.
LEMMA TotalIsAsked ==
  ASSUME TypeOK, CallInv, Active, Data
  PROVE  Total = nreq /\ idx \in ADTC /\ app = "none"
<1>1. idx \in Commands /\ cmdtm = set_cmdtm(idx) /\ idx \in ADTC /\ app = "none"
  BY CmdtmOf, KindsOfCommands DEF TypeOK, CallInv, Data
<1>2. nreq \in BlocksOf(idx) /\ blkcnt = nreq
  BY <1>1 DEF CallInv, Asked
<1>. QED  BY <1>1, <1>2, CmdtmOf, BlocksOfCommand DEF Total

\* Copying a block: it is the one that is due.
LEMMA CopyKeeps ==
  ASSUME IInv, CopyBlock
  PROVE  IInv'
<1>1. Active /\ Data /\ pc = "copy" /\ want = "read_ready"
  BY CmdtmOf DEF IInv, CallInv, TypeOK, CopyBlock, Active, Data
<1>2. nblks \in 1..nreq /\ nreq \in 1..MaxBlocks
  BY <1>1 DEF IInv, CallInv, TypeOK
<1>3. buffer = Place /\ Place \in 1..MaxBlocks /\ buffer = sent /\ interrupt = {} /\ stale = {}
  BY <1>1, <1>2, MaxBlocksAssumption DEF IInv, DataInv, TypeOK, Place
<1>4. /\ dest' = [dest EXCEPT ![Place] = buffer] /\ buffer' = 0 /\ nblks' = nblks - 1
      /\ pc' = "poll" /\ polls' = 0
      /\ want' = IF nblks > 1 THEN "read_ready" ELSE "transfer_complete"
      /\ UNCHANGED <<idx, app, nreq, irpt, error, interrupt, irpt_mask, cmdtm, blkcnt, inhibit,
                     resp, sent, stale, dat_stale>>
  BY DEF CopyBlock, NextWait, WaitFor, history
<1>5. TypeOK'
  <2>1. /\ dest' \in [1..MaxBlocks -> 0..MaxBlocks] /\ buffer' \in 0..MaxBlocks
        /\ nblks' \in 0..nreq /\ polls' \in 0..POLLS - 1
    <3>1. dest \in [1..MaxBlocks -> 0..MaxBlocks] /\ Place \in 0..MaxBlocks
      BY <1>3 DEF IInv, TypeOK
    <3>2. dest' \in [1..MaxBlocks -> 0..MaxBlocks]
      BY <1>3, <1>4, <3>1
    <3>. QED  BY <1>2, <1>4, <3>2, MaxBlocksAssumption, PollsAssumption
  <2>. QED  BY <1>4, <2>1 DEF IInv, TypeOK, PCs
<1>6. CallInv'
  <2>1. dest' = Transfer!Prefix(nreq' - nblks')
    <3>. DEFINE m == nreq - nblks
    <3>1. m \in 0..MaxBlocks - 1 /\ Place = m + 1 /\ nreq' - nblks' = m + 1
      BY <1>2, <1>4, MaxBlocksAssumption DEF Place
    <3>2. dest = Transfer!Prefix(m)
      BY DEF IInv, CallInv
    <3>. HIDE DEF m
    <3>. QED  BY <1>3, <1>4, <3>1, <3>2, PrefixGrows
  <2>2. Asked' = Asked
    BY <1>4 DEF Asked
  <2>. QED  BY <1>1, <1>2, <1>4, <2>1, <2>2 DEF IInv, CallInv, Active
<1>7. CmdInv'
  BY <1>1, <1>3, <1>4 DEF IInv, CmdInv
<1>8. RestInv'
  BY <1>1, <1>3, <1>4 DEF IInv, RestInv, Data
<1>9. DataInv'
  BY <1>1, <1>2, <1>3, <1>4 DEF IInv, DataInv, TypeOK, Place, Active, Data
<1>. QED  BY <1>5, <1>6, <1>7, <1>8, <1>9 DEF IInv

-----------------------------------------------------------------------------
(* The steps of the hardware leave the driver alone.                       *)

\* They change neither the call nor what the driver knows.
LEMMA HardwareKeepsCall ==
  ASSUME CallInv, UNCHANGED <<driver, cmdtm, blkcnt>>
  PROVE  CallInv'
BY DEF CallInv, driver, Active, Asked

LEMMA RespondKeeps ==
  ASSUME IInv, Respond
  PROVE  IInv'
<1>1. /\ "CMD" \in inhibit /\ inhibit' \subseteq inhibit \ {"CMD"}
      /\ resp' \subseteq {"app_cmd", "error_bit"}
      /\ Raise({"cmd_complete"}) \/ ("busy" \in cmdtm /\ Raise({"cmd_complete", "transfer_complete"}))
      /\ UNCHANGED <<driver, irpt_mask, cmdtm, blkcnt, sent, buffer, dat_stale>>
  BY DEF Respond, Responses
<1>2. PICK up \in SUBSET Flags :
        /\ interrupt' = interrupt \cup up /\ stale' = stale \ up
        /\ up \subseteq {"cmd_complete", "transfer_complete"}
        /\ "busy" \notin cmdtm => up \subseteq {"cmd_complete"}
  <2>1. {"cmd_complete"} \subseteq Flags /\ {"cmd_complete", "transfer_complete"} \subseteq Flags
    BY DEF Flags, CmdFlags, DataFlags
  <2>2. {"cmd_complete", "transfer_complete"} \cap Errs = {} /\ "error" \notin {"cmd_complete", "transfer_complete"}
    BY DEF Errs, CmdErrors, DataErrors
  <2>3. irpt_mask \subseteq Flags
    BY DEF IInv, TypeOK
  <2>4. CASE Raise({"cmd_complete"})
    <3>1. PICK up \in SUBSET Flags :
            /\ interrupt' = interrupt \cup up /\ stale' = stale \ up
            /\ up \subseteq {"cmd_complete", "error"} /\ "error" \notin up
      BY <2>1, <2>2, <2>3, <2>4, Raises
    <3>. QED  BY <3>1
  <2>5. CASE "busy" \in cmdtm /\ Raise({"cmd_complete", "transfer_complete"})
    <3>1. PICK up \in SUBSET Flags :
            /\ interrupt' = interrupt \cup up /\ stale' = stale \ up
            /\ up \subseteq {"cmd_complete", "transfer_complete", "error"} /\ "error" \notin up
      BY <2>1, <2>2, <2>3, <2>5, Raises
    <3>. QED  BY <2>5, <3>1
  <2>. QED  BY <1>1, <2>4, <2>5
<1>. USE DEF driver
<1>3. TypeOK'
  BY <1>1, <1>2 DEF IInv, TypeOK
<1>4. CallInv'
  BY <1>1, HardwareKeepsCall DEF IInv
<1>5. up \cap Errs = {}
  BY <1>2 DEF Errs, CmdErrors, DataErrors
<1>6. pc = "halt" \/ (pc \in {"poll", "sleep", "clear"} /\ want = "cmd_complete")
  BY <1>1 DEF IInv, CmdInv
<1>7. CmdInv'
  BY <1>1, <1>2, <1>5, <1>6 DEF IInv, CmdInv
<1>8. RestInv'
  BY <1>1, <1>2, <1>6 DEF IInv, RestInv, Data
<1>9. DataInv'
  <2>1. Data => up \subseteq {"cmd_complete"}
    BY <1>2 DEF IInv, RestInv
  <2>2. "cmd_complete" \notin stale
    BY DEF IInv, CmdInv
  <2>. QED  BY <1>1, <1>2, <1>6, <2>1, <2>2 DEF IInv, DataInv, Active, Data
<1>. QED  BY <1>3, <1>4, <1>7, <1>8, <1>9 DEF IInv

\* What one flag adds to INTERRUPT.
LEMMA RaisesOne ==
  ASSUME TypeOK, NEW f \in Flags \ {"error"}, Raise({f})
  PROVE  \E up \in SUBSET Flags :
           /\ interrupt' = interrupt \cup up /\ stale' = stale \ up
           /\ up \subseteq {f, "error"} /\ (f \notin Errs => up \subseteq {f})
           /\ up \cap Errs # {} => "error" \in up
<1>1. {f} \subseteq Flags /\ irpt_mask \subseteq Flags /\ "error" \notin {f}
  BY DEF TypeOK
<1>2. PICK up \in SUBSET Flags :
        /\ interrupt' = interrupt \cup up /\ stale' = stale \ up
        /\ up \subseteq {f} \cup {"error"}
        /\ "error" \in {f} \/ {f} \cap Errs # {} \/ "error" \notin up
        /\ up \cap Errs # {} => "error" \in up
  BY <1>1, Raises
<1>. WITNESS up \in SUBSET Flags
<1>. QED  BY <1>1, <1>2

LEMMA FlagKinds ==
  /\ Errs \subseteq Flags \ {"error"}
  /\ {"cmd_complete", "read_ready", "transfer_complete"} \subseteq Flags \ ({"error"} \cup Errs)
  /\ CmdErrors \subseteq Errs /\ DataErrors \subseteq Errs
BY DEF Errs, Flags, CmdFlags, DataFlags, CmdErrors, DataErrors

LEMMA CmdFaultKeeps ==
  ASSUME IInv, CmdFault
  PROVE  IInv'
<1>1. /\ "CMD" \in inhibit
      /\ UNCHANGED <<driver, irpt_mask, cmdtm, blkcnt, inhibit, resp, sent, buffer, dat_stale>>
  BY DEF CmdFault
<1>2. PICK f \in CmdErrors : Raise({f})
  BY DEF CmdFault, CmdErrors
<1>3. f \in Errs /\ f \in Flags \ {"error"}
  BY FlagKinds
<1>4. PICK up \in SUBSET Flags :
        /\ interrupt' = interrupt \cup up /\ stale' = stale \ up
        /\ up \subseteq {f, "error"} /\ (up \cap Errs # {} => "error" \in up)
  BY <1>2, <1>3, RaisesOne DEF IInv
<1>5. "cmd_complete" \notin up /\ "read_ready" \notin up
  BY <1>3, <1>4, FlagKinds
<1>. USE DEF driver
<1>6. TypeOK' /\ CallInv'
  BY <1>1, <1>4, HardwareKeepsCall DEF IInv, TypeOK
<1>7. pc = "halt" \/ (pc \in {"poll", "sleep", "clear"} /\ want = "cmd_complete")
  BY <1>1 DEF IInv, CmdInv
<1>8. CmdInv'
  BY <1>1, <1>4, <1>5 DEF IInv, CmdInv
<1>9. RestInv'
  BY <1>1, <1>4, <1>5, <1>7 DEF IInv, RestInv, Data
<1>10. DataInv'
  BY <1>1, <1>3, <1>4, <1>5, <1>7 DEF IInv, DataInv, Active, Data
<1>. QED  BY <1>6, <1>8, <1>9, <1>10 DEF IInv

\* While a block is awaited the driver waits for an answer or for that block.
LEMMA AwaitedBlock ==
  ASSUME IInv, Transferring, sent < Total, buffer = 0
  PROVE  /\ Data
         /\ pc = "halt" \/ (pc \in {"poll", "sleep", "clear"} /\ want # "transfer_complete")
         /\ pc = "clear" /\ want = "read_ready" => "read_ready" \notin irpt
<1>1. Data /\ "CMD" \notin inhibit /\ "DAT" \in inhibit
  BY DEF Transferring, Data
<1>2. pc \notin {"idle", "issue"}
  BY <1>1 DEF IInv, RestInv
<1>3. CASE Active
  <2>1. Total = nreq
    BY <1>1, <1>3, TotalIsAsked DEF IInv
  <2>2. want # "transfer_complete"
    BY <1>1, <1>3, <2>1 DEF IInv, CallInv, DataInv, TypeOK
  <2>3. pc # "copy"
    BY <1>1, <1>3 DEF IInv, DataInv
  <2>4. pc = "clear" => "read_ready" \notin irpt
    BY DEF IInv, CmdInv, RestInv
  <2>. QED  BY <1>1, <1>3, <2>2, <2>3, <2>4 DEF Active
<1>. QED  BY <1>1, <1>2, <1>3 DEF IInv, TypeOK, PCs, Active

\* A transfer never goes beyond the block count.
LEMMA TotalTyped ==
  ASSUME TypeOK
  PROVE  Total \in 0..MaxBlocks
BY MaxBlocksAssumption DEF TypeOK, Total

LEMMA BlockReadyKeeps ==
  ASSUME IInv, BlockReady
  PROVE  IInv'
<1>1. /\ Transferring /\ sent < Total /\ buffer = 0 /\ sent' = sent + 1 /\ buffer' = sent + 1
      /\ Raise({"read_ready"})
      /\ UNCHANGED <<driver, irpt_mask, cmdtm, blkcnt, inhibit, resp, dat_stale>>
  BY DEF BlockReady
<1>2. /\ Data
      /\ pc = "halt" \/ (pc \in {"poll", "sleep", "clear"} /\ want # "transfer_complete")
      /\ pc = "clear" /\ want = "read_ready" => "read_ready" \notin irpt
  BY <1>1, AwaitedBlock
<1>3. PICK up \in SUBSET Flags :
        interrupt' = interrupt \cup up /\ stale' = stale \ up /\ up \subseteq {"read_ready"}
  <2>1. "read_ready" \in Flags \ {"error"} /\ "read_ready" \notin Errs
    BY FlagKinds
  <2>. QED  BY <1>1, <2>1, RaisesOne DEF IInv
<1>4. "read_ready" \notin Errs
  BY FlagKinds
<1>5. sent + 1 \in 1..MaxBlocks
  BY <1>1, TotalTyped, MaxBlocksAssumption DEF IInv, TypeOK
<1>. USE DEF driver
<1>6. TypeOK'
  BY <1>1, <1>3, <1>5 DEF IInv, TypeOK
<1>7. CallInv'
  BY <1>1, HardwareKeepsCall DEF IInv
<1>8. CmdInv'
  BY <1>1, <1>3, <1>4 DEF IInv, CmdInv
<1>9. RestInv'
  BY <1>1, <1>2, <1>3, <1>5 DEF IInv, RestInv, Data
<1>10. DataInv'
  <2>. SUFFICES ASSUME Active', Data' PROVE DataInv'
    BY DEF DataInv
  <2>1. Active /\ Data
    BY <1>1 DEF Active, Data
  <2>2. Total = nreq
    BY <2>1, TotalIsAsked DEF IInv
  <2>3. /\ sent' = nreq' - nblks' + (IF buffer' # 0 THEN 1 ELSE 0) /\ sent' <= nreq'
        /\ buffer' # 0 => buffer' = sent'
    BY <1>1, <1>5, <2>1, <2>2 DEF IInv, DataInv, TypeOK
  <2>. QED  BY <1>1, <1>2, <1>3, <2>1, <2>3 DEF IInv, DataInv, Active
<1>. QED  BY <1>6, <1>7, <1>8, <1>9, <1>10 DEF IInv

LEMMA DataFaultKeeps ==
  ASSUME IInv, DataFault
  PROVE  IInv'
<1>1. /\ Transferring /\ sent < Total /\ buffer = 0
      /\ UNCHANGED <<driver, irpt_mask, cmdtm, blkcnt, inhibit, resp, sent, buffer, dat_stale>>
  BY DEF DataFault
<1>2. /\ Data
      /\ pc = "halt" \/ (pc \in {"poll", "sleep", "clear"} /\ want # "transfer_complete")
      /\ pc = "clear" /\ want = "read_ready" => "read_ready" \notin irpt
  BY <1>1, AwaitedBlock
<1>3. PICK f \in DataErrors : Raise({f})
  BY DEF DataFault
<1>4. f \in Errs /\ f \in Flags \ {"error"}
  BY FlagKinds
<1>5. PICK up \in SUBSET Flags :
        /\ interrupt' = interrupt \cup up /\ stale' = stale \ up
        /\ up \subseteq {f, "error"} /\ (up \cap Errs # {} => "error" \in up)
  BY <1>3, <1>4, RaisesOne DEF IInv
<1>6. "cmd_complete" \notin up /\ "read_ready" \notin up
  BY <1>4, <1>5, FlagKinds
<1>. USE DEF driver
<1>7. TypeOK' /\ CallInv'
  BY <1>1, <1>5, HardwareKeepsCall DEF IInv, TypeOK
<1>8. CmdInv'
  BY <1>1, <1>5, <1>6 DEF IInv, CmdInv
<1>9. RestInv'
  BY <1>1, <1>2, <1>5, <1>6 DEF IInv, RestInv, Data
<1>10. DataInv'
  BY <1>1, <1>2, <1>4, <1>5, <1>6 DEF IInv, DataInv, Active, Data
<1>. QED  BY <1>7, <1>8, <1>9, <1>10 DEF IInv

\* The transfer is over only when the driver has copied its last block.
LEMMA TransferDoneKeeps ==
  ASSUME IInv, TransferDone
  PROVE  IInv'
<1>1. /\ Data /\ "DAT" \in inhibit /\ "CMD" \notin inhibit /\ sent = Total /\ buffer = 0
      /\ inhibit' = inhibit \ {"DAT"}
      /\ Raise({"transfer_complete"})
      /\ UNCHANGED <<driver, irpt_mask, cmdtm, blkcnt, resp, sent, buffer, dat_stale>>
  BY DEF TransferDone, Transferring, Data
<1>2. PICK up \in SUBSET Flags :
        /\ interrupt' = interrupt \cup up /\ stale' = stale \ up
        /\ up \subseteq {"transfer_complete"}
  <2>1. "transfer_complete" \in Flags \ {"error"} /\ "transfer_complete" \notin Errs
    BY FlagKinds
  <2>. QED  BY <1>1, <2>1, RaisesOne DEF IInv
<1>3. "transfer_complete" \notin Errs
  BY FlagKinds
<1>4. pc = "halt" \/ (pc \in {"poll", "sleep", "clear"} /\ want = "transfer_complete")
  <2>1. pc \notin {"idle", "issue"}
    BY <1>1 DEF IInv, RestInv
  <2>2. CASE Active
    <3>1. Total = nreq /\ idx \in ADTC /\ app = "none"
      BY <1>1, <2>2, TotalIsAsked DEF IInv
    <3>2. nreq > 0
      BY <2>2, <3>1, BlocksOfCommand DEF IInv, CallInv, TypeOK, Asked
    <3>3. nblks = 0
      BY <1>1, <2>2, <3>1 DEF IInv, DataInv, TypeOK
    <3>4. want = "transfer_complete"
      BY <2>2, <3>2, <3>3 DEF IInv, CallInv, TypeOK
    <3>. QED  BY <2>2, <3>4 DEF IInv, CallInv, Active
  <2>. QED  BY <2>1, <2>2 DEF IInv, TypeOK, PCs, Active
<1>. USE DEF driver
<1>5. TypeOK' /\ CallInv'
  BY <1>1, <1>2, HardwareKeepsCall DEF IInv, TypeOK
<1>6. CmdInv'
  BY <1>1, <1>2, <1>3 DEF IInv, CmdInv
<1>7. RestInv'
  BY <1>1, <1>2, <1>4 DEF IInv, RestInv, Data
<1>8. DataInv'
  BY <1>1, <1>2, <1>4 DEF IInv, DataInv, Active, Data
<1>. QED  BY <1>5, <1>6, <1>7, <1>8 DEF IInv

\* A busy answer ends: not during a transfer.
LEMMA BusyDoneKeeps ==
  ASSUME IInv, BusyDone
  PROVE  IInv'
<1>1. /\ "DAT" \in inhibit /\ inhibit' = inhibit \ {"DAT"} /\ dat_stale' = FALSE
      /\ UNCHANGED <<driver, irpt_mask, cmdtm, blkcnt, resp, sent, buffer>>
  BY DEF BusyDone
<1>2. ~Data
  BY DEF BusyDone, IInv, RestInv
<1>3. "transfer_complete" \in Flags \ {"error"} /\ "transfer_complete" \notin Errs
  BY FlagKinds
<1>4. PICK up \in SUBSET {"transfer_complete"} :
        /\ interrupt' = interrupt \cup up
        /\ stale' \subseteq stale \cup up
  <2>1. CASE Raise({"transfer_complete"})
    <3>1. PICK up \in SUBSET Flags :
            /\ interrupt' = interrupt \cup up /\ stale' = stale \ up
            /\ up \subseteq {"transfer_complete"}
      BY <1>3, <2>1, RaisesOne DEF IInv
    <3>. QED  BY <3>1
  <2>2. CASE /\ interrupt' = interrupt \cup ({"transfer_complete"} \cap irpt_mask)
             /\ stale' = stale \cup ({"transfer_complete"} \cap (irpt_mask \ interrupt))
    <3>. DEFINE up == {"transfer_complete"} \cap irpt_mask
    <3>1. up \in SUBSET {"transfer_complete"}
      OBVIOUS
    <3>2. interrupt' = interrupt \cup up /\ stale' \subseteq stale \cup up
      BY <2>2
    <3>. WITNESS up \in SUBSET {"transfer_complete"}
    <3>. QED  BY <3>2
  <2>. QED  BY <2>1, <2>2 DEF BusyDone
<1>. USE DEF driver
<1>5. TypeOK'
  <2>1. dat_stale' \in BOOLEAN
    BY <1>1
  <2>2. interrupt' \subseteq Flags /\ stale' \subseteq Flags /\ inhibit' \subseteq {"CMD", "DAT"}
    BY <1>1, <1>3, <1>4 DEF IInv, TypeOK
  <2>. QED  BY <1>1, <2>1, <2>2 DEF IInv, TypeOK
<1>6. CallInv'
  BY <1>1, HardwareKeepsCall DEF IInv
<1>7. CmdInv'
  BY <1>1, <1>3, <1>4 DEF IInv, CmdInv
<1>8. RestInv'
  BY <1>1, <1>2, <1>4 DEF IInv, RestInv, Data
<1>9. DataInv'
  BY <1>1, <1>2 DEF DataInv, Data
<1>. QED  BY <1>5, <1>6, <1>7, <1>8, <1>9 DEF IInv

-----------------------------------------------------------------------------
(* Theorems.                                                               *)

\* Every step of the driver and of the hardware keeps the invariant.
LEMMA NextIInv == IInv /\ [Next]_vars => IInv'
<1>. SUFFICES ASSUME IInv, [Next]_vars PROVE IInv'
  OBVIOUS
<1>1. CASE Caller
  BY <1>1, CallKeeps, EnableKeeps DEF Caller
<1>2. CASE Driver
  BY <1>2, IssueKeeps, PollKeeps, SleepKeeps, ClearKeeps, CopyKeeps DEF Driver
<1>3. CASE Hardware
  BY <1>3, RespondKeeps, CmdFaultKeeps, BlockReadyKeeps, DataFaultKeeps, TransferDoneKeeps,
     BusyDoneKeeps DEF Hardware
<1>4. CASE UNCHANGED vars
  <2>. USE <1>4 DEF vars, driver, hardware, history
  <2>1. TypeOK' /\ CallInv'
    BY DEF IInv, TypeOK, CallInv, Active, Asked
  <2>2. CmdInv' /\ RestInv' /\ DataInv'
    BY DEF IInv, CmdInv, RestInv, DataInv, Active, Data
  <2>. QED  BY <2>1, <2>2 DEF IInv
<1>. QED  BY <1>1, <1>2, <1>3, <1>4 DEF Next, Halted

\* The invariant holds throughout.
LEMMA IInvAlways == Spec => []IInv
BY InitIInv, NextIInv, PTL DEF Spec

\* The registers hold the bits they have, and the read loop of sd_issue_read_cmd() stays within
\* the request.
THEOREM TypeCorrect == Spec => []TypeOK
<1>1. IInv => TypeOK
  BY DEF IInv
<1>. QED  BY <1>1, IInvAlways, PTL

\* No wait of cmd.c is satisfied by a flag that an earlier command left in INTERRUPT or raised
\* late, although a command is issued without clearing INTERRUPT first.
THEOREM CompletionsAreOwn == Spec => []NoStaleCompletion
<1>1. IInv => NoStaleCompletion
  <2>. SUFFICES ASSUME IInv, pc = "clear", WaitResult = "NONE" PROVE want \notin stale
    BY DEF NoStaleCompletion
  <2>1. CASE want = "cmd_complete"
    BY <2>1 DEF IInv, CmdInv
  <2>2. CASE want # "cmd_complete"
    <3>1. Active /\ Data
      BY <2>2, CmdtmOf DEF IInv, TypeOK, CallInv, Active, Data
    <3>. QED  BY <2>2, <3>1 DEF IInv, DataInv
  <2>. QED  BY <2>1, <2>2
<1>. QED  BY <1>1, IInvAlways, PTL

\* The copy loop of sd_issue_read_cmd() reads the DATA register only when the buffer holds the
\* block that is due.
THEOREM CopiesTheBlockThatIsDue == Spec => []NoUnderrun
<1>1. IInv => NoUnderrun
  <2>. SUFFICES ASSUME IInv, pc = "copy" PROVE buffer = nreq - nblks + 1
    BY DEF NoUnderrun
  <2>1. Active /\ Data
    BY CmdtmOf DEF IInv, TypeOK, CallInv, Active, Data
  <2>. QED  BY <2>1 DEF IInv, TypeOK, DataInv
<1>. QED  BY <1>1, IInvAlways, PTL

\* A data transfer that succeeded leaves lines, buffer and INTERRUPT clean for the next command.
THEOREM LeavesNothingBehind == Spec => []QuietOnSuccess
<1>1. IInv => QuietOnSuccess
  BY DEF IInv, RestInv, QuietOnSuccess
<1>. QED  BY <1>1, IInvAlways, PTL

-----------------------------------------------------------------------------
(* The refinement of BlockTransfer.                                        *)

\* A command begins as the abstract transfer does.
LEMMA InitRefines == Init => Transfer!Init
BY PrefixNothing DEF Init, Transfer!Init, Phase

\* Every step of the registers is one of the abstract transfer, or none.
LEMMA NextRefines == IInv /\ IInv' /\ [Next]_vars => [Transfer!Next]_(Transfer!vars)
<1>. SUFFICES ASSUME IInv, IInv', [Next]_vars PROVE [Transfer!Next]_(Transfer!vars)
  OBVIOUS
<1>1. ASSUME NEW i \in Callable, NEW n \in BlocksOf(i), Call(i, n)
      PROVE  Transfer!Begin
  <2>1. n \in 0..MaxBlocks
    BY <1>1 DEF IInv, TypeOK, Call
  <2>. QED  BY <1>1, <2>1, PrefixNothing DEF Call, Transfer!Begin, Phase
<1>2. CASE CopyBlock
  <2>1. Active /\ Data /\ pc = "copy"
    BY <1>2, CmdtmOf DEF IInv, CallInv, TypeOK, CopyBlock, Active, Data
  <2>. DEFINE m == nreq - nblks + 1
  <2>2. m \in 1..nreq /\ nreq' = nreq /\ nreq' - nblks' = m /\ m - 1 = nreq - nblks
    BY <1>2, <2>1 DEF IInv, TypeOK, CallInv, CopyBlock
  <2>3. dest = Transfer!Prefix(m - 1) /\ dest' = Transfer!Prefix(m)
    BY <2>2 DEF IInv, CallInv
  <2>4. Phase = "busy" /\ Phase' = "busy"
    BY <1>2 DEF CopyBlock, NextWait, WaitFor, Phase
  <2>. HIDE DEF m
  <2>. QED  BY <2>2, <2>3, <2>4 DEF Transfer!Next, Transfer!CopyBlock
<1>3. ASSUME UNCHANGED <<nreq, dest>>, pc \notin {"idle", "halt"}
      PROVE  [Transfer!Next]_(Transfer!vars)
  <2>1. CASE pc' = "halt"
    BY <1>3, <2>1 DEF Transfer!Next, Transfer!Fail, Phase
  <2>2. CASE pc' = "idle"
    <3>1. nblks' = 0 /\ nreq' \in Nat /\ dest' = Transfer!Prefix(nreq' - nblks')
      BY <2>2 DEF IInv, CallInv, TypeOK
    <3>2. dest = Transfer!Prefix(nreq)
      BY <1>3, <3>1
    <3>. QED  BY <1>3, <2>2, <3>2 DEF Transfer!Next, Transfer!Finish, Phase
  <2>3. CASE pc' \notin {"halt", "idle"}
    BY <1>3, <2>3 DEF Transfer!vars, Phase
  <2>. QED  BY <2>1, <2>2, <2>3
<1>4. CASE sd_issue_cmd \/ PollInterrupt \/ SleepAndCheckTimer \/ ClearInterrupt
  <2>1. UNCHANGED <<nreq, dest>> /\ pc \notin {"idle", "halt"}
    BY <1>4 DEF sd_issue_cmd, PollInterrupt, SleepAndCheckTimer, ClearInterrupt
  <2>. QED  BY <1>3, <2>1
<1>5. CASE UNCHANGED driver
  BY <1>5 DEF driver, Transfer!vars, Phase
<1>6. sd_enable_transfer_interrupts \/ Hardware \/ Halted => UNCHANGED driver
  BY DEF sd_enable_transfer_interrupts, Hardware, Halted, Respond, CmdFault, BlockReady, DataFault,
         TransferDone, BusyDone, vars
<1>. QED  BY <1>1, <1>2, <1>4, <1>5, <1>6 DEF Next, Caller, Driver, vars, Transfer!Next

\* sd_issue_cmd() and its wrappers, down to the registers, implement BlockTransfer: blocks arrive
\* in order, and success means that all of the requested blocks are in RAM.
THEOREM SdCommandImplements == Spec => ImplementsBlockTransfer
<1>1. Spec => [][Transfer!Next]_(Transfer!vars)
  BY IInvAlways, NextRefines, PTL DEF Spec
<1>. QED  BY <1>1, InitRefines, PTL DEF Spec, ImplementsBlockTransfer, Transfer!Spec
=============================================================================
