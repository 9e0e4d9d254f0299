------------------------------- MODULE SdRead -------------------------------
(***************************************************************************)
(* Reading blocks of the SD card into RAM: the second half of bld/sd/sd.c. *)
(* A read is cut into passes whose length fits the 16 bit block count of a *)
(* command, and a pass into one CMD17, into CMD23 and CMD18, or into as    *)
(* many CMD17 as there are blocks, depending on the card.                  *)
(*                                                                         *)
(* A command is taken at the level of BlockTransfer: it copies its blocks  *)
(* in order and may fail after any of them.                                *)
(***************************************************************************)
EXTENDS Integers

CONSTANTS
  SD_BLKSZ,     \* bytes in a block (512)
  UINT16_MAX,   \* most blocks of one pass (65535)
  WORD,         \* number of values of a 32 bit word (2^32)
  RamAddrs,     \* destinations, block addresses and lengths that callers ask for
  Lbas,
  Counts,
  ByteCounts

ASSUME BlockSizeAssumption == SD_BLKSZ \in Nat \ {0} /\ SD_BLKSZ % 4 = 0
ASSUME PassAssumption == UINT16_MAX \in Nat \ {0, 1}
ASSUME WordAssumption == WORD \in Nat \ {0}
ASSUME RequestAssumption ==
  RamAddrs \subseteq Nat /\ Lbas \subseteq Nat /\ Counts \subseteq Int /\ ByteCounts \subseteq Nat

VARIABLES
  pc,
  req,          \* arguments of the current call, as they were passed
  ram_dest_addr, sd_src_lba, nblks,   \* sd_read_blocks_card()
  dest, addr, left,                   \* _sd_read_blocks_card(): ram_dest_addr, sd_src_addr, nblks
  moved,        \* blocks the current command has copied
  sdhc_or_sdxc, cmd23_supported,      \* struct card
  count,        \* block count the card was given for its next CMD18 (external)
  written       \* pairs <<RAM address, card block>> copied by the current call

outer == <<ram_dest_addr, sd_src_lba, nblks>>
inner == <<dest, addr, left>>
card  == <<sdhc_or_sdxc, cmd23_supported>>
vars  == <<pc, req, outer, inner, moved, card, count, written>>

Init ==
  /\ pc = "idle" /\ req = [dest |-> 0, lba |-> 0, n |-> 0]
  /\ ram_dest_addr = 0 /\ sd_src_lba = 0 /\ nblks = 0
  /\ dest = 0 /\ addr = 0 /\ left = 0 /\ moved = 0
  /\ sdhc_or_sdxc \in BOOLEAN /\ cmd23_supported \in BOOLEAN    \* as sd_init() found the card
  /\ count = 0 /\ written = {}

-----------------------------------------------------------------------------
(* sd_read_blocks() and sd_read_bytes()                                    *)

bytes_to_blocks(bytes) ==
  bytes \div SD_BLKSZ + (IF bytes % SD_BLKSZ # 0 THEN 1 ELSE 0)

\* The caller asks for memory and for blocks that exist: a standard capacity card has
\* fewer bytes than a word can count.
Exists(d, l, n) ==
  /\ d + SD_BLKSZ * n <= WORD
  /\ l + n <= WORD
  /\ sdhc_or_sdxc \/ SD_BLKSZ * (l + n) <= WORD

Call(d, l, n) ==
  /\ pc = "idle" /\ Exists(d, l, n)
  /\ req' = [dest |-> d, lba |-> l, n |-> n]
  /\ ram_dest_addr' = d /\ sd_src_lba' = l /\ nblks' = n
  /\ written' = {}
  /\ pc' = "while"
  /\ UNCHANGED <<inner, moved, card, count>>

sd_read_blocks(d, l, n) == Call(d, l, n)
sd_read_bytes(d, l, bytes) == Call(d, l, bytes_to_blocks(bytes))

-----------------------------------------------------------------------------
(* sd_read_blocks_card(): the loop over the passes                         *)

ReturnTrue ==
  /\ pc = "while" /\ nblks <= 0
  /\ pc' = "idle"
  /\ UNCHANGED <<req, outer, inner, moved, card, count, written>>

\* The error is returned through every caller, down to signal_error().
ReturnFalse ==
  /\ pc' = "failed"
  /\ UNCHANGED <<req, outer, inner, moved, card, count, written>>

OneTooFew == IF nblks < UINT16_MAX THEN nblks ELSE UINT16_MAX - 1

ShorterThanStep == IF nblks <= UINT16_MAX THEN nblks ELSE UINT16_MAX - 1

OneTooMany == IF nblks < UINT16_MAX THEN nblks ELSE UINT16_MAX + 1

\* The length of the next pass.
PassLength == IF nblks < UINT16_MAX THEN nblks ELSE UINT16_MAX

\* A pass is refused for an unaligned destination.
RefuseUnaligned ==
  /\ pc = "while" /\ nblks > 0
  /\ ram_dest_addr % 4 # 0
  /\ ReturnFalse

\* Where on the card a pass starts, in the unit that the card takes.
SrcAddr == IF sdhc_or_sdxc THEN sd_src_lba ELSE (sd_src_lba * SD_BLKSZ) % WORD

\* A pass begins, by one of three ways.
BeginPass ==
  /\ pc = "while" /\ nblks > 0
  /\ ram_dest_addr % 4 = 0
  /\ dest' = ram_dest_addr /\ addr' = SrcAddr /\ left' = PassLength
  /\ moved' = 0
  /\ pc' = IF PassLength = 1 THEN "cmd17" ELSE IF cmd23_supported THEN "cmd23" ELSE "loop"
  /\ UNCHANGED <<req, outer, card, count, written>>

PassNotAdvanced == UNCHANGED <<nblks, ram_dest_addr, sd_src_lba>>

SourceNotAdvanced ==
  /\ nblks' = nblks - UINT16_MAX
  /\ ram_dest_addr' = (ram_dest_addr + SD_BLKSZ * UINT16_MAX) % WORD
  /\ UNCHANGED sd_src_lba

\* The arguments of the next pass.
AdvancePass ==
  /\ nblks' = nblks - UINT16_MAX
  /\ ram_dest_addr' = (ram_dest_addr + SD_BLKSZ * UINT16_MAX) % WORD
  /\ sd_src_lba' = (sd_src_lba + UINT16_MAX) % WORD

EndPass ==
  /\ pc = "pass"
  /\ AdvancePass
  /\ pc' = "while"
  /\ UNCHANGED <<req, inner, moved, card, count, written>>

-----------------------------------------------------------------------------
(* _sd_read_blocks_card(): one pass                                        *)

\* SET_BLOCK_COUNT precedes every CMD18.
SetBlockCount ==
  /\ pc = "cmd23"
  /\ count' = left
  /\ pc' = "cmd18"
  /\ UNCHANGED <<req, outer, inner, moved, card, written>>

\* Blocks that the command being executed is to copy.
Wanted == IF pc = "cmd18" THEN left ELSE 1

\* The block of the card that its address a stands for (external).
CardBlock(a) == IF sdhc_or_sdxc THEN a ELSE a \div SD_BLKSZ

\* The command copies one more block.  CMD18 sends no more blocks than the card was told.
CopyBlock ==
  /\ pc \in {"cmd17", "cmd18", "loop"}
  /\ moved < Wanted
  /\ pc = "cmd18" => moved < count
  /\ written' = written \cup {<<dest + SD_BLKSZ * moved, CardBlock(addr) + moved>>}
  /\ moved' = moved + 1
  /\ UNCHANGED <<pc, req, outer, inner, card, count>>

\* CMD17 or CMD18 returns success, and with it the pass.
EndCommand ==
  /\ pc \in {"cmd17", "cmd18"}
  /\ moved = Wanted
  /\ count' = IF pc = "cmd18" THEN 0 ELSE count
  /\ pc' = "pass"
  /\ UNCHANGED <<req, outer, inner, moved, card, written>>

\* What one block adds to the address of the card.
AddrStep == IF sdhc_or_sdxc THEN 1 ELSE SD_BLKSZ

\* One of the CMD17 of the loop returns success.
EndLoopCommand ==
  /\ pc = "loop"
  /\ moved = Wanted
  /\ dest' = (dest + SD_BLKSZ) % WORD
  /\ addr' = (addr + AddrStep) % WORD
  /\ left' = left - 1
  /\ moved' = 0
  /\ pc' = IF left' = 0 THEN "pass" ELSE "loop"
  /\ UNCHANGED <<req, outer, card, count, written>>

\* A command fails, before or after any of its blocks.
CommandFails ==
  /\ pc \in {"cmd17", "cmd23", "cmd18", "loop"}
  /\ ReturnFalse

-----------------------------------------------------------------------------
\* The bootloader has stopped in signal_error().
Halted == pc = "failed" /\ UNCHANGED vars

Step == \/ ReturnTrue \/ RefuseUnaligned \/ BeginPass \/ EndPass
        \/ SetBlockCount \/ CopyBlock \/ EndCommand \/ EndLoopCommand

Next == \/ \E d \in RamAddrs, l \in Lbas :
             \/ \E n \in Counts : sd_read_blocks(d, l, n)
             \/ \E b \in ByteCounts : sd_read_bytes(d, l, b)
        \/ Step \/ CommandFails \/ Halted

Spec == Init /\ [][Next]_vars

\* The driver is never stopped between two steps, and every wait of a command is bounded.
FairSpec == Spec /\ WF_vars(Step)

-----------------------------------------------------------------------------
(* Properties.                                                             *)

\* The block counts stay within what their types and the count field of a command hold.
TypeOK ==
  /\ pc \in {"idle", "while", "cmd17", "cmd23", "cmd18", "loop", "pass", "failed"}
  /\ req \in [dest : Nat, lba : Nat, n : Int]
  /\ ram_dest_addr \in Nat /\ sd_src_lba \in Nat /\ nblks \in Int
  /\ dest \in Nat /\ addr \in Nat /\ left \in 0..UINT16_MAX
  /\ moved \in 0..UINT16_MAX
  /\ sdhc_or_sdxc \in BOOLEAN /\ cmd23_supported \in BOOLEAN
  /\ count \in 0..UINT16_MAX
  /\ written \subseteq Nat \X Nat

Status == CASE pc = "idle" -> "idle" [] pc = "failed" -> "failed" [] OTHER -> "reading"

Read == INSTANCE BlockRead WITH status <- Status

\* A read that returns true has copied every block asked for to its place: no pass and no
\* block at the border of two passes is missing, shifted or read twice.
ReadInFull ==
  pc = "idle" => written = Read!Blocks(req, req.n)

\* Whatever fails, and whenever, no byte of RAM outside the blocks asked for is written,
\* and none of them with the contents of another.
NothingOutside ==
  written \subseteq Read!Blocks(req, req.n)

\* The passes and the three ways of doing a pass implement one read in order.
ImplementsBlockRead == Read!Spec

\* The loops end: a read comes back to its caller.
ReadReturns == pc \notin {"idle", "failed"} ~> pc \in {"idle", "failed"}
=============================================================================
