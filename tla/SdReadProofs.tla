---------------------------- MODULE SdReadProofs ----------------------------
(***************************************************************************)
(* Proofs about SdRead, for every block size, pass length, word size and   *)
(* request.  The counters of the two loops are related to the number of    *)
(* blocks already in RAM by the inductive invariant IInv; that no          *)
(* intermediate sum wraps around follows from the request itself fitting   *)
(* into a word.                                                            *)
(***************************************************************************)
EXTENDS SdRead, TLAPS

\* Blocks copied by the passes before the current one.
Base == req.n - nblks

\* Blocks of the current pass that earlier commands of its loop have copied.
Pos == IF pc = "loop" THEN PassLength - left ELSE 0

InPass == pc \in {"cmd17", "cmd23", "cmd18", "loop"}

\* The arguments of the next pass are those of the request, moved on by Base blocks.
OuterInv ==
  /\ Exists(req.dest, req.lba, req.n)
  /\ nblks <= req.n
  /\ InPass \/ pc = "pass" => nblks > 0
  /\ nblks > 0 => /\ ram_dest_addr = req.dest + SD_BLKSZ * Base
                  /\ sd_src_lba = req.lba + Base

\* The arguments of the next command are those of the request, moved on by Base + Pos.
InnerInv ==
  InPass =>
    /\ left \in 1..PassLength
    /\ pc = "cmd17" => left = 1 /\ PassLength = 1
    /\ pc \in {"cmd23", "cmd18"} => left = PassLength
    /\ dest = req.dest + SD_BLKSZ * (Base + Pos)
    /\ addr = IF sdhc_or_sdxc THEN req.lba + (Base + Pos)
                              ELSE SD_BLKSZ * (req.lba + (Base + Pos))
    /\ moved \in 0..Wanted

\* What is in RAM.
WrittenInv ==
  /\ pc = "idle" => written = Read!Blocks(req, req.n)
  /\ pc = "while" => written = Read!Blocks(req, IF nblks > 0 THEN Base ELSE req.n)
  /\ InPass => written = Read!Blocks(req, Base + Pos + moved)
  /\ pc = "pass" => written = Read!Blocks(req, Base + PassLength)
  /\ pc = "failed" => \E k \in 0..req.n : written = Read!Blocks(req, k)

IInv == TypeOK /\ OuterInv /\ InnerInv /\ WrittenInv

-----------------------------------------------------------------------------
(* Arithmetic.                                                             *)

\* A number that fits into a word is not changed by being stored in one.
LEMMA FitsWord ==
  ASSUME NEW x \in Nat, x < WORD
  PROVE  x % WORD = x
BY WordAssumption

\* Multiplication by the block size distributes, and is monotonic.
LEMMA BytesOfBlocks ==
  ASSUME NEW a \in Int, NEW b \in Int
  PROVE  /\ SD_BLKSZ * a \in Int
         /\ SD_BLKSZ * (a + b) = SD_BLKSZ * a + SD_BLKSZ * b
         /\ a * SD_BLKSZ = SD_BLKSZ * a
         /\ a >= 0 => SD_BLKSZ * a >= 0
         /\ a < b => SD_BLKSZ * a + SD_BLKSZ <= SD_BLKSZ * b
         /\ a <= b => SD_BLKSZ * a <= SD_BLKSZ * b
<1>1. SD_BLKSZ \in Nat \ {0}
  BY BlockSizeAssumption
<1>2. SD_BLKSZ * (a + b) = SD_BLKSZ * a + SD_BLKSZ * b
  BY <1>1
<1>3. ASSUME NEW c \in Int, c >= 0 PROVE SD_BLKSZ * c >= 0
  BY <1>1, <1>3
<1>4. ASSUME a < b PROVE SD_BLKSZ * a + SD_BLKSZ <= SD_BLKSZ * b
  <2>1. SD_BLKSZ * (b - a - 1) >= 0
    BY <1>3, <1>4
  <2>2. SD_BLKSZ * (b - a - 1) = SD_BLKSZ * b - SD_BLKSZ * a - SD_BLKSZ
    BY <1>1
  <2>. QED  BY <2>1, <2>2, <1>1
<1>5. ASSUME a <= b PROVE SD_BLKSZ * a <= SD_BLKSZ * b
  BY <1>4, <1>5, <1>1
<1>. QED  BY <1>1, <1>2, <1>3, <1>4, <1>5

\* The size of some blocks and of some more is the size of both.
LEMMA Distribute ==
  ASSUME NEW a \in Int, NEW b \in Int
  PROVE  /\ SD_BLKSZ * (a + b) = SD_BLKSZ * a + SD_BLKSZ * b
         /\ SD_BLKSZ * a \in Int /\ SD_BLKSZ * b \in Int
BY BytesOfBlocks

\* Fewer blocks have fewer bytes.
LEMMA BlocksBelow ==
  ASSUME NEW a \in Nat, NEW b \in Int, a < b
  PROVE  SD_BLKSZ * a \in Nat /\ SD_BLKSZ * a + SD_BLKSZ <= SD_BLKSZ * b
BY BytesOfBlocks

\* The card finds the block that a byte address was made from.
LEMMA BlockOfAddress ==
  ASSUME NEW b \in Nat
  PROVE  (SD_BLKSZ * b) \div SD_BLKSZ = b
BY BlockSizeAssumption

\* bytes_to_blocks() asks for enough blocks, and for none too many.
THEOREM BytesToBlocks ==
  ASSUME NEW bytes \in Nat
  PROVE  /\ bytes_to_blocks(bytes) \in Nat
         /\ bytes <= SD_BLKSZ * bytes_to_blocks(bytes)
         /\ SD_BLKSZ * bytes_to_blocks(bytes) < bytes + SD_BLKSZ
<1>. DEFINE q == bytes \div SD_BLKSZ
            r == bytes % SD_BLKSZ
<1>1. q \in Nat /\ r \in 0..SD_BLKSZ - 1 /\ bytes = SD_BLKSZ * q + r
  BY BlockSizeAssumption
<1>2. SD_BLKSZ * (q + 1) = SD_BLKSZ * q + SD_BLKSZ
  BY <1>1, BlockSizeAssumption
<1>3. bytes_to_blocks(bytes) = IF r # 0 THEN q + 1 ELSE q
  BY <1>1 DEF bytes_to_blocks
<1>. HIDE DEF q, r
<1>4. CASE r # 0
  <2>1. bytes_to_blocks(bytes) = q + 1
    BY <1>3, <1>4
  <2>. QED  BY <1>1, <1>2, <1>4, <2>1, BlockSizeAssumption
<1>5. CASE r = 0
  BY <1>1, <1>3, <1>5, BlockSizeAssumption
<1>. QED  BY <1>4, <1>5

-----------------------------------------------------------------------------
(* The blocks of a read.                                                   *)

\* A read of no blocks writes nothing.
LEMMA NoBlocks ==
  ASSUME NEW r, NEW k \in Int, k <= 0
  PROVE  Read!Blocks(r, k) = {}
BY DEF Read!Blocks

\* A read of one more block writes that block in addition.
LEMMA NextBlock ==
  ASSUME NEW r, NEW k \in Nat
  PROVE  Read!Blocks(r, k + 1) = Read!Blocks(r, k) \cup {<<r.dest + SD_BLKSZ * k, r.lba + k>>}
<1>1. 0..(k + 1) - 1 = (0..k - 1) \cup {k}
  OBVIOUS
<1>. QED  BY <1>1 DEF Read!Blocks

\* A shorter read writes a part of what a longer one writes.
LEMMA FewerBlocks ==
  ASSUME NEW r, NEW j \in Int, NEW k \in Int, j <= k
  PROVE  Read!Blocks(r, j) \subseteq Read!Blocks(r, k)
<1>1. 0..j - 1 \subseteq 0..k - 1
  OBVIOUS
<1>. QED  BY <1>1 DEF Read!Blocks

-----------------------------------------------------------------------------
(* The inductive invariant.                                                *)

USE DEF InPass

\* In a pass, every block it is still to copy is one of those asked for, and so no
\* address of it wraps around.
LEMMA PassWithinRequest ==
  ASSUME IInv, InPass \/ pc = "pass" \/ (pc = "while" /\ nblks > 0)
  PROVE  /\ nblks > 0 /\ Base \in Nat
         /\ PassLength \in 1..UINT16_MAX /\ PassLength <= nblks
         /\ Base + PassLength <= req.n
<1>1. nblks > 0 /\ nblks <= req.n /\ nblks \in Int /\ req.n \in Int
  BY DEF IInv, OuterInv, TypeOK
<1>. QED  BY <1>1, PassAssumption DEF PassLength, Base

\* The place in RAM and on the card of every block asked for fits into a word.
LEMMA InRange ==
  ASSUME IInv, NEW k \in Nat, k < req.n
  PROVE  /\ req.dest + SD_BLKSZ * k \in Nat
         /\ req.dest + SD_BLKSZ * k < WORD
         /\ req.lba + k < WORD
         /\ ~sdhc_or_sdxc => /\ SD_BLKSZ * (req.lba + k) \in Nat
                             /\ SD_BLKSZ * (req.lba + k) < WORD
<1>1. /\ req.dest \in Nat /\ req.lba \in Nat /\ req.n \in Int
      /\ req.dest + SD_BLKSZ * req.n <= WORD
      /\ req.lba + req.n <= WORD
      /\ sdhc_or_sdxc \/ SD_BLKSZ * (req.lba + req.n) <= WORD
  BY DEF IInv, TypeOK, OuterInv, Exists
<1>2. /\ SD_BLKSZ * k \in Nat
      /\ SD_BLKSZ * k + SD_BLKSZ <= SD_BLKSZ * req.n
  BY <1>1, BytesOfBlocks
<1>3. /\ SD_BLKSZ * (req.lba + k) \in Nat
      /\ SD_BLKSZ * (req.lba + k) + SD_BLKSZ <= SD_BLKSZ * (req.lba + req.n)
  <2>1. req.lba + k \in Nat /\ req.lba + req.n \in Int /\ req.lba + k < req.lba + req.n
    BY <1>1
  <2>. QED  BY <2>1, BlocksBelow
<1>. QED  BY <1>1, <1>2, <1>3, BlockSizeAssumption, WordAssumption

\* The invariant holds before the first call.
LEMMA InitIInv == Init => IInv
<1>. SUFFICES ASSUME Init PROVE IInv
  OBVIOUS
<1>1. TypeOK
  BY PassAssumption DEF Init, TypeOK
<1>2. OuterInv
  BY BytesOfBlocks, BlockSizeAssumption, WordAssumption DEF Init, OuterInv, Exists, Base
<1>3. InnerInv
  BY DEF Init, InnerInv
<1>4. WrittenInv
  BY NoBlocks DEF Init, WrittenInv
<1>. QED  BY <1>1, <1>2, <1>3, <1>4 DEF IInv

\* Every action keeps the types, the counters of both loops and what is in RAM together.
LEMMA NextIInv == IInv /\ [Next]_vars => IInv'
<1>. SUFFICES ASSUME IInv, [Next]_vars PROVE IInv'
  OBVIOUS
<1>. USE DEF IInv
<1>1. ASSUME NEW d \in Nat, NEW l \in Nat, NEW n \in Int, Call(d, l, n)
      PROVE  IInv'
  <2>1. TypeOK'
    BY <1>1 DEF TypeOK, Call, inner, card
  <2>2. OuterInv'
    BY <1>1, BytesOfBlocks, BlockSizeAssumption
       DEF TypeOK, OuterInv, Call, Exists, Base, inner, card
  <2>3. InnerInv'
    BY <1>1 DEF InnerInv, Call
  <2>4. WrittenInv'
    <3>. DEFINE k == IF nblks' > 0 THEN Base' ELSE req'.n
    <3>1. k \in Int /\ k <= 0
      BY <1>1 DEF Call, Base
    <3>2. Read!Blocks(req', k) = {}
      BY <3>1, NoBlocks
    <3>. QED  BY <1>1, <3>2 DEF WrittenInv, Call
  <2>. QED  BY <2>1, <2>2, <2>3, <2>4
<1>2. CASE ReturnTrue
  BY <1>2 DEF ReturnTrue, TypeOK, OuterInv, InnerInv, WrittenInv, Exists, Base, Pos,
              PassLength, Wanted, outer, inner, card
<1>3. CASE RefuseUnaligned
  <2>1. Base \in 0..req.n /\ written = Read!Blocks(req, Base)
    BY <1>3, PassWithinRequest DEF RefuseUnaligned, WrittenInv, TypeOK, Base
  <2>. QED
    BY <1>3, <2>1 DEF RefuseUnaligned, ReturnFalse, TypeOK, OuterInv, InnerInv, WrittenInv,
                Exists, Base, outer, inner, card
<1>4. CASE CommandFails
  <2>1. Base + Pos + moved \in 0..req.n /\ written = Read!Blocks(req, Base + Pos + moved)
    BY <1>4, PassWithinRequest
       DEF CommandFails, WrittenInv, InnerInv, TypeOK, Base, Pos, Wanted
  <2>. QED
    BY <1>4, <2>1 DEF CommandFails, ReturnFalse, TypeOK, OuterInv, InnerInv, WrittenInv,
                Exists, Base, outer, inner, card
<1>5. CASE BeginPass
  <2>1. /\ PassLength \in 1..UINT16_MAX /\ Base \in Nat /\ Base < req.n
        /\ PassLength' = PassLength /\ Base' = Base
    <3>1. /\ PassLength \in 1..UINT16_MAX /\ Base \in Nat /\ Base + PassLength <= req.n
          /\ req.n \in Int
      BY <1>5, PassWithinRequest DEF BeginPass, TypeOK
    <3>2. PassLength' = PassLength /\ Base' = Base
      BY <1>5 DEF BeginPass, PassLength, Base, outer
    <3>. QED  BY <3>1, <3>2
  <2>2. Pos' = 0 /\ Wanted' \in Nat
    BY <1>5, <2>1 DEF BeginPass, Pos, Wanted
  <2>3. SrcAddr = IF sdhc_or_sdxc THEN req.lba + Base ELSE SD_BLKSZ * (req.lba + Base)
    <3>1. sd_src_lba = req.lba + Base /\ sd_src_lba \in Nat
      BY <1>5 DEF BeginPass, OuterInv, TypeOK
    <3>2. sd_src_lba * SD_BLKSZ = SD_BLKSZ * (req.lba + Base)
      BY <3>1, BlockSizeAssumption
    <3>3. ~sdhc_or_sdxc => (sd_src_lba * SD_BLKSZ) % WORD = SD_BLKSZ * (req.lba + Base)
      BY <2>1, <3>2, InRange, FitsWord
    <3>. QED  BY <3>1, <3>3 DEF SrcAddr
  <2>4. SrcAddr \in Nat
    BY <2>1, <2>3, InRange DEF TypeOK
  <2>5. TypeOK'
    BY <1>5, <2>1, <2>4, PassAssumption DEF BeginPass, TypeOK, outer, card
  <2>6. OuterInv'
    BY <1>5 DEF BeginPass, OuterInv, Exists, Base, outer, card
  <2>7. InnerInv'
    <3>1. dest' = req'.dest + SD_BLKSZ * (Base' + Pos')
      BY <1>5, <2>1, <2>2 DEF BeginPass, OuterInv, outer
    <3>2. addr' = IF sdhc_or_sdxc' THEN req'.lba + (Base' + Pos')
                                  ELSE SD_BLKSZ * (req'.lba + (Base' + Pos'))
      BY <1>5, <2>1, <2>2, <2>3 DEF BeginPass, outer, card
    <3>3. left' = PassLength' /\ moved' = 0 /\ (pc' = "cmd17" => left' = 1)
      BY <1>5, <2>1 DEF BeginPass
    <3>. QED  BY <2>1, <2>2, <3>1, <3>2, <3>3 DEF InnerInv
  <2>8. WrittenInv'
    <3>1. written = Read!Blocks(req, Base) /\ Base' + Pos' + moved' = Base
      BY <1>5, <2>1, <2>2 DEF BeginPass, WrittenInv
    <3>. QED  BY <1>5, <3>1 DEF BeginPass, WrittenInv
  <2>. QED  BY <2>5, <2>6, <2>7, <2>8
<1>6. CASE EndPass
  <2>1. /\ PassLength \in 1..UINT16_MAX /\ Base \in Nat /\ nblks \in Int /\ req.n \in Int
        /\ PassLength = IF nblks < UINT16_MAX THEN nblks ELSE UINT16_MAX
        /\ nblks > 0 /\ nblks <= req.n
    BY <1>6, PassWithinRequest DEF EndPass, TypeOK, OuterInv, PassLength
  <2>2. nblks' = nblks - UINT16_MAX /\ req' = req /\ written' = written /\ pc' = "while"
    BY <1>6 DEF EndPass, AdvancePass
  <2>3. Base' = Base + UINT16_MAX
    BY <2>1, <2>2, PassAssumption DEF Base
  <2>4. TypeOK'
    BY <1>6, WordAssumption, PassAssumption, BlockSizeAssumption
       DEF EndPass, AdvancePass, TypeOK, inner, card
  <2>5. OuterInv'
    <3>1. ASSUME nblks' > 0
          PROVE  /\ ram_dest_addr' = req'.dest + SD_BLKSZ * Base'
                 /\ sd_src_lba' = req'.lba + Base'
      <4>1. Base' \in Nat /\ Base' < req.n
        BY <2>1, <2>2, <2>3, <3>1, PassAssumption DEF Base
      <4>2. /\ ram_dest_addr = req.dest + SD_BLKSZ * Base
            /\ sd_src_lba = req.lba + Base
        BY <2>1 DEF OuterInv
      <4>3. SD_BLKSZ * Base' = SD_BLKSZ * Base + SD_BLKSZ * UINT16_MAX
        BY <2>1, <2>3, Distribute, PassAssumption
      <4>4. ram_dest_addr + SD_BLKSZ * UINT16_MAX = req.dest + SD_BLKSZ * Base'
        <5>1. SD_BLKSZ * Base \in Int /\ SD_BLKSZ * UINT16_MAX \in Int
          BY <2>1, BlockSizeAssumption, PassAssumption
        <5>2. req.dest \in Int
          BY DEF TypeOK
        <5>. QED  BY <4>2, <4>3, <5>1, <5>2
      <4>5. sd_src_lba + UINT16_MAX = req.lba + Base'
        BY <2>1, <2>3, <4>2, PassAssumption DEF TypeOK
      <4>6. /\ (req.dest + SD_BLKSZ * Base') % WORD = req.dest + SD_BLKSZ * Base'
            /\ (req.lba + Base') % WORD = req.lba + Base'
        <5>1. req.lba + Base' \in Nat
          BY <4>1 DEF TypeOK
        <5>. QED  BY <4>1, <5>1, InRange, FitsWord
      <4>. QED  BY <1>6, <2>2, <4>4, <4>5, <4>6 DEF EndPass, AdvancePass
    <3>2. nblks' <= req'.n
      BY <2>1, <2>2, PassAssumption
    <3>. QED  BY <1>6, <2>2, <3>1, <3>2 DEF EndPass, OuterInv, Exists, card
  <2>6. InnerInv'
    BY <2>2 DEF InnerInv
  <2>7. WrittenInv'
    <3>1. (IF nblks' > 0 THEN Base' ELSE req.n) = Base + PassLength
      BY <2>1, <2>2, <2>3, PassAssumption DEF Base
    <3>. QED  BY <1>6, <2>2, <3>1 DEF EndPass, WrittenInv
  <2>. QED  BY <2>4, <2>5, <2>6, <2>7
<1>7. CASE SetBlockCount
  <2>1. PassLength' = PassLength /\ Base' = Base /\ Pos' = 0 /\ Pos = 0
    BY <1>7 DEF SetBlockCount, PassLength, Base, Pos, outer
  <2>2. PassLength \in 1..UINT16_MAX /\ left = PassLength /\ Wanted' = left /\ Wanted = 1
    BY <1>7, PassWithinRequest DEF SetBlockCount, InnerInv, Wanted, inner
  <2>3. TypeOK' /\ OuterInv'
    BY <1>7, <2>2, PassAssumption DEF SetBlockCount, TypeOK, OuterInv, Exists, Base, outer, inner, card
  <2>4. InnerInv'
    BY <1>7, <2>1, <2>2 DEF SetBlockCount, InnerInv, outer, inner, card
  <2>5. WrittenInv'
    BY <1>7, <2>1 DEF SetBlockCount, WrittenInv, inner
  <2>. QED  BY <2>3, <2>4, <2>5
<1>8. CASE CopyBlock
  <2>1. /\ PassLength' = PassLength /\ Base' = Base /\ Pos' = Pos /\ Wanted' = Wanted
        /\ pc' = pc /\ req' = req /\ moved' = moved + 1
    BY <1>8 DEF CopyBlock, PassLength, Base, Pos, Wanted, outer, inner
  <2>2. /\ PassLength \in 1..UINT16_MAX /\ Base \in Nat /\ Pos \in Nat /\ moved \in Nat
        /\ Wanted \in Nat /\ moved < Wanted /\ Wanted <= UINT16_MAX
        /\ Base + Pos + moved < req.n
    <3>1. PassLength \in 1..UINT16_MAX /\ Base \in Nat /\ Base + PassLength <= req.n
      BY <1>8, PassWithinRequest DEF CopyBlock
    <3>2. left \in 1..PassLength /\ moved \in Nat /\ moved < Wanted /\ req.n \in Int
      BY <1>8 DEF CopyBlock, InnerInv, TypeOK
    <3>3. CASE pc = "loop"
      BY <3>1, <3>2, <3>3, PassAssumption DEF Pos, Wanted
    <3>4. CASE pc # "loop"
      BY <3>1, <3>2, <3>4, PassAssumption DEF Pos, Wanted
    <3>. QED  BY <3>3, <3>4
  <2>. DEFINE k == Base + Pos
  <2>3. dest + SD_BLKSZ * moved = req.dest + SD_BLKSZ * (k + moved)
    <3>1. dest = req.dest + SD_BLKSZ * k
      BY <1>8 DEF CopyBlock, InnerInv
    <3>2. /\ SD_BLKSZ * (k + moved) = SD_BLKSZ * k + SD_BLKSZ * moved
          /\ SD_BLKSZ * k \in Int /\ SD_BLKSZ * moved \in Int
      <4>1. k \in Int /\ moved \in Int
        BY <2>2
      <4>. HIDE DEF k
      <4>. QED  BY <4>1, Distribute
    <3>3. req.dest \in Int
      BY DEF TypeOK
    <3>. QED  BY <3>1, <3>2, <3>3
  <2>4. CardBlock(addr) = req.lba + k
    <3>1. addr = IF sdhc_or_sdxc THEN req.lba + k ELSE SD_BLKSZ * (req.lba + k)
      BY <1>8 DEF CopyBlock, InnerInv
    <3>2. req.lba + k \in Nat
      BY <2>2 DEF TypeOK
    <3>. QED  BY <3>1, <3>2, BlockOfAddress DEF CardBlock
  <2>5. written' = Read!Blocks(req, k + moved + 1)
    <3>1. k + moved \in Nat /\ written = Read!Blocks(req, k + moved)
      BY <1>8, <2>2 DEF CopyBlock, WrittenInv
    <3>2. CardBlock(addr) + moved = req.lba + (k + moved)
      BY <2>2, <2>4 DEF TypeOK
    <3>. QED  BY <1>8, <2>3, <3>1, <3>2, NextBlock DEF CopyBlock
  <2>6. TypeOK'
    <3>1. dest + SD_BLKSZ * moved \in Nat /\ CardBlock(addr) + moved \in Nat
      BY <2>2, <2>3, <2>4, InRange DEF TypeOK
    <3>2. moved' \in 0..UINT16_MAX
      BY <2>1, <2>2, PassAssumption
    <3>. QED  BY <1>8, <3>1, <3>2 DEF CopyBlock, TypeOK, outer, inner, card
  <2>7. OuterInv'
    BY <1>8 DEF CopyBlock, OuterInv, Exists, Base, outer, card
  <2>8. InnerInv'
    BY <1>8, <2>1, <2>2 DEF CopyBlock, InnerInv, outer, inner, card
  <2>9. WrittenInv'
    BY <1>8, <2>1, <2>2, <2>5 DEF CopyBlock, WrittenInv
  <2>. QED  BY <2>6, <2>7, <2>8, <2>9
<1>9. CASE EndCommand
  <2>1. PassLength' = PassLength /\ Base' = Base
    BY <1>9 DEF EndCommand, PassLength, Base, outer
  <2>2. Base + Pos + moved = Base + PassLength
    BY <1>9, PassWithinRequest DEF EndCommand, InnerInv, Pos, Wanted
  <2>3. TypeOK' /\ OuterInv'
    BY <1>9, PassAssumption DEF EndCommand, TypeOK, OuterInv, Exists, Base, outer, inner, card
  <2>4. InnerInv' /\ WrittenInv'
    BY <1>9, <2>1, <2>2 DEF EndCommand, InnerInv, WrittenInv
  <2>. QED  BY <2>3, <2>4
<1>10. CASE EndLoopCommand
  <2>1. /\ PassLength' = PassLength /\ Base' = Base /\ req' = req /\ written' = written
        /\ pc = "loop" /\ Pos = PassLength - left /\ moved = 1 /\ left' = left - 1 /\ moved' = 0
    BY <1>10 DEF EndLoopCommand, PassLength, Base, Pos, Wanted, outer
  <2>2. /\ PassLength \in 1..UINT16_MAX /\ Base \in Nat /\ Base + PassLength <= req.n
        /\ left \in 1..PassLength /\ nblks > 0 /\ req.n \in Int
    BY <2>1, PassWithinRequest DEF InnerInv, TypeOK
  <2>3. TypeOK'
    <3>1. (dest + SD_BLKSZ) % WORD \in Nat /\ (addr + AddrStep) % WORD \in Nat
      BY WordAssumption, BlockSizeAssumption DEF TypeOK, AddrStep
    <3>2. left' \in 0..UINT16_MAX /\ moved' \in 0..UINT16_MAX
      BY <2>1, <2>2, PassAssumption
    <3>. QED  BY <1>10, <3>1, <3>2 DEF EndLoopCommand, TypeOK, outer, card
  <2>4. OuterInv'
    BY <1>10, <2>2 DEF EndLoopCommand, OuterInv, Exists, Base, outer, card
  <2>5. ASSUME left' # 0
        PROVE  InnerInv' /\ WrittenInv'
    <3>. DEFINE k == Base + Pos
    <3>1. /\ pc' = "loop" /\ Pos' = Pos + 1 /\ Base' + Pos' = k + 1 /\ k \in Nat
          /\ k + 1 < req.n /\ left' \in 1..PassLength /\ Wanted' = 1
      BY <1>10, <2>1, <2>2, <2>5 DEF EndLoopCommand, Pos, Wanted
    <3>2. /\ dest = req.dest + SD_BLKSZ * k
          /\ addr = IF sdhc_or_sdxc THEN req.lba + k ELSE SD_BLKSZ * (req.lba + k)
      BY <2>1 DEF InnerInv
    <3>3. dest' = req.dest + SD_BLKSZ * (k + 1)
      <4>1. dest + SD_BLKSZ = req.dest + SD_BLKSZ * (k + 1)
        BY <3>1, <3>2, BlockSizeAssumption DEF TypeOK
      <4>. QED  BY <1>10, <3>1, <4>1, InRange, FitsWord DEF EndLoopCommand
    <3>4. addr' = IF sdhc_or_sdxc THEN req.lba + (k + 1) ELSE SD_BLKSZ * (req.lba + (k + 1))
      <4>1. addr + AddrStep = IF sdhc_or_sdxc THEN req.lba + (k + 1)
                                              ELSE SD_BLKSZ * (req.lba + (k + 1))
        <5>1. SD_BLKSZ * ((req.lba + k) + 1) = SD_BLKSZ * (req.lba + k) + SD_BLKSZ * 1
          BY <3>1, Distribute DEF TypeOK
        <5>. QED  BY <3>1, <3>2, <5>1, BlockSizeAssumption DEF TypeOK, AddrStep
      <4>2. req.lba + (k + 1) \in Nat
        BY <3>1 DEF TypeOK
      <4>. QED  BY <1>10, <3>1, <4>1, <4>2, InRange, FitsWord DEF EndLoopCommand
    <3>5. InnerInv'
      BY <1>10, <2>1, <3>1, <3>3, <3>4 DEF EndLoopCommand, InnerInv, card
    <3>6. WrittenInv'
      <4>1. Base' + Pos' + moved' = Base + Pos + moved
        BY <2>1, <3>1
      <4>. QED  BY <2>1, <3>1, <4>1 DEF WrittenInv
    <3>. QED  BY <3>5, <3>6
  <2>6. ASSUME left' = 0
        PROVE  InnerInv' /\ WrittenInv'
    <3>1. pc' = "pass" /\ Base + Pos + moved = Base + PassLength
      BY <1>10, <2>1, <2>2, <2>6 DEF EndLoopCommand
    <3>. QED  BY <2>1, <3>1 DEF InnerInv, WrittenInv
  <2>. QED  BY <2>3, <2>4, <2>5, <2>6
<1>11. CASE Halted \/ UNCHANGED vars
  BY <1>11 DEF Halted, TypeOK, OuterInv, InnerInv, WrittenInv, Exists, Base, Pos,
              PassLength, Wanted, vars, outer, inner, card
<1>12. ASSUME NEW d \in RamAddrs, NEW l \in Lbas, NEW b \in ByteCounts, sd_read_bytes(d, l, b)
       PROVE  IInv'
  BY <1>12, <1>1, BytesToBlocks, RequestAssumption DEF sd_read_bytes
<1>13. ASSUME NEW d \in RamAddrs, NEW l \in Lbas, NEW n \in Counts, sd_read_blocks(d, l, n)
       PROVE  IInv'
  BY <1>13, <1>1, RequestAssumption DEF sd_read_blocks
<1>. QED
  BY <1>2, <1>3, <1>4, <1>5, <1>6, <1>7, <1>8, <1>9, <1>10, <1>11, <1>12, <1>13
     DEF Next, Step

-----------------------------------------------------------------------------
(* The theorems.                                                           *)

\* The invariant holds throughout.
LEMMA IInvAlways == Spec => []IInv
BY InitIInv, NextIInv, PTL DEF Spec

\* The block counts of every pass and of every command fit their 16 bits.
THEOREM TypeCorrect == Spec => []TypeOK
<1>1. IInv => TypeOK
  BY DEF IInv
<1>. QED  BY <1>1, IInvAlways, PTL

\* A read that returns true has copied exactly the blocks asked for.
THEOREM ReadIsComplete == Spec => []ReadInFull
<1>1. IInv => ReadInFull
  BY DEF IInv, WrittenInv, ReadInFull
<1>. QED  BY <1>1, IInvAlways, PTL

\* At no moment, and after no failure, is anything outside the request written.
THEOREM ReadStaysInside == Spec => []NothingOutside
<1>1. IInv => NothingOutside
  <2>. SUFFICES ASSUME IInv PROVE \E k \in Int : k <= req.n /\ written = Read!Blocks(req, k)
    BY FewerBlocks DEF NothingOutside, IInv, TypeOK
  <2>0. req.n \in Int /\ nblks \in Int
    BY DEF IInv, TypeOK
  <2>1. CASE pc = "idle" \/ (pc = "while" /\ ~(nblks > 0))
    BY <2>0, <2>1 DEF IInv, WrittenInv
  <2>2. CASE pc = "while" /\ nblks > 0
    <3>1. Base \in Int /\ Base <= req.n
      BY <2>0, <2>2 DEF Base
    <3>. QED  BY <2>2, <3>1 DEF IInv, WrittenInv
  <2>3. CASE InPass
    <3>1. Base \in Nat /\ PassLength \in Nat /\ Base + PassLength <= req.n
      BY <2>3, PassWithinRequest
    <3>2. left \in 1..PassLength /\ moved \in 0..Wanted
      BY <2>3 DEF IInv, InnerInv
    <3>3. Base + Pos + moved \in Int /\ Base + Pos + moved <= req.n
      BY <2>0, <2>3, <3>1, <3>2 DEF IInv, InnerInv, Pos, Wanted
    <3>. QED  BY <2>3, <3>3 DEF IInv, WrittenInv
  <2>4. CASE pc = "pass"
    <3>1. Base + PassLength \in Int /\ Base + PassLength <= req.n
      BY <2>4, PassWithinRequest
    <3>. QED  BY <2>4, <3>1 DEF IInv, WrittenInv
  <2>5. CASE pc = "failed"
    BY <2>0, <2>5 DEF IInv, WrittenInv
  <2>. QED  BY <2>1, <2>2, <2>3, <2>4, <2>5 DEF IInv, TypeOK
<1>. QED  BY <1>1, IInvAlways, PTL

-----------------------------------------------------------------------------
(* The refinement.                                                         *)

\* Initially there is no read, abstract or concrete.
LEMMA InitRefines == Init => Read!Init
BY DEF Init, Read!Init, Status

\* A step of the driver is a step of the abstract read, or is not visible in it.
LEMMA NextRefines == IInv /\ [Next]_vars => [Read!Next]_(Read!vars)
<1>. SUFFICES ASSUME IInv, [Next]_vars PROVE [Read!Next]_(Read!vars)
  OBVIOUS
<1>0. /\ pc \in {"idle", "while", "cmd17", "cmd23", "cmd18", "loop", "pass", "failed"}
      /\ req.n \in Int
  BY DEF IInv, TypeOK
<1>1. ASSUME NEW d \in Nat, NEW l \in Nat, NEW n \in Int, Call(d, l, n)
      PROVE  Read!Begin
  BY <1>1 DEF Call, Read!Begin, Status
<1>2. CASE ReturnTrue
  <2>1. written = Read!Blocks(req, req.n)
    BY <1>2 DEF ReturnTrue, IInv, WrittenInv, TypeOK
  <2>2. Read!Succeed
    BY <1>2, <2>1 DEF ReturnTrue, Read!Succeed, Status
  <2>. QED  BY <2>2 DEF Read!Next
<1>3. CASE RefuseUnaligned \/ CommandFails
  <2>1. Read!Fail
    BY <1>3 DEF RefuseUnaligned, CommandFails, ReturnFalse, Read!Fail, Status
  <2>. QED  BY <2>1 DEF Read!Next
<1>4. CASE BeginPass \/ EndPass \/ SetBlockCount \/ EndCommand \/ EndLoopCommand
  BY <1>4 DEF BeginPass, EndPass, SetBlockCount, EndCommand, EndLoopCommand, Status, Read!vars
<1>5. CASE CopyBlock
  <2>. DEFINE k == Base + Pos + moved
  <2>1. k \in 0..req.n - 1
    <3>1. Base \in Nat /\ PassLength \in Nat /\ Base + PassLength <= req.n
      BY <1>5, PassWithinRequest DEF CopyBlock
    <3>2. left \in 1..PassLength /\ moved \in Nat /\ moved < Wanted
      BY <1>5 DEF CopyBlock, IInv, InnerInv, TypeOK
    <3>3. CASE pc = "loop"
      BY <1>0, <3>1, <3>2, <3>3 DEF Pos, Wanted
    <3>4. CASE pc # "loop"
      BY <1>0, <3>1, <3>2, <3>4 DEF Pos, Wanted
    <3>. QED  BY <3>3, <3>4
  <2>2. written = Read!Blocks(req, k)
    BY <1>5 DEF CopyBlock, IInv, WrittenInv
  <2>3. written' = Read!Blocks(req, k + 1)
    <3>1. IInv'
      BY NextIInv
    <3>2. Base' = Base /\ Pos' = Pos /\ moved' = moved + 1 /\ req' = req
      BY <1>5 DEF CopyBlock, PassLength, Base, Pos, outer, inner
    <3>3. InPass' /\ written' = Read!Blocks(req', Base' + Pos' + moved')
      BY <1>5, <3>1 DEF CopyBlock, IInv, WrittenInv
    <3>4. moved \in Int /\ Base \in Int /\ Pos \in Int
      <4>1. Base \in Int
        BY <1>5, PassWithinRequest DEF CopyBlock
      <4>2. moved \in Int /\ left \in Int /\ PassLength \in Int
        BY <1>5, PassWithinRequest DEF CopyBlock, IInv, TypeOK
      <4>. QED  BY <4>1, <4>2 DEF Pos
    <3>5. Base + Pos + (moved + 1) = k + 1
      BY <3>4
    <3>. QED  BY <3>2, <3>3, <3>5
  <2>4. Read!CopyBlock
    <3>. HIDE DEF k
    <3>1. \E j \in 0..req.n - 1 : written = Read!Blocks(req, j) /\ written' = Read!Blocks(req, j + 1)
      BY <2>1, <2>2, <2>3
    <3>2. Status = "reading" /\ Status' = Status /\ req' = req
      BY <1>5 DEF CopyBlock, Status
    <3>. QED  BY <3>1, <3>2 DEF Read!CopyBlock
  <2>. QED  BY <2>4 DEF Read!Next
<1>6. CASE Halted \/ UNCHANGED vars
  BY <1>6 DEF Halted, vars, Read!vars, Status
<1>7. ASSUME NEW d \in RamAddrs, NEW l \in Lbas, NEW b \in ByteCounts, sd_read_bytes(d, l, b)
      PROVE  Read!Begin
  BY <1>7, <1>1, BytesToBlocks, RequestAssumption DEF sd_read_bytes
<1>8. ASSUME NEW d \in RamAddrs, NEW l \in Lbas, NEW n \in Counts, sd_read_blocks(d, l, n)
      PROVE  Read!Begin
  BY <1>8, <1>1, RequestAssumption DEF sd_read_blocks
<1>. QED
  BY <1>2, <1>3, <1>4, <1>5, <1>6, <1>7, <1>8 DEF Next, Step, Read!Next

\* sd_read_blocks() implements the read that sd.h promises.
THEOREM SdReadImplements == Spec => ImplementsBlockRead
<1>1. Spec => Read!Spec
  BY InitRefines, NextRefines, IInvAlways, PTL DEF Spec, Read!Spec
<1>. QED  BY <1>1 DEF ImplementsBlockRead
=============================================================================
