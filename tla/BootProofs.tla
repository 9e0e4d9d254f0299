----------------------------- MODULE BootProofs -----------------------------
(***************************************************************************)
(* Proofs about the imager and about the boot flow over whatever it left   *)
(* on the card, for every block size, address map, choice of files and     *)
(* number of runs that satisfy the assumptions of Boot.                    *)
(*                                                                         *)
(* The imager first: its items fill whole blocks, a run that succeeds      *)
(* leaves its whole image, and the block where the kernel's item starts is *)
(* whole even if the image is torn (ImagerInv).  IInv then says where each *)
(* item is in RAM and on the card; that loads do not overlap and that what *)
(* was imaged boots follow from it.                                        *)
(***************************************************************************)
EXTENDS Boot, SequenceTheorems, TLAPS

\* A product with the block size that is less than a block is not positive.
LEMMA LessThanABlock ==
  ASSUME NEW a \in Int, SD_BLKSZ * a < SD_BLKSZ
  PROVE  a <= 0
<1>1. SD_BLKSZ \in Nat /\ SD_BLKSZ > 2
  BY BlockSizeAssumption
<1>2. ASSUME a > 0 PROVE FALSE
  <2>1. a - 1 >= 0 /\ a - 1 \in Int
    BY <1>2
  <2>2. ASSUME NEW c \in Int, c >= 0 PROVE SD_BLKSZ * c >= 0
    BY <1>1, <2>2
  <2>3. SD_BLKSZ * (a - 1) >= 0
    BY <2>1, <2>2
  <2>4. SD_BLKSZ * (a - 1) = SD_BLKSZ * a - SD_BLKSZ
    BY <1>1
  <2> QED
    BY <1>1, <2>3, <2>4
<1> QED
  BY <1>2

\* round_up_multiple() gives the least multiple of the block size that is not less than n.
LEMMA RoundUp ==
  ASSUME NEW n \in Nat
  PROVE  \E k \in Nat : /\ round_up_multiple(n, SD_BLKSZ) = SD_BLKSZ * k
                        /\ n <= SD_BLKSZ * k
                        /\ SD_BLKSZ * k < n + SD_BLKSZ
<1>1. SD_BLKSZ \in Nat /\ SD_BLKSZ > 2
  BY BlockSizeAssumption
<1> DEFINE q == n \div SD_BLKSZ
           r == n % SD_BLKSZ
<1>2. q \in Nat /\ r \in 0..SD_BLKSZ - 1 /\ n = SD_BLKSZ * q + r
  BY <1>1
<1>3. SD_BLKSZ * (q + 1) = SD_BLKSZ * q + SD_BLKSZ /\ SD_BLKSZ * q \in Int
  BY <1>1, <1>2
<1>4. CASE r = 0
  <2>1. round_up_multiple(n, SD_BLKSZ) = n
    BY <1>4 DEF round_up_multiple
  <2> HIDE DEF q, r
  <2> QED
    BY <1>1, <1>2, <1>3, <1>4, <2>1
<1>5. CASE r # 0
  <2>1. round_up_multiple(n, SD_BLKSZ) = n + (SD_BLKSZ - r)
    BY <1>5 DEF round_up_multiple
  <2> HIDE DEF q, r
  <2>2. q + 1 \in Nat
    BY <1>2
  <2>3. n + (SD_BLKSZ - r) = SD_BLKSZ * (q + 1)
    BY <1>1, <1>2, <1>3
  <2>4. n <= SD_BLKSZ * (q + 1) /\ SD_BLKSZ * (q + 1) < n + SD_BLKSZ
    BY <1>1, <1>2, <1>3, <1>5
  <2> WITNESS q + 1 \in Nat
  <2> QED
    BY <2>1, <2>3, <2>4
<1> QED
  BY <1>4, <1>5

\* Every item that image_append_item() builds fills whole blocks (img.c:118), so that the next
\* one starts at a block; it has room for the file and wastes less than a block.
THEOREM ItemsFillBlocks ==
  ASSUME NEW sz \in Nat
  PROVE  /\ \E k \in Nat : itemsz(datasz_after_pad(sz)) = SD_BLKSZ * k
         /\ sz <= datasz_after_pad(sz)
         /\ datasz_after_pad(sz) < sz + SD_BLKSZ
<1>1. SD_BLKSZ \in Nat
  BY BlockSizeAssumption
<1>2. ITEM_SZ + sz \in Nat
  BY DEF ITEM_SZ
<1>3. PICK k \in Nat : /\ round_up_multiple(ITEM_SZ + sz, SD_BLKSZ) = SD_BLKSZ * k
                       /\ ITEM_SZ + sz <= SD_BLKSZ * k
                       /\ SD_BLKSZ * k < ITEM_SZ + sz + SD_BLKSZ
  BY <1>2, RoundUp
<1>4. datasz_after_pad(sz) = SD_BLKSZ * k - ITEM_SZ /\ SD_BLKSZ * k \in Int
  BY <1>1, <1>3 DEF datasz_after_pad
<1>5. itemsz(datasz_after_pad(sz)) = SD_BLKSZ * k
  BY <1>4 DEF itemsz, ITEM_SZ
<1> QED
  BY <1>1, <1>3, <1>4, <1>5 DEF ITEM_SZ

-----------------------------------------------------------------------------
(* The invariant of the imager.                                            *)

KernItem(v) == itemsz(datasz_after_pad(files[v].kern))
DtbItem(v)  == itemsz(datasz_after_pad(files[v].dtb))
EndItem     == itemsz(datasz_after_pad(NoData))

\* The head of the image of run v, of n cells, is in s from o on.
HeadIn(s, o, v, n) == s[o] = Cell("magic", "image", v, 0) /\ s[o + 1] = Cell("size", "image", v, n)

\* An item of run v, with a file of sz cells, is in s from o on.
ItemIn(s, o, id, v, sz) ==
  /\ s[o] = Cell("id", id, v, 0)
  /\ s[o + 1] = Cell("size", id, v, datasz_after_pad(sz))
  /\ \A i \in 0..sz - 1 : s[o + ITEM_SZ + i] = Cell("data", id, v, i)

KernAt(s, o, v) == ItemIn(s, o + SD_BLKSZ, "KERNEL", v, files[v].kern)
DtbAt(s, o, v)    == ItemIn(s, o + SD_BLKSZ + KernItem(v), "DTB", v, files[v].dtb)
EndAt(s, o, v)    == ItemIn(s, o + SD_BLKSZ + KernItem(v) + DtbItem(v), "END", v, NoData)

\* The whole image of run v is in s from o on.
ImageIn(s, o, v) ==
  HeadIn(s, o, v, ImageSize(v)) /\ KernAt(s, o, v) /\ DtbAt(s, o, v) /\ EndAt(s, o, v)

Building == ipc \in {"kernel", "dtb", "end", "write"}

ImagerTyped ==
  /\ ipc \in {"unused", "kernel", "dtb", "end", "write", "succeeded", "failed", "interrupted"}
  /\ run \in 0..RUNS /\ whole \in 0..run /\ (Building => run # 0)
  /\ files \in [1..RUNS -> Files \cup {NoFiles}] /\ \A v \in 1..run : files[v] \in Files
  /\ part \in [0..PartCells - 1 -> Cells] /\ img \in Seq(Cells)

\* The image in memory has the head and the items appended so far, and its size is counted.
ImgInv ==
  /\ ipc = "kernel" => Len(img) = SD_BLKSZ
  /\ ipc = "dtb" => Len(img) = SD_BLKSZ + KernItem(run) /\ KernAt(img, 1, run)
  /\ ipc = "end" => /\ Len(img) = SD_BLKSZ + KernItem(run) + DtbItem(run)
                    /\ KernAt(img, 1, run) /\ DtbAt(img, 1, run)
  /\ ipc = "write" => Len(img) = ImageSize(run) /\ ImageIn(img, 1, run)
  /\ Building => HeadIn(img, 1, run, Len(img))

\* Whole blocks have been written, and none beyond the partition.
AtInv ==
  /\ \E m \in Nat : at = SD_BLKSZ * m
  /\ at <= PartCells /\ at <= Len(img)
  /\ at # 0 => ipc = "write"

\* After a run that succeeded its image is there, and torn images leave no half of a block.
PartInv ==
  /\ whole # 0 => ImageSize(whole) <= PartCells /\ ImageIn(part, 0, whole)
  /\ PART_NBLKS > 1 /\ IsItem(part[SD_BLKSZ], "KERNEL") =>
       part[SD_BLKSZ + 1].n \in {datasz_after_pad(f.kern) : f \in Files}

ImagerInv == ImagerTyped /\ ImgInv /\ AtInv /\ PartInv
-----------------------------------------------------------------------------
(* What the operators of the imager give.                                  *)

LEMMA CellTyped ==
  ASSUME NEW kind \in Kinds, NEW of \in Ids \cup {"image", "mbr", "nothing"}, NEW v \in 0..RUNS, NEW n \in Nat
  PROVE  Cell(kind, of, v, n) \in Cells
BY DEF Cell, Cells

LEMMA JunkTyped == Junk \in Cells
BY RunsAssumption DEF Junk, Cell, Cells, Kinds

\* Multiplication with the block size keeps the order.
LEMMA TimesBlock ==
  ASSUME NEW a \in Int, NEW b \in Int
  PROVE  /\ SD_BLKSZ * a \in Int /\ (a \in Nat => SD_BLKSZ * a \in Nat)
         /\ a <= b => SD_BLKSZ * a <= SD_BLKSZ * b
         /\ a < b => SD_BLKSZ * a + SD_BLKSZ <= SD_BLKSZ * b
         /\ SD_BLKSZ * (a + 1) = SD_BLKSZ * a + SD_BLKSZ
         /\ SD_BLKSZ * (a + b) = SD_BLKSZ * a + SD_BLKSZ * b
<1>1. SD_BLKSZ \in Nat /\ SD_BLKSZ > 2
  BY BlockSizeAssumption
<1>2. ASSUME NEW c \in Int, c >= 0 PROVE SD_BLKSZ * c >= 0 /\ SD_BLKSZ * c \in Int
  BY <1>1, <1>2
<1>3. ASSUME NEW c \in Int, NEW d \in Int, c <= d PROVE SD_BLKSZ * c <= SD_BLKSZ * d
  <2>1. SD_BLKSZ * (d - c) >= 0
    BY <1>2, <1>3
  <2>2. SD_BLKSZ * (d - c) = SD_BLKSZ * d - SD_BLKSZ * c
    BY <1>1
  <2> QED
    BY <1>1, <2>1, <2>2
<1>4. SD_BLKSZ * (a + 1) = SD_BLKSZ * a + SD_BLKSZ
  BY <1>1
<1>5. a < b => SD_BLKSZ * a + SD_BLKSZ <= SD_BLKSZ * b
  <2> SUFFICES ASSUME a < b PROVE SD_BLKSZ * (a + 1) <= SD_BLKSZ * b
    BY <1>4
  <2>1. a + 1 \in Int /\ a + 1 <= b
    OBVIOUS
  <2> QED
    BY <2>1, <1>3
<1>6. SD_BLKSZ * (a + b) = SD_BLKSZ * a + SD_BLKSZ * b
  BY <1>1
<1>7. SD_BLKSZ * a \in Int /\ (a \in Nat => SD_BLKSZ * a \in Nat)
  BY <1>1, <1>2
<1>8. a <= b => SD_BLKSZ * a <= SD_BLKSZ * b
  BY <1>3
<1> QED
  BY <1>4, <1>5, <1>6, <1>7, <1>8

\* A cell is in one of the first m blocks if it is among their cells.
LEMMA InBlocks ==
  ASSUME NEW c \in Nat, NEW m \in Int
  PROVE  /\ c \div SD_BLKSZ \in Nat
         /\ c \div SD_BLKSZ < m <=> c < SD_BLKSZ * m
<1>1. SD_BLKSZ \in Nat /\ SD_BLKSZ > 2
  BY BlockSizeAssumption
<1> DEFINE q == c \div SD_BLKSZ
<1>2. q \in Nat /\ SD_BLKSZ * q <= c /\ c < SD_BLKSZ * q + SD_BLKSZ
  BY <1>1
<1> HIDE DEF q
<1>3. SD_BLKSZ * q \in Int /\ SD_BLKSZ * m \in Int
  BY <1>2, TimesBlock
<1>4. q < m => SD_BLKSZ * q + SD_BLKSZ <= SD_BLKSZ * m
  BY <1>2, TimesBlock
<1>5. m <= q => SD_BLKSZ * m <= SD_BLKSZ * q
  BY <1>2, TimesBlock
<1>6. q < m <=> c < SD_BLKSZ * m
  BY <1>1, <1>2, <1>3, <1>4, <1>5
<1> QED
  BY <1>2, <1>6 DEF q

\* A sequence of two cells and more.
LEMMA TwoAndMore ==
  ASSUME NEW a \in Cells, NEW b \in Cells, NEW n \in Nat, NEW f \in [1..n -> Cells]
  PROVE  /\ <<a, b>> \o f \in Seq(Cells)
         /\ Len(<<a, b>> \o f) = 2 + n
         /\ (<<a, b>> \o f)[1] = a /\ (<<a, b>> \o f)[2] = b
         /\ \A i \in 1..n : (<<a, b>> \o f)[2 + i] = f[i]
<1>1. <<a, b>> \in Seq(Cells) /\ Len(<<a, b>>) = 2
  OBVIOUS
<1>2. f \in Seq(Cells) /\ Len(f) = n
  OBVIOUS
<1>3. /\ <<a, b>> \o f \in Seq(Cells)
      /\ Len(<<a, b>> \o f) = 2 + n
      /\ \A i \in 1..2 + n : (<<a, b>> \o f)[i] = IF i <= 2 THEN <<a, b>>[i] ELSE f[i - 2]
  BY <1>1, <1>2, ConcatProperties
<1>4. <<a, b>>[1] = a /\ <<a, b>>[2] = b
  OBVIOUS
<1>5. (<<a, b>> \o f)[1] = a /\ (<<a, b>> \o f)[2] = b
  BY <1>3, <1>4
<1>6. ASSUME NEW i \in 1..n PROVE (<<a, b>> \o f)[2 + i] = f[i]
  <2>1. 2 + i \in 1..2 + n /\ ~(2 + i <= 2) /\ (2 + i) - 2 = i
    OBVIOUS
  <2> QED
    BY <1>3, <2>1
<1> QED
  BY <1>3, <1>5, <1>6

LEMMA PadTyped ==
  ASSUME NEW sz \in Nat
  PROVE  /\ datasz_after_pad(sz) \in Nat /\ sz <= datasz_after_pad(sz)
         /\ itemsz(datasz_after_pad(sz)) \in Nat
         /\ itemsz(datasz_after_pad(sz)) = 2 + datasz_after_pad(sz)
         /\ \E k \in Nat : itemsz(datasz_after_pad(sz)) = SD_BLKSZ * k
<1>1. PICK k \in Nat : itemsz(datasz_after_pad(sz)) = SD_BLKSZ * k
  BY ItemsFillBlocks
<1>2. SD_BLKSZ * k \in Nat
  BY TimesBlock
<1>3. sz <= datasz_after_pad(sz)
  BY ItemsFillBlocks
<1>4. datasz_after_pad(sz) \in Int
  BY BlockSizeAssumption DEF datasz_after_pad, round_up_multiple, ITEM_SZ
<1>5. itemsz(datasz_after_pad(sz)) = 2 + datasz_after_pad(sz)
  BY DEF itemsz, ITEM_SZ
<1> QED
  BY <1>1, <1>2, <1>3, <1>4, <1>5

LEMMA ItemCells ==
  ASSUME NEW id \in Ids, NEW v \in 0..RUNS, NEW sz \in Nat
  PROVE  /\ Item(id, v, sz) \in Seq(Cells)
         /\ Len(Item(id, v, sz)) = itemsz(datasz_after_pad(sz))
         /\ ItemIn(Item(id, v, sz), 1, id, v, sz)
<1> DEFINE a == Cell("id", id, v, 0)
           b == Cell("size", id, v, datasz_after_pad(sz))
           d == [i \in 1..datasz_after_pad(sz) |-> IF i <= sz THEN Cell("data", id, v, i - 1) ELSE Junk]
<1>1. datasz_after_pad(sz) \in Nat /\ sz <= datasz_after_pad(sz)
  BY PadTyped
<1>2. a \in Cells /\ b \in Cells
  BY <1>1, CellTyped DEF Kinds
<1>3. ASSUME NEW i \in 1..datasz_after_pad(sz) PROVE d[i] \in Cells
  <2>1. CASE i <= sz
    <3>1. i - 1 \in Nat
      BY <1>1
    <3> QED
      BY <2>1, <3>1, CellTyped DEF Kinds
  <2>2. CASE ~(i <= sz)
    BY <2>2, JunkTyped
  <2> QED
    BY <2>1, <2>2
<1>4. d \in [1..datasz_after_pad(sz) -> Cells]
  BY <1>3
<1>5. Item(id, v, sz) = <<a, b>> \o d
  BY DEF Item
<1>6. /\ Item(id, v, sz) \in Seq(Cells)
      /\ Len(Item(id, v, sz)) = 2 + datasz_after_pad(sz)
      /\ Item(id, v, sz)[1] = a /\ Item(id, v, sz)[2] = b
      /\ \A i \in 1..datasz_after_pad(sz) : Item(id, v, sz)[2 + i] = d[i]
  <2> DEFINE n == datasz_after_pad(sz)
  <2>1. n \in Nat /\ d \in [1..n -> Cells]
    BY <1>1, <1>4
  <2> HIDE DEF a, b, d, n
  <2>2. /\ <<a, b>> \o d \in Seq(Cells)
        /\ Len(<<a, b>> \o d) = 2 + n
        /\ (<<a, b>> \o d)[1] = a /\ (<<a, b>> \o d)[2] = b
        /\ \A i \in 1..n : (<<a, b>> \o d)[2 + i] = d[i]
    BY <1>2, <2>1, TwoAndMore
  <2> QED
    BY <1>5, <2>2 DEF n
<1>7. ASSUME NEW i \in 0..sz - 1 PROVE Item(id, v, sz)[1 + ITEM_SZ + i] = Cell("data", id, v, i)
  <2>1. i + 1 \in 1..datasz_after_pad(sz) /\ i + 1 <= sz /\ (i + 1) - 1 = i /\ 1 + ITEM_SZ + i = 2 + (i + 1)
    BY <1>1 DEF ITEM_SZ
  <2>2. d[i + 1] = Cell("data", id, v, i)
    BY <2>1
  <2> HIDE DEF a, b, d
  <2> QED
    BY <1>6, <2>1, <2>2
<1>8. 1 + 1 = 2
  OBVIOUS
<1> QED
  BY <1>6, <1>7, <1>8, PadTyped DEF ItemIn

LEMMA HeadCells ==
  ASSUME NEW v \in 0..RUNS, NEW n \in Nat
  PROVE  /\ ImageHead(v, n) \in Seq(Cells)
         /\ Len(ImageHead(v, n)) = SD_BLKSZ
         /\ HeadIn(ImageHead(v, n), 1, v, n)
<1> DEFINE a == Cell("magic", "image", v, 0)
           b == Cell("size", "image", v, n)
           d == [i \in 1..SD_BLKSZ - 2 |-> Junk]
<1>1. SD_BLKSZ \in Nat /\ SD_BLKSZ - 2 \in Nat
  BY BlockSizeAssumption
<1>2. a \in Cells /\ b \in Cells
  BY CellTyped DEF Kinds
<1>3. d \in [1..SD_BLKSZ - 2 -> Cells]
  BY JunkTyped
<1>4. ImageHead(v, n) = <<a, b>> \o d
  BY DEF ImageHead
<1>5. /\ ImageHead(v, n) \in Seq(Cells)
      /\ Len(ImageHead(v, n)) = 2 + (SD_BLKSZ - 2)
      /\ ImageHead(v, n)[1] = a /\ ImageHead(v, n)[2] = b
  <2> HIDE DEF a, b, d
  <2> QED
    BY <1>1, <1>2, <1>3, <1>4, TwoAndMore
<1>6. 1 + 1 = 2
  OBVIOUS
<1> QED
  BY <1>1, <1>5, <1>6 DEF HeadIn
\* Items keep their contents when they are copied.
LEMMA ItemMoved ==
  ASSUME NEW s, NEW o \in Int, NEW t, NEW p \in Int, NEW id, NEW v, NEW sz \in Nat,
         ItemIn(s, o, id, v, sz),
         \A i \in 0..itemsz(datasz_after_pad(sz)) - 1 : t[p + i] = s[o + i]
  PROVE  ItemIn(t, p, id, v, sz)
<1> DEFINE n == itemsz(datasz_after_pad(sz))
<1>1. n \in Nat /\ 2 + sz <= n
  BY PadTyped
<1> HIDE DEF n
<1>2. \A i \in 0..n - 1 : t[p + i] = s[o + i]
  BY DEF n
<1>3. t[p] = s[o] /\ t[p + 1] = s[o + 1]
  <2>1. 0 \in 0..n - 1 /\ 1 \in 0..n - 1 /\ p + 0 = p /\ o + 0 = o
    BY <1>1
  <2> QED
    BY <1>2, <2>1
<1>4. ASSUME NEW i \in 0..sz - 1 PROVE t[p + ITEM_SZ + i] = s[o + ITEM_SZ + i]
  <2>1. 2 + i \in 0..n - 1 /\ p + ITEM_SZ + i = p + (2 + i) /\ o + ITEM_SZ + i = o + (2 + i)
    BY <1>1 DEF ITEM_SZ
  <2> QED
    BY <1>2, <2>1
<1> QED
  BY <1>3, <1>4 DEF ItemIn

\* Items stay where they are when something is appended.
LEMMA ItemKept ==
  ASSUME NEW s, NEW t, NEW l \in Nat, \A i \in 3..l : t[i] = s[i],
         NEW o \in Int, NEW id, NEW v, NEW sz \in Nat, ItemIn(s, o, id, v, sz),
         o >= 3, o + itemsz(datasz_after_pad(sz)) - 1 <= l
  PROVE  ItemIn(t, o, id, v, sz)
<1> DEFINE n == itemsz(datasz_after_pad(sz))
<1>1. n \in Nat /\ o + n - 1 <= l
  BY PadTyped
<1> HIDE DEF n
<1>2. \A i \in 0..n - 1 : t[o + i] = s[o + i]
  BY <1>1
<1> QED
  BY <1>2, ItemMoved DEF n

\* The sizes of the items of a run, and of an image, are multiples of a block.
LEMMA ItemSizes ==
  ASSUME ImagerTyped, NEW v \in 1..RUNS
  PROVE  /\ files[v].kern \in Nat /\ files[v].dtb \in Nat
         /\ \E k \in Nat : KernItem(v) = SD_BLKSZ * k
         /\ \E k \in Nat : DtbItem(v) = SD_BLKSZ * k
         /\ KernItem(v) \in Nat /\ KernItem(v) >= 2 + files[v].kern
         /\ DtbItem(v) \in Nat /\ DtbItem(v) >= 2 + files[v].dtb
         /\ ImageSize(v) = SD_BLKSZ + KernItem(v) + DtbItem(v) + EndItem
<1>1. files[v].kern \in Nat /\ files[v].dtb \in Nat
  BY FilesAssumption DEF ImagerTyped, NoFiles
<1> QED
  BY <1>1, PadTyped DEF KernItem, DtbItem, EndItem, ImageSize, SizeOfImage

LEMMA EndItemSize ==
  /\ EndItem = SD_BLKSZ /\ datasz_after_pad(NoData) = SD_BLKSZ - 2
<1>1. SD_BLKSZ \in Nat /\ SD_BLKSZ > 2
  BY BlockSizeAssumption
<1>2. 2 % SD_BLKSZ = 2
  BY <1>1
<1>3. round_up_multiple(2, SD_BLKSZ) = SD_BLKSZ
  BY <1>1, <1>2 DEF round_up_multiple
<1> QED
  BY <1>1, <1>3 DEF EndItem, itemsz, datasz_after_pad, ITEM_SZ, NoData

\* image_append_item() leaves what was there, counts the item and appends it.
LEMMA AppendedCells ==
  ASSUME ImagerTyped, run \in 0..RUNS, Len(img) \in Nat, Len(img) > 2, HeadIn(img, 1, run, Len(img)),
         NEW id \in Ids, NEW sz \in Nat, image_append_item(id, sz)
  PROVE  /\ img' \in Seq(Cells)
         /\ Len(img') = Len(img) + itemsz(datasz_after_pad(sz))
         /\ HeadIn(img', 1, run, Len(img'))
         /\ ItemIn(img', 1 + Len(img), id, run, sz)
         /\ \A i \in 3..Len(img) : img'[i] = img[i]
<1> DEFINE new == Item(id, run, sz)
           n == itemsz(datasz_after_pad(sz))
           l == Len(img)
<1>1. new \in Seq(Cells) /\ Len(new) = n /\ ItemIn(new, 1, id, run, sz)
  BY ItemCells
<1>2. n \in Nat /\ l \in Nat /\ l > 2
  BY PadTyped
<1>3. img' = [i \in 1..l + n |-> IF i = 2 THEN [img[2] EXCEPT !.n = @ + n]
                                 ELSE IF i <= l THEN img[i] ELSE new[i - l]]
  BY <1>1 DEF image_append_item, Appended
<1>4. img \in Seq(Cells)
  BY DEF ImagerTyped
<1>5. img[1] = Cell("magic", "image", run, 0) /\ img[2] = Cell("size", "image", run, l)
  BY DEF HeadIn
<1>6. [img[2] EXCEPT !.n = @ + n] = Cell("size", "image", run, l + n)
  BY <1>5 DEF Cell
<1> HIDE DEF new, n, l
<1>7. Cell("size", "image", run, l + n) \in Cells
  <2>1. l + n \in Nat /\ "size" \in Kinds
    BY <1>2 DEF Kinds
  <2> QED
    BY <2>1, CellTyped
<1>8. ASSUME NEW i \in 1..l + n PROVE img'[i] \in Cells
  <2>1. CASE i = 2
    BY <1>2, <1>3, <1>6, <1>7, <2>1
  <2>2. CASE i # 2 /\ i <= l
    BY <1>2, <1>3, <1>4, <2>2 DEF l
  <2>3. CASE ~(i <= l)
    <3>1. i - l \in 1..n /\ i # 2
      BY <1>2, <2>3
    <3>2. new[i - l] \in Cells
      BY <1>1, <3>1
    <3> QED
      BY <1>3, <2>3, <3>1, <3>2
  <2> QED
    BY <2>1, <2>2, <2>3
<1>9. img' \in Seq(Cells) /\ Len(img') = l + n
  <2>1. l + n \in Nat
    BY <1>2
  <2>2. DOMAIN img' = 1..l + n /\ img' = [i \in 1..l + n |-> img'[i]]
    BY <1>3, Zenon
  <2>3. img' \in [1..l + n -> Cells]
    BY <1>8, <2>2
  <2> QED
    BY <2>1, <2>3
<1>10. HeadIn(img', 1, run, l + n)
  <2>1. img'[1] = img[1] /\ img'[2] = Cell("size", "image", run, l + n) /\ 1 + 1 = 2
    BY <1>2, <1>3, <1>6
  <2> QED
    BY <1>5, <2>1 DEF HeadIn
<1>11. ItemIn(img', 1 + l, id, run, sz)
  <2>1. ASSUME NEW i \in 0..n - 1 PROVE img'[(1 + l) + i] = new[1 + i]
    <3>1. (1 + l) + i \in 1..l + n /\ (1 + l) + i # 2 /\ ~((1 + l) + i <= l) /\ ((1 + l) + i) - l = 1 + i
      BY <1>2
    <3> QED
      BY <1>3, <3>1
  <2> QED
    BY <1>1, <1>2, <2>1, ItemMoved DEF n
<1>12. \A i \in 3..l : img'[i] = img[i]
  BY <1>2, <1>3
<1> QED
  BY <1>9, <1>10, <1>11, <1>12 DEF l, n

-----------------------------------------------------------------------------
(* The invariant holds in the beginning and is kept by every step.         *)

LEMMA ImagerStarts == ImagerInit => ImagerInv
<1> SUFFICES ASSUME ImagerInit PROVE ImagerInv
  OBVIOUS
<1>1. SD_BLKSZ \in Nat /\ SD_BLKSZ > 2
  BY BlockSizeAssumption
<1>2. PartCells \in Nat
  BY <1>1, PartitionAssumption, TimesBlock DEF PartCells
<1>3. ImagerTyped
  BY <1>2, JunkTyped, RunsAssumption DEF ImagerInit, ImagerTyped, Building
<1>4. ImgInv
  BY DEF ImagerInit, ImgInv, Building
<1>5. AtInv
  <2>1. 0 = SD_BLKSZ * 0 /\ at = 0 /\ Len(img) = 0
    BY <1>1 DEF ImagerInit
  <2> QED
    BY <1>2, <2>1 DEF AtInv
<1>6. PartInv
  <2>1. \A c \in 0..PartCells - 1 : ~IsItem(part[c], "KERNEL")
    BY DEF ImagerInit, IsItem, Junk, Cell
  <2>2. PART_NBLKS > 1 => SD_BLKSZ \in 0..PartCells - 1
    <3> SUFFICES ASSUME PART_NBLKS > 1 PROVE SD_BLKSZ \in 0..PartCells - 1
      OBVIOUS
    <3>1. SD_BLKSZ * 1 + SD_BLKSZ <= SD_BLKSZ * PART_NBLKS
      BY PartitionAssumption, TimesBlock
    <3> QED
      BY <1>1, <3>1, PartitionAssumption DEF PartCells
  <2> QED
    BY <2>1, <2>2 DEF ImagerInit, PartInv
<1> QED
  BY <1>3, <1>4, <1>5, <1>6 DEF ImagerInv
\* A partition of more than one block has room for the start of the kernel's item.
LEMMA PartSize ==
  /\ SD_BLKSZ \in Nat /\ SD_BLKSZ > 2
  /\ PartCells \in Nat /\ PartCells = SD_BLKSZ * PART_NBLKS /\ SD_BLKSZ <= PartCells
  /\ PART_NBLKS > 1 => SD_BLKSZ + SD_BLKSZ <= PartCells
<1>1. SD_BLKSZ \in Nat /\ SD_BLKSZ > 2 /\ PART_NBLKS \in Nat /\ PART_NBLKS >= 1
  BY BlockSizeAssumption, PartitionAssumption
<1>2. PartCells = SD_BLKSZ * PART_NBLKS
  BY <1>1 DEF PartCells
<1>3. SD_BLKSZ * PART_NBLKS \in Nat
  BY <1>1, TimesBlock
<1>4. SD_BLKSZ * 1 <= SD_BLKSZ * PART_NBLKS
  BY <1>1, TimesBlock
<1>5. PART_NBLKS > 1 => SD_BLKSZ * 1 + SD_BLKSZ <= SD_BLKSZ * PART_NBLKS
  BY <1>1, TimesBlock
<1>6. SD_BLKSZ * 1 = SD_BLKSZ
  BY <1>1
<1> QED
  BY <1>1, <1>2, <1>3, <1>4, <1>5, <1>6

\* What is said of the partition stays true while it and the files of its image are left alone.
LEMMA PartKept ==
  ASSUME ImagerInv, UNCHANGED <<part, whole>>, whole # 0 => files'[whole] = files[whole]
  PROVE  PartInv'
<1>1. whole # 0 => /\ KernItem(whole)' = KernItem(whole) /\ DtbItem(whole)' = DtbItem(whole)
                   /\ ImageSize(whole)' = ImageSize(whole)
  BY DEF KernItem, DtbItem, ImageSize, SizeOfImage
<1>2. whole # 0 => (ImageSize(whole) <= PartCells /\ ImageIn(part, 0, whole))'
  BY <1>1 DEF ImagerInv, PartInv, ImageIn, HeadIn, KernAt, DtbAt, EndAt, ItemIn, EndItem
<1> QED
  BY <1>2 DEF ImagerInv, PartInv, IsItem

\* Nothing has been written yet.
LEMMA AtStart ==
  ASSUME at' = 0, img' \in Seq(Cells)
  PROVE  AtInv'
<1>1. at' = SD_BLKSZ * 0 /\ Len(img') \in Nat
  BY PartSize
<1> QED
  BY <1>1, PartSize DEF AtInv

LEMMA StartKeeps ==
  ASSUME ImagerInv, StartImager
  PROVE  ImagerInv'
<1>1. /\ run' = run + 1 /\ run + 1 \in 1..RUNS /\ ipc' = "kernel" /\ at' = 0
      /\ UNCHANGED <<part, whole>> /\ img' = ImageHead(run + 1, SD_BLKSZ)
  BY RunsAssumption DEF ImagerInv, ImagerTyped, StartImager
<1>2. PICK f \in Files : files' = [files EXCEPT ![run + 1] = f]
  BY DEF StartImager
<1>3. img' \in Seq(Cells) /\ Len(img') = SD_BLKSZ /\ HeadIn(img', 1, run + 1, SD_BLKSZ)
  <2>1. run + 1 \in 0..RUNS
    BY <1>1
  <2> QED
    BY <1>1, <2>1, PartSize, HeadCells
<1>4. /\ files' \in [1..RUNS -> Files \cup {NoFiles}] /\ \A v \in 1..run + 1 : files'[v] \in Files
      /\ \A v \in 1..run : files'[v] = files[v]
  BY <1>1, <1>2 DEF ImagerInv, ImagerTyped
<1>5. ImagerTyped'
  BY <1>1, <1>3, <1>4 DEF ImagerInv, ImagerTyped, Building
<1>6. ImgInv'
  BY <1>1, <1>3 DEF ImgInv, Building, HeadIn
<1>7. AtInv'
  BY <1>1, <1>3, AtStart
<1>8. PartInv'
  <2>1. whole # 0 => whole \in 1..run
    BY DEF ImagerInv, ImagerTyped
  <2> QED
    BY <1>1, <1>4, <2>1, PartKept
<1> QED
  BY <1>5, <1>6, <1>7, <1>8 DEF ImagerInv

LEMMA BuildKeeps ==
  ASSUME ImagerInv, build_image
  PROVE  ImagerInv'
<1>1. /\ UNCHANGED <<run, files, at, part, whole>>
      /\ ipc \in {"kernel", "dtb", "end"} /\ at = 0 /\ run \in 1..RUNS /\ run \in 0..RUNS
  BY DEF build_image, ImagerInv, ImagerTyped, AtInv, Building
<1>2. /\ files[run].kern \in Nat /\ files[run].dtb \in Nat
      /\ KernItem(run) \in Nat /\ DtbItem(run) \in Nat
      /\ ImageSize(run) = SD_BLKSZ + KernItem(run) + DtbItem(run) + EndItem
      /\ EndItem \in Nat
  <2>1. ImagerTyped /\ run \in 1..RUNS
    BY <1>1 DEF ImagerInv
  <2> QED
    BY <2>1, ItemSizes, EndItemSize, PartSize
<1>3. KernItem(run)' = KernItem(run) /\ DtbItem(run)' = DtbItem(run) /\ ImageSize(run)' = ImageSize(run)
  BY <1>1 DEF KernItem, DtbItem, ImageSize, SizeOfImage
<1>4. PartInv'
  BY <1>1, PartKept
<1>5. HeadIn(img, 1, run, Len(img)) /\ Len(img) \in Nat /\ Len(img) > 2
  BY <1>1, <1>2, PartSize DEF ImagerInv, ImgInv, Building
<1>6. ImagerTyped /\ run \in 0..RUNS
  BY <1>1 DEF ImagerInv
<1>7. ASSUME img' \in Seq(Cells), ipc' \in {"dtb", "end", "write", "failed"}
      PROVE  ImagerTyped' /\ AtInv'
  <2>1. ImagerTyped'
    BY <1>1, <1>7 DEF ImagerInv, ImagerTyped, Building
  <2> QED
    BY <1>1, <1>7, <2>1, AtStart
<1>8. CASE ipc = "kernel" /\ image_append_item("KERNEL", files[run].kern) /\ ipc' = "dtb"
  <2>1. Len(img) = SD_BLKSZ
    BY <1>8 DEF ImagerInv, ImgInv
  <2>2. /\ img' \in Seq(Cells)
        /\ Len(img') = Len(img) + itemsz(datasz_after_pad(files[run].kern))
        /\ HeadIn(img', 1, run, Len(img'))
        /\ ItemIn(img', 1 + Len(img), "KERNEL", run, files[run].kern)
    BY <1>2, <1>5, <1>6, <1>8, AppendedCells DEF Ids
  <2>3. ImgInv'
    BY <1>1, <1>3, <1>8, <2>1, <2>2 DEF ImgInv, Building, HeadIn, KernAt, KernItem, ItemIn
  <2> QED
    BY <1>4, <1>7, <1>8, <2>2, <2>3 DEF ImagerInv
<1>9. CASE ipc = "dtb" /\ image_append_item("DTB", files[run].dtb) /\ ipc' = "end"
  <2>1. Len(img) = SD_BLKSZ + KernItem(run) /\ KernAt(img, 1, run)
    BY <1>9 DEF ImagerInv, ImgInv
  <2>2. /\ img' \in Seq(Cells)
        /\ Len(img') = Len(img) + DtbItem(run)
        /\ HeadIn(img', 1, run, Len(img'))
        /\ ItemIn(img', 1 + Len(img), "DTB", run, files[run].dtb)
        /\ \A i \in 3..Len(img) : img'[i] = img[i]
    BY <1>2, <1>5, <1>6, <1>9, AppendedCells DEF Ids, DtbItem
  <2>3. ItemIn(img', 1 + SD_BLKSZ, "KERNEL", run, files[run].kern)
    <3>1. 1 + SD_BLKSZ \in Int /\ 1 + SD_BLKSZ >= 3 /\ 1 + SD_BLKSZ + KernItem(run) - 1 <= Len(img)
      BY <1>2, <2>1, PartSize
    <3>2. ItemIn(img, 1 + SD_BLKSZ, "KERNEL", run, files[run].kern)
      BY <2>1 DEF KernAt
    <3> QED
      BY <1>2, <1>5, <2>2, <3>1, <3>2, ItemKept DEF KernItem
  <2>4. 1 + Len(img) = 1 + SD_BLKSZ + KernItem(run)
    BY <1>2, <2>1, PartSize
  <2>5. KernAt(img, 1, run)' /\ DtbAt(img, 1, run)'
    BY <1>1, <1>3, <2>2, <2>3, <2>4 DEF KernAt, DtbAt, ItemIn
  <2>6. HeadIn(img, 1, run, Len(img))'
    BY <1>1, <2>2 DEF HeadIn
  <2>7. ImgInv'
    BY <1>1, <1>3, <1>9, <2>1, <2>2, <2>5, <2>6 DEF ImgInv
  <2> QED
    BY <1>4, <1>7, <1>9, <2>2, <2>7 DEF ImagerInv
<1>10. CASE ipc = "end" /\ image_append_item("END", NoData) /\ ipc' = "write"
  <2>1. /\ Len(img) = SD_BLKSZ + KernItem(run) + DtbItem(run)
        /\ KernAt(img, 1, run) /\ DtbAt(img, 1, run)
    BY <1>10 DEF ImagerInv, ImgInv
  <2>2. /\ img' \in Seq(Cells)
        /\ Len(img') = Len(img) + EndItem
        /\ HeadIn(img', 1, run, Len(img'))
        /\ ItemIn(img', 1 + Len(img), "END", run, NoData)
        /\ \A i \in 3..Len(img) : img'[i] = img[i]
    <3>1. NoData \in Nat /\ "END" \in Ids
      BY DEF NoData, Ids
    <3> QED
      BY <1>2, <1>5, <1>6, <1>10, <3>1, AppendedCells DEF EndItem
  <2>3. ItemIn(img', 1 + SD_BLKSZ, "KERNEL", run, files[run].kern)
    <3>1. 1 + SD_BLKSZ \in Int /\ 1 + SD_BLKSZ >= 3 /\ 1 + SD_BLKSZ + KernItem(run) - 1 <= Len(img)
      BY <1>2, <2>1, PartSize
    <3>2. ItemIn(img, 1 + SD_BLKSZ, "KERNEL", run, files[run].kern)
      BY <2>1 DEF KernAt
    <3> QED
      BY <1>2, <1>5, <2>2, <3>1, <3>2, ItemKept DEF KernItem
  <2>4. ItemIn(img', 1 + SD_BLKSZ + KernItem(run), "DTB", run, files[run].dtb)
    <3> DEFINE o == 1 + SD_BLKSZ + KernItem(run)
    <3>1. o \in Int /\ o >= 3 /\ o + DtbItem(run) - 1 <= Len(img)
      BY <1>2, <2>1, PartSize
    <3>2. ItemIn(img, o, "DTB", run, files[run].dtb)
      BY <2>1 DEF DtbAt
    <3> HIDE DEF o
    <3>3. ItemIn(img', o, "DTB", run, files[run].dtb)
      BY <1>2, <1>5, <2>2, <3>1, <3>2, ItemKept DEF DtbItem
    <3> QED
      BY <3>3 DEF o
  <2>5. 1 + Len(img) = 1 + SD_BLKSZ + KernItem(run) + DtbItem(run) /\ Len(img') = ImageSize(run)
    BY <1>2, <2>1, <2>2, PartSize
  <2>6. KernAt(img, 1, run)' /\ DtbAt(img, 1, run)' /\ EndAt(img, 1, run)'
    BY <1>1, <1>3, <2>2, <2>3, <2>4, <2>5 DEF KernAt, DtbAt, EndAt, ItemIn
  <2>7. HeadIn(img, 1, run, Len(img))' /\ HeadIn(img, 1, run, ImageSize(run))'
    BY <1>1, <1>3, <2>2, <2>5 DEF HeadIn
  <2>8. ImgInv'
    BY <1>1, <1>3, <1>10, <2>5, <2>6, <2>7 DEF ImgInv, ImageIn
  <2> QED
    BY <1>4, <1>7, <1>10, <2>2, <2>8 DEF ImagerInv
<1>11. CASE ipc' = "failed" /\ img' = <<>>
  <2>1. img' \in Seq(Cells)
    BY <1>11
  <2>2. ImgInv'
    BY <1>11 DEF ImgInv, Building
  <2> QED
    BY <1>4, <1>7, <1>11, <2>1, <2>2 DEF ImagerInv
<1> QED
  BY <1>8, <1>9, <1>10, <1>11 DEF build_image
LEMMA WriteKeeps ==
  ASSUME ImagerInv, WriteSome
  PROVE  ImagerInv'
<1>1. UNCHANGED <<ipc, run, files, img, part, whole>> /\ ipc = "write"
  BY DEF WriteSome
<1>2. PICK n \in 1..RDWR_SZ \div SD_BLKSZ : /\ at + n * SD_BLKSZ <= Len(img)
                                            /\ at + n * SD_BLKSZ <= PartCells
                                            /\ at' = at + n * SD_BLKSZ
  BY DEF WriteSome
<1>3. PICK m \in Nat : at = SD_BLKSZ * m
  BY DEF ImagerInv, AtInv
<1>4. n \in Nat
  BY PartSize, RdwrAssumption
<1>5. at' = SD_BLKSZ * (m + n) /\ m + n \in Nat
  <2>1. n * SD_BLKSZ = SD_BLKSZ * n
    BY <1>4, PartSize
  <2> QED
    BY <1>2, <1>3, <1>4, <2>1, TimesBlock
<1>6. AtInv'
  BY <1>1, <1>2, <1>5 DEF AtInv
<1>7. ImagerTyped'
  BY <1>1 DEF ImagerInv, ImagerTyped, Building
<1>8. /\ KernItem(run)' = KernItem(run) /\ DtbItem(run)' = DtbItem(run)
      /\ ImageSize(run)' = ImageSize(run)
  BY <1>1 DEF KernItem, DtbItem, ImageSize, SizeOfImage
<1>9. ImgInv'
  BY <1>1, <1>8 DEF ImagerInv, ImgInv, Building, ImageIn, HeadIn, KernAt, DtbAt, EndAt, ItemIn
<1>10. PartInv'
  BY <1>1, PartKept
<1> QED
  BY <1>6, <1>7, <1>9, <1>10 DEF ImagerInv

\* The blocks that were accepted are those of the cells written.
LEMMA AcceptedCells ==
  ASSUME ImagerInv, NEW c \in Nat
  PROVE  c \div SD_BLKSZ \in Accepted <=> c < at
<1>1. PICK m \in Nat : at = SD_BLKSZ * m
  BY DEF ImagerInv, AtInv
<1>2. at \in Nat /\ SD_BLKSZ * (m + 1) = at + SD_BLKSZ
  BY <1>1, TimesBlock
<1>3. at \div SD_BLKSZ \in Nat /\ at \div SD_BLKSZ < m + 1 /\ ~(at \div SD_BLKSZ < m)
  <2>1. m + 1 \in Int /\ m \in Int
    OBVIOUS
  <2>2. at < SD_BLKSZ * (m + 1) /\ ~(at < SD_BLKSZ * m)
    BY <1>1, <1>2, PartSize
  <2> QED
    BY <1>2, <2>1, <2>2, InBlocks
<1>4. at \div SD_BLKSZ = m
  BY <1>3
<1>5. c \div SD_BLKSZ \in Nat /\ (c \div SD_BLKSZ < m <=> c < SD_BLKSZ * m)
  BY InBlocks
<1> QED
  BY <1>1, <1>4, <1>5 DEF Accepted

\* Blocks reach the card whole, and so does the start of the kernel's item.
LEMMA Reached ==
  ASSUME ImagerInv, ipc = "write", NEW bs \in SUBSET Accepted, Reach(bs)
  PROVE  /\ part' \in [0..PartCells - 1 -> Cells]
         /\ \A c \in 0..PartCells - 1 : c \div SD_BLKSZ \in bs => part'[c] = img[c + 1]
         /\ bs = {} => part' = part
         /\ PART_NBLKS > 1 /\ IsItem(part'[SD_BLKSZ], "KERNEL") =>
              part'[SD_BLKSZ + 1].n \in {datasz_after_pad(f.kern) : f \in Files}
<1>1. part \in [0..PartCells - 1 -> Cells] /\ img \in Seq(Cells) /\ run \in 1..RUNS /\ run \in 1..run
  BY DEF ImagerInv, ImagerTyped, Building
<1>2. part' = [c \in 0..PartCells - 1 |-> IF c \div SD_BLKSZ \in bs THEN img[c + 1] ELSE part[c]]
  BY <1>1 DEF Reach
<1>3. ASSUME NEW c \in 0..PartCells - 1, c \div SD_BLKSZ \in bs PROVE img[c + 1] \in Cells
  <2>1. c \in Nat /\ c \div SD_BLKSZ \in Accepted
    BY <1>3, PartSize
  <2>2. c < at /\ at <= Len(img) /\ at \in Int
    <3>1. \E m \in Nat : at = SD_BLKSZ * m
      BY DEF ImagerInv, AtInv
    <3>2. at \in Int
      BY <3>1, TimesBlock
    <3> QED
      BY <2>1, <3>2, AcceptedCells DEF ImagerInv, AtInv
  <2> QED
    BY <1>1, <2>1, <2>2
<1>4. part' \in [0..PartCells - 1 -> Cells]
  BY <1>1, <1>2, <1>3
<1>5. \A c \in 0..PartCells - 1 : c \div SD_BLKSZ \in bs => part'[c] = img[c + 1]
  BY <1>2
<1>6. bs = {} => part' = part
  BY <1>1, <1>2
<1>7. ASSUME PART_NBLKS > 1, IsItem(part'[SD_BLKSZ], "KERNEL")
      PROVE  part'[SD_BLKSZ + 1].n \in {datasz_after_pad(f.kern) : f \in Files}
  <2>1. SD_BLKSZ \in 0..PartCells - 1 /\ SD_BLKSZ + 1 \in 0..PartCells - 1
    BY <1>7, PartSize
  <2>2. SD_BLKSZ \div SD_BLKSZ = 1 /\ (SD_BLKSZ + 1) \div SD_BLKSZ = 1
    <3>1. SD_BLKSZ * 1 = SD_BLKSZ /\ SD_BLKSZ * 2 = SD_BLKSZ + SD_BLKSZ
      BY PartSize
    <3>2. ASSUME NEW c \in Nat, SD_BLKSZ <= c, c < SD_BLKSZ + SD_BLKSZ PROVE c \div SD_BLKSZ = 1
      <4>1. c \div SD_BLKSZ \in Nat /\ c \div SD_BLKSZ < 2 /\ ~(c \div SD_BLKSZ < 1)
        BY <3>1, <3>2, InBlocks, PartSize
      <4> QED
        BY <4>1
    <3> QED
      BY <3>2, PartSize
  <2>3. CASE 1 \in bs
    <3>1. part'[SD_BLKSZ + 1] = img[SD_BLKSZ + 1 + 1]
      BY <1>5, <2>1, <2>2, <2>3
    <3>2. KernAt(img, 1, run)
      BY DEF ImagerInv, ImgInv, ImageIn
    <3>3. img[1 + SD_BLKSZ + 1].n = datasz_after_pad(files[run].kern)
      BY <3>2 DEF KernAt, ItemIn, Cell
    <3>4. SD_BLKSZ + 1 + 1 = 1 + SD_BLKSZ + 1 /\ files[run] \in Files
      BY <1>1, PartSize DEF ImagerInv, ImagerTyped
    <3> QED
      BY <3>1, <3>3, <3>4
  <2>4. CASE 1 \notin bs
    <3>1. part'[SD_BLKSZ] = part[SD_BLKSZ] /\ part'[SD_BLKSZ + 1] = part[SD_BLKSZ + 1]
      BY <1>2, <2>1, <2>2, <2>4
    <3> QED
      BY <1>7, <3>1 DEF ImagerInv, PartInv
  <2> QED
    BY <2>3, <2>4
<1> QED
  BY <1>4, <1>5, <1>6, <1>7

\* What a run that ends leaves behind, the partition aside.
LEMMA EndedKeeps ==
  ASSUME ImagerInv, ipc = "write", ipc' \in {"succeeded", "failed", "interrupted"},
         img' = <<>>, at' = 0, UNCHANGED <<run, files>>, whole' \in {whole, 0, run},
         part' \in [0..PartCells - 1 -> Cells], PartInv'
  PROVE  ImagerInv'
<1>1. img' \in Seq(Cells)
  OBVIOUS
<1>2. ImagerTyped'
  BY <1>1 DEF ImagerInv, ImagerTyped, Building
<1>3. ImgInv'
  BY DEF ImgInv, Building
<1> QED
  BY <1>1, <1>2, <1>3, AtStart DEF ImagerInv

LEMMA CloseKeeps ==
  ASSUME ImagerInv, CloseFile
  PROVE  ImagerInv'
<1>1. /\ ipc = "write" /\ Reach(Accepted) /\ img' = <<>> /\ at' = 0 /\ UNCHANGED <<run, files>>
      /\ Accepted \in SUBSET Accepted
  BY DEF CloseFile
<1>2. /\ part' \in [0..PartCells - 1 -> Cells]
      /\ \A c \in 0..PartCells - 1 : c \div SD_BLKSZ \in Accepted => part'[c] = img[c + 1]
      /\ Accepted = {} => part' = part
      /\ PART_NBLKS > 1 /\ IsItem(part'[SD_BLKSZ], "KERNEL") =>
           part'[SD_BLKSZ + 1].n \in {datasz_after_pad(f.kern) : f \in Files}
  BY <1>1, Reached
<1>3. CASE AllWritten /\ ipc' = "succeeded" /\ whole' = run
  <2>1. run \in 1..RUNS /\ ImagerTyped
    BY <1>1 DEF ImagerInv, ImagerTyped, Building
  <2>2. at = ImageSize(run) /\ at <= PartCells /\ ImageIn(img, 1, run)
    BY <1>1, <1>3 DEF AllWritten, ImagerInv, AtInv, ImgInv
  <2>3. /\ files[run].kern \in Nat /\ files[run].dtb \in Nat
        /\ KernItem(run) \in Nat /\ DtbItem(run) \in Nat
        /\ at = SD_BLKSZ + KernItem(run) + DtbItem(run) + EndItem
        /\ EndItem = SD_BLKSZ /\ SD_BLKSZ \in Nat /\ SD_BLKSZ > 2 /\ PartCells \in Nat
    BY <2>1, <2>2, ItemSizes, EndItemSize, PartSize
  <2>4. ASSUME NEW c \in Nat, c < at PROVE part'[c] = img[c + 1]
    <3>1. c \in 0..PartCells - 1
      BY <2>2, <2>3, <2>4
    <3>2. c \div SD_BLKSZ \in Accepted
      BY <2>4, AcceptedCells
    <3> QED
      BY <1>2, <3>1, <3>2
  <2>5. HeadIn(part', 0, run, ImageSize(run))
    <3>1. part'[0] = img[1] /\ part'[1] = img[2] /\ 0 + 1 = 1 /\ 1 + 1 = 2
      BY <2>3, <2>4
    <3> QED
      BY <2>2, <3>1 DEF ImageIn, HeadIn
  <2>6. ASSUME NEW o \in Nat, NEW id, NEW sz \in Nat, ItemIn(img, 1 + o, id, run, sz),
               o + itemsz(datasz_after_pad(sz)) <= at
        PROVE  ItemIn(part', o, id, run, sz)
    <3> DEFINE n == itemsz(datasz_after_pad(sz))
    <3>1. n \in Nat /\ o + n <= at /\ 1 + o \in Int
      BY <2>6, PadTyped
    <3>2. ASSUME NEW i \in 0..n - 1 PROVE part'[o + i] = img[(1 + o) + i]
      <4> HIDE DEF n
      <4>1. o + i \in Nat /\ o + i < at /\ (o + i) + 1 = (1 + o) + i
        BY <2>3, <3>1
      <4> QED
        BY <2>4, <4>1
    <3> QED
      BY <2>6, <3>1, <3>2, ItemMoved
  <2>7. ItemIn(part', SD_BLKSZ, "KERNEL", run, files[run].kern)
    <3>1. ItemIn(img, 1 + SD_BLKSZ, "KERNEL", run, files[run].kern)
      BY <2>2 DEF ImageIn, KernAt
    <3> QED
      BY <2>3, <2>6, <3>1 DEF KernItem
  <2>8. ItemIn(part', SD_BLKSZ + KernItem(run), "DTB", run, files[run].dtb)
    <3> DEFINE o == SD_BLKSZ + KernItem(run)
    <3>1. o \in Nat /\ 1 + o = 1 + SD_BLKSZ + KernItem(run) /\ o + DtbItem(run) <= at
      BY <2>3
    <3>2. ItemIn(img, 1 + o, "DTB", run, files[run].dtb)
      BY <2>2, <3>1 DEF ImageIn, DtbAt
    <3> HIDE DEF o
    <3>3. ItemIn(part', o, "DTB", run, files[run].dtb)
      BY <2>3, <2>6, <3>1, <3>2 DEF DtbItem
    <3> QED
      BY <3>3 DEF o
  <2>9. ItemIn(part', SD_BLKSZ + KernItem(run) + DtbItem(run), "END", run, NoData)
    <3> DEFINE o == SD_BLKSZ + KernItem(run) + DtbItem(run)
    <3>1. o \in Nat /\ 1 + o = 1 + SD_BLKSZ + KernItem(run) + DtbItem(run) /\ o + EndItem <= at
      BY <2>3
    <3>2. ItemIn(img, 1 + o, "END", run, NoData)
      BY <2>2, <3>1 DEF ImageIn, EndAt
    <3>3. NoData \in Nat
      BY DEF NoData
    <3> HIDE DEF o
    <3>4. ItemIn(part', o, "END", run, NoData)
      BY <2>3, <2>6, <3>1, <3>2, <3>3 DEF EndItem
    <3> QED
      BY <3>4 DEF o
  <2>10. /\ KernItem(run)' = KernItem(run) /\ DtbItem(run)' = DtbItem(run)
         /\ ImageSize(run)' = ImageSize(run)
    BY <1>1 DEF KernItem, DtbItem, ImageSize, SizeOfImage
  <2>11. 0 + SD_BLKSZ = SD_BLKSZ /\ run \in Int
    BY <2>1, <2>3
  <2>12. ImageIn(part, 0, run)'
    BY <1>1, <2>5, <2>7, <2>8, <2>9, <2>10, <2>11
       DEF ImageIn, HeadIn, KernAt, DtbAt, EndAt, ItemIn
  <2>13. PartInv'
    BY <1>1, <1>2, <1>3, <2>2, <2>10, <2>12 DEF PartInv, IsItem, ImageIn, HeadIn, KernAt, DtbAt, EndAt, ItemIn,
       KernItem, DtbItem, ImageSize, SizeOfImage
  <2> QED
    BY <1>1, <1>2, <1>3, <2>13, EndedKeeps
<1>4. CASE at < Len(img) /\ ipc' = "failed" /\ whole' = IF at = 0 THEN whole ELSE 0
  <2>1. PartInv'
    <3>1. CASE at = 0
      <4>1. at \div SD_BLKSZ = 0
        BY <3>1, PartSize
      <4>2. Accepted = {}
        BY <4>1 DEF Accepted
      <4> QED
        BY <1>1, <1>2, <1>4, <3>1, <4>2, PartKept
    <3>2. CASE at # 0
      BY <1>2, <1>4, <3>2 DEF PartInv, IsItem
    <3> QED
      BY <3>1, <3>2
  <2> QED
    BY <1>1, <1>2, <1>4, <2>1, EndedKeeps
<1> QED
  BY <1>3, <1>4 DEF CloseFile

LEMMA InterruptKeeps ==
  ASSUME ImagerInv, Interrupt
  PROVE  ImagerInv'
<1>1. /\ ipc = "write" /\ ipc' = "interrupted" /\ img' = <<>> /\ at' = 0 /\ UNCHANGED <<run, files>>
  BY DEF Interrupt
<1>2. PICK bs \in SUBSET Accepted : Reach(bs) /\ whole' = IF bs = {} THEN whole ELSE 0
  BY DEF Interrupt
<1>3. /\ part' \in [0..PartCells - 1 -> Cells]
      /\ bs = {} => part' = part
      /\ PART_NBLKS > 1 /\ IsItem(part'[SD_BLKSZ], "KERNEL") =>
           part'[SD_BLKSZ + 1].n \in {datasz_after_pad(f.kern) : f \in Files}
  BY <1>1, <1>2, Reached
<1>4. PartInv'
  <2>1. CASE bs = {}
    BY <1>1, <1>2, <1>3, <2>1, PartKept
  <2>2. CASE bs # {}
    BY <1>2, <1>3, <2>2 DEF PartInv, IsItem
  <2> QED
    BY <2>1, <2>2
<1> QED
  BY <1>1, <1>2, <1>3, <1>4, EndedKeeps

LEMMA ImagerKeeps ==
  ASSUME ImagerInv, ImagerNext
  PROVE  ImagerInv'
BY StartKeeps, BuildKeeps, WriteKeeps, CloseKeeps, InterruptKeeps DEF ImagerNext

-----------------------------------------------------------------------------
(* The boot flow.                                                          *)

\* A kernel item of whole blocks that passes the check of boot.c:188 ends below the header of
\* the device tree blob's item, not only below its data: loading the device tree blob to
\* DTB_RAM_ADDR - sizeof(struct item) leaves the kernel alone.
THEOREM KernelClearsDtbHeader ==
  ASSUME NEW sz \in Nat, NEW k \in Nat, itemsz(sz) = SD_BLKSZ * k,
         KERN_RAM_ADDR + sz < WORD,
         kern_fits(sz)
  PROVE  KERN_RAM_ADDR + sz <= ItemDest("DTB")
<1>1. SD_BLKSZ \in Nat /\ SD_BLKSZ > 2
  BY BlockSizeAssumption
<1>2. PICK i \in Int : KERN_RAM_ADDR = SD_BLKSZ * i
  BY AddressAssumption
<1>3. PICK j \in Int : DTB_RAM_ADDR = SD_BLKSZ * j
  BY AddressAssumption
<1>4. WORD \in Nat /\ KERN_RAM_ADDR \in Nat /\ DTB_RAM_ADDR \in Int
  BY AddressAssumption, <1>1
<1>5. KERN_RAM_ADDR + sz <= DTB_RAM_ADDR
  <2>1. (KERN_RAM_ADDR + sz) % WORD = KERN_RAM_ADDR + sz
    BY <1>4
  <2> QED
    BY <2>1 DEF kern_fits
<1>6. sz = SD_BLKSZ * k - 2
  BY <1>1 DEF itemsz, ITEM_SZ
<1>7. SD_BLKSZ * (i + k - j) = SD_BLKSZ * i + SD_BLKSZ * k - SD_BLKSZ * j
  BY <1>1
<1>8. SD_BLKSZ * i \in Int /\ SD_BLKSZ * j \in Int /\ SD_BLKSZ * k \in Int
  BY <1>1
<1>9. SD_BLKSZ * (i + k - j) < SD_BLKSZ
  BY <1>1, <1>2, <1>3, <1>5, <1>6, <1>7, <1>8
<1>10. i + k - j <= 0
  BY <1>9, LessThanABlock
<1>11. ASSUME NEW c \in Int, c <= 0 PROVE SD_BLKSZ * c <= 0
  BY <1>1, <1>11
<1>12. SD_BLKSZ * (i + k - j) <= 0
  BY <1>10, <1>11
<1>13. ItemDest("DTB") = DTB_RAM_ADDR - 2
  BY DEF ItemDest, ITEM_SZ
<1> QED
  BY <1>2, <1>3, <1>6, <1>7, <1>8, <1>12, <1>13

-----------------------------------------------------------------------------
\* Checks end in the error signal or lead on.
LEMMA CheckedLeads ==
  ASSUME NEW checks, NEW next, Checked(checks, next)
  PROVE  bpc' \in {next, "error"}
BY DEF Checked, log_and_signal, signal_error

-----------------------------------------------------------------------------
(* The invariant of the bootloader.                                        *)

\* The image has been found and its items are being loaded, or are loaded.
InImage == bpc \in {"item", "rest", "validate", "reset", "kernel"}

\* Where an item starts, by the sizes of those that were loaded before it.
ItemLba(id) ==
  CASE id = "KERNEL" -> PART_LBA + 1
    [] id = "DTB" -> PART_LBA + 1 + NBlocks("KERNEL")
    [] id = "END" -> PART_LBA + 1 + NBlocks("KERNEL") + NBlocks("DTB")

\* The first n cells of an item are in RAM as the card has them, as far as there is RAM.
Copied(id, n) ==
  \A i \in 0..n - 1 :
    ItemDest(id) + i \in RamCells => ram[ItemDest(id) + i] = CardCell(ItemLba(id) * SD_BLKSZ + i)

BootTyped ==
  /\ bpc \in {"off", "init", "mbr", "head", "item", "rest", "validate", "reset", "error", "kernel",
             "lost"}
  /\ item \in Ids /\ item_lba \in Nat /\ part_lba \in {0, PART_LBA}
  /\ error \in Errors /\ (error # "NONE" <=> bpc = "error")
  /\ ram \in [RamCells -> Cells]
  /\ mbr \in {Mbr(TRUE), Mbr(FALSE)}
  /\ bpc # "off" => Resting

\* The bootloader is where the sizes of the items that it has loaded lead it.
PlaceInv ==
  /\ bpc = "head" => ram[HEAP_RAM_ADDR].n = PART_LBA /\ ram[HEAP_RAM_ADDR + 1].n = PART_NBLKS
  /\ InImage => part_lba = PART_LBA /\ item_lba = ItemLba(item)
  /\ bpc \in {"reset", "kernel"} => item = "END"

\* The item being loaded is in RAM, its first block or all of it.
ItemInv ==
  /\ bpc \in {"rest", "validate"} => Copied(item, SD_BLKSZ) /\ MayBeItem(ram[ItemDest(item)], item)
  /\ bpc = "validate" => Copied(item, itemsz(datasz(item)))

\* The kernel is in RAM, and ends below the header of the device tree blob's item.
KernelLoaded ==
  /\ Copied("KERNEL", itemsz(datasz("KERNEL")))
  /\ IsItem(ram[ItemDest("KERNEL")], "KERNEL")
  /\ KERN_RAM_ADDR + datasz("KERNEL") <= ItemDest("DTB")

\* The device tree blob's item is in RAM as far as the heap.
DtbLoaded ==
  \A i \in 0..itemsz(datasz("DTB")) - 1 :
    ItemDest("DTB") + i < HEAP_RAM_ADDR =>
      ram[ItemDest("DTB") + i] = CardCell(ItemLba("DTB") * SD_BLKSZ + i)

\* Items that were loaded stay.
KernelInv == InImage /\ item # "KERNEL" => KernelLoaded
DtbInv    == InImage /\ item = "END" => DtbLoaded

IInv == ImagerInv /\ BootTyped /\ PlaceInv /\ ItemInv /\ KernelInv /\ DtbInv

-----------------------------------------------------------------------------
(* Addresses, the card, and what a load does.                              *)

LEMMA Addresses ==
  /\ SD_BLKSZ \in Nat /\ SD_BLKSZ > 2 /\ WORD \in Nat /\ PART_LBA \in Nat
  /\ KERN_RAM_ADDR \in Nat /\ DTB_RAM_ADDR \in Nat /\ HEAP_RAM_ADDR \in Nat
  /\ SD_BLKSZ <= KERN_RAM_ADDR /\ KERN_RAM_ADDR < DTB_RAM_ADDR /\ DTB_RAM_ADDR < HEAP_RAM_ADDR
  /\ ITEM_SZ = 2
  /\ ItemDest("KERNEL") = KERN_RAM_ADDR - 2 /\ ItemDest("DTB") = DTB_RAM_ADDR - 2
  /\ ItemDest("END") = HEAP_RAM_ADDR
  /\ RamCells = KERN_RAM_ADDR - 2..HEAP_RAM_ADDR + SD_BLKSZ - 1
<1>1. SD_BLKSZ \in Nat /\ SD_BLKSZ > 2 /\ WORD \in Nat /\ PART_LBA \in Nat
  BY BlockSizeAssumption, AddressAssumption, LbaAssumption
<1>2. PICK i \in 1..WORD : KERN_RAM_ADDR = SD_BLKSZ * i
  BY AddressAssumption
<1>3. PICK j \in 1..WORD : DTB_RAM_ADDR = SD_BLKSZ * j
  BY AddressAssumption
<1>4. PICK h \in 1..WORD : HEAP_RAM_ADDR = SD_BLKSZ * h
  BY AddressAssumption
<1>5. SD_BLKSZ * i \in Nat /\ SD_BLKSZ * j \in Nat /\ SD_BLKSZ * h \in Nat
  BY <1>1, TimesBlock
<1>6. SD_BLKSZ * 1 <= SD_BLKSZ * i
  BY <1>1, TimesBlock
<1>7. SD_BLKSZ * 1 = SD_BLKSZ
  BY <1>1
<1>8. ITEM_SZ = 2
  BY DEF ITEM_SZ
<1>9. /\ ItemDest("KERNEL") = KERN_RAM_ADDR - 2 /\ ItemDest("DTB") = DTB_RAM_ADDR - 2
      /\ ItemDest("END") = HEAP_RAM_ADDR
  BY DEF ItemDest, ITEM_SZ
<1> QED
  BY <1>1, <1>2, <1>3, <1>4, <1>5, <1>6, <1>7, <1>8, <1>9, AddressAssumption DEF RamCells

\* Whatever an item is, it goes to RAM that is there.
LEMMA DestInRam ==
  ASSUME NEW id \in Ids
  PROVE  /\ ItemDest(id) \in Nat /\ KERN_RAM_ADDR - 2 <= ItemDest(id)
         /\ ItemDest(id) + 1 \in RamCells /\ ItemDest(id) \in RamCells
BY Addresses DEF Ids

\* bytes_to_blocks() gives the least number of blocks that hold so many cells.
LEMMA BytesToBlocks ==
  ASSUME NEW n \in Nat
  PROVE  /\ bytes_to_blocks(n) \in Nat
         /\ n <= SD_BLKSZ * bytes_to_blocks(n)
         /\ \A k \in Nat : n = SD_BLKSZ * k => bytes_to_blocks(n) = k
<1>1. SD_BLKSZ \in Nat /\ SD_BLKSZ > 2
  BY BlockSizeAssumption
<1> DEFINE q == n \div SD_BLKSZ
           r == n % SD_BLKSZ
<1>2. q \in Nat /\ r \in 0..SD_BLKSZ - 1 /\ n = SD_BLKSZ * q + r
  BY <1>1
<1>3. bytes_to_blocks(n) = q + (IF r # 0 THEN 1 ELSE 0)
  BY DEF bytes_to_blocks
<1> HIDE DEF q, r
<1>4. SD_BLKSZ * q \in Nat /\ SD_BLKSZ * (q + 1) = SD_BLKSZ * q + SD_BLKSZ
  BY <1>2, TimesBlock
<1>5. bytes_to_blocks(n) \in Nat /\ n <= SD_BLKSZ * bytes_to_blocks(n)
  BY <1>1, <1>2, <1>3, <1>4
<1>6. ASSUME NEW k \in Nat, n = SD_BLKSZ * k PROVE bytes_to_blocks(n) = k
  <2>1. SD_BLKSZ * k \in Nat
    BY TimesBlock
  <2>2. ~(q < k)
    <3>1. q < k => SD_BLKSZ * q + SD_BLKSZ <= SD_BLKSZ * k
      BY <1>2, TimesBlock
    <3> QED
      BY <1>1, <1>2, <1>4, <1>6, <2>1, <3>1
  <2>3. ~(k < q)
    <3>1. k < q => SD_BLKSZ * k + SD_BLKSZ <= SD_BLKSZ * q
      BY <1>2, TimesBlock
    <3> QED
      BY <1>1, <1>2, <1>4, <1>6, <2>1, <3>1
  <2>4. q = k
    BY <1>2, <2>2, <2>3
  <2>5. r = 0
    BY <1>2, <1>4, <1>6, <2>1, <2>4
  <2> QED
    BY <1>2, <1>3, <2>4, <2>5
<1> QED
  BY <1>5, <1>6

LEMMA MbrCells ==
  ASSUME BootTyped
  PROVE  /\ mbr \in [0..SD_BLKSZ - 1 -> Cells]
         /\ mbr[0].n = PART_LBA /\ mbr[1].n = PART_NBLKS
<1>1. SD_BLKSZ \in Nat /\ SD_BLKSZ > 2 /\ PART_LBA \in Nat /\ PART_NBLKS \in Nat
  BY Addresses, PartitionAssumption
<1>2. PICK b \in BOOLEAN : mbr = Mbr(b)
  BY DEF BootTyped
<1>3. 0 \in 0..RUNS
  BY RunsAssumption
<1>4. /\ Cell("lba", "mbr", 0, PART_LBA) \in Cells /\ Cell("nblks", "mbr", 0, PART_NBLKS) \in Cells
      /\ Cell("magic", "mbr", 0, 0) \in Cells /\ Junk \in Cells
  BY <1>1, <1>3, CellTyped, JunkTyped DEF Kinds
<1>5. ASSUME NEW c \in 0..SD_BLKSZ - 1 PROVE Mbr(b)[c] \in Cells
  BY <1>4 DEF Mbr
<1>6. mbr \in [0..SD_BLKSZ - 1 -> Cells]
  BY <1>2, <1>5 DEF Mbr
<1>7. Mbr(b)[0] = Cell("lba", "mbr", 0, PART_LBA) /\ Mbr(b)[1] = Cell("nblks", "mbr", 0, PART_NBLKS)
  BY <1>1 DEF Mbr
<1> QED
  BY <1>2, <1>6, <1>7 DEF Cell

LEMMA CardTyped ==
  ASSUME BootTyped, ImagerTyped, NEW a
  PROVE  CardCell(a) \in Cells
<1>1. mbr \in [0..SD_BLKSZ - 1 -> Cells] /\ part \in [0..PartCells - 1 -> Cells] /\ Junk \in Cells
  BY MbrCells, JunkTyped DEF ImagerTyped
<1> QED
  BY <1>1 DEF CardCell

\* The partition as the card's cells.
LEMMA PartOnCard ==
  ASSUME BootTyped, ImagerTyped, NEW p \in Nat
  PROVE  CardCell(PART_LBA * SD_BLKSZ + p) = IF p < PartCells THEN part[p] ELSE Junk
<1>1. /\ SD_BLKSZ \in Nat /\ SD_BLKSZ > 2 /\ PART_LBA \in Nat /\ PART_LBA >= 1
      /\ PartCells \in Nat
  BY Addresses, LbaAssumption, PartSize
<1>2. SD_BLKSZ * 1 <= SD_BLKSZ * PART_LBA /\ SD_BLKSZ * PART_LBA \in Nat /\ SD_BLKSZ * 1 = SD_BLKSZ
  BY <1>1, TimesBlock
<1>3. PART_LBA * SD_BLKSZ = SD_BLKSZ * PART_LBA
  BY <1>1
<1>4. DOMAIN mbr = 0..SD_BLKSZ - 1 /\ DOMAIN part = 0..PartCells - 1
  BY MbrCells DEF ImagerTyped
<1> DEFINE o == PART_LBA * SD_BLKSZ
<1>5. o \in Nat /\ o >= SD_BLKSZ
  BY <1>1, <1>2, <1>3
<1>6. CardCell(o + p) = LET x == (o + p) - o
                        IN  IF o + p \in DOMAIN mbr THEN mbr[o + p]
                            ELSE IF x \in DOMAIN part THEN part[x] ELSE Junk
  BY DEF CardCell
<1> HIDE DEF o
<1>7. o + p \notin DOMAIN mbr /\ (o + p) - o = p /\ (p \in DOMAIN part <=> p < PartCells)
  BY <1>1, <1>4, <1>5
<1>8. CardCell(o + p) = IF p < PartCells THEN part[p] ELSE Junk
  BY <1>6, <1>7
<1> QED
  BY <1>8 DEF o

\* What a load leaves in RAM: nothing changes below it, and it copies the card.
LEMMA LoadedCells ==
  ASSUME BootTyped, ImagerTyped, NEW dest \in Nat, NEW lba \in Nat, NEW n \in Nat
  PROVE  /\ Loaded(dest, lba, n) \in [RamCells -> Cells]
         /\ \A c \in RamCells : c < dest => Loaded(dest, lba, n)[c] = ram[c]
         /\ \A i \in 0..SD_BLKSZ * n - 1 :
              dest + i \in RamCells => Loaded(dest, lba, n)[dest + i] = CardCell(lba * SD_BLKSZ + i)
<1>1. SD_BLKSZ \in Nat /\ ram \in [RamCells -> Cells] /\ RamCells \subseteq Int
  BY Addresses DEF BootTyped
<1>2. n * SD_BLKSZ = SD_BLKSZ * n /\ SD_BLKSZ * n \in Nat
  BY <1>1, TimesBlock
<1>3. ASSUME NEW c \in RamCells PROVE Loaded(dest, lba, n)[c] \in Cells
  BY <1>1, CardTyped DEF Loaded
<1>4. Loaded(dest, lba, n) \in [RamCells -> Cells]
  BY <1>3 DEF Loaded
<1>5. ASSUME NEW c \in RamCells, c < dest PROVE Loaded(dest, lba, n)[c] = ram[c]
  BY <1>1, <1>5 DEF Loaded
<1>6. ASSUME NEW i \in 0..SD_BLKSZ * n - 1, dest + i \in RamCells
      PROVE  Loaded(dest, lba, n)[dest + i] = CardCell(lba * SD_BLKSZ + i)
  <2>1. dest + i \in dest..dest + n * SD_BLKSZ - 1 /\ (dest + i) - dest = i
    BY <1>2
  <2> QED
    BY <1>6, <2>1 DEF Loaded
<1> QED
  BY <1>4, <1>5, <1>6
LEMMA Sizes ==
  ASSUME BootTyped, NEW id \in Ids
  PROVE  /\ datasz(id) \in Nat /\ itemsz(datasz(id)) = 2 + datasz(id)
         /\ NBlocks(id) \in Nat /\ itemsz(datasz(id)) <= SD_BLKSZ * NBlocks(id)
         /\ ItemLba(id) \in Nat
<1>1. ASSUME NEW x \in Ids
      PROVE  /\ datasz(x) \in Nat /\ itemsz(datasz(x)) = 2 + datasz(x)
             /\ NBlocks(x) \in Nat /\ itemsz(datasz(x)) <= SD_BLKSZ * NBlocks(x)
  <2>1. datasz(x) \in Nat
    BY DestInRam DEF BootTyped, datasz, Cells
  <2>2. itemsz(datasz(x)) = 2 + datasz(x)
    BY DEF itemsz, ITEM_SZ
  <2>3. 2 + datasz(x) \in Nat
    BY <2>1
  <2> QED
    BY <2>1, <2>2, <2>3, BytesToBlocks DEF NBlocks
<1>2. NBlocks("KERNEL") \in Nat /\ NBlocks("DTB") \in Nat
  BY <1>1 DEF Ids
<1>3. ItemLba(id) \in Nat
  <2>1. PART_LBA \in Nat
    BY Addresses
  <2> QED
    BY <1>2, <2>1 DEF ItemLba, Ids
<1> QED
  BY <1>1, <1>3

LEMMA SameCard ==
  ASSUME UNCHANGED <<imager, card>>, NEW a
  PROVE  CardCell(a)' = CardCell(a)
BY DEF CardCell, imager, card

LEMMA SameImager ==
  ASSUME ImagerInv, UNCHANGED imager
  PROVE  ImagerInv'
BY DEF imager, ImagerInv, ImagerTyped, ImgInv, AtInv, PartInv, ImageIn, HeadIn, KernAt, DtbAt, EndAt,
       ItemIn, Building, KernItem, DtbItem, EndItem, ImageSize, SizeOfImage, IsItem

\* A kernel that was loaded stays if nothing changes below the device tree blob's item.
LEMMA KernelStays ==
  ASSUME BootTyped, KernelLoaded, UNCHANGED <<imager, card>>,
         \A c \in RamCells : c < ItemDest("DTB") => ram'[c] = ram[c]
  PROVE  KernelLoaded' /\ datasz("KERNEL")' = datasz("KERNEL") /\ NBlocks("KERNEL")' = NBlocks("KERNEL")
<1>1. datasz("KERNEL") \in Nat /\ itemsz(datasz("KERNEL")) = 2 + datasz("KERNEL")
  BY Sizes DEF Ids
<1>2. ItemDest("KERNEL")' = ItemDest("KERNEL") /\ ItemLba("KERNEL")' = ItemLba("KERNEL")
  BY DEF ItemDest, ItemLba
<1>3. \A i \in 0..itemsz(datasz("KERNEL")) - 1 :
        ItemDest("KERNEL") + i \in RamCells => ram'[ItemDest("KERNEL") + i] = ram[ItemDest("KERNEL") + i]
  BY <1>1, Addresses DEF KernelLoaded
<1>4. /\ ram'[ItemDest("KERNEL")] = ram[ItemDest("KERNEL")]
      /\ ram'[ItemDest("KERNEL") + 1] = ram[ItemDest("KERNEL") + 1]
  BY <1>1, Addresses DEF KernelLoaded
<1>5. datasz("KERNEL")' = datasz("KERNEL")
  BY <1>2, <1>4 DEF datasz
<1>6. NBlocks("KERNEL")' = NBlocks("KERNEL")
  BY <1>5 DEF NBlocks
<1>7. Copied("KERNEL", itemsz(datasz("KERNEL")))'
  BY <1>2, <1>3, <1>5, SameCard DEF Copied, KernelLoaded
<1>8. IsItem(ram[ItemDest("KERNEL")], "KERNEL")'
  BY <1>2, <1>4 DEF KernelLoaded, IsItem
<1> QED
  BY <1>5, <1>6, <1>7, <1>8 DEF KernelLoaded, ItemDest

\* And the device tree blob, if nothing changes below the heap.
LEMMA DtbStays ==
  ASSUME BootTyped, KernelLoaded, DtbLoaded, UNCHANGED <<imager, card>>,
         \A c \in RamCells : c < HEAP_RAM_ADDR => ram'[c] = ram[c]
  PROVE  DtbLoaded' /\ NBlocks("DTB")' = NBlocks("DTB")
<1>1. datasz("DTB") \in Nat /\ itemsz(datasz("DTB")) = 2 + datasz("DTB")
  BY Sizes DEF Ids
<1>2. \A c \in RamCells : c < ItemDest("DTB") => ram'[c] = ram[c]
  BY Addresses
<1>3. ItemDest("DTB")' = ItemDest("DTB") /\ ItemLba("DTB")' = ItemLba("DTB")
  BY <1>2, KernelStays DEF ItemDest, ItemLba
<1>4. /\ ItemDest("DTB") \in RamCells /\ ItemDest("DTB") < HEAP_RAM_ADDR
      /\ ItemDest("DTB") + 1 \in RamCells /\ ItemDest("DTB") + 1 < HEAP_RAM_ADDR
  BY Addresses
<1>5. /\ ram'[ItemDest("DTB")] = ram[ItemDest("DTB")]
      /\ ram'[ItemDest("DTB") + 1] = ram[ItemDest("DTB") + 1]
  BY <1>4
<1>6. datasz("DTB")' = datasz("DTB")
  BY <1>3, <1>5 DEF datasz
<1>7. NBlocks("DTB")' = NBlocks("DTB")
  BY <1>6 DEF NBlocks
<1>8. ASSUME NEW i \in 0..itemsz(datasz("DTB")) - 1, ItemDest("DTB") + i < HEAP_RAM_ADDR
      PROVE  ram'[ItemDest("DTB") + i] = CardCell(ItemLba("DTB") * SD_BLKSZ + i)
  <2>1. ItemDest("DTB") + i \in RamCells
    BY <1>1, <1>8, Addresses
  <2> QED
    BY <1>8, <2>1 DEF DtbLoaded
<1>9. DtbLoaded'
  BY <1>3, <1>6, <1>8, SameCard DEF DtbLoaded
<1> QED
  BY <1>7, <1>9

\* A load leaves the items alone that were loaded before, and so the place of the next one.
LEMMA LoadKeepsItems ==
  ASSUME IInv, InImage, UNCHANGED <<imager, card, item>>,
         \A c \in RamCells : c < ItemDest(item) => ram'[c] = ram[c]
  PROVE  KernelInv' /\ DtbInv' /\ ItemLba(item)' = ItemLba(item)
<1>1. BootTyped /\ item \in Ids /\ item' = item /\ UNCHANGED <<imager, card>>
  BY DEF IInv, BootTyped
<1>2. CASE item = "KERNEL"
  BY <1>1, <1>2 DEF KernelInv, DtbInv, ItemLba
<1>3. CASE item = "DTB"
  <2>1. KernelLoaded
    BY <1>3 DEF IInv, KernelInv
  <2>2. KernelLoaded' /\ NBlocks("KERNEL")' = NBlocks("KERNEL")
    BY <1>1, <1>3, <2>1, KernelStays
  <2> QED
    BY <1>1, <1>3, <2>2 DEF KernelInv, DtbInv, ItemLba
<1>4. CASE item = "END"
  <2>1. KernelLoaded /\ DtbLoaded
    BY <1>4 DEF IInv, KernelInv, DtbInv
  <2>2. \A c \in RamCells : c < HEAP_RAM_ADDR => ram'[c] = ram[c]
    BY <1>4, Addresses
  <2>3. \A c \in RamCells : c < ItemDest("DTB") => ram'[c] = ram[c]
    BY <2>2, Addresses
  <2>4. KernelLoaded' /\ NBlocks("KERNEL")' = NBlocks("KERNEL")
    BY <1>1, <2>1, <2>3, KernelStays
  <2>5. DtbLoaded' /\ NBlocks("DTB")' = NBlocks("DTB")
    BY <1>1, <2>1, <2>2, DtbStays
  <2> QED
    BY <1>1, <1>4, <2>4, <2>5 DEF KernelInv, DtbInv, ItemLba
<1> QED
  BY <1>1, <1>2, <1>3, <1>4 DEF Ids

\* A kernel item that was found has the size of a kernel that was given to the imager, even if
\* the image is torn: id and size are in the same block.
LEMMA KernelSize ==
  ASSUME ImagerInv, BootTyped, Copied("KERNEL", ITEM_SZ), IsItem(ram[ItemDest("KERNEL")], "KERNEL")
  PROVE  \E f \in Files : datasz("KERNEL") = datasz_after_pad(f.kern)
<1>1. ImagerTyped /\ BootTyped
  BY DEF ImagerInv
<1>2. ItemLba("KERNEL") * SD_BLKSZ = PART_LBA * SD_BLKSZ + SD_BLKSZ
  BY Addresses DEF ItemLba
<1>3. PART_LBA * SD_BLKSZ \in Nat
  <2>1. PART_LBA * SD_BLKSZ = SD_BLKSZ * PART_LBA /\ SD_BLKSZ * PART_LBA \in Nat
    BY Addresses, TimesBlock
  <2> QED
    BY <2>1
<1>4. 0 \in 0..ITEM_SZ - 1 /\ 1 \in 0..ITEM_SZ - 1 /\ ItemDest("KERNEL") + 0 = ItemDest("KERNEL")
  BY Addresses
<1>5. ItemDest("KERNEL") \in RamCells /\ ItemDest("KERNEL") + 1 \in RamCells
  BY DestInRam DEF Ids
<1>6. /\ ram[ItemDest("KERNEL")] = CardCell(ItemLba("KERNEL") * SD_BLKSZ + 0)
      /\ ram[ItemDest("KERNEL") + 1] = CardCell(ItemLba("KERNEL") * SD_BLKSZ + 1)
  BY <1>4, <1>5 DEF Copied
<1>7. /\ ItemLba("KERNEL") * SD_BLKSZ + 0 = PART_LBA * SD_BLKSZ + SD_BLKSZ
      /\ ItemLba("KERNEL") * SD_BLKSZ + 1 = PART_LBA * SD_BLKSZ + (SD_BLKSZ + 1)
  BY <1>2, <1>3, Addresses
<1>8. /\ ram[ItemDest("KERNEL")] = IF SD_BLKSZ < PartCells THEN part[SD_BLKSZ] ELSE Junk
      /\ ram[ItemDest("KERNEL") + 1] = IF SD_BLKSZ + 1 < PartCells THEN part[SD_BLKSZ + 1] ELSE Junk
  BY <1>1, <1>6, <1>7, PartOnCard, Addresses
<1>9. ~IsItem(Junk, "KERNEL")
  BY DEF IsItem, Junk, Cell
<1>10. SD_BLKSZ < PartCells /\ IsItem(part[SD_BLKSZ], "KERNEL")
  BY <1>8, <1>9
<1>11. PART_NBLKS > 1
  <2>1. PART_NBLKS = 1 => PartCells = SD_BLKSZ
    BY PartSize
  <2> QED
    BY <1>10, <2>1, PartSize, PartitionAssumption
<1>12. SD_BLKSZ + 1 < PartCells
  BY <1>11, PartSize
<1>13. ram[ItemDest("KERNEL") + 1].n \in {datasz_after_pad(f.kern) : f \in Files}
  BY <1>8, <1>10, <1>11, <1>12 DEF ImagerInv, PartInv
<1> QED
  BY <1>13 DEF datasz
-----------------------------------------------------------------------------
(* Every step keeps the invariant.                                         *)

LEMMA Signalled ==
  ASSUME NEW e, log_and_signal(e)
  PROVE  bpc' = "error" /\ error' \in {e, "INFINITE_LOOP"}
BY DEF log_and_signal, signal_error

\* Of two checks the first that fails is signalled.
LEMMA CheckedTwo ==
  ASSUME NEW h1 \in BOOLEAN, NEW h2 \in BOOLEAN, NEW e1, NEW e2, NEW next,
         Checked(<<Check(h1, e1), Check(h2, e2)>>, next)
  PROVE  \/ h1 /\ h2 /\ bpc' = next /\ error' = error
         \/ bpc' = "error" /\ (\/ error' = "INFINITE_LOOP"
                               \/ ~h1 /\ error' = e1
                               \/ h1 /\ ~h2 /\ error' = e2)
<1> DEFINE checks == <<Check(h1, e1), Check(h2, e2)>>
           failed == {i \in DOMAIN checks : ~checks[i].holds}
<1>1. DOMAIN checks = {1, 2} /\ checks[1] = Check(h1, e1) /\ checks[2] = Check(h2, e2)
  OBVIOUS
<1>2. /\ checks[1].holds = h1 /\ checks[1].else = e1
      /\ checks[2].holds = h2 /\ checks[2].else = e2
  BY <1>1 DEF Check
<1>3. IF failed = {} THEN bpc' = next /\ UNCHANGED error
      ELSE \E i \in failed : (\A j \in failed : i <= j) /\ log_and_signal(checks[i].else)
  BY DEF Checked
<1> HIDE DEF checks
<1>4. CASE failed = {}
  BY <1>1, <1>2, <1>3, <1>4
<1>5. CASE failed # {}
  <2>1. PICK i \in failed : (\A j \in failed : i <= j) /\ log_and_signal(checks[i].else)
    BY <1>3, <1>5
  <2>2. i \in {1, 2}
    BY <1>1
  <2>3. i = 2 => h1
    BY <1>1, <1>2, <2>1
  <2> QED
    BY <1>2, <2>1, <2>2, <2>3, Signalled
<1> QED
  BY <1>4, <1>5

LEMMA CheckedOne ==
  ASSUME NEW h \in BOOLEAN, NEW e, NEW next, Checked(<<Check(h, e)>>, next)
  PROVE  \/ h /\ bpc' = next /\ error' = error
         \/ bpc' = "error" /\ (error' = "INFINITE_LOOP" \/ (~h /\ error' = e))
<1> DEFINE checks == <<Check(h, e)>>
           failed == {i \in DOMAIN checks : ~checks[i].holds}
<1>1. DOMAIN checks = {1} /\ checks[1] = Check(h, e)
  OBVIOUS
<1>2. checks[1].holds = h /\ checks[1].else = e
  BY <1>1 DEF Check
<1>3. IF failed = {} THEN bpc' = next /\ UNCHANGED error
      ELSE \E i \in failed : (\A j \in failed : i <= j) /\ log_and_signal(checks[i].else)
  BY DEF Checked
<1> HIDE DEF checks
<1> QED
  BY <1>1, <1>2, <1>3, Signalled

\* Outside of the image there is only the type to keep.
LEMMA OutsideKeeps ==
  ASSUME IInv, UNCHANGED <<imager, card>>, ~InImage', bpc' # "head", BootTyped'
  PROVE  IInv'
<1>1. ImagerInv'
  BY SameImager DEF IInv
<1> QED
  BY <1>1 DEF IInv, PlaceInv, ItemInv, KernelInv, DtbInv, InImage

\* A boot that ends in an error.
LEMMA ErrorKeeps ==
  ASSUME IInv, UNCHANGED <<imager, card>>, bpc # "off", bpc' = "error", error' \in Errors \ {"NONE"},
         item' \in Ids, item_lba' \in Nat, part_lba' \in {0, PART_LBA}, ram' \in [RamCells -> Cells]
  PROVE  IInv'
<1>1. BootTyped'
  BY DEF IInv, BootTyped, Resting, imager, card
<1> QED
  BY <1>1, OutsideKeeps DEF InImage

LEMMA ReadFailsKeeps ==
  ASSUME IInv, UNCHANGED <<imager, card>>, bpc # "off",
         NEW dest \in Nat, NEW lba \in Nat, NEW nblks \in Nat, ReadFails(dest, lba, nblks)
  PROVE  IInv'
<1>1. BootTyped /\ ImagerTyped
  BY DEF IInv, ImagerInv
<1>2. PICK n \in 0..nblks - 1 : ram' = Loaded(dest, lba, n)
  BY DEF ReadFails
<1>3. ram' \in [RamCells -> Cells]
  BY <1>1, <1>2, LoadedCells
<1>4. bpc' = "error" /\ error' \in {"SD_READ", "INFINITE_LOOP"} /\ UNCHANGED <<item, part_lba, item_lba>>
  BY Signalled DEF ReadFails
<1> QED
  BY <1>1, <1>3, <1>4, ErrorKeeps DEF BootTyped, Errors

LEMMA PowerKeeps ==
  ASSUME IInv, UNCHANGED <<imager, card>>, PowerOn \/ PowerOff
  PROVE  IInv'
<1>1. /\ bpc' \in {"off", "init"} /\ error' = "NONE" /\ part_lba' = 0 /\ item_lba' = 0 /\ item' = "END"
      /\ UNCHANGED <<ram, mbr, ipc>> /\ (bpc' = "init" => Resting)
  BY DEF PowerOn, PowerOff, imager, card
<1>2. "END" \in Ids /\ "NONE" \in Errors
  BY DEF Ids, Errors
<1>3. BootTyped'
  BY <1>1, <1>2 DEF IInv, BootTyped, Resting
<1> QED
  BY <1>1, <1>3, OutsideKeeps DEF InImage

LEMMA InitPeripheralsKeeps ==
  ASSUME IInv, UNCHANGED <<imager, card>>, init_peripherals
  PROVE  IInv'
<1>1. CASE bpc' = "mbr" /\ UNCHANGED error
  <2>1. BootTyped'
    BY <1>1 DEF IInv, BootTyped, init_peripherals, Resting, imager, card
  <2> QED
    BY <1>1, <2>1, OutsideKeeps DEF InImage
<1>2. CASE \E e \in {"VCMAILBOX", "VC_NOT_INIT_MMC", "SD_INIT"} : log_and_signal(e)
  <2>1. bpc' = "error" /\ error' \in Errors \ {"NONE"}
    BY <1>2, Signalled DEF Errors
  <2> QED
    BY <2>1, ErrorKeeps DEF IInv, BootTyped, init_peripherals
<1> QED
  BY <1>1, <1>2 DEF init_peripherals

LEMMA LoadMbrKeeps ==
  ASSUME IInv, UNCHANGED <<imager, card>>, load_mbr
  PROVE  IInv'
<1>1. BootTyped /\ ImagerTyped /\ ImagerInv /\ bpc = "mbr" /\ HEAP_RAM_ADDR \in Nat
  BY Addresses DEF IInv, ImagerInv, load_mbr
<1>2. CASE /\ ram' = Loaded(HEAP_RAM_ADDR, 0, 1)
           /\ Checked(<<Check(mbr_magic(ram'), "NO_MBR_MAGIC"),
                        Check(mbr_partition_valid(image_partition), "INVALID_PARTITION")>>, "head")
           /\ UNCHANGED <<item, part_lba, item_lba>>
  <2>1. /\ ram' \in [RamCells -> Cells]
        /\ \A i \in 0..SD_BLKSZ * 1 - 1 :
             HEAP_RAM_ADDR + i \in RamCells => ram'[HEAP_RAM_ADDR + i] = CardCell(0 * SD_BLKSZ + i)
    BY <1>1, <1>2, LoadedCells
  <2>2. \/ bpc' = "head" /\ error' = error
        \/ bpc' = "error" /\ error' \in Errors \ {"NONE"}
    <3>1. mbr_magic(ram') \in BOOLEAN /\ mbr_partition_valid(image_partition) \in BOOLEAN
      BY DEF mbr_magic, mbr_partition_valid
    <3> QED
      BY <1>2, <3>1, CheckedTwo DEF Errors
  <2>3. CASE bpc' = "head" /\ error' = error
    <3>1. BootTyped'
      BY <1>1, <1>2, <2>1, <2>3 DEF BootTyped, Resting, imager, card
    <3>2. /\ 0 \in 0..SD_BLKSZ * 1 - 1 /\ 1 \in 0..SD_BLKSZ * 1 - 1
          /\ HEAP_RAM_ADDR + 0 = HEAP_RAM_ADDR /\ HEAP_RAM_ADDR + 1 \in RamCells
          /\ HEAP_RAM_ADDR \in RamCells /\ 0 * SD_BLKSZ + 0 = 0 /\ 0 * SD_BLKSZ + 1 = 1
      BY Addresses
    <3>3. ram'[HEAP_RAM_ADDR] = CardCell(0) /\ ram'[HEAP_RAM_ADDR + 1] = CardCell(1)
      BY <2>1, <3>2
    <3>4. CardCell(0) = mbr[0] /\ CardCell(1) = mbr[1]
      BY <1>1, MbrCells, Addresses DEF CardCell
    <3>5. PlaceInv'
      BY <1>1, <2>3, <3>3, <3>4, MbrCells DEF PlaceInv, InImage
    <3>6. ImagerInv'
      BY <1>1, SameImager
    <3> QED
      BY <2>3, <3>1, <3>5, <3>6 DEF IInv, ItemInv, KernelInv, DtbInv, InImage
  <2>4. CASE bpc' = "error" /\ error' \in Errors \ {"NONE"}
    BY <1>1, <1>2, <2>1, <2>4, ErrorKeeps DEF BootTyped
  <2> QED
    BY <2>2, <2>3, <2>4
<1>3. CASE ReadFails(HEAP_RAM_ADDR, 0, 1)
  BY <1>1, <1>3, ReadFailsKeeps
<1> QED
  BY <1>2, <1>3 DEF load_mbr

LEMMA LoadHeadKeeps ==
  ASSUME IInv, UNCHANGED <<imager, card>>, load_image_head
  PROVE  IInv'
<1>1. BootTyped /\ ImagerTyped /\ ImagerInv /\ bpc = "head" /\ HEAP_RAM_ADDR \in Nat /\ PART_LBA \in Nat
  BY Addresses DEF IInv, ImagerInv, load_image_head
<1>2. mbr_get_partition_lba(ram) = PART_LBA
  BY <1>1 DEF IInv, PlaceInv, mbr_get_partition_lba
<1>3. CASE ReadFails(HEAP_RAM_ADDR, PART_LBA, 1)
  BY <1>1, <1>3, ReadFailsKeeps
<1>4. ASSUME ram' = Loaded(HEAP_RAM_ADDR, PART_LBA, 1), part_lba' = PART_LBA,
             item_lba' = FirstItem(PART_LBA), item' = "KERNEL",
             NEW h1 \in BOOLEAN, NEW h2 \in BOOLEAN,
             Checked(<<Check(h1, "NO_IMAGE_MAGIC"), Check(h2, "IMAGE_OVERFLOW")>>, "item")
      PROVE  IInv'
  <2>1. ram' \in [RamCells -> Cells] /\ item_lba' \in Nat /\ item' \in Ids /\ item_lba' = PART_LBA + 1
    BY <1>1, <1>4, LoadedCells DEF FirstItem, Ids
  <2>2. \/ bpc' = "item" /\ error' = error
        \/ bpc' = "error" /\ error' \in Errors \ {"NONE"}
    BY <1>4, CheckedTwo DEF Errors
  <2>3. CASE bpc' = "item" /\ error' = error
    <3>1. BootTyped'
      BY <1>1, <1>4, <2>1, <2>3 DEF BootTyped, Resting, imager, card
    <3>2. PlaceInv'
      BY <1>4, <2>1, <2>3 DEF PlaceInv, ItemLba
    <3>3. ImagerInv'
      BY <1>1, SameImager
    <3> QED
      BY <1>4, <2>3, <3>1, <3>2, <3>3 DEF IInv, ItemInv, KernelInv, DtbInv
  <2>4. CASE bpc' = "error" /\ error' \in Errors \ {"NONE"}
    BY <1>1, <1>4, <2>1, <2>4, ErrorKeeps
  <2> QED
    BY <2>2, <2>3, <2>4
<1>5. image_fits(ram'[HEAP_RAM_ADDR + 1].n, mbr_get_partition_nblks(ram)) \in BOOLEAN
  BY DEF image_fits
<1> QED
  BY <1>2, <1>3, <1>4, <1>5 DEF load_image_head

LEMMA LoadItemKeeps ==
  ASSUME IInv, UNCHANGED <<imager, card>>, load_item
  PROVE  IInv'
<1>1. /\ BootTyped /\ ImagerTyped /\ ImagerInv /\ bpc = "item" /\ InImage /\ item \in Ids
      /\ item_lba \in Nat /\ item_lba = ItemLba(item)
  BY DEF IInv, BootTyped, ImagerInv, PlaceInv, load_item, InImage
<1>2. ItemDest(item) \in Nat /\ ItemDest(item) \in RamCells
  BY <1>1, DestInRam
<1>3. CASE ReadFails(ItemDest(item), item_lba, 1)
  BY <1>1, <1>2, <1>3, ReadFailsKeeps
<1>4. CASE /\ ram' = Loaded(ItemDest(item), item_lba, 1)
           /\ \/ MayBeItem(ram'[ItemDest(item)], item) /\ bpc' = "rest" /\ UNCHANGED error
              \/ UnexpectedItem(ram'[ItemDest(item)])
           /\ UNCHANGED <<item, part_lba, item_lba>>
  <2>1. /\ ram' \in [RamCells -> Cells]
        /\ \A c \in RamCells : c < ItemDest(item) => ram'[c] = ram[c]
        /\ \A i \in 0..SD_BLKSZ * 1 - 1 :
             ItemDest(item) + i \in RamCells => ram'[ItemDest(item) + i] = CardCell(item_lba * SD_BLKSZ + i)
    BY <1>1, <1>2, <1>4, LoadedCells
  <2>2. CASE MayBeItem(ram'[ItemDest(item)], item) /\ bpc' = "rest" /\ UNCHANGED error
    <3>1. BootTyped'
      BY <1>1, <1>4, <2>1, <2>2 DEF BootTyped, Resting, imager, card
    <3>2. KernelInv' /\ DtbInv' /\ ItemLba(item)' = ItemLba(item)
      BY <1>1, <1>4, <2>1, LoadKeepsItems
    <3>3. PlaceInv'
      BY <1>1, <1>4, <2>2, <3>2 DEF IInv, PlaceInv, InImage
    <3>4. SD_BLKSZ * 1 = SD_BLKSZ
      BY Addresses
    <3>5. ItemDest(item)' = ItemDest(item)
      BY <1>4 DEF ItemDest
    <3>6. Copied(item, SD_BLKSZ)'
      BY <1>1, <1>4, <2>1, <3>2, <3>4, <3>5, SameCard DEF Copied
    <3>7. ItemInv'
      BY <1>4, <2>2, <3>5, <3>6 DEF ItemInv, MayBeItem, IsItem
    <3>8. ImagerInv'
      BY <1>1, SameImager
    <3> QED
      BY <3>1, <3>2, <3>3, <3>7, <3>8 DEF IInv
  <2>3. CASE UnexpectedItem(ram'[ItemDest(item)])
    <3>1. CASE bpc' = "lost" /\ UNCHANGED error
      <4>1. BootTyped'
        BY <1>1, <1>4, <2>1, <3>1 DEF BootTyped, Resting, imager, card
      <4> QED
        BY <3>1, <4>1, OutsideKeeps DEF InImage
    <3>2. CASE log_and_signal("IMAGE_CONTENTS")
      <4>1. bpc' = "error" /\ error' \in Errors \ {"NONE"}
        BY <3>2, Signalled DEF Errors
      <4> QED
        BY <1>1, <1>4, <2>1, <4>1, ErrorKeeps DEF BootTyped
    <3> QED
      BY <2>3, <3>1, <3>2 DEF UnexpectedItem
  <2> QED
    BY <1>4, <2>2, <2>3
<1> QED
  BY <1>3, <1>4 DEF load_item
LEMMA LoadRestKeeps ==
  ASSUME IInv, UNCHANGED <<imager, card>>, load_rest
  PROVE  IInv'
<1>1. /\ BootTyped /\ ImagerTyped /\ ImagerInv /\ bpc = "rest" /\ InImage /\ item \in Ids
      /\ item_lba \in Nat /\ item_lba = ItemLba(item)
      /\ Copied(item, SD_BLKSZ) /\ MayBeItem(ram[ItemDest(item)], item)
  BY DEF IInv, BootTyped, ImagerInv, PlaceInv, ItemInv, load_rest, InImage
<1>2. /\ ItemDest(item) \in Nat /\ ItemDest(item) \in RamCells /\ ItemDest(item) + 1 \in RamCells
      /\ datasz(item) \in Nat /\ itemsz(datasz(item)) = 2 + datasz(item)
      /\ NBlocks(item) \in Nat /\ itemsz(datasz(item)) <= SD_BLKSZ * NBlocks(item)
  BY <1>1, DestInRam, Sizes
<1>3. CASE ReadFails(ItemDest(item), item_lba, NBlocks(item))
  BY <1>1, <1>2, <1>3, ReadFailsKeeps
<1>4. CASE /\ ram' = IF MoreToRead(item) THEN Loaded(ItemDest(item), item_lba, NBlocks(item)) ELSE ram
           /\ bpc' = "validate"
           /\ UNCHANGED <<item, part_lba, item_lba, error>>
  <2> DEFINE a(i) == CardCell(item_lba * SD_BLKSZ + i)
             d == ItemDest(item)
             n == itemsz(datasz(item))
  <2>1. /\ ram' \in [RamCells -> Cells]
        /\ \A c \in RamCells : c < d => ram'[c] = ram[c]
        /\ \A i \in 0..SD_BLKSZ - 1 : d + i \in RamCells => ram'[d + i] = a(i)
        /\ \A i \in 0..n - 1 : d + i \in RamCells => ram'[d + i] = a(i)
    <3>1. \A i \in 0..SD_BLKSZ - 1 : d + i \in RamCells => ram[d + i] = a(i)
      BY <1>1 DEF Copied
    <3>2. CASE MoreToRead(item)
      <4>1. n > SD_BLKSZ /\ n \in Nat /\ SD_BLKSZ \in Nat /\ n <= SD_BLKSZ * NBlocks(item)
            /\ SD_BLKSZ * NBlocks(item) \in Nat
        BY <1>2, <3>2, TimesBlock, Addresses DEF MoreToRead
      <4>2. /\ ram' \in [RamCells -> Cells]
            /\ \A c \in RamCells : c < d => ram'[c] = ram[c]
            /\ \A i \in 0..SD_BLKSZ * NBlocks(item) - 1 : d + i \in RamCells => ram'[d + i] = a(i)
        <5>1. ram' = Loaded(d, item_lba, NBlocks(item))
          BY <1>4, <3>2
        <5>2. d \in Nat /\ item_lba \in Nat /\ NBlocks(item) \in Nat
          BY <1>1, <1>2
        <5> HIDE DEF d
        <5> QED
          BY <1>1, <5>1, <5>2, LoadedCells
      <4> HIDE DEF a, d, n
      <4> QED
        BY <4>1, <4>2
    <3>3. CASE ~MoreToRead(item)
      <4>1. ~(n > SD_BLKSZ) /\ n \in Nat /\ SD_BLKSZ \in Nat /\ ram' = ram
        BY <1>2, <1>4, <3>3, Addresses DEF MoreToRead
      <4>2. ram \in [RamCells -> Cells]
        BY <1>1 DEF BootTyped
      <4> HIDE DEF a, d, n
      <4> QED
        BY <3>1, <4>1, <4>2
    <3> QED
      BY <3>2, <3>3
  <2>2. ram'[d] = ram[d] /\ ram'[d + 1] = ram[d + 1]
    <3>1. \A i \in 0..SD_BLKSZ - 1 : d + i \in RamCells => ram'[d + i] = ram[d + i]
      BY <1>1, <2>1 DEF Copied
    <3>2. 0 \in 0..SD_BLKSZ - 1 /\ 1 \in 0..SD_BLKSZ - 1 /\ d + 0 = d
      BY <1>2, Addresses
    <3> QED
      BY <1>2, <3>1, <3>2
  <2>3. BootTyped'
    BY <1>1, <1>4, <2>1 DEF BootTyped, Resting, imager, card
  <2>4. KernelInv' /\ DtbInv' /\ ItemLba(item)' = ItemLba(item)
    BY <1>1, <1>4, <2>1, LoadKeepsItems
  <2>5. PlaceInv'
    BY <1>1, <1>4, <2>4 DEF IInv, PlaceInv, InImage
  <2>6. ItemDest(item)' = d
    BY <1>4 DEF ItemDest
  <2>7. datasz(item)' = datasz(item)
    BY <1>4, <2>2, <2>6 DEF datasz
  <2>8. Copied(item, SD_BLKSZ)'
    BY <1>1, <1>4, <2>1, <2>4, <2>6, SameCard DEF Copied
  <2>9. Copied(item, itemsz(datasz(item)))'
    BY <1>1, <1>4, <2>1, <2>4, <2>6, <2>7, SameCard DEF Copied
  <2>10. MayBeItem(ram[ItemDest(item)], item)'
    BY <1>1, <1>4, <2>2, <2>6 DEF MayBeItem, IsItem
  <2>11. ImagerInv'
    BY <1>1, SameImager
  <2> QED
    BY <2>3, <2>4, <2>5, <2>8, <2>9, <2>10, <2>11 DEF IInv, ItemInv
<1> QED
  BY <1>3, <1>4 DEF load_rest

\* Nothing in RAM changes.
LEMMA SameRam ==
  ASSUME UNCHANGED <<imager, card, ram>>
  PROVE  /\ \A id \in Ids : /\ datasz(id)' = datasz(id) /\ NBlocks(id)' = NBlocks(id)
                            /\ ItemLba(id)' = ItemLba(id) /\ ItemDest(id)' = ItemDest(id)
         /\ KernelLoaded => KernelLoaded'
         /\ DtbLoaded => DtbLoaded'
<1>1. \A id \in Ids : /\ datasz(id)' = datasz(id) /\ NBlocks(id)' = NBlocks(id)
                      /\ ItemLba(id)' = ItemLba(id) /\ ItemDest(id)' = ItemDest(id)
  BY DEF datasz, NBlocks, ItemLba, ItemDest
<1>2. KernelLoaded => KernelLoaded'
  BY DEF KernelLoaded, Copied, CardCell, ItemLba, ItemDest, datasz, NBlocks, IsItem, imager, card
<1>3. DtbLoaded => DtbLoaded'
  BY DEF DtbLoaded, Copied, CardCell, ItemLba, ItemDest, datasz, NBlocks, imager, card
<1> QED
  BY <1>1, <1>2, <1>3

LEMMA ValidateKeeps ==
  ASSUME IInv, UNCHANGED <<imager, card>>, validate_item
  PROVE  IInv'
<1>1. /\ BootTyped /\ ImagerTyped /\ ImagerInv /\ bpc = "validate" /\ InImage /\ item \in Ids
      /\ item_lba \in Nat /\ item_lba = ItemLba(item) /\ part_lba = PART_LBA
      /\ Copied(item, SD_BLKSZ) /\ Copied(item, itemsz(datasz(item)))
      /\ MayBeItem(ram[ItemDest(item)], item)
      /\ UNCHANGED <<imager, card, ram, part_lba>>
  BY DEF IInv, BootTyped, ImagerInv, PlaceInv, ItemInv, validate_item, InImage
<1>2. /\ ImagerInv'
      /\ \A id \in Ids : /\ NBlocks(id)' = NBlocks(id) /\ ItemLba(id)' = ItemLba(id)
      /\ KernelLoaded => KernelLoaded'
      /\ DtbLoaded => DtbLoaded'
  BY <1>1, SameImager, SameRam
<1>3. "KERNEL" \in Ids /\ "DTB" \in Ids /\ "END" \in Ids
  BY DEF Ids
<1>4. /\ NBlocks("KERNEL") \in Nat /\ NBlocks("DTB") \in Nat
      /\ datasz("KERNEL") \in Nat /\ itemsz(datasz("KERNEL")) = 2 + datasz("KERNEL")
  BY <1>1, <1>3, Sizes
<1>5. ASSUME item' \in Ids, item_lba' \in Nat, bpc' = "error", error' \in Errors \ {"NONE"}
      PROVE  IInv'
  BY <1>1, <1>5, ErrorKeeps DEF BootTyped
<1>6. CASE /\ item = "KERNEL"
           /\ Checked(<<Check(kern_fits(datasz("KERNEL")), "KERN_OVERFLOW"),
                        Check(IsZImage(ram[KERN_RAM_ADDR + ZIMAGE_MAGIC_OFF]), "IMAGE_CONTENTS")>>, "item")
           /\ TurnTo("DTB")
  <2>1. item' = "DTB" /\ item_lba' = item_lba + NBlocks("KERNEL") /\ item_lba' \in Nat
    BY <1>1, <1>4, <1>6 DEF TurnTo
  <2>2. kern_fits(datasz("KERNEL")) \in BOOLEAN /\ IsZImage(ram[KERN_RAM_ADDR + ZIMAGE_MAGIC_OFF]) \in BOOLEAN
    <3>1. kern_fits(datasz("KERNEL")) \in BOOLEAN
      BY DEF kern_fits
    <3>2. IsZImage(ram[KERN_RAM_ADDR + ZIMAGE_MAGIC_OFF]) \in BOOLEAN
      BY Zenon DEF IsZImage
    <3> QED
      BY <3>1, <3>2
  <2>3. \/ kern_fits(datasz("KERNEL")) /\ bpc' = "item" /\ error' = error
        \/ bpc' = "error" /\ error' \in Errors \ {"NONE"}
    BY <1>6, <2>2, CheckedTwo DEF Errors
  <2>4. CASE kern_fits(datasz("KERNEL")) /\ bpc' = "item" /\ error' = error
    <3>1. BootTyped'
      BY <1>1, <1>3, <2>1, <2>4 DEF BootTyped, Resting, imager, card
    <3>2. PlaceInv'
      BY <1>1, <1>2, <1>3, <1>6, <2>1, <2>4 DEF PlaceInv, ItemLba
    <3>3. IsItem(ram[ItemDest("KERNEL")], "KERNEL")
      BY <1>1, <1>6 DEF MayBeItem
    <3>4. Copied("KERNEL", ITEM_SZ)
      <4>1. Copied("KERNEL", SD_BLKSZ) /\ 0..ITEM_SZ - 1 \subseteq 0..SD_BLKSZ - 1
        BY <1>1, <1>6, Addresses
      <4> QED
        BY <4>1 DEF Copied
    <3>5. PICK f \in Files : datasz("KERNEL") = datasz_after_pad(f.kern)
      BY <1>1, <3>3, <3>4, KernelSize
    <3>6. f.kern \in Nat /\ DTB_RAM_ADDR + datasz_after_pad(f.kern) < WORD
      BY FilesAssumption, FitAssumption
    <3>7. PICK k \in Nat : itemsz(datasz("KERNEL")) = SD_BLKSZ * k
      BY <3>5, <3>6, PadTyped
    <3>8. KERN_RAM_ADDR + datasz("KERNEL") < WORD
      BY <1>4, <3>5, <3>6, Addresses
    <3>9. KERN_RAM_ADDR + datasz("KERNEL") <= ItemDest("DTB")
      BY <1>4, <2>4, <3>7, <3>8, KernelClearsDtbHeader
    <3>10. KernelLoaded
      BY <1>1, <1>6, <3>3, <3>9 DEF KernelLoaded
    <3> QED
      BY <1>2, <2>1, <2>4, <3>1, <3>2, <3>10 DEF IInv, ItemInv, KernelInv, DtbInv
  <2> QED
    BY <1>3, <1>5, <2>1, <2>3, <2>4
<1>7. CASE /\ item = "DTB"
           /\ Checked(<<Check(IsFdt(ram[DTB_RAM_ADDR]), "IMAGE_CONTENTS")>>, "item")
           /\ TurnTo("END")
  <2>1. item' = "END" /\ item_lba' = item_lba + NBlocks("DTB") /\ item_lba' \in Nat
    BY <1>1, <1>4, <1>7 DEF TurnTo
  <2>2. IsFdt(ram[DTB_RAM_ADDR]) \in BOOLEAN
    BY Zenon DEF IsFdt
  <2>3. \/ bpc' = "item" /\ error' = error
        \/ bpc' = "error" /\ error' \in Errors \ {"NONE"}
    BY <1>7, <2>2, CheckedOne DEF Errors
  <2>4. CASE bpc' = "item" /\ error' = error
    <3>1. BootTyped'
      BY <1>1, <1>3, <2>1, <2>4 DEF BootTyped, Resting, imager, card
    <3>2. PlaceInv'
      BY <1>1, <1>2, <1>3, <1>7, <2>1, <2>4 DEF PlaceInv, ItemLba
    <3>3. KernelLoaded
      BY <1>1, <1>7 DEF IInv, KernelInv
    <3>4. DtbLoaded
      <4>1. Copied("DTB", itemsz(datasz("DTB"))) /\ datasz("DTB") \in Nat
            /\ itemsz(datasz("DTB")) = 2 + datasz("DTB")
        BY <1>1, <1>3, <1>7, Sizes
      <4>2. \A i \in 0..itemsz(datasz("DTB")) - 1 :
              ItemDest("DTB") + i < HEAP_RAM_ADDR => ItemDest("DTB") + i \in RamCells
        BY <4>1, Addresses
      <4> QED
        BY <4>1, <4>2 DEF Copied, DtbLoaded
    <3> QED
      BY <1>2, <2>1, <2>4, <3>1, <3>2, <3>3, <3>4 DEF IInv, ItemInv, KernelInv, DtbInv
  <2> QED
    BY <1>3, <1>5, <2>1, <2>3, <2>4
<1>8. CASE item = "END" /\ bpc' = "reset" /\ UNCHANGED <<error, item, item_lba>>
  <2>1. BootTyped'
    BY <1>1, <1>8 DEF BootTyped, Resting, imager, card
  <2>2. PlaceInv'
    BY <1>1, <1>2, <1>8 DEF PlaceInv
  <2>3. KernelLoaded /\ DtbLoaded
    BY <1>1, <1>8 DEF IInv, KernelInv, DtbInv
  <2> QED
    BY <1>2, <1>8, <2>1, <2>2, <2>3 DEF IInv, ItemInv, KernelInv, DtbInv
<1> QED
  BY <1>6, <1>7, <1>8 DEF validate_item

LEMMA ResetKeeps ==
  ASSUME IInv, UNCHANGED <<imager, card>>, reset_and_jump
  PROVE  IInv'
<1>1. /\ BootTyped /\ ImagerInv /\ bpc = "reset" /\ InImage /\ item = "END" /\ "END" \in Ids
      /\ UNCHANGED <<imager, card, ram, item, part_lba, item_lba>>
  BY DEF IInv, PlaceInv, reset_and_jump, InImage, Ids
<1>2. CASE bpc' = "kernel" /\ UNCHANGED error
  <2>1. BootTyped'
    BY <1>1, <1>2 DEF BootTyped, Resting, imager, card
  <2>2. PlaceInv'
    BY <1>1, <1>2, SameRam DEF IInv, PlaceInv
  <2>3. KernelLoaded /\ DtbLoaded
    BY <1>1 DEF IInv, KernelInv, DtbInv
  <2> QED
    BY <1>1, <1>2, <2>1, <2>2, <2>3, SameImager, SameRam DEF IInv, ItemInv, KernelInv, DtbInv
<1>3. CASE log_and_signal("SD_RESET")
  <2>1. bpc' = "error" /\ error' \in Errors \ {"NONE"}
    BY <1>3, Signalled DEF Errors
  <2> QED
    BY <1>1, <2>1, ErrorKeeps DEF BootTyped
<1> QED
  BY <1>2, <1>3 DEF reset_and_jump

LEMMA WaitKeeps ==
  ASSUME IInv, UNCHANGED <<imager, card>>, WaitTimesOut
  PROVE  IInv'
<1>1. bpc' = "error" /\ error' \in Errors \ {"NONE"} /\ bpc # "off"
  BY DEF WaitTimesOut, signal_error, Errors
<1> QED
  BY <1>1, ErrorKeeps DEF IInv, BootTyped, WaitTimesOut

\* The imager works while the board is off.
LEMMA OffKeeps ==
  ASSUME IInv, bpc = "off", ImagerNext, UNCHANGED <<boot, card>>
  PROVE  IInv'
<1>1. ImagerInv'
  BY ImagerKeeps DEF IInv
<1>2. BootTyped'
  BY DEF IInv, BootTyped, boot, card
<1> QED
  BY <1>1, <1>2 DEF IInv, PlaceInv, ItemInv, KernelInv, DtbInv, InImage, boot

LEMMA Inductive == Spec => []IInv
<1>1. Init => IInv
  <2> SUFFICES ASSUME Init PROVE IInv
    OBVIOUS
  <2>1. ImagerInv
    BY ImagerStarts DEF Init
  <2>2. BootTyped
    BY JunkTyped DEF Init, BootInit, BootTyped, Ids, Errors
  <2> QED
    BY <2>1, <2>2 DEF Init, BootInit, IInv, PlaceInv, ItemInv, KernelInv, DtbInv, InImage
<1>2. IInv /\ [Next]_vars => IInv'
  <2> SUFFICES ASSUME IInv, [Next]_vars PROVE IInv'
    OBVIOUS
  <2>1. CASE bpc = "off" /\ ImagerNext /\ UNCHANGED <<boot, card>>
    BY <2>1, OffKeeps
  <2>2. CASE (PowerOn \/ PowerOff \/ BootStep) /\ UNCHANGED <<imager, card>>
    BY <2>2, PowerKeeps, InitPeripheralsKeeps, LoadMbrKeeps, LoadHeadKeeps, LoadItemKeeps, LoadRestKeeps,
       ValidateKeeps, ResetKeeps, WaitKeeps DEF BootStep
  <2>3. CASE UNCHANGED vars
    <3>1. UNCHANGED <<imager, card, ram>> /\ UNCHANGED boot
      BY <2>3 DEF vars, boot
    <3>2. ImagerInv'
      BY <3>1, SameImager DEF IInv
    <3>3. BootTyped'
      BY <3>1 DEF IInv, BootTyped, Resting, imager, boot, card
    <3>4. PlaceInv'
      BY <3>1 DEF IInv, PlaceInv, InImage, ItemLba, ItemDest, datasz, NBlocks, boot
    <3>5. ItemInv'
      <4>1. item \in Ids /\ item' = item /\ bpc' = bpc /\ ram' = ram
        BY <3>1 DEF IInv, BootTyped, boot
      <4>2. /\ datasz(item)' = datasz(item) /\ ItemLba(item)' = ItemLba(item)
            /\ ItemDest(item)' = ItemDest(item)
        BY <3>1, <4>1, SameRam
      <4>3. MayBeItem(ram[ItemDest(item)], item)' = MayBeItem(ram[ItemDest(item)], item)
        BY <4>1, <4>2 DEF MayBeItem, IsItem
      <4>4. /\ Copied(item, SD_BLKSZ) => Copied(item, SD_BLKSZ)'
            /\ Copied(item, itemsz(datasz(item))) => Copied(item, itemsz(datasz(item)))'
        BY <3>1, <4>1, <4>2, SameCard DEF Copied
      <4> QED
        BY <4>1, <4>3, <4>4 DEF IInv, ItemInv
    <3>6. KernelInv' /\ DtbInv'
      BY <3>1, SameRam DEF IInv, KernelInv, DtbInv, InImage, boot
    <3> QED
      BY <3>2, <3>3, <3>4, <3>5, <3>6 DEF IInv
  <2> QED
    BY <2>1, <2>2, <2>3 DEF Next
<1> QED
  BY <1>1, <1>2, PTL DEF Spec
\* The cells that the imager and the bootloader work on have their types, at every step, for
\* every block size, address map and choice of files; the card is in one machine at a time.
THEOREM TypeCorrect == Spec => []TypeOK
<1>1. IInv => TypeOK
  <2> SUFFICES ASSUME IInv PROVE TypeOK
    OBVIOUS
  <2>1. at \in 0..Len(img)
    <3>1. PICK m \in Nat : at = SD_BLKSZ * m
      BY DEF IInv, ImagerInv, AtInv
    <3>2. at \in Nat /\ Len(img) \in Nat
      BY <3>1, TimesBlock DEF IInv, ImagerInv, ImagerTyped
    <3> QED
      BY <3>2 DEF IInv, ImagerInv, AtInv
  <2> QED
    BY <2>1 DEF IInv, ImagerInv, ImagerTyped, BootTyped, TypeOK
<1> QED
  BY <1>1, Inductive, PTL

\* No load overwrites what an earlier load put in RAM, for every block size and address map and
\* for whatever a torn image holds: the padding of items keeps the header of the device tree
\* blob's item (boot.c:200) off a kernel that passed the check of boot.c:188.
THEOREM LoadsStayApart == Spec => []LoadsDoNotOverlap
<1>1. IInv => LoadsDoNotOverlap
  <2> SUFFICES ASSUME IInv, bpc = "kernel"
               PROVE  /\ KERN_RAM_ADDR + datasz("KERNEL") <= DTB_RAM_ADDR
                      /\ AsOnCard(ItemDest("KERNEL"), part_lba + 1, datasz("KERNEL"))
                      /\ AsOnCard(ItemDest("DTB"), part_lba + 1 + NBlocks("KERNEL"), datasz("DTB"))
    BY DEF LoadsDoNotOverlap
  <2>1. BootTyped /\ KernelLoaded /\ DtbLoaded /\ part_lba = PART_LBA
    BY DEF IInv, PlaceInv, KernelInv, DtbInv, InImage
  <2>2. /\ datasz("KERNEL") \in Nat /\ itemsz(datasz("KERNEL")) = 2 + datasz("KERNEL")
        /\ datasz("DTB") \in Nat /\ itemsz(datasz("DTB")) = 2 + datasz("DTB")
    BY <2>1, Sizes DEF Ids
  <2>3. ItemLba("KERNEL") = part_lba + 1 /\ ItemLba("DTB") = part_lba + 1 + NBlocks("KERNEL")
    BY <2>1 DEF ItemLba
  <2>4. AsOnCard(ItemDest("KERNEL"), part_lba + 1, datasz("KERNEL"))
    <3>1. \A i \in 0..itemsz(datasz("KERNEL")) - 1 : ItemDest("KERNEL") + i \in RamCells
      BY <2>1, <2>2, Addresses DEF KernelLoaded
    <3> QED
      BY <2>1, <2>3, <3>1 DEF KernelLoaded, Copied, AsOnCard
  <2>5. AsOnCard(ItemDest("DTB"), part_lba + 1 + NBlocks("KERNEL"), datasz("DTB"))
    BY <2>1, <2>3 DEF DtbLoaded, AsOnCard
  <2>6. KERN_RAM_ADDR + datasz("KERNEL") <= DTB_RAM_ADDR
    BY <2>1, <2>2, Addresses DEF KernelLoaded
  <2> QED
    BY <2>4, <2>5, <2>6
<1> QED
  BY <1>1, Inductive, PTL

-----------------------------------------------------------------------------
(* A whole image.                                                          *)

\* Where an item is in the image of the last run that succeeded, and the file in it.
Offset(id) ==
  CASE id = "KERNEL" -> SD_BLKSZ
    [] id = "DTB" -> SD_BLKSZ + KernItem(whole)
    [] id = "END" -> SD_BLKSZ + KernItem(whole) + DtbItem(whole)

FileSize(id) ==
  CASE id = "KERNEL" -> files[whole].kern [] id = "DTB" -> files[whole].dtb [] id = "END" -> NoData

ItemSize(id) == itemsz(datasz_after_pad(FileSize(id)))

LEMMA WholeLayout ==
  ASSUME ImagerInv, whole # 0, NEW id \in Ids
  PROVE  /\ FileSize(id) \in Nat /\ Offset(id) \in Nat /\ ItemSize(id) \in Nat
         /\ ItemSize(id) = 2 + datasz_after_pad(FileSize(id)) /\ 2 + FileSize(id) <= ItemSize(id)
         /\ \E k \in Nat : ItemSize(id) = SD_BLKSZ * k
         /\ Offset(id) + ItemSize(id) <= ImageSize(whole) /\ ImageSize(whole) <= PartCells
         /\ ImageSize(whole) \in Nat
         /\ ItemIn(part, Offset(id), id, whole, FileSize(id))
         /\ whole \in 1..RUNS /\ files[whole] \in Files
<1>1. whole \in 1..RUNS /\ ImagerTyped /\ files[whole] \in Files
  <2>1. ImagerTyped /\ run \in 0..RUNS /\ whole \in 0..run /\ \A v \in 1..run : files[v] \in Files
    BY DEF ImagerInv, ImagerTyped
  <2>2. whole \in 1..run /\ whole \in 1..RUNS
    BY <2>1, RunsAssumption
  <2> QED
    BY <2>1, <2>2
<1>2. /\ files[whole].kern \in Nat /\ files[whole].dtb \in Nat
      /\ KernItem(whole) \in Nat /\ DtbItem(whole) \in Nat
      /\ ImageSize(whole) = SD_BLKSZ + KernItem(whole) + DtbItem(whole) + EndItem
      /\ EndItem = SD_BLKSZ /\ SD_BLKSZ \in Nat
  BY <1>1, ItemSizes, EndItemSize, PartSize
<1>3. FileSize(id) \in Nat
  BY <1>2 DEF FileSize, NoData, Ids
<1>4. /\ ItemSize(id) \in Nat /\ ItemSize(id) = 2 + datasz_after_pad(FileSize(id))
      /\ 2 + FileSize(id) <= ItemSize(id)
      /\ \E k \in Nat : ItemSize(id) = SD_BLKSZ * k
  BY <1>3, PadTyped DEF ItemSize
<1>5. ImageSize(whole) <= PartCells /\ ImageIn(part, 0, whole)
  BY DEF ImagerInv, PartInv
<1>6. /\ ItemIn(part, 0 + SD_BLKSZ, "KERNEL", whole, files[whole].kern)
      /\ ItemIn(part, 0 + SD_BLKSZ + KernItem(whole), "DTB", whole, files[whole].dtb)
      /\ ItemIn(part, 0 + SD_BLKSZ + KernItem(whole) + DtbItem(whole), "END", whole, NoData)
  BY <1>5 DEF ImageIn, KernAt, DtbAt, EndAt
<1>7. 0 + SD_BLKSZ = SD_BLKSZ
  BY <1>2
<1>8. ItemIn(part, Offset(id), id, whole, FileSize(id))
  BY <1>6, <1>7 DEF Offset, FileSize, Ids
<1>9. /\ id = "KERNEL" => ItemSize(id) = KernItem(whole)
      /\ id = "DTB" => ItemSize(id) = DtbItem(whole)
      /\ id = "END" => ItemSize(id) = EndItem
  BY DEF ItemSize, FileSize, KernItem, DtbItem, EndItem
<1>10. Offset(id) \in Nat /\ Offset(id) + ItemSize(id) <= ImageSize(whole) /\ ImageSize(whole) \in Nat
  BY <1>2, <1>9 DEF Offset, Ids
<1> QED
  BY <1>1, <1>3, <1>4, <1>5, <1>8, <1>10

\* The lba of an item that is where the image has it.
InItsPlace(id) == ItemLba(id) * SD_BLKSZ = PART_LBA * SD_BLKSZ + Offset(id)

\* Such an item on the card.
LEMMA WholeCell ==
  ASSUME ImagerInv, BootTyped, whole # 0, NEW id \in Ids, InItsPlace(id),
         NEW i \in Nat, i < ItemSize(id)
  PROVE  CardCell(ItemLba(id) * SD_BLKSZ + i) = part[Offset(id) + i]
<1>1. /\ Offset(id) \in Nat /\ ItemSize(id) \in Nat /\ ImageSize(whole) \in Nat
      /\ Offset(id) + ItemSize(id) <= ImageSize(whole) /\ ImageSize(whole) <= PartCells
      /\ PartCells \in Nat
  BY WholeLayout, PartSize
<1>2. PART_LBA * SD_BLKSZ \in Nat
  <2>1. PART_LBA * SD_BLKSZ = SD_BLKSZ * PART_LBA /\ SD_BLKSZ * PART_LBA \in Nat
    BY Addresses, TimesBlock
  <2> QED
    BY <2>1
<1>3. ItemLba(id) * SD_BLKSZ + i = PART_LBA * SD_BLKSZ + (Offset(id) + i)
  BY <1>1, <1>2 DEF InItsPlace
<1>4. Offset(id) + i \in Nat /\ Offset(id) + i < PartCells
  BY <1>1
<1>5. ImagerTyped
  BY DEF ImagerInv
<1> QED
  BY <1>3, <1>4, <1>5, PartOnCard

\* Its header in RAM says what the imager wrote, and so leads to the next item.
LEMMA WholeHeader ==
  ASSUME ImagerInv, BootTyped, whole # 0, NEW id \in Ids, InItsPlace(id), Copied(id, ITEM_SZ)
  PROVE  /\ ram[ItemDest(id)] = Cell("id", id, whole, 0)
         /\ datasz(id) = datasz_after_pad(FileSize(id))
         /\ NBlocks(id) * SD_BLKSZ = ItemSize(id)
<1>1. /\ ItemSize(id) \in Nat /\ ItemSize(id) >= 2 /\ Offset(id) \in Nat /\ FileSize(id) \in Nat
      /\ ItemSize(id) = 2 + datasz_after_pad(FileSize(id))
      /\ ItemIn(part, Offset(id), id, whole, FileSize(id))
  BY WholeLayout
<1>2. /\ 0 \in 0..ITEM_SZ - 1 /\ 1 \in 0..ITEM_SZ - 1
      /\ ItemDest(id) + 0 = ItemDest(id) /\ Offset(id) + 0 = Offset(id)
      /\ ItemDest(id) \in RamCells /\ ItemDest(id) + 1 \in RamCells
  BY <1>1, Addresses, DestInRam
<1>3. /\ ram[ItemDest(id)] = CardCell(ItemLba(id) * SD_BLKSZ + 0)
      /\ ram[ItemDest(id) + 1] = CardCell(ItemLba(id) * SD_BLKSZ + 1)
  BY <1>2 DEF Copied
<1>4. /\ CardCell(ItemLba(id) * SD_BLKSZ + 0) = part[Offset(id)]
      /\ CardCell(ItemLba(id) * SD_BLKSZ + 1) = part[Offset(id) + 1]
  BY <1>1, <1>2, WholeCell
<1>5. /\ ram[ItemDest(id)] = Cell("id", id, whole, 0)
      /\ ram[ItemDest(id) + 1] = Cell("size", id, whole, datasz_after_pad(FileSize(id)))
  BY <1>1, <1>3, <1>4 DEF ItemIn
<1>6. datasz(id) = datasz_after_pad(FileSize(id))
  BY <1>5 DEF datasz, Cell
<1>7. itemsz(datasz(id)) = ItemSize(id)
  BY <1>6 DEF ItemSize
<1>8. PICK k \in Nat : ItemSize(id) = SD_BLKSZ * k
  BY WholeLayout
<1>9. NBlocks(id) = k
  BY <1>1, <1>7, <1>8, BytesToBlocks DEF NBlocks
<1>10. k * SD_BLKSZ = SD_BLKSZ * k
  BY Addresses
<1> QED
  BY <1>5, <1>6, <1>8, <1>9, <1>10

\* The whole file is in RAM with it.
LEMMA WholeFile ==
  ASSUME ImagerInv, BootTyped, whole # 0, NEW id \in Ids, InItsPlace(id),
         NEW n \in Nat, Copied(id, n), NEW i \in 0..FileSize(id) - 1, 2 + i < n,
         ItemDest(id) + (2 + i) \in RamCells
  PROVE  ram[ItemDest(id) + (2 + i)] = Cell("data", id, whole, i)
<1>1. /\ FileSize(id) \in Nat /\ ItemSize(id) \in Nat /\ 2 + FileSize(id) <= ItemSize(id)
      /\ Offset(id) \in Nat
      /\ ItemIn(part, Offset(id), id, whole, FileSize(id))
  BY WholeLayout
<1>2. 2 + i \in Nat /\ 2 + i < ItemSize(id) /\ 2 + i \in 0..n - 1
  BY <1>1
<1>3. ram[ItemDest(id) + (2 + i)] = CardCell(ItemLba(id) * SD_BLKSZ + (2 + i))
  BY <1>2 DEF Copied
<1>4. CardCell(ItemLba(id) * SD_BLKSZ + (2 + i)) = part[Offset(id) + (2 + i)]
  BY <1>2, WholeCell
<1>5. part[Offset(id) + ITEM_SZ + i] = Cell("data", id, whole, i)
  BY <1>1 DEF ItemIn
<1>6. Offset(id) + ITEM_SZ + i = Offset(id) + (2 + i)
  BY <1>1 DEF ITEM_SZ
<1> QED
  BY <1>3, <1>4, <1>5, <1>6

LEMMA FirstInPlace == InItsPlace("KERNEL")
<1>1. (PART_LBA + 1) * SD_BLKSZ = PART_LBA * SD_BLKSZ + SD_BLKSZ
  BY Addresses
<1> QED
  BY <1>1 DEF InItsPlace, ItemLba, Offset

LEMMA KernelHeader ==
  ASSUME BootTyped, KernelLoaded
  PROVE  Copied("KERNEL", ITEM_SZ)
<1>1. datasz("KERNEL") \in Nat /\ itemsz(datasz("KERNEL")) = 2 + datasz("KERNEL") /\ ITEM_SZ = 2
  BY Sizes, Addresses DEF Ids
<1>2. 0..ITEM_SZ - 1 \subseteq 0..itemsz(datasz("KERNEL")) - 1
  BY <1>1
<1> QED
  BY <1>2 DEF KernelLoaded, Copied

LEMMA DtbHeader ==
  ASSUME BootTyped, DtbLoaded
  PROVE  Copied("DTB", ITEM_SZ)
<1>1. datasz("DTB") \in Nat /\ itemsz(datasz("DTB")) = 2 + datasz("DTB") /\ ITEM_SZ = 2
  BY Sizes, Addresses DEF Ids
<1>2. \A i \in 0..ITEM_SZ - 1 : /\ i \in 0..itemsz(datasz("DTB")) - 1
                                /\ ItemDest("DTB") + i < HEAP_RAM_ADDR
  BY <1>1, Addresses
<1> QED
  BY <1>2 DEF DtbLoaded, Copied

\* The bootloader finds every item of a whole image where it is.
LEMMA AllInPlace ==
  ASSUME IInv, whole # 0, InImage
  PROVE  /\ InItsPlace("KERNEL")
         /\ item # "KERNEL" => InItsPlace("DTB")
         /\ item = "END" => InItsPlace("END")
<1>1. ImagerInv /\ BootTyped /\ "KERNEL" \in Ids /\ "DTB" \in Ids
  BY DEF IInv, Ids
<1>2. /\ NBlocks("KERNEL") \in Nat /\ NBlocks("DTB") \in Nat /\ PART_LBA \in Nat /\ SD_BLKSZ \in Nat
      /\ KernItem(whole) = ItemSize("KERNEL") /\ DtbItem(whole) = ItemSize("DTB")
      /\ ItemSize("KERNEL") \in Nat /\ ItemSize("DTB") \in Nat
  BY <1>1, Sizes, Addresses, WholeLayout DEF KernItem, DtbItem, ItemSize, FileSize
<1>3. PART_LBA * SD_BLKSZ \in Int
  BY <1>2
<1>4. ASSUME item # "KERNEL" PROVE InItsPlace("DTB") /\ NBlocks("KERNEL") * SD_BLKSZ = ItemSize("KERNEL")
  <2>1. Copied("KERNEL", ITEM_SZ)
    BY <1>1, <1>4, KernelHeader DEF IInv, KernelInv
  <2>2. NBlocks("KERNEL") * SD_BLKSZ = ItemSize("KERNEL")
    BY <1>1, <2>1, FirstInPlace, WholeHeader
  <2>3. (PART_LBA + 1 + NBlocks("KERNEL")) * SD_BLKSZ
        = PART_LBA * SD_BLKSZ + SD_BLKSZ + NBlocks("KERNEL") * SD_BLKSZ
    BY <1>2
  <2> QED
    BY <1>2, <1>3, <2>2, <2>3 DEF InItsPlace, ItemLba, Offset
<1>5. ASSUME item = "END" PROVE InItsPlace("END")
  <2>1. Copied("DTB", ITEM_SZ)
    BY <1>1, <1>5, DtbHeader DEF IInv, DtbInv
  <2>2. NBlocks("DTB") * SD_BLKSZ = ItemSize("DTB")
    BY <1>1, <1>4, <1>5, <2>1, WholeHeader
  <2>3. NBlocks("KERNEL") * SD_BLKSZ = ItemSize("KERNEL")
    BY <1>4, <1>5
  <2>4. (PART_LBA + 1 + NBlocks("KERNEL") + NBlocks("DTB")) * SD_BLKSZ
        = PART_LBA * SD_BLKSZ + SD_BLKSZ + NBlocks("KERNEL") * SD_BLKSZ + NBlocks("DTB") * SD_BLKSZ
    BY <1>2
  <2> QED
    BY <1>2, <1>3, <2>2, <2>3, <2>4 DEF InItsPlace, ItemLba, Offset
<1> QED
  BY <1>4, <1>5, FirstInPlace
\* What boots is what was imaged, for every block size, address map and choice of files, for any
\* number of runs of the imager and of boots: at the jump (boot.c:213) the files of the last whole
\* image are in RAM, the device tree blob as far as the heap.
THEOREM WhatWasImagedBoots == Spec => []BootsWhatWasImaged
<1>1. IInv => BootsWhatWasImaged
  <2> SUFFICES ASSUME IInv, bpc = "kernel", whole # 0
               PROVE  KernelIn(whole) /\ DtbIn(whole)
    BY DEF BootsWhatWasImaged
  <2>1. /\ ImagerInv /\ BootTyped /\ KernelLoaded /\ DtbLoaded /\ InImage /\ item = "END"
        /\ "KERNEL" \in Ids /\ "DTB" \in Ids
    BY DEF IInv, PlaceInv, KernelInv, DtbInv, InImage, Ids
  <2>2. InItsPlace("KERNEL") /\ InItsPlace("DTB")
    BY <2>1, AllInPlace
  <2>3. Copied("KERNEL", ITEM_SZ) /\ Copied("DTB", ITEM_SZ)
    BY <2>1, KernelHeader, DtbHeader
  <2>4. /\ datasz("KERNEL") = datasz_after_pad(FileSize("KERNEL"))
        /\ datasz("DTB") = datasz_after_pad(FileSize("DTB"))
    BY <2>1, <2>2, <2>3, WholeHeader
  <2>5. FileSize("KERNEL") = files[whole].kern /\ FileSize("DTB") = files[whole].dtb
    BY DEF FileSize
  <2>6. /\ files[whole].kern \in Nat /\ files[whole].kern <= datasz("KERNEL") /\ datasz("KERNEL") \in Nat
        /\ files[whole].dtb \in Nat /\ files[whole].dtb <= datasz("DTB") /\ datasz("DTB") \in Nat
        /\ itemsz(datasz("KERNEL")) = 2 + datasz("KERNEL") /\ itemsz(datasz("DTB")) = 2 + datasz("DTB")
    BY <2>1, <2>4, <2>5, WholeLayout, PadTyped, Sizes
  <2>7. KernelIn(whole)
    <3> SUFFICES ASSUME NEW i \in 0..files[whole].kern - 1
                 PROVE  ram[KERN_RAM_ADDR + i] = Cell("data", "KERNEL", whole, i)
      BY DEF KernelIn
    <3> DEFINE n == itemsz(datasz("KERNEL"))
    <3>1. /\ i \in Nat /\ i < datasz("KERNEL") /\ n = 2 + datasz("KERNEL")
          /\ KERN_RAM_ADDR + datasz("KERNEL") <= ItemDest("DTB") /\ Copied("KERNEL", n)
          /\ i \in 0..FileSize("KERNEL") - 1
      BY <2>1, <2>5, <2>6 DEF KernelLoaded
    <3> HIDE DEF n
    <3>2. /\ n \in Nat /\ 2 + i < n
          /\ ItemDest("KERNEL") + (2 + i) = KERN_RAM_ADDR + i
          /\ ItemDest("KERNEL") + (2 + i) \in RamCells
      BY <2>6, <3>1, Addresses
    <3>3. ram[ItemDest("KERNEL") + (2 + i)] = Cell("data", "KERNEL", whole, i)
      BY <2>1, <2>2, <3>1, <3>2, WholeFile
    <3> QED
      BY <3>2, <3>3
  <2>8. DtbIn(whole)
    <3> SUFFICES ASSUME NEW i \in 0..files[whole].dtb - 1, DTB_RAM_ADDR + i < HEAP_RAM_ADDR
                 PROVE  ram[DTB_RAM_ADDR + i] = Cell("data", "DTB", whole, i)
      BY DEF DtbIn
    <3> DEFINE n == 3 + i
    <3>1. /\ i \in Nat /\ i < datasz("DTB") /\ i \in 0..FileSize("DTB") - 1
          /\ itemsz(datasz("DTB")) = 2 + datasz("DTB") /\ datasz("DTB") \in Nat
      <4> DEFINE f == files[whole].dtb
      <4>1. f \in Nat /\ f <= datasz("DTB") /\ datasz("DTB") \in Nat /\ i \in 0..f - 1
        BY <2>6
      <4>2. FileSize("DTB") = f /\ itemsz(datasz("DTB")) = 2 + datasz("DTB")
        BY <2>5, <2>6
      <4> HIDE DEF f, n
      <4> QED
        BY <4>1, <4>2
    <3>2. Copied("DTB", n)
      <4>1. ASSUME NEW j \in 0..n - 1
            PROVE  j \in 0..itemsz(datasz("DTB")) - 1 /\ ItemDest("DTB") + j < HEAP_RAM_ADDR
        BY <3>1, Addresses
      <4> QED
        BY <2>1, <4>1 DEF DtbLoaded, Copied
    <3>3. /\ n \in Nat /\ 2 + i < n
          /\ ItemDest("DTB") + (2 + i) = DTB_RAM_ADDR + i
          /\ ItemDest("DTB") + (2 + i) \in RamCells
      BY <3>1, Addresses
    <3> HIDE DEF n
    <3>4. ram[ItemDest("DTB") + (2 + i)] = Cell("data", "DTB", whole, i)
      BY <2>1, <2>2, <3>1, <3>2, <3>3, WholeFile
    <3> QED
      BY <3>3, <3>4
  <2> QED
    BY <2>7, <2>8
<1> QED
  BY <1>1, Inductive, PTL
\* The item being loaded from a whole image is where the image has it.
LEMMA CurrentInPlace ==
  ASSUME IInv, whole # 0, InImage
  PROVE  /\ ImagerInv /\ BootTyped /\ item \in Ids
         /\ InItsPlace(item) /\ item_lba = ItemLba(item)
BY AllInPlace DEF IInv, BootTyped, PlaceInv, Ids

\* The head of a whole image.
LEMMA WholeHead ==
  ASSUME ImagerInv, whole # 0
  PROVE  /\ part[0] = Cell("magic", "image", whole, 0)
         /\ part[1] = Cell("size", "image", whole, ImageSize(whole))
         /\ part[1].n = ImageSize(whole)
<1>1. ImageIn(part, 0, whole)
  BY DEF ImagerInv, PartInv
<1>2. part[0] = Cell("magic", "image", whole, 0) /\ part[1] = Cell("size", "image", whole, ImageSize(whole))
  <2>1. 0 + 1 = 1
    OBVIOUS
  <2> QED
    BY <1>1, <2>1 DEF ImageIn, HeadIn
<1> QED
  BY <1>2 DEF Cell

\* The bootloader reads nothing of a whole image beyond the size that its head gives, for every
\* block size and choice of files, although load_item() never looks at it (boot.c:169).
THEOREM NothingBeyondTheImage == Spec => []ReadsWithinImage
<1>1. IInv => ReadsWithinImage
  <2> SUFFICES ASSUME IInv, whole # 0
               PROVE  /\ PART_LBA * SD_BLKSZ + part[1].n <= (PART_LBA + PART_NBLKS) * SD_BLKSZ
                      /\ bpc = "item" => (item_lba + 1) * SD_BLKSZ <= PART_LBA * SD_BLKSZ + part[1].n
                      /\ bpc = "rest" => (item_lba + NBlocks(item)) * SD_BLKSZ
                                         <= PART_LBA * SD_BLKSZ + part[1].n
    BY DEF ReadsWithinImage
  <2>1. /\ ImagerInv /\ part[1].n = ImageSize(whole) /\ SD_BLKSZ \in Nat /\ SD_BLKSZ > 2 /\ PART_LBA \in Nat
        /\ PART_NBLKS \in Nat
    BY WholeHead, Addresses, PartitionAssumption DEF IInv
  <2>2. ImageSize(whole) \in Nat /\ ImageSize(whole) <= PartCells
    BY <2>1, WholeLayout DEF Ids
  <2>3. PART_LBA * SD_BLKSZ \in Int
    BY <2>1
  <2>4. PART_LBA * SD_BLKSZ + ImageSize(whole) <= (PART_LBA + PART_NBLKS) * SD_BLKSZ
    <3>1. (PART_LBA + PART_NBLKS) * SD_BLKSZ = PART_LBA * SD_BLKSZ + PART_NBLKS * SD_BLKSZ
      BY <2>1
    <3> QED
      BY <2>2, <2>3, <3>1, PartSize DEF PartCells
  <2>5. ASSUME bpc \in {"item", "rest"}
        PROVE  /\ item_lba * SD_BLKSZ = PART_LBA * SD_BLKSZ + Offset(item)
               /\ BootTyped /\ item \in Ids /\ item_lba \in Nat /\ InItsPlace(item)
               /\ Offset(item) \in Nat /\ ItemSize(item) \in Nat
               /\ Offset(item) + ItemSize(item) <= ImageSize(whole)
    <3>1. InImage
      BY <2>5 DEF InImage
    <3>2. BootTyped /\ item \in Ids /\ InItsPlace(item) /\ item_lba = ItemLba(item)
      BY <3>1, CurrentInPlace
    <3> QED
      BY <2>1, <3>2, WholeLayout DEF InItsPlace, BootTyped
  <2>6. ASSUME bpc = "item"
        PROVE  (item_lba + 1) * SD_BLKSZ <= PART_LBA * SD_BLKSZ + ImageSize(whole)
    <3>1. SD_BLKSZ <= ItemSize(item)
      <4>1. PICK k \in Nat : ItemSize(item) = SD_BLKSZ * k
        BY <2>1, <2>5, <2>6, WholeLayout
      <4>2. ItemSize(item) >= 2
        BY <2>1, <2>5, <2>6, WholeLayout
      <4>3. SD_BLKSZ * 0 = 0 /\ SD_BLKSZ * 1 = SD_BLKSZ
        BY <2>1
      <4>4. k # 0
        BY <4>1, <4>2, <4>3
      <4>5. SD_BLKSZ * 1 <= SD_BLKSZ * k
        BY <4>4, TimesBlock
      <4> QED
        BY <4>1, <4>3, <4>5
    <3>2. (item_lba + 1) * SD_BLKSZ = item_lba * SD_BLKSZ + SD_BLKSZ
      BY <2>1, <2>5, <2>6
    <3> QED
      BY <2>1, <2>2, <2>3, <2>5, <2>6, <3>1, <3>2
  <2>7. ASSUME bpc = "rest"
        PROVE  (item_lba + NBlocks(item)) * SD_BLKSZ <= PART_LBA * SD_BLKSZ + ImageSize(whole)
    <3>1. Copied(item, ITEM_SZ)
      <4>1. Copied(item, SD_BLKSZ) /\ 0..ITEM_SZ - 1 \subseteq 0..SD_BLKSZ - 1
        BY <2>7, Addresses DEF IInv, ItemInv
      <4> QED
        BY <4>1 DEF Copied
    <3>2. NBlocks(item) * SD_BLKSZ = ItemSize(item) /\ NBlocks(item) \in Nat
      BY <2>1, <2>5, <2>7, <3>1, WholeHeader, Sizes
    <3>3. (item_lba + NBlocks(item)) * SD_BLKSZ = item_lba * SD_BLKSZ + NBlocks(item) * SD_BLKSZ
      BY <2>1, <2>5, <2>7, <3>2
    <3> QED
      BY <2>2, <2>3, <2>5, <2>7, <3>2, <3>3
  <2> QED
    BY <2>1, <2>4, <2>6, <2>7
<1> QED
  BY <1>1, Inductive, PTL

-----------------------------------------------------------------------------
(* Why a whole image is refused.                                           *)

Refusals == {"NO_IMAGE_MAGIC", "IMAGE_OVERFLOW", "IMAGE_CONTENTS", "KERN_OVERFLOW"}

\* A kernel that the check of boot.c:188 refuses would have come to the header of the device tree
\* blob's item, if its item had not been padded.
LEMMA TooLarge ==
  ASSUME NEW sz \in Nat, DTB_RAM_ADDR + datasz_after_pad(sz) < WORD, ~kern_fits(datasz_after_pad(sz))
  PROVE  KERN_RAM_ADDR + sz > DTB_RAM_ADDR - ITEM_SZ
<1> DEFINE p == datasz_after_pad(sz)
<1>1. PICK k \in Nat : itemsz(p) = SD_BLKSZ * k
  BY ItemsFillBlocks
<1>2. p \in Nat /\ p < sz + SD_BLKSZ /\ SD_BLKSZ * k = 2 + p
  BY <1>1, ItemsFillBlocks, PadTyped
<1>3. PICK i \in Int : KERN_RAM_ADDR = SD_BLKSZ * i
  BY AddressAssumption
<1>4. PICK j \in Int : DTB_RAM_ADDR = SD_BLKSZ * j
  BY AddressAssumption
<1>5. KERN_RAM_ADDR + p > DTB_RAM_ADDR
  <2>1. DTB_RAM_ADDR + p < WORD
    OBVIOUS
  <2>2. ~((KERN_RAM_ADDR + p) % WORD <= DTB_RAM_ADDR)
    BY DEF kern_fits
  <2> HIDE DEF p
  <2>3. KERN_RAM_ADDR + p \in 0..WORD - 1 /\ WORD \in Nat
    BY <1>2, <2>1, Addresses
  <2>4. (KERN_RAM_ADDR + p) % WORD = KERN_RAM_ADDR + p
    BY <2>3
  <2> QED
    BY <1>2, <2>2, <2>4, Addresses
<1> HIDE DEF p
<1>6. SD_BLKSZ * (i + k) = SD_BLKSZ * i + SD_BLKSZ * k
  BY TimesBlock
<1>7. j < i + k
  <2>1. i + k <= j => SD_BLKSZ * (i + k) <= SD_BLKSZ * j
    BY TimesBlock
  <2> QED
    BY <1>2, <1>3, <1>4, <1>5, <1>6, <2>1, Addresses
<1>8. SD_BLKSZ * j + SD_BLKSZ <= SD_BLKSZ * (i + k)
  BY <1>7, TimesBlock
<1> QED
  BY <1>2, <1>3, <1>4, <1>6, <1>8, Addresses

LEMMA HeadNotRefused ==
  ASSUME PartCells < WORD, IInv, whole # 0, load_image_head
  PROVE  error' \notin Refusals /\ bpc' # "lost"
<1>1. ImagerInv /\ BootTyped /\ ImagerTyped /\ bpc = "head" /\ error = "NONE" /\ HEAP_RAM_ADDR \in Nat
      /\ PART_LBA \in Nat
  BY Addresses DEF IInv, ImagerInv, BootTyped, load_image_head
<1>2. mbr_get_partition_lba(ram) = PART_LBA /\ mbr_get_partition_nblks(ram) = PART_NBLKS
  BY <1>1 DEF IInv, PlaceInv, mbr_get_partition_lba, mbr_get_partition_nblks
<1>3. CASE ReadFails(HEAP_RAM_ADDR, PART_LBA, 1)
  BY <1>3, Signalled DEF ReadFails, Refusals
<1>4. CASE /\ ram' = Loaded(HEAP_RAM_ADDR, PART_LBA, 1)
           /\ Checked(<<Check(ram'[HEAP_RAM_ADDR].kind = "magic" /\ ram'[HEAP_RAM_ADDR].of = "image",
                              "NO_IMAGE_MAGIC"),
                        Check(image_fits(ram'[HEAP_RAM_ADDR + 1].n, PART_NBLKS), "IMAGE_OVERFLOW")>>, "item")
  <2>1. \A i \in 0..SD_BLKSZ * 1 - 1 :
          HEAP_RAM_ADDR + i \in RamCells => ram'[HEAP_RAM_ADDR + i] = CardCell(PART_LBA * SD_BLKSZ + i)
    BY <1>1, <1>4, LoadedCells
  <2>2. /\ 0 \in 0..SD_BLKSZ * 1 - 1 /\ 1 \in 0..SD_BLKSZ * 1 - 1 /\ HEAP_RAM_ADDR + 0 = HEAP_RAM_ADDR
        /\ HEAP_RAM_ADDR \in RamCells /\ HEAP_RAM_ADDR + 1 \in RamCells
    BY Addresses
  <2>3. /\ ram'[HEAP_RAM_ADDR] = CardCell(PART_LBA * SD_BLKSZ + 0)
        /\ ram'[HEAP_RAM_ADDR + 1] = CardCell(PART_LBA * SD_BLKSZ + 1)
    BY <2>1, <2>2
  <2>4. ram'[HEAP_RAM_ADDR] = part[0] /\ ram'[HEAP_RAM_ADDR + 1] = part[1]
    BY <1>1, <2>3, PartOnCard, PartSize
  <2>5. ram'[HEAP_RAM_ADDR].kind = "magic" /\ ram'[HEAP_RAM_ADDR].of = "image"
    BY <1>1, <2>4, WholeHead DEF Cell
  <2>6. image_fits(ram'[HEAP_RAM_ADDR + 1].n, PART_NBLKS)
    <3>1. ram'[HEAP_RAM_ADDR + 1].n = ImageSize(whole)
      BY <1>1, <2>4, WholeHead
    <3>2. ImageSize(whole) <= PartCells
      BY <1>1, WholeLayout DEF Ids
    <3>3. PartCells \in 0..WORD - 1 /\ WORD \in Nat
      BY PartSize, Addresses
    <3>4. PartCells % WORD = PartCells
      BY <3>3
    <3> QED
      BY <3>1, <3>2, <3>4 DEF image_fits, PartCells
  <2>7. \/ error' = error \/ error' = "INFINITE_LOOP"
    BY <1>4, <2>5, <2>6, CheckedTwo
  <2>8. bpc' \in {"item", "error"}
    BY <1>4, CheckedLeads
  <2> QED
    BY <1>1, <2>7, <2>8 DEF Refusals
<1> QED
  BY <1>2, <1>3, <1>4 DEF load_image_head

LEMMA ItemNotRefused ==
  ASSUME IInv, whole # 0, load_item
  PROVE  error' \notin Refusals /\ bpc' # "lost"
<1>1. bpc = "item" /\ InImage
  BY DEF load_item, InImage
<1>2. ImagerInv /\ BootTyped /\ ImagerTyped /\ item \in Ids /\ InItsPlace(item) /\ item_lba = ItemLba(item)
  BY <1>1, CurrentInPlace DEF ImagerInv
<1>3. /\ error = "NONE" /\ item_lba \in Nat /\ ItemDest(item) \in Nat /\ ItemDest(item) \in RamCells
  BY <1>1, <1>2, DestInRam DEF BootTyped
<1>4. CASE ReadFails(ItemDest(item), item_lba, 1)
  BY <1>4, Signalled DEF ReadFails, Refusals
<1>5. CASE /\ ram' = Loaded(ItemDest(item), item_lba, 1)
           /\ \/ bpc' = "rest" /\ UNCHANGED error
              \/ ~IsItem(ram'[ItemDest(item)], item)
  <2>1. \A i \in 0..SD_BLKSZ * 1 - 1 :
          ItemDest(item) + i \in RamCells => ram'[ItemDest(item) + i] = CardCell(item_lba * SD_BLKSZ + i)
    BY <1>2, <1>3, <1>5, LoadedCells
  <2>2. 0 \in 0..SD_BLKSZ * 1 - 1 /\ ItemDest(item) + 0 = ItemDest(item)
    BY <1>3, Addresses
  <2>3. ram'[ItemDest(item)] = CardCell(ItemLba(item) * SD_BLKSZ + 0)
    BY <1>2, <1>3, <2>1, <2>2
  <2>4. ItemSize(item) \in Nat /\ ItemSize(item) >= 2 /\ Offset(item) \in Nat
        /\ ItemIn(part, Offset(item), item, whole, FileSize(item))
    BY <1>2, WholeLayout
  <2>5. CardCell(ItemLba(item) * SD_BLKSZ + 0) = part[Offset(item) + 0]
    BY <1>2, <2>4, WholeCell
  <2>6. Offset(item) + 0 = Offset(item)
    BY <2>4
  <2>7. ram'[ItemDest(item)] = Cell("id", item, whole, 0)
    BY <2>3, <2>4, <2>5, <2>6 DEF ItemIn
  <2>8. IsItem(ram'[ItemDest(item)], item)
    BY <2>7 DEF IsItem, Cell
  <2> QED
    BY <1>3, <1>5, <2>8 DEF Refusals
<1> QED
  BY <1>4, <1>5 DEF load_item

\* An item is refused for what the imager was given.
LEMMA ValidateRefuses ==
  ASSUME IInv, whole # 0, validate_item
  PROVE  /\ bpc' # "lost" /\ error' \notin {"NO_IMAGE_MAGIC", "IMAGE_OVERFLOW"}
         /\ error' = "IMAGE_CONTENTS" => ~files[whole].zimage \/ ~files[whole].fdt
         /\ error' = "KERN_OVERFLOW" => KERN_RAM_ADDR + files[whole].kern > DTB_RAM_ADDR - ITEM_SZ
<1>1. bpc = "validate" /\ InImage
  BY DEF validate_item, InImage
<1>2. ImagerInv /\ BootTyped /\ item \in Ids /\ InItsPlace(item) /\ item_lba = ItemLba(item)
      /\ error = "NONE"
  BY <1>1, CurrentInPlace DEF BootTyped
<1>3. Copied(item, SD_BLKSZ) /\ Copied(item, ITEM_SZ)
  <2>1. Copied(item, SD_BLKSZ) /\ 0..ITEM_SZ - 1 \subseteq 0..SD_BLKSZ - 1
    BY <1>1, Addresses DEF IInv, ItemInv
  <2> QED
    BY <2>1 DEF Copied
<1>4. datasz(item) = datasz_after_pad(FileSize(item))
  BY <1>2, <1>3, WholeHeader
<1>5. files[whole] \in Files
  BY <1>2, WholeLayout
<1>6. /\ files[whole].kern \in Nat /\ files[whole].dtb \in Nat /\ files[whole].dtb > 0
      /\ files[whole].zimage \in BOOLEAN /\ files[whole].fdt \in BOOLEAN
      /\ DTB_RAM_ADDR + datasz_after_pad(files[whole].kern) < WORD
      /\ files[whole].zimage => ZIMAGE_MAGIC_OFF < files[whole].kern
  BY <1>5, FilesAssumption, FitAssumption, ZImageAssumption
<1>7. CASE /\ item = "KERNEL"
           /\ Checked(<<Check(kern_fits(datasz("KERNEL")), "KERN_OVERFLOW"),
                        Check(IsZImage(ram[KERN_RAM_ADDR + ZIMAGE_MAGIC_OFF]), "IMAGE_CONTENTS")>>, "item")
  <2>1. datasz("KERNEL") = datasz_after_pad(files[whole].kern)
    BY <1>4, <1>7 DEF FileSize
  <2>2. files[whole].zimage => IsZImage(ram[KERN_RAM_ADDR + ZIMAGE_MAGIC_OFF])
    <3> SUFFICES ASSUME files[whole].zimage PROVE IsZImage(ram[KERN_RAM_ADDR + ZIMAGE_MAGIC_OFF])
      OBVIOUS
    <3> DEFINE i == ZIMAGE_MAGIC_OFF
    <3>1. FileSize("KERNEL") = files[whole].kern
      BY DEF FileSize
    <3>2. /\ i \in Nat /\ i \in 0..FileSize("KERNEL") - 1 /\ 2 + i < SD_BLKSZ /\ SD_BLKSZ \in Nat
          /\ ItemDest("KERNEL") + (2 + i) \in RamCells
          /\ ItemDest("KERNEL") + (2 + i) = KERN_RAM_ADDR + i
      BY <1>6, <3>1, MagicAssumption, Addresses
    <3>3. ram[ItemDest("KERNEL") + (2 + i)] = Cell("data", "KERNEL", whole, i)
      <4> HIDE DEF i
      <4> QED
        BY <1>2, <1>3, <1>7, <3>2, WholeFile DEF Ids
    <3> QED
      BY <3>2, <3>3 DEF IsZImage, Cell
  <2>3. kern_fits(datasz("KERNEL")) \in BOOLEAN /\ IsZImage(ram[KERN_RAM_ADDR + ZIMAGE_MAGIC_OFF]) \in BOOLEAN
    <3>1. kern_fits(datasz("KERNEL")) \in BOOLEAN
      BY DEF kern_fits
    <3>2. IsZImage(ram[KERN_RAM_ADDR + ZIMAGE_MAGIC_OFF]) \in BOOLEAN
      BY Zenon DEF IsZImage
    <3> QED
      BY <3>1, <3>2
  <2>4. \/ bpc' = "item" /\ error' = error
        \/ bpc' = "error" /\ (\/ error' = "INFINITE_LOOP"
                              \/ ~kern_fits(datasz("KERNEL")) /\ error' = "KERN_OVERFLOW"
                              \/ ~IsZImage(ram[KERN_RAM_ADDR + ZIMAGE_MAGIC_OFF]) /\ error' = "IMAGE_CONTENTS")
    BY <1>7, <2>3, CheckedTwo
  <2>5. ~kern_fits(datasz("KERNEL")) => KERN_RAM_ADDR + files[whole].kern > DTB_RAM_ADDR - ITEM_SZ
    BY <1>6, <2>1, TooLarge
  <2> QED
    BY <1>2, <2>2, <2>4, <2>5
<1>8. CASE /\ item = "DTB"
           /\ Checked(<<Check(IsFdt(ram[DTB_RAM_ADDR]), "IMAGE_CONTENTS")>>, "item")
  <2>1. files[whole].fdt => IsFdt(ram[DTB_RAM_ADDR])
    <3> SUFFICES ASSUME files[whole].fdt PROVE IsFdt(ram[DTB_RAM_ADDR])
      OBVIOUS
    <3>1. FileSize("DTB") = files[whole].dtb
      BY DEF FileSize
    <3>2. /\ 0 \in 0..FileSize("DTB") - 1 /\ 2 + 0 < SD_BLKSZ /\ SD_BLKSZ \in Nat
          /\ ItemDest("DTB") + (2 + 0) \in RamCells /\ ItemDest("DTB") + (2 + 0) = DTB_RAM_ADDR
      BY <1>6, <3>1, Addresses
    <3>3. ram[ItemDest("DTB") + (2 + 0)] = Cell("data", "DTB", whole, 0)
      BY <1>2, <1>3, <1>8, <3>2, WholeFile DEF Ids
    <3> QED
      BY <3>2, <3>3 DEF IsFdt, Cell
  <2>2. IsFdt(ram[DTB_RAM_ADDR]) \in BOOLEAN
    BY Zenon DEF IsFdt
  <2>3. \/ bpc' = "item" /\ error' = error
        \/ bpc' = "error" /\ (\/ error' = "INFINITE_LOOP"
                              \/ ~IsFdt(ram[DTB_RAM_ADDR]) /\ error' = "IMAGE_CONTENTS")
    BY <1>8, <2>2, CheckedOne
  <2> QED
    BY <1>2, <2>1, <2>3
<1>9. CASE bpc' = "reset" /\ UNCHANGED error
  BY <1>2, <1>9
<1> QED
  BY <1>7, <1>8, <1>9 DEF validate_item

\* A whole image is refused only for what is wrong with its files or with the board (error.h:8),
\* for every block size, address map and choice of files, provided that the size of the partition
\* fits into 32 bits: without that, boot.c:118 refuses images that fit.
THEOREM RefusalsHaveAReason ==
  ASSUME PartCells < WORD
  PROVE  Spec => []RefusedForAReason
<1>1. Init => RefusedForAReason
  BY DEF Init, ImagerInit, RefusedForAReason
<1>2. IInv /\ RefusedForAReason /\ [Next]_vars => RefusedForAReason'
  <2> SUFFICES ASSUME IInv, RefusedForAReason, [Next]_vars PROVE RefusedForAReason'
    OBVIOUS
  <2>1. ASSUME error' \notin Refusals, bpc' # "lost" PROVE RefusedForAReason'
    BY <2>1 DEF RefusedForAReason, Refusals
  <2>2. CASE bpc = "off" /\ UNCHANGED <<boot, card>>
    <3>1. error' = "NONE" /\ bpc' = "off"
      BY <2>2 DEF IInv, BootTyped, boot
    <3> QED
      BY <2>1, <3>1 DEF Refusals
  <2>3. CASE (PowerOn \/ PowerOff \/ BootStep) /\ UNCHANGED <<imager, card>>
    <3>1. CASE whole = 0
      BY <2>3, <3>1 DEF RefusedForAReason, imager
    <3>2. CASE whole # 0
      <4>1. CASE PowerOn \/ PowerOff
        BY <2>1, <4>1 DEF PowerOn, PowerOff, Refusals
      <4>2. CASE init_peripherals \/ reset_and_jump
        <5>1. error = "NONE" /\ error' \in {error, "VCMAILBOX", "VC_NOT_INIT_MMC", "SD_INIT", "SD_RESET",
                                          "INFINITE_LOOP"}
          BY <4>2, Signalled DEF init_peripherals, reset_and_jump, IInv, BootTyped
        <5>2. bpc' # "lost"
          BY <4>2, Signalled DEF init_peripherals, reset_and_jump
        <5> QED
          BY <2>1, <5>1, <5>2 DEF Refusals
      <4>3. CASE load_mbr
        <5>1. bpc' \in {"head", "error"}
          BY <4>3, CheckedLeads, Signalled DEF load_mbr, ReadFails
        <5>2. CASE ReadFails(HEAP_RAM_ADDR, 0, 1)
          BY <2>1, <5>1, <5>2, Signalled DEF ReadFails, Refusals
        <5>3. CASE Checked(<<Check(mbr_magic(ram'), "NO_MBR_MAGIC"),
                             Check(mbr_partition_valid(image_partition), "INVALID_PARTITION")>>, "head")
          <6>1. mbr_magic(ram') \in BOOLEAN /\ mbr_partition_valid(image_partition) \in BOOLEAN
            BY DEF mbr_magic, mbr_partition_valid
          <6>2. error' \in {error, "INFINITE_LOOP", "NO_MBR_MAGIC", "INVALID_PARTITION"} /\ error = "NONE"
            BY <4>3, <5>3, <6>1, CheckedTwo DEF IInv, BootTyped, load_mbr
          <6> QED
            BY <2>1, <5>1, <6>2 DEF Refusals
        <5> QED
          BY <4>3, <5>2, <5>3 DEF load_mbr
      <4>4. CASE load_image_head
        BY <2>1, <3>2, <4>4, HeadNotRefused
      <4>5. CASE load_item
        BY <2>1, <3>2, <4>5, ItemNotRefused
      <4>6. CASE load_rest
        <5>1. error = "NONE" /\ error' \in {error, "SD_READ", "INFINITE_LOOP"} /\ bpc' \in {"validate", "error"}
          BY <4>6, Signalled DEF load_rest, ReadFails, IInv, BootTyped
        <5> QED
          BY <2>1, <5>1 DEF Refusals
      <4>7. CASE validate_item
        <5>1. UNCHANGED <<whole, files>>
          BY <2>3 DEF imager
        <5> QED
          BY <3>2, <4>7, <5>1, ValidateRefuses DEF RefusedForAReason
      <4>8. CASE WaitTimesOut
        BY <2>1, <4>8 DEF WaitTimesOut, signal_error, Refusals
      <4> QED
        BY <2>3, <4>1, <4>2, <4>3, <4>4, <4>5, <4>6, <4>7, <4>8 DEF BootStep
    <3> QED
      BY <3>1, <3>2
  <2>4. CASE UNCHANGED vars
    BY <2>4 DEF vars, imager, boot, RefusedForAReason, ImageSize, SizeOfImage
  <2> QED
    BY <2>2, <2>3, <2>4 DEF Next
<1> QED
  BY <1>1, <1>2, Inductive, PTL DEF Spec
=============================================================================
