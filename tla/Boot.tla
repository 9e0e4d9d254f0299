-------------------------------- MODULE Boot --------------------------------
(***************************************************************************)
(* The bootloader's main flow, bld/boot.c, over the card that the imager   *)
(* has written: find the image partition in the MBR, check the head of the *)
(* image, load the kernel and the device tree blob to where the kernel is  *)
(* to find them, check that the image ends, and jump.  Any step may end in *)
(* signal_error(), which only switching the board off leaves.              *)
(*                                                                         *)
(* The card is in the computer that runs the imager or in the board, never *)
(* in both.  RAM keeps what an earlier boot left in it.  A read of the     *)
(* card is one step (module SdRead takes it apart).                        *)
(***************************************************************************)
EXTENDS Imager

CONSTANTS
  PART_LBA,                     \* where the image partition starts
  ImagePartitions,              \* values the Makefile may give image_partition
  KERN_RAM_ADDR, DTB_RAM_ADDR, HEAP_RAM_ADDR,
  ZIMAGE_MAGIC_OFF,             \* offset of the magic in a zImage
  WORD                          \* a uint32_t holds 0..WORD - 1 cells

ASSUME LbaAssumption == PART_LBA \in Nat \ {0}
\* Every section of the address map starts at a multiple of the block size.
ASSUME AddressAssumption ==
  /\ {KERN_RAM_ADDR, DTB_RAM_ADDR, HEAP_RAM_ADDR} \subseteq {SD_BLKSZ * i : i \in 1..WORD}
  /\ KERN_RAM_ADDR < DTB_RAM_ADDR /\ DTB_RAM_ADDR < HEAP_RAM_ADDR
  /\ WORD \in Nat /\ HEAP_RAM_ADDR + SD_BLKSZ <= WORD
ASSUME MagicAssumption == ZIMAGE_MAGIC_OFF \in 0..SD_BLKSZ - ITEM_SZ - 1
\* A file with the magic of a zImage reaches as far as the magic.
ASSUME ZImageAssumption == \A f \in Files : f.zimage => ZIMAGE_MAGIC_OFF < f.kern
\* An item ends within the address space: the padded size of a file is a uint32_t.
ASSUME FitAssumption ==
  \A f \in Files : \A sz \in {f.kern, f.dtb} : DTB_RAM_ADDR + datasz_after_pad(sz) < WORD


\* The size of the image of the files f.
SizeOfImage(f) ==
  SD_BLKSZ + itemsz(datasz_after_pad(f.kern)) + itemsz(datasz_after_pad(f.dtb))
  + itemsz(datasz_after_pad(NoData))

\* Sizes are ints, in the imager (img.c:102, 119, 166, 177) and in the bootloader (boot.c:143,
\* sd.c:489): an image stays below half of what a word holds, 2 GiB.
ASSUME IntAssumption == \A f \in Files : 2 * SizeOfImage(f) < WORD

VARIABLES
  bpc,          \* what the bootloader does next, or "off", "error", "kernel", "lost"
  item,         \* id of the item being loaded
  part_lba,     \* img_part_lba
  item_lba,     \* where the item being loaded starts
  error,        \* the code signalled
  ram,
  mbr,          \* the cells of block 0 of the card
  image_partition

boot == <<bpc, item, part_lba, item_lba, error, ram>>
card == <<mbr, image_partition>>
vars == <<imager, boot, card>>

\* Of the heap, its first block: nothing that is kept is loaded beyond.
RamCells == KERN_RAM_ADDR - ITEM_SZ..HEAP_RAM_ADDR + SD_BLKSZ - 1

\* Block 0: of its partition table the entry of the image partition.  The magic is at its end.
Mbr(magic) ==
  [c \in 0..SD_BLKSZ - 1 |->
     CASE c = 0 -> Cell("lba", "mbr", 0, PART_LBA)
       [] c = 1 -> Cell("nblks", "mbr", 0, PART_NBLKS)
       [] c = SD_BLKSZ - 1 /\ magic -> Cell("magic", "mbr", 0, 0)
       [] OTHER -> Junk]

CardCell(a) ==
  LET p == a - PART_LBA * SD_BLKSZ
  IN  IF a \in DOMAIN mbr THEN mbr[a] ELSE IF p \in DOMAIN part THEN part[p] ELSE Junk

\* RAM after nblks blocks from lba on have been read to dest.
Loaded(dest, lba, nblks) ==
  [c \in RamCells |-> IF c \in dest..dest + nblks * SD_BLKSZ - 1
                      THEN CardCell(lba * SD_BLKSZ + (c - dest)) ELSE ram[c]]

signal_error(e) == bpc' = "error" /\ error' = e

\* A log of an error that the UART does not take ends in another one (module Uart).
log_and_signal(e) == signal_error(e) \/ signal_error("INFINITE_LOOP")

\* sd_read_blocks() fails after some of the blocks.
ReadFails(dest, lba, nblks) ==
  /\ \E n \in 0..nblks - 1 : ram' = Loaded(dest, lba, n)
  /\ log_and_signal("SD_READ")
  /\ UNCHANGED <<item, part_lba, item_lba>>

\* The first of the checks that fails is signalled, or the boot goes on.
Checked(checks, next) ==
  LET failed == {i \in DOMAIN checks : ~checks[i].holds}
  IN  IF failed = {} THEN bpc' = next /\ UNCHANGED error
      ELSE \E i \in failed : (\A j \in failed : i <= j) /\ log_and_signal(checks[i].else)
Check(holds, e) == [holds |-> holds, else |-> e]

BootInit ==
  /\ bpc = "off" /\ item = "END" /\ part_lba = 0 /\ item_lba = 0 /\ error = "NONE"
  /\ ram = [c \in RamCells |-> Junk]
  /\ mbr \in {Mbr(TRUE), Mbr(FALSE)}
  /\ image_partition \in ImagePartitions

Init == ImagerInit /\ BootInit

PowerOn ==
  /\ bpc = "off" /\ Resting
  /\ bpc' = "init" /\ error' = "NONE" /\ part_lba' = 0 /\ item_lba' = 0 /\ item' = "END"
  /\ UNCHANGED ram

\* At any moment; the RAM of a board that is switched on again soon keeps its contents.
PowerOff ==
  /\ bpc # "off"
  /\ bpc' = "off" /\ error' = "NONE" /\ part_lba' = 0 /\ item_lba' = 0 /\ item' = "END"
  /\ UNCHANGED ram

\* The vector table goes to address 0, below everything modelled here.  The mailbox may fail in
\* uart_init() and in sd_init() (module VcMailbox), where its answers are checked too.
init_peripherals ==
  /\ bpc = "init"
  /\ \/ bpc' = "mbr" /\ UNCHANGED error
     \/ \E e \in {"VCMAILBOX", "VC_NOT_INIT_MMC", "SD_INIT"} : log_and_signal(e)
  /\ UNCHANGED <<item, part_lba, item_lba, ram>>

mbr_magic(heap) == heap[HEAP_RAM_ADDR + SD_BLKSZ - 1].kind = "magic"
mbr_partition_valid(p) == p >= 1 /\ p <= 4

load_mbr ==
  /\ bpc = "mbr"
  /\ \/ /\ ram' = Loaded(HEAP_RAM_ADDR, 0, 1)
        /\ Checked(<<Check(mbr_magic(ram'), "NO_MBR_MAGIC"),
                     Check(mbr_partition_valid(image_partition), "INVALID_PARTITION")>>, "head")
        /\ UNCHANGED <<item, part_lba, item_lba>>
     \/ ReadFails(HEAP_RAM_ADDR, 0, 1)

WrongField(heap) == heap[HEAP_RAM_ADDR + 1].n

mbr_get_partition_lba(heap) == heap[HEAP_RAM_ADDR].n
mbr_get_partition_nblks(heap) == heap[HEAP_RAM_ADDR + 1].n

ItemSkipped(lba) == lba + 2

\* The items follow the head, which fills a block.
FirstItem(lba) == lba + 1

\* The product is a uint32_t.
image_fits(imgsz, nblks) == imgsz <= (nblks * SD_BLKSZ) % WORD

\* The MBR is read from the heap before the head of the image overwrites it.
load_image_head ==
  /\ bpc = "head"
  /\ LET lba == mbr_get_partition_lba(ram)
         nblks == mbr_get_partition_nblks(ram)
     IN  \/ /\ ram' = Loaded(HEAP_RAM_ADDR, lba, 1)
            /\ LET magic == ram'[HEAP_RAM_ADDR]
                   imgsz == ram'[HEAP_RAM_ADDR + 1].n
               IN  Checked(<<Check(magic.kind = "magic" /\ magic.of = "image", "NO_IMAGE_MAGIC"),
                             Check(image_fits(imgsz, nblks), "IMAGE_OVERFLOW")>>, "item")
            /\ part_lba' = lba /\ item_lba' = FirstItem(lba) /\ item' = "KERNEL"
         \/ ReadFails(HEAP_RAM_ADDR, lba, 1)

\* The start of the data of a kernel and of a device tree blob is loaded to its address; the
\* item that ends the image goes to the heap.
ItemDest(id) ==
  CASE id = "KERNEL" -> KERN_RAM_ADDR - ITEM_SZ
    [] id = "DTB" -> DTB_RAM_ADDR - ITEM_SZ
    [] id = "END" -> HEAP_RAM_ADDR

IsItem(c, id) == c.kind = "id" /\ c.of = id

\* datasz of the item that was loaded.
datasz(id) == ram[ItemDest(id) + 1].n
NBlocks(id) == bytes_to_blocks(itemsz(datasz(id)))

\* What was never written may be zeros, and 0 is the id of the item that ends an image.
MayBeItem(c, id) == IsItem(c, id) \/ (id = "END" /\ c = Junk)

\* The id read is logged before the error is signalled, but stritem() returns nothing for a word
\* that is no id: the compiled program may go on in any way.
UnexpectedItem(c) ==
  \/ log_and_signal("IMAGE_CONTENTS")
  \/ c.kind # "id" /\ bpc' = "lost" /\ UNCHANGED error

\* load_item(): the first block, for the id and the size.
load_item ==
  /\ bpc = "item"
  /\ \/ /\ ram' = Loaded(ItemDest(item), item_lba, 1)
        /\ LET c == ram'[ItemDest(item)]
           IN  \/ MayBeItem(c, item) /\ bpc' = "rest" /\ UNCHANGED error
               \/ ~IsItem(c, item) /\ UnexpectedItem(c)
        /\ UNCHANGED <<item, part_lba, item_lba>>
     \/ ReadFails(ItemDest(item), item_lba, 1)

\* Whether an item is more than its first block.
MoreToRead(id) == itemsz(datasz(id)) > SD_BLKSZ

\* load_item(): the whole item, if it is larger.
load_rest ==
  /\ bpc = "rest"
  /\ \/ /\ ram' = IF MoreToRead(item) THEN Loaded(ItemDest(item), item_lba, NBlocks(item)) ELSE ram
        /\ bpc' = "validate"
        /\ UNCHANGED <<item, part_lba, item_lba, error>>
     \/ MoreToRead(item) /\ ReadFails(ItemDest(item), item_lba, NBlocks(item))

\* Only the data of a file that has it starts with the magic of its kind.
IsZImage(c) == c.kind = "data" /\ c.of = "KERNEL" /\ c.n = ZIMAGE_MAGIC_OFF /\ files[c.v].zimage
IsFdt(c) == c.kind = "data" /\ c.of = "DTB" /\ c.n = 0 /\ files[c.v].fdt

NoSizeCheck(sz) == TRUE

kern_fits(sz) == (KERN_RAM_ADDR + sz) % WORD <= DTB_RAM_ADDR

\* The next item starts at the block after this one.
TurnTo(next) == item_lba' = item_lba + NBlocks(item) /\ item' = next

\* load_image_items(), once an item is loaded: validate it and turn to the next one.
validate_item ==
  /\ bpc = "validate"
  /\ \/ /\ item = "KERNEL"
        /\ Checked(<<Check(kern_fits(datasz("KERNEL")), "KERN_OVERFLOW"),
                     Check(IsZImage(ram[KERN_RAM_ADDR + ZIMAGE_MAGIC_OFF]), "IMAGE_CONTENTS")>>, "item")
        /\ TurnTo("DTB")
     \/ /\ item = "DTB"
        /\ Checked(<<Check(IsFdt(ram[DTB_RAM_ADDR]), "IMAGE_CONTENTS")>>, "item")
        /\ TurnTo("END")
     \/ /\ item = "END"
        /\ bpc' = "reset" /\ UNCHANGED <<error, item, item_lba>>
  /\ UNCHANGED <<part_lba, ram>>

\* reset_peripherals() and boot_kernel().
reset_and_jump ==
  /\ bpc = "reset"
  /\ \/ bpc' = "kernel" /\ UNCHANGED error
     \/ log_and_signal("SD_RESET")
  /\ UNCHANGED <<item, part_lba, item_lba, ram>>

\* A wait of while_cond_timeout_infinite() runs out: for the UART in the logs of every step, for
\* the host controller in sd_init() and sd_reset().
WaitTimesOut ==
  /\ bpc \in {"init", "mbr", "head", "item", "rest", "validate", "reset"}
  /\ signal_error("INFINITE_LOOP")
  /\ UNCHANGED <<item, part_lba, item_lba, ram>>

BootStep ==
  init_peripherals \/ load_mbr \/ load_image_head \/ load_item \/ load_rest \/ validate_item
  \/ reset_and_jump \/ WaitTimesOut

Next ==
  \/ bpc = "off" /\ ImagerNext /\ UNCHANGED <<boot, card>>
  \/ (PowerOn \/ PowerOff \/ BootStep) /\ UNCHANGED <<imager, card>>

Spec == Init /\ [][Next]_vars

-----------------------------------------------------------------------------
Kinds == {"id", "size", "data", "magic", "lba", "nblks", "junk"}
Ids == {"KERNEL", "DTB", "END"}
Errors == {"NONE", "VCMAILBOX", "VC_NOT_INIT_MMC", "INFINITE_LOOP", "SD_INIT", "SD_READ", "NO_MBR_MAGIC", "INVALID_PARTITION", "NO_IMAGE_MAGIC",
           "IMAGE_OVERFLOW", "IMAGE_CONTENTS", "KERN_OVERFLOW", "SD_RESET"}
Cells == [kind : Kinds, of : Ids \cup {"image", "mbr", "nothing"}, v : 0..RUNS, n : Nat]

\* Cells, numbers and codes are in range; the bootloader reads only where there is RAM, and an
\* error is signalled exactly while the board blinks.
TypeOK ==
  /\ bpc \in {"off", "init", "mbr", "head", "item", "rest", "validate", "reset", "error", "kernel",
             "lost"}
  /\ item \in Ids /\ part_lba \in {0, PART_LBA} /\ item_lba \in Nat
  /\ error \in Errors /\ (error # "NONE" <=> bpc = "error")
  /\ ram \in [RamCells -> Cells]
  /\ part \in [0..PartCells - 1 -> Cells] /\ whole \in 0..run /\ run \in 0..RUNS
  /\ at \in 0..Len(img) /\ img \in Seq(Cells)
  /\ bpc # "off" => Resting

\* The kernel and the device tree blob of run v are in RAM in their places, the kernel whole and
\* the device tree blob as far as the heap.
KernelIn(v) == \A i \in 0..files[v].kern - 1 : ram[KERN_RAM_ADDR + i] = Cell("data", "KERNEL", v, i)
DtbIn(v) ==
  \A i \in 0..files[v].dtb - 1 :
    DTB_RAM_ADDR + i < HEAP_RAM_ADDR => ram[DTB_RAM_ADDR + i] = Cell("data", "DTB", v, i)

\* What boots is what was imaged: when the bootloader jumps (boot.c:213) and the card holds the
\* whole image of a run of the imager, the files of that run are in RAM, whatever earlier runs
\* left on the card and earlier boots in RAM.  Of a device tree blob that reaches into the heap,
\* where the end item is loaded over it, that is the part below (boot.c:200 does not check).
BootsWhatWasImaged == bpc = "kernel" /\ whole # 0 => KernelIn(whole) /\ DtbIn(whole)

\* The item at dest is in RAM, as far as the heap, as the card holds it at lba.
AsOnCard(dest, lba, sz) ==
  \A i \in 0..itemsz(sz) - 1 :
    dest + i < HEAP_RAM_ADDR => ram[dest + i] = CardCell(lba * SD_BLKSZ + i)

\* No load overwrites what an earlier load put in RAM below the heap: at the jump both items are
\* there as the card has them, headers included, even if the image is torn.  The check of the
\* kernel's size (boot.c:188) leaves no room for the header of the device tree blob's item
\* (boot.c:200); the padding of items does (img.c:119).
LoadsDoNotOverlap ==
  bpc = "kernel" =>
    LET kern == part_lba + 1
        dtb == kern + NBlocks("KERNEL")
    IN  /\ KERN_RAM_ADDR + datasz("KERNEL") <= DTB_RAM_ADDR
        /\ AsOnCard(ItemDest("KERNEL"), kern, datasz("KERNEL"))
        /\ AsOnCard(ItemDest("DTB"), dtb, datasz("DTB"))

\* While it loads the items of a whole image, the bootloader reads nothing beyond the size that
\* the head gives (img.h:57), and so nothing beyond the partition: load_item() goes by the sizes
\* of the items alone and never compares them with it (boot.c:169, boot.c:199).
ReadsWithinImage ==
  whole # 0 =>
    LET end == PART_LBA * SD_BLKSZ + part[1].n
    IN  /\ end <= (PART_LBA + PART_NBLKS) * SD_BLKSZ
        /\ bpc = "item" => (item_lba + 1) * SD_BLKSZ <= end
        /\ bpc = "rest" => (item_lba + NBlocks(item)) * SD_BLKSZ <= end

\* The size of the image of run v, and whether its partition holds it.
ImageSize(v) == SizeOfImage(files[v])

\* A whole image is refused only for a fault of the board or for what is wrong with its files
\* (error.h:8), and boots or is refused.
RefusedForAReason ==
  whole # 0 =>
    /\ bpc # "lost"
    /\ error # "NO_IMAGE_MAGIC"
    /\ error = "IMAGE_CONTENTS" => ~files[whole].zimage \/ ~files[whole].fdt
    /\ error = "KERN_OVERFLOW" => KERN_RAM_ADDR + files[whole].kern > DTB_RAM_ADDR - ITEM_SZ
    /\ error = "IMAGE_OVERFLOW" => ImageSize(whole) > PartCells

\* error.h:21: the size of the image is greater than the image partition.
OverflowMeansTooBig ==
  error = "IMAGE_OVERFLOW" /\ whole # 0 => ImageSize(whole) > PartCells
=============================================================================
