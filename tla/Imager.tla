------------------------------- MODULE Imager -------------------------------
(***************************************************************************)
(* The imager, img/img.c: it builds an image in memory, item by item, and  *)
(* writes it to the image partition from the start on.  It may fail at any *)
(* point, or the machine may stop while it writes, and it may be run again *)
(* over what an earlier run left there.                                    *)
(*                                                                         *)
(* What write() accepts reaches the card when the partition is closed.  If *)
(* the machine stops before, any of the blocks may have reached it: the    *)
(* imager asks for no order (there is no fsync()).                         *)
(***************************************************************************)
EXTENDS Image

CONSTANTS
  PART_NBLKS,   \* blocks of the image partition
  RDWR_SZ,      \* most cells of one write()
  RUNS,         \* bound: runs of the imager
  Files         \* the files a run may be given: sizes, and whether their magic is right

ASSUME PartitionAssumption == PART_NBLKS \in Nat \ {0}
ASSUME RdwrAssumption == RDWR_SZ \in Nat /\ RDWR_SZ >= SD_BLKSZ
ASSUME RunsAssumption == RUNS \in Nat \ {0}
ASSUME FilesAssumption ==
  Files \subseteq [kern : Nat \ {0}, dtb : Nat \ {0}, zimage : BOOLEAN, fdt : BOOLEAN]

VARIABLES
  ipc,          \* what is done next, or how the last run ended
  run,          \* number of the current or last run
  files,        \* files[v]: the files given to run v
  img,          \* the image being built
  at,           \* cells of it written so far (mem in file_write())
  part,         \* the cells of the partition
  whole         \* the run whose image the partition holds, 0 if it holds no whole image

imager == <<ipc, run, files, img, at, part, whole>>

PartCells == PART_NBLKS * SD_BLKSZ

NoFiles == [kern |-> 0, dtb |-> 0, zimage |-> FALSE, fdt |-> FALSE]

\* The item that ends the image is given no data.
NoData == 0

ImagerInit ==
  /\ ipc = "unused" /\ run = 0 /\ files = [v \in 1..RUNS |-> NoFiles]
  /\ img = <<>> /\ at = 0
  /\ part = [c \in 0..PartCells - 1 |-> Junk] /\ whole = 0

\* No run of the imager is under way.
Resting == ipc \in {"unused", "succeeded", "failed", "interrupted"}

\* main() and the start of build_image(): the head, whose size grows with every item.
StartImager ==
  /\ Resting /\ run < RUNS
  /\ run' = run + 1
  /\ \E f \in Files : files' = [files EXCEPT ![run + 1] = f]
  /\ img' = ImageHead(run + 1, SD_BLKSZ)
  /\ at' = 0
  /\ ipc' = "kernel"
  /\ UNCHANGED <<part, whole>>

SizeNotCounted(new) == img \o new

\* The image with an item appended, its size counted in the head.
Appended(new) ==
  [i \in 1..Len(img) + Len(new) |->
     IF i = 2 THEN [img[2] EXCEPT !.n = @ + Len(new)]
     ELSE IF i <= Len(img) THEN img[i] ELSE new[i - Len(img)]]

image_append_item(id, sz) == img' = Appended(Item(id, run, sz))

\* Append the next item.  A file that cannot be read, or no memory, ends the run before
\* anything is written.
build_image ==
  /\ \/ /\ ipc = "kernel" /\ image_append_item("KERNEL", files[run].kern) /\ ipc' = "dtb"
     \/ /\ ipc = "dtb" /\ image_append_item("DTB", files[run].dtb) /\ ipc' = "end"
     \/ /\ ipc = "end" /\ image_append_item("END", NoData) /\ ipc' = "write"
     \/ /\ ipc \in {"kernel", "dtb", "end"} /\ ipc' = "failed" /\ img' = <<>>
  /\ UNCHANGED <<run, files, at, part, whole>>

\* The blocks bs of the image replace those of the partition.
Reach(bs) ==
  part' = [c \in DOMAIN part |-> IF c \div SD_BLKSZ \in bs THEN img[c + 1] ELSE part[c]]

\* The blocks that write() has accepted.
Accepted == 0..(at \div SD_BLKSZ) - 1

\* One write(): some blocks are accepted, none beyond the end of the partition.  The bytes left
\* are an int (img.c:166): module Boot assumes images below 2 GiB.
WriteSome ==
  /\ ipc = "write" /\ at < Len(img)
  /\ \E n \in 1..RDWR_SZ \div SD_BLKSZ :
       /\ at + n * SD_BLKSZ <= Len(img)
       /\ at + n * SD_BLKSZ <= PartCells
       /\ at' = at + n * SD_BLKSZ
  /\ UNCHANGED <<ipc, run, files, img, part, whole>>

\* n has reached 0.
AllWritten == at = Len(img)

\* The partition is closed: everything has been written, or a write() failed.
CloseFile ==
  /\ ipc = "write"
  /\ \/ /\ AllWritten
        /\ ipc' = "succeeded" /\ whole' = run
     \/ /\ at < Len(img)
        /\ ipc' = "failed" /\ whole' = IF at = 0 THEN whole ELSE 0
  /\ Reach(Accepted)
  /\ img' = <<>> /\ at' = 0
  /\ UNCHANGED <<run, files>>

\* The machine stops before that.
Interrupt ==
  /\ ipc = "write"
  /\ \E bs \in SUBSET Accepted :
       /\ Reach(bs)
       /\ whole' = IF bs = {} THEN whole ELSE 0
  /\ ipc' = "interrupted"
  /\ img' = <<>> /\ at' = 0
  /\ UNCHANGED <<run, files>>

ImagerNext == StartImager \/ build_image \/ WriteSome \/ CloseFile \/ Interrupt
=============================================================================
