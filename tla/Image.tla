------------------------------- MODULE Image -------------------------------
(***************************************************************************)
(* The image that the imager stores on a partition and the bootloader      *)
(* loads (include/img.h), and the arithmetic that the two sides share.     *)
(*                                                                         *)
(* Storage and memory are made of cells, one 32 bit word each: SD_BLKSZ    *)
(* and every address and size count cells.                                 *)
(***************************************************************************)
EXTENDS Integers, Sequences

CONSTANT SD_BLKSZ       \* cells of a block (128 in the code)

ASSUME BlockSizeAssumption == SD_BLKSZ \in Nat /\ SD_BLKSZ > 2

\* sizeof(struct item): the fields id and datasz.
ITEM_SZ == 2

\* A cell: kind of field, what it belongs to, which run of the imager wrote it, its value.
Cell(kind, of, v, n) == [kind |-> kind, of |-> of, v |-> v, n |-> n]
Junk == Cell("junk", "nothing", 0, 0)

round_up_multiple(n, m) == IF n % m # 0 THEN n + (m - (n % m)) ELSE n

\* Data size of an item after padding: header and data together fill whole blocks.
datasz_after_pad(datasz) == round_up_multiple(ITEM_SZ + datasz, SD_BLKSZ) - ITEM_SZ

itemsz(datasz) == ITEM_SZ + datasz

bytes_to_blocks(bytes) ==
  bytes \div SD_BLKSZ + (IF (bytes % SD_BLKSZ) # 0 THEN 1 ELSE 0)

LastCellLost(id, v, sz) ==
  <<Cell("id", id, v, 0), Cell("size", id, v, datasz_after_pad(sz))>>
  \o [i \in 1..datasz_after_pad(sz) |-> IF i < sz THEN Cell("data", id, v, i - 1) ELSE Junk]

\* An item that holds a file of sz cells, and the padding that realloc() left as it was.
Item(id, v, sz) ==
  <<Cell("id", id, v, 0), Cell("size", id, v, datasz_after_pad(sz))>>
  \o [i \in 1..datasz_after_pad(sz) |-> IF i <= sz THEN Cell("data", id, v, i - 1) ELSE Junk]

\* The first block of an image of imgsz cells.
ImageHead(v, imgsz) ==
  <<Cell("magic", "image", v, 0), Cell("size", "image", v, imgsz)>>
  \o [i \in 1..SD_BLKSZ - 2 |-> Junk]
=============================================================================
