------------------------------- MODULE MCBoot -------------------------------
(* Blocks of five cells.  The kernels: one block; the most that fits below the device tree  *)
(* blob; and what would fit if its header were not counted.  The device tree blobs: the one   *)
(* of 6 cells reaches into the heap;  with the one of 9 cells the image is one block larger   *)
(* than the partition.                                                                        *)
EXTENDS Boot

Good(k, d) == [kern |-> k, dtb |-> d, zimage |-> TRUE, fdt |-> TRUE]

MCFiles ==
  {Good(3, 2), Good(8, 6), Good(10, 2), Good(8, 9)}
  \cup {[Good(3, 2) EXCEPT !.zimage = FALSE], [Good(3, 2) EXCEPT !.fdt = FALSE]}

OneFile == {Good(3, 2)}
=============================================================================
