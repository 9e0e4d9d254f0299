------------------------------ MODULE MCSdRead ------------------------------
(* SdRead for TLC: blocks of 4 bytes, passes of at most 3 blocks, words    *)
(* that count 64 bytes.  Reads of up to 8 blocks take up to three passes,  *)
(* the last of which may be a single block.  The 8 blocks at address 32    *)
(* end with the last byte of RAM, and the 7 from block 9 on with the last  *)
(* byte that a word can address on a standard capacity card.               *)
EXTENDS SdRead

MCRamAddrs == {0, 2, 4, 32}
MCLbas == {0, 1, 9}
MCCounts == {-1, 0, 1, 2, 3, 4, 6, 7, 8}
MCByteCounts == {0, 1, 4, 13, 28}
=============================================================================
