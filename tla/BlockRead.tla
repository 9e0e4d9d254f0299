----------------------------- MODULE BlockRead -----------------------------
(***************************************************************************)
(* What sd_read_blocks() promises (bld/sd/sd.h): n consecutive blocks of   *)
(* the card, from block lba on, are copied to RAM from address dest on.    *)
(* They arrive in order, nothing else is written, and the read is          *)
(* successful only when all of them have arrived.  A failed read leaves    *)
(* some first part of them behind, and no read follows it.                 *)
(***************************************************************************)
EXTENDS Integers

CONSTANT SD_BLKSZ       \* bytes in a block

VARIABLES
  status,               \* "idle", "reading" or "failed"
  req,                  \* the read being done: destination, first block, number of blocks
  written               \* the pairs <<RAM address, card block>> copied by it so far

vars == <<status, req, written>>

\* The first k blocks of the read r, each in its place.
Blocks(r, k) == {<<r.dest + SD_BLKSZ * i, r.lba + i>> : i \in 0..k - 1}

Init ==
  /\ status = "idle"
  /\ req = [dest |-> 0, lba |-> 0, n |-> 0]
  /\ written = {}

Begin ==
  /\ status = "idle"
  /\ status' = "reading"
  /\ req' \in [dest : Nat, lba : Nat, n : Int]
  /\ written' = {}

CopyBlock ==
  /\ status = "reading"
  /\ \E k \in 0..req.n - 1 : written = Blocks(req, k) /\ written' = Blocks(req, k + 1)
  /\ UNCHANGED <<status, req>>

Succeed ==
  /\ status = "reading"
  /\ written = Blocks(req, req.n)
  /\ status' = "idle"
  /\ UNCHANGED <<req, written>>

Fail ==
  /\ status = "reading"
  /\ status' = "failed"
  /\ UNCHANGED <<req, written>>

Next == Begin \/ CopyBlock \/ Succeed \/ Fail

Spec == Init /\ [][Next]_vars
=============================================================================
