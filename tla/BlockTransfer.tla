--------------------------- MODULE BlockTransfer ---------------------------
(***************************************************************************)
(* What a command of bld/sd/cmd.c promises its caller, with no registers   *)
(* and no polling in sight: once begun, a command moves the requested      *)
(* blocks into RAM one after the other, in order, and returns success only *)
(* when all of them are there.  It may fail at any moment before that, and *)
(* nothing follows a failure, since every caller gives up on the first     *)
(* error.  A command that transfers no data is a transfer of zero blocks.  *)
(***************************************************************************)
EXTENDS Integers

CONSTANT MaxBlocks      \* largest number of blocks of one command

VARIABLES
  phase,                \* "idle", "busy" or "failed"
  total,                \* number of blocks requested of the current command
  dest                  \* dest[i]: the block of the request at the i-th place in RAM, 0 for none

vars == <<phase, total, dest>>

\* The first k blocks of the request are in RAM, each in its place, and nothing else is.
Prefix(k) == [i \in 1..MaxBlocks |-> IF i <= k THEN i ELSE 0]

Init ==
  /\ phase = "idle"
  /\ total = 0
  /\ dest = Prefix(0)

Begin ==
  /\ phase = "idle"
  /\ phase' = "busy"
  /\ total' \in 0..MaxBlocks
  /\ dest' = Prefix(0)

CopyBlock ==
  /\ phase = "busy"
  /\ \E k \in 1..total : dest = Prefix(k - 1) /\ dest' = Prefix(k)
  /\ UNCHANGED <<phase, total>>

Finish ==
  /\ phase = "busy"
  /\ dest = Prefix(total)
  /\ phase' = "idle"
  /\ UNCHANGED <<total, dest>>

Fail ==
  /\ phase = "busy"
  /\ phase' = "failed"
  /\ UNCHANGED <<total, dest>>

Next == Begin \/ CopyBlock \/ Finish \/ Fail

Spec == Init /\ [][Next]_vars
=============================================================================
