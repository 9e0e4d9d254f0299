--------------------------- MODULE MCErrorSignal ---------------------------
(* Pauses that can be told apart by the user in spite of the slack of every sleep; the pins   *)
(* that the bootloader uses, with a neighbour each.                                           *)
EXTENDS ErrorSignal

Pauses == {SHORT_PAUSE, LONG_PAUSE}
BothBuilds == BOOLEAN \X {FALSE}
SomePins == {14, 15, 42, 45}
SomeErrors == {1, 2, 3}
=============================================================================
