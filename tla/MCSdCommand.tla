---------------------------- MODULE MCSdCommand ----------------------------
(* SdCommand for TLC: a board that always works, one on which anything may go wrong, and one  *)
(* that is only fast.                                                                         *)
EXTENDS SdCommand

AllQuirks == {"fault", "late", "fast_data", "long_busy"}
BestAndWorst == {{}, AllQuirks}
Fast == {{"fast_data"}}
=============================================================================
