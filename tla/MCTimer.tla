------------------------------ MODULE MCTimer ------------------------------
(* A counter that overflows after a few dozen ticks, sleeps that are too short for the build  *)
(* with interrupts, and sleeps just long enough.                                              *)
EXTENDS Timer

SomeTimes == {3, 19}
AllBuilds == {<<TRUE, FALSE>>, <<FALSE, FALSE>>, <<FALSE, TRUE>>}
=============================================================================
