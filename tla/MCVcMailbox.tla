---------------------------- MODULE MCVcMailbox ----------------------------
(* Two calls in a row, of the functions of bld/tag.c and of two tags at once, in a heap that  *)
(* is not aligned and has room for the largest buffer.                                        *)
EXTENDS VcMailbox

AllQuirks == {"late", "full", "stray", "error", "silent", "size", "echo"}
BestAndWorst == {{}, AllQuirks}

SomeCalls ==
  {tag_clock_get_rate(4), tag_clock_get_state(12), tag_gpio_get_state(4),
   tag_power_get_state(0) \o tag_gpio_get_config(6)}
=============================================================================
