------------------------------ MODULE MCSdInit ------------------------------
(* SdInit for TLC: the clock rates of the code, and two card addresses.    *)
EXTENDS SdInit

MCRcas == {1, 2}
=============================================================================
