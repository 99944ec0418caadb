--------------------------- MODULE MCGuestSamples ---------------------------
(***************************************************************************)
(* GuestSamples for TLC.  Width leaves room for one number that no QEMU    *)
(* process counts to: the -1 of a counter that cannot be filled.           *)
(***************************************************************************)
EXTENDS GuestSamples

MCWidth == MaxCount + 2
=============================================================================
