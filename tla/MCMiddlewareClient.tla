------------------------- MODULE MCMiddlewareClient -------------------------
(***************************************************************************)
(* MiddlewareClient for TLC: one caller beside Run's own calls, and enough *)
(* dials for a connection to be lost, or refused, and replaced while the   *)
(* reader of the old one is still on its way out.                          *)
(***************************************************************************)
EXTENDS MiddlewareClient

CONSTANTS c1
=============================================================================
