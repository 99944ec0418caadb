-------------------------- MODULE MCLibvirtSource ---------------------------
(***************************************************************************)
(* LibvirtSource for TLC: a worker next to the poll loop, two runtime ids  *)
(* so that a guest comes back under another one or the same, and two       *)
(* dials: a connection is lost, and replaced by the worker or by the poll. *)
(***************************************************************************)
EXTENDS LibvirtSource

CONSTANTS w1
=============================================================================
