-------------------------- MODULE MCSnapshotService --------------------------
(***************************************************************************)
(* SnapshotService for TLC: a guest with two zvols, of which one query may *)
(* fail while the other succeeds, and one without any, which the sweep and *)
(* the slot pass through as well.                                          *)
(***************************************************************************)
EXTENDS SnapshotService

CONSTANTS d1, d2, z1, z2, v1

(* The two zvols are alike: asking about one is asking about either. *)
AboutOne == {<<d1, z1>>}

TwoAndNone == [d \in Domains |-> IF d = d1 THEN Zvols ELSE {}]
=============================================================================
