--------------------------- MODULE MCSnapshotHold ---------------------------
(***************************************************************************)
(* SnapshotHold for TLC.  Two jobs: one may be abandoned at its bound, or  *)
(* leave a marker behind, while the other starts.  The jobs of the safety  *)
(* run are interchangeable.                                                *)
(***************************************************************************)
EXTENDS SnapshotHold, TLC

CONSTANTS j1, j2

Interchangeable == Permutations({j1, j2})
=============================================================================
