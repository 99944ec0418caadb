--------------------------- MODULE MCJobRegistry ----------------------------
(***************************************************************************)
(* JobRegistry for TLC: two jobs, so that one can overtake, outlive or     *)
(* collide with the other, on one or two keys; bounds of one and two ticks *)
(* and a retention exactly as long as RetentionAssumption allows, so that  *)
(* the age at which a job is swept is the age the slowest live job has.    *)
(***************************************************************************)
EXTENDS JobRegistry

CONSTANTS j1, j2
=============================================================================
