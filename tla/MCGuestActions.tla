--------------------------- MODULE MCGuestActions ---------------------------
(***************************************************************************)
(* GuestActions for TLC.  Two jobs are enough for every pairwise overlap,  *)
(* among them a job and the abandoned worker of an earlier one with the    *)
(* same verb.  The smaller request set keeps the counterexample to the     *)
(* verb it is about.                                                       *)
(***************************************************************************)
EXTENDS GuestActions

CONSTANTS j1, j2

(* A staged restore that leaves the guest off is the first part of one     *)
(* that starts it again, and ends as a direct one does.                    *)
MostRequests == AllRequests \ {Request("restore", "staged", FALSE, FALSE)}

StagedOnly == {Request("restore", "staged", TRUE, FALSE)}
=============================================================================
