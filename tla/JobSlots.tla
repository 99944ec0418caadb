------------------------------ MODULE JobSlots ------------------------------
(***************************************************************************)
(* What the job store of internal/actions promises its callers, with the   *)
(* goroutines, the clock and the map left out: a key (one domain, one      *)
(* verb) is a slot at most one job flies in, a submission for a busy slot  *)
(* is refused, and a job leaves its slot with one verdict it never takes   *)
(* back.  JobRegistry implements this specification.                       *)
(***************************************************************************)
CONSTANTS Jobs, Keys

VARIABLES
  flying,     \* key -> the jobs holding that slot
  verdict     \* job -> "" until it is decided

vars == <<flying, verdict>>

Verdicts == {"ok", "failed", "timeout"}

Init ==
  /\ flying = [k \in Keys |-> {}]
  /\ verdict = [j \in Jobs |-> ""]

(* A job nobody has seen yet takes a free slot. *)
Accept(j, k) ==
  /\ verdict[j] = ""
  /\ \A any \in Keys : j \notin flying[any]
  /\ flying[k] = {}
  /\ flying' = [flying EXCEPT ![k] = {j}]
  /\ UNCHANGED verdict

(* The job holding a slot gets its verdict and frees the slot. *)
Conclude(j, k, v) ==
  /\ j \in flying[k]
  /\ flying' = [flying EXCEPT ![k] = @ \ {j}]
  /\ verdict' = [verdict EXCEPT ![j] = v]

Next ==
  \E j \in Jobs, k \in Keys :
    \/ Accept(j, k)
    \/ \E v \in Verdicts : Conclude(j, k, v)

SafeSpec == Init /\ [][Next]_vars

(* Nothing obliges a caller to submit; whatever flies must land. *)
Spec ==
  /\ SafeSpec
  /\ \A j \in Jobs : WF_vars(\E k \in Keys, v \in Verdicts : Conclude(j, k, v))
=============================================================================
