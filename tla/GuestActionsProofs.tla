------------------------- MODULE GuestActionsProofs -------------------------
(***************************************************************************)
(* Proofs about GuestActions, for any number of jobs and any requests,     *)
(* with or without outsiders, in three parts.                              *)
(*                                                                         *)
(* A staged restore never has its rollback running under a guest that is   *)
(* on, unless somebody powered the guest on after that job had seen it     *)
(* off. The property speaks of rollbacks that may be carried out.  It is   *)
(* inductive once it also covers the jobs that have confirmed the guest    *)
(* off and are about to issue the call (Guarded); of the types, only where *)
(* the workers are and what they were asked is needed (Shape).             *)
(*                                                                         *)
(* The types (Typing).                                                     *)
(*                                                                         *)
(* The pills come in order and agree with the verdict: each place of a     *)
(* worker says what the pills of its job may be (Pills), also those of a   *)
(* job whose bound has fired, which has marked a phase failed under it     *)
(* (Open).                                                                 *)
(***************************************************************************)
EXTENDS GuestActions, FiniteSetTheorems, TLAPS

Places == {"none", "find", "asking", "waiting", "confirmed", "rollback", "create", "returned"}
Committed(j) == pc[j] = "confirmed" \/ j \in rolling

Shape ==
  /\ pc \in [Jobs -> Places]
  /\ DOMAIN req = Jobs
  /\ \A j \in Jobs : pc[j] = "none" => j \notin rolling
  /\ rolling \subseteq Jobs

Guarded ==
  \A j \in Jobs : Staged(j) /\ Committed(j) /\ power # "off" => j \in disturbed

IInv == Shape /\ Guarded

LEMMA InitIInv == Init => IInv
BY DEF Init, IInv, Shape, Guarded, Places, Committed

(* One worker moves on and the guest is not touched: if it commits itself  *)
(* now, it has just seen the guest off or is no staged restore.            *)
LEMMA MoveKeeps ==
  ASSUME IInv, NEW j \in Jobs, NEW where \in Places \ {"none"},
         pc' = [pc EXCEPT ![j] = where],
         UNCHANGED <<power, disturbed, req>>,
         rolling' \subseteq rolling \cup {j},
         where = "confirmed" \/ j \in rolling' => Committed(j) \/ power = "off" \/ ~Staged(j)
  PROVE  IInv'
<1>1. Shape'
  BY DEF IInv, Shape
<1>2. ASSUME NEW i \in Jobs, Staged(i)', Committed(i)', power' # "off"
      PROVE  i \in disturbed'
  <2>1. CASE i = j
    BY <1>2, <2>1 DEF IInv, Shape, Guarded, Staged, Committed
  <2>2. CASE i # j
    BY <1>2, <2>2 DEF IInv, Shape, Guarded, Staged, Committed
  <2> QED BY <2>1, <2>2
<1> QED BY <1>1, <1>2 DEF IInv, Guarded

(* A worker that returns is not about to commit itself; the guest may      *)
(* change under it as long as nobody powers it on unrecorded.              *)
LEMMA ReturnKeeps ==
  ASSUME IInv, NEW j \in Jobs,
         pc' = [pc EXCEPT ![j] = "returned"],
         UNCHANGED <<req, rolling>>,
         \/ power' = "off" /\ disturbed' = disturbed
         \/ power # "off" /\ disturbed' = disturbed
         \/ PowerOn
         \/ UNCHANGED <<power, disturbed>>
  PROVE  IInv'
<1>1. Shape'
  BY DEF IInv, Shape, Places
<1>2. ASSUME NEW i \in Jobs, Staged(i)', Committed(i)', power' # "off"
      PROVE  i \in disturbed'
  <2>1. Staged(i) /\ Committed(i)
    BY <1>2 DEF IInv, Shape, Staged, Committed
  <2>2. QED BY <1>2, <2>1 DEF IInv, Guarded, PowerOn, Committed
<1>3. QED BY <1>1, <1>2 DEF IInv, Guarded

(* The guest changes and no worker moves. *)
LEMMA GuestKeeps ==
  ASSUME IInv, UNCHANGED <<pc, req, rolling>>,
         \/ power' = "off" /\ disturbed' = disturbed
         \/ power # "off" /\ disturbed' = disturbed
         \/ PowerOn
  PROVE  IInv'
BY DEF IInv, Shape, Guarded, Staged, PowerOn, Committed

(* A new job has no rollback yet. *)
LEMMA SubmitKeeps ==
  ASSUME IInv, NEW j \in Jobs, NEW r \in Requests, Submit(j, r)
  PROVE  IInv'
<1>1. /\ j \notin rolling /\ pc' = [pc EXCEPT ![j] = "find"] /\ req' = [req EXCEPT ![j] = r]
      /\ UNCHANGED <<power, disturbed, rolling>>
  BY DEF Submit, guest, IInv, Shape
<1> QED BY <1>1 DEF IInv, Shape, Guarded, Staged, Places, Committed

(* What a worker does, step by step. *)
LEMMA WorkerKeeps ==
  ASSUME IInv, NEW j \in Jobs, Worker(j)
  PROVE  IInv'
<1>1. CASE CallVerb(j)
  <2>1. /\ pc' = [pc EXCEPT ![j] = "returned"]
        /\ UNCHANGED <<req, rolling>>
        /\ LibvirtAccepts(req[j].verb) \/ UNCHANGED <<power, disturbed>>
    BY <1>1 DEF CallVerb, Returns, guest
  <2>2. ASSUME LibvirtAccepts(req[j].verb)
        PROVE  \/ power' = "off" /\ disturbed' = disturbed
               \/ power # "off" /\ disturbed' = disturbed
               \/ PowerOn
    BY <2>2 DEF LibvirtAccepts, PowerOff
  <2>3. QED BY <2>1, <2>2, ReturnKeeps
<1>2. CASE Shutdown(j)
  <2>1. /\ pc' = [pc EXCEPT ![j] = "returned"]
        /\ UNCHANGED <<power, disturbed, req, rolling>>
    BY <1>2 DEF Shutdown, Returns, ShutdownSent, ShutdownFails
  <2>2. QED BY <2>1, ReturnKeeps
<1>3. CASE RebootBegin(j)
  BY <1>3, MoveKeeps DEF Committed, RebootBegin, Goes, guest, Places
<1>4. CASE StagedBegin(j)
  BY <1>4, MoveKeeps DEF Committed, StagedBegin, Goes, Returns, guest, Places
<1>5. CASE Ask(j)
  <2>1. UNCHANGED <<power, disturbed, req, rolling>>
    BY <1>5 DEF Ask, ShutdownSent, ShutdownFails
  <2>2. pc' = [pc EXCEPT ![j] = "waiting"] \/ pc' = [pc EXCEPT ![j] = "returned"]
    BY <1>5 DEF Ask, Goes, Returns
  <2>3. QED BY <2>1, <2>2, MoveKeeps DEF Committed, Places
<1>6. CASE ConfirmOff(j)
  BY <1>6, MoveKeeps DEF Committed, ConfirmOff, Goes, guest, Places
<1>7. CASE GiveUp(j)
  BY <1>7, MoveKeeps DEF Committed, GiveUp, Returns, guest, Places
<1>8. CASE IssueRollback(j)
  BY <1>8, MoveKeeps DEF Committed, IssueRollback, Staged, Direct, Goes, guest, Places
<1>9. CASE RolledBack(j)
  BY <1>9, MoveKeeps DEF Committed, RolledBack, Goes, Returns, guest, Places
<1>10. CASE RebootStart(j)
  BY <1>10, MoveKeeps DEF Committed, RebootStart, Goes, guest, Places
<1>11. CASE Create(j)
  <2>1. /\ pc' = [pc EXCEPT ![j] = "returned"]
        /\ UNCHANGED <<req, rolling>>
        /\ PowerOn \/ UNCHANGED <<power, disturbed>>
    BY <1>11 DEF Create, Returns, guest
  <2>2. QED BY <2>1, ReturnKeeps
<1>12. CASE FindFails(j)
  BY <1>12, MoveKeeps DEF Committed, FindFails, Returns, guest, Places
<1>13. CASE Resend(j)
  BY <1>13 DEF Resend, ShutdownSent, ShutdownFails, IInv, Shape, Guarded, Staged, Committed
<1>14. CASE InfoFails(j)
  BY <1>14, MoveKeeps DEF Committed, InfoFails, Returns, guest, Places
<1>15. CASE RollbackFails(j)
  BY <1>15, MoveKeeps DEF Committed, RollbackFails, Returns, guest, Places
<1>16. CASE Delete(j)
  BY <1>16, MoveKeeps DEF Committed, Delete, Returns, guest, Places
<1>17. QED BY <1>1, <1>2, <1>3, <1>4, <1>5, <1>6, <1>7, <1>8, <1>9, <1>10, <1>11,
              <1>12, <1>13, <1>14, <1>15, <1>16 DEF Worker, Advance

(* Every step keeps the invariant. *)
LEMMA NextKeepsIInv == IInv /\ [Next]_vars => IInv'
<1> SUFFICES ASSUME IInv, [Next]_vars PROVE IInv'
  OBVIOUS
<1>1. CASE \E j \in Jobs, r \in Requests : Submit(j, r)
  BY <1>1, SubmitKeeps
<1>2. CASE \E j \in Jobs : Worker(j)
  BY <1>2, WorkerKeeps
<1>3. CASE \E j \in Jobs : Settle(j) \/ TimeOut(j)
  BY <1>3 DEF Settle, TimeOut, guest, IInv, Shape, Guarded, Staged, Committed
<1>4. CASE Poll
  BY <1>4 DEF Poll, guest, IInv, Shape, Guarded, Staged, Committed
<1>5. CASE GuestStops
  BY <1>5, GuestKeeps DEF GuestStops, PowerOff
<1>6. CASE Outside
  BY <1>6, GuestKeeps DEF Outside, PowerOff
<1>7. CASE UNCHANGED vars
  BY <1>7 DEF vars, IInv, Shape, Guarded, Staged, Committed
<1>8. CASE \E j \in Jobs : LateRollback(j)
  BY <1>8 DEF LateRollback, guest, IInv, Shape, Guarded, Staged, Committed
<1>9. QED BY <1>1, <1>2, <1>3, <1>4, <1>5, <1>6, <1>7, <1>8 DEF Next

(* The invariant holds in every reachable state. *)
THEOREM Invariance == SafeSpec => []IInv
BY InitIInv, NextKeepsIInv, PTL DEF SafeSpec

(* No interleaving of any number of jobs - shutdown requests, retries,     *)
(* pauses, bounds, abandoned workers, rollbacks carried out after their    *)
(* call was given up - gets a staged rollback under a guest that was not   *)
(* powered on behind the job's back.                                       *)
THEOREM StagedRollbackHolds == SafeSpec => []RollbackOffUnlessRestarted
<1>1. IInv => RollbackOffUnlessRestarted
  BY DEF IInv, Shape, Guarded, Committed, RollbackOffUnlessRestarted
<1>2. QED BY <1>1, Invariance, PTL

-----------------------------------------------------------------------------
(* The variables have their types. *)

(* The row of phases of job j afterwards; the other rows stay.              *)
Becomes(j, stop, verify, rollback, start) ==
  /\ \A i \in Jobs \ {j} : steps'[i] = steps[i]
  /\ steps'[j]["stop"] = stop /\ steps'[j]["verify"] = verify
  /\ steps'[j]["rollback"] = rollback /\ steps'[j]["start"] = start

StepsTyped == steps \in [Jobs -> [StepNames -> StepStates]]

(* What setStep writes are states of a step.                               *)
LEMMA MarkTyped ==
  ASSUME StepsTyped, NEW j \in Jobs, NEW marks, Mark(j, marks), \A n \in DOMAIN marks : marks[n] \in StepStates
  PROVE  StepsTyped'
<1>1. ASSUME NEW n \in StepNames PROVE (IF n \in DOMAIN marks THEN marks[n] ELSE steps[j][n]) \in StepStates
  BY DEF StepsTyped
<1>2. [n \in StepNames |-> IF n \in DOMAIN marks THEN marks[n] ELSE steps[j][n]] \in [StepNames -> StepStates]
  BY <1>1
<1>. QED
  BY <1>2 DEF StepsTyped, Mark

(* What setStep writes, for the records of steps it is called with.        *)
LEMMA Marked ==
  ASSUME StepsTyped, NEW j \in Jobs, NEW v, NEW w
  PROVE  /\ Mark(j, [stop |-> v]) =>
              Becomes(j, v, steps[j]["verify"], steps[j]["rollback"], steps[j]["start"])
         /\ Mark(j, [verify |-> v]) =>
              Becomes(j, steps[j]["stop"], v, steps[j]["rollback"], steps[j]["start"])
         /\ Mark(j, [rollback |-> v]) =>
              Becomes(j, steps[j]["stop"], steps[j]["verify"], v, steps[j]["start"])
         /\ Mark(j, [start |-> v]) =>
              Becomes(j, steps[j]["stop"], steps[j]["verify"], steps[j]["rollback"], v)
         /\ Mark(j, [stop |-> v, verify |-> w]) =>
              Becomes(j, v, w, steps[j]["rollback"], steps[j]["start"])
         /\ Mark(j, [rollback |-> v, start |-> w]) =>
              Becomes(j, steps[j]["stop"], steps[j]["verify"], v, w)
<1>1. Mark(j, [stop |-> v]) => Becomes(j, v, steps[j]["verify"], steps[j]["rollback"], steps[j]["start"])
  BY DEF StepsTyped, Mark, StepNames, Becomes
<1>2. Mark(j, [verify |-> v]) => Becomes(j, steps[j]["stop"], v, steps[j]["rollback"], steps[j]["start"])
  BY DEF StepsTyped, Mark, StepNames, Becomes
<1>3. Mark(j, [rollback |-> v]) => Becomes(j, steps[j]["stop"], steps[j]["verify"], v, steps[j]["start"])
  BY DEF StepsTyped, Mark, StepNames, Becomes
<1>4. Mark(j, [start |-> v]) => Becomes(j, steps[j]["stop"], steps[j]["verify"], steps[j]["rollback"], v)
  BY DEF StepsTyped, Mark, StepNames, Becomes
<1>5. Mark(j, [stop |-> v, verify |-> w]) => Becomes(j, v, w, steps[j]["rollback"], steps[j]["start"])
  BY DEF StepsTyped, Mark, StepNames, Becomes
<1>6. Mark(j, [rollback |-> v, start |-> w]) => Becomes(j, steps[j]["stop"], steps[j]["verify"], v, w)
  BY DEF StepsTyped, Mark, StepNames, Becomes
<1>. QED
  BY <1>1, <1>2, <1>3, <1>4, <1>5, <1>6

LEMMA StepsForTyped == \A r : StepsFor(r) \in [StepNames -> StepStates]
BY DEF StepsFor, StepStates

LEMMA TypesKept == TypeOK /\ [Next]_vars => TypeOK'
<1>. SUFFICES ASSUME TypeOK, [Next]_vars PROVE TypeOK'
  OBVIOUS
<1>a. ASSUME NEW j \in Jobs, NEW r \in {"ok", "failed", "timeout"}, Returns(j, r)
      PROVE  pc' \in [Jobs -> Places] /\ result' \in [Jobs -> {"", "ok", "failed", "timeout"}]
  BY <1>a DEF TypeOK, Returns, Places
<1>b. ASSUME NEW j \in Jobs, NEW where \in Places, Goes(j, where)
      PROVE  pc' \in [Jobs -> Places] /\ result' \in [Jobs -> {"", "ok", "failed", "timeout"}]
  BY <1>b DEF TypeOK, Goes, Places
<1>c. ASSUME PowerOn \/ PowerOff PROVE power' \in {"running", "paused", "off"} /\ asked' \in BOOLEAN /\ disturbed' \subseteq Jobs
  BY <1>c DEF TypeOK, PowerOn, PowerOff
<1>d. ASSUME ShutdownSent \/ ShutdownFails
      PROVE  power' \in {"running", "paused", "off"} /\ asked' \in BOOLEAN /\ disturbed' \subseteq Jobs
  BY <1>d DEF TypeOK, ShutdownSent, ShutdownFails
<1>f. StepsTyped
  BY DEF TypeOK, StepsTyped
<1>e. ASSUME NEW j \in Jobs, NEW v \in StepStates, NEW w \in StepStates,
             \/ Mark(j, [stop |-> v]) \/ Mark(j, [verify |-> v])
             \/ Mark(j, [rollback |-> v]) \/ Mark(j, [start |-> v])
             \/ Mark(j, [stop |-> v, verify |-> w]) \/ Mark(j, [rollback |-> v, start |-> w])
      PROVE  StepsTyped'
  BY <1>e, <1>f, MarkTyped
<1>1. ASSUME NEW j \in Jobs, NEW r \in Requests, Submit(j, r) PROVE TypeOK'
  BY <1>1, StepsForTyped DEF Submit, TypeOK, guest
<1>2. ASSUME NEW j \in Jobs, FindFails(j) \/ Delete(j) PROVE TypeOK'
  BY <1>2, <1>a DEF FindFails, Delete, TypeOK, guest, Places
<1>3. ASSUME NEW j \in Jobs, CallVerb(j) PROVE TypeOK'
  <2>1. power' \in {"running", "paused", "off"} /\ asked' \in BOOLEAN /\ disturbed' \subseteq Jobs
    BY <1>3, <1>c DEF CallVerb, LibvirtAccepts, guest, TypeOK
  <2>. QED
    BY <1>3, <1>a, <2>1 DEF CallVerb, TypeOK, Places
<1>4. ASSUME NEW j \in Jobs, Shutdown(j) PROVE TypeOK'
  BY <1>4, <1>a, <1>d DEF Shutdown, TypeOK, Places
<1>5. ASSUME NEW j \in Jobs, RebootBegin(j) PROVE TypeOK'
  <2>1. Mark(j, [stop |-> "active"])
    BY <1>5 DEF RebootBegin
  <2>2. steps' \in [Jobs -> [StepNames -> StepStates]]
    BY <1>e, <2>1 DEF StepStates, StepsTyped
  <2>. QED
    BY <1>5, <1>b, <2>2 DEF RebootBegin, TypeOK, guest, Places
<1>6. ASSUME NEW j \in Jobs, StagedBegin(j) PROVE TypeOK'
  <2>1. Mark(j, [stop |-> "skipped", verify |-> "done"]) \/ Mark(j, [stop |-> "active"])
          \/ Mark(j, [verify |-> "failed"])
    BY <1>6 DEF StagedBegin
  <2>2. steps' \in [Jobs -> [StepNames -> StepStates]]
    BY <1>e, <2>1 DEF StepStates, StepsTyped
  <2>. QED
    BY <1>6, <1>a, <1>b, <2>2 DEF StagedBegin, TypeOK, guest, Places
<1>7. ASSUME NEW j \in Jobs, Ask(j) PROVE TypeOK'
  <2>1. Mark(j, [stop |-> "done", verify |-> "active"]) \/ Mark(j, [stop |-> "failed"])
    BY <1>7 DEF Ask
  <2>2. steps' \in [Jobs -> [StepNames -> StepStates]]
    BY <1>e, <2>1 DEF StepStates, StepsTyped
  <2>. QED
    BY <1>7, <1>a, <1>b, <1>d, <2>2 DEF Ask, TypeOK, guest, Places
<1>8. ASSUME NEW j \in Jobs, ConfirmOff(j) PROVE TypeOK'
  <2>1. Mark(j, [verify |-> "done"])
    BY <1>8 DEF ConfirmOff
  <2>2. steps' \in [Jobs -> [StepNames -> StepStates]]
    BY <1>e, <2>1 DEF StepStates, StepsTyped
  <2>. QED
    BY <1>8, <1>b, <2>2 DEF ConfirmOff, TypeOK, guest, Places
<1>17. ASSUME NEW j \in Jobs, GiveUp(j) PROVE TypeOK'
  <2>1. Mark(j, [verify |-> "failed"])
    BY <1>17 DEF GiveUp
  <2>2. steps' \in [Jobs -> [StepNames -> StepStates]]
    BY <1>e, <2>1 DEF StepStates, StepsTyped
  <2>. QED
    BY <1>17, <1>a, <2>2 DEF GiveUp, TypeOK, guest, Places
<1>18. ASSUME NEW j \in Jobs, InfoFails(j) PROVE TypeOK'
  <2>1. Mark(j, [verify |-> "failed"])
    BY <1>18 DEF InfoFails
  <2>2. steps' \in [Jobs -> [StepNames -> StepStates]]
    BY <1>e, <2>1 DEF StepStates, StepsTyped
  <2>. QED
    BY <1>18, <1>a, <2>2 DEF InfoFails, TypeOK, guest, Places
<1>9. ASSUME NEW j \in Jobs, Resend(j) PROVE TypeOK'
  <2>1. Mark(j, [stop |-> "done"])
    BY <1>9 DEF Resend
  <2>2. steps' \in [Jobs -> [StepNames -> StepStates]]
    BY <1>e, <2>1 DEF StepStates, StepsTyped
  <2>. QED
    BY <1>9, <1>d, <2>2 DEF Resend, TypeOK, guest, Places
<1>10. ASSUME NEW j \in Jobs, IssueRollback(j) PROVE TypeOK'
  <2>1. Mark(j, [rollback |-> "active"])
    BY <1>10 DEF IssueRollback
  <2>2. steps' \in [Jobs -> [StepNames -> StepStates]]
    BY <1>e, <2>1 DEF StepStates, StepsTyped
  <2>. QED
    BY <1>10, <1>b, <2>2 DEF IssueRollback, TypeOK, guest, Places
<1>19. ASSUME NEW j \in Jobs, RollbackFails(j) PROVE TypeOK'
  <2>1. Mark(j, [rollback |-> "failed"])
    BY <1>19 DEF RollbackFails
  <2>2. steps' \in [Jobs -> [StepNames -> StepStates]]
    BY <1>e, <2>1 DEF StepStates, StepsTyped
  <2>. QED
    BY <1>19, <1>a, <2>2 DEF RollbackFails, TypeOK, guest, Places
<1>11. ASSUME NEW j \in Jobs, RolledBack(j) PROVE TypeOK'
  <2>1. Mark(j, [rollback |-> "done", start |-> "active"]) \/ Mark(j, [rollback |-> "done"])
    BY <1>11 DEF RolledBack
  <2>2. steps' \in [Jobs -> [StepNames -> StepStates]]
    BY <1>e, <2>1 DEF StepStates, StepsTyped
  <2>. QED
    BY <1>11, <1>a, <1>b, <2>2 DEF RolledBack, TypeOK, guest, Places
<1>20. ASSUME NEW j \in Jobs, RebootStart(j) PROVE TypeOK'
  <2>1. Mark(j, [start |-> "active"])
    BY <1>20 DEF RebootStart
  <2>2. steps' \in [Jobs -> [StepNames -> StepStates]]
    BY <1>e, <2>1 DEF StepStates, StepsTyped
  <2>. QED
    BY <1>20, <1>b, <2>2 DEF RebootStart, TypeOK, guest, Places
<1>12. ASSUME NEW j \in Jobs, Create(j) PROVE TypeOK'
  <2>1. Mark(j, [start |-> "done"]) \/ Mark(j, [start |-> "failed"])
    BY <1>12 DEF Create
  <2>2. steps' \in [Jobs -> [StepNames -> StepStates]]
    BY <1>e, <2>1 DEF StepStates, StepsTyped
  <2>. QED
    BY <1>12, <1>a, <1>c, <2>2 DEF Create, TypeOK, guest, Places
<1>13. ASSUME NEW j \in Jobs, Settle(j) \/ TimeOut(j) \/ LateRollback(j) PROVE TypeOK'
  <2>1. CASE Settle(j)
    BY <2>1 DEF Settle, TypeOK, guest
  <2>2. CASE TimeOut(j)
    <3>1. [n \in StepNames |-> IF steps[j][n] = "active" THEN "failed" ELSE steps[j][n]] \in [StepNames -> StepStates]
      BY DEF TypeOK, StepStates
    <3>2. steps' \in [Jobs -> [StepNames -> StepStates]]
      BY <2>2, <3>1 DEF TimeOut, TypeOK
    <3>. QED
      BY <2>2, <3>2 DEF TimeOut, TypeOK, guest
  <2>3. CASE LateRollback(j)
    BY <2>3 DEF LateRollback, TypeOK, guest
  <2>. QED
    BY <1>13, <2>1, <2>2, <2>3
<1>14. CASE Poll
  <2>1. PolledName \in {"running", "paused", "stopped"}
    BY DEF PolledName, TypeOK
  <2>2. seen' \in [state : {PolledName}, agent : BOOLEAN]
    BY <1>14 DEF Poll
  <2>. QED
    BY <1>14, <2>1, <2>2 DEF Poll, TypeOK, guest
<1>15. CASE GuestStops \/ Outside
  BY <1>15, <1>c DEF GuestStops, Outside, TypeOK
<1>16. CASE UNCHANGED vars
  BY <1>16 DEF vars, TypeOK
<1>. QED
  BY <1>1, <1>2, <1>3, <1>4, <1>5, <1>6, <1>7, <1>8, <1>9, <1>10, <1>11, <1>12, <1>13, <1>14, <1>15, <1>16,
     <1>17, <1>18, <1>19, <1>20 DEF Next, Worker, Advance

(* The variables of the verbs have their types.                            *)
THEOREM Typing == SafeSpec => []TypeOK
<1>1. Init => TypeOK
  <2>. SUFFICES ASSUME Init PROVE TypeOK
    OBVIOUS
  <2>1. seen \in [state : {"running", "paused", "stopped"}, agent : BOOLEAN] /\ power \in {"running", "paused", "off"}
    BY DEF Init, PolledName
  <2>2. steps \in [Jobs -> [StepNames -> StepStates]]
    BY StepsForTyped DEF Init
  <2>. QED
    BY <2>1, <2>2 DEF Init, TypeOK
<1>. QED
  BY <1>1, TypesKept, PTL DEF SafeSpec

-----------------------------------------------------------------------------
(* The pills of a job. *)

(* A phase that was not begun. *)
Fresh(j, n) == steps[j][n] \in {"absent", "pending"}

(* A phase under way: the bound may have marked it failed meanwhile.       *)
Open(j, n) == steps[j][n] = "active" \/ (state[j] = "timeout" /\ steps[j][n] = "failed")

Ladder(j) == req[j].verb = "reboot" \/ Staged(j)
SeenOff(j) == steps[j]["stop"] \in {"done", "skipped"} /\ steps[j]["verify"] = "done"

(* The phases a job does not list are never shown. *)
Listed(j) ==
  /\ ~Ladder(j) => steps[j]["stop"] = "absent" /\ steps[j]["verify"] = "absent" /\ steps[j]["start"] = "absent"
  /\ ~Staged(j) /\ ~Direct(j) => steps[j]["rollback"] = "absent"
  /\ Staged(j) /\ ~req[j].startAfter => steps[j]["start"] = "absent"
  /\ ~Staged(j) => ~req[j].startAfter

(* What the pills of a job are while its worker is somewhere.              *)
Underway(j) ==
  /\ pc[j] = "none" => \A n \in StepNames : steps[j][n] = "absent"
  /\ pc[j] = "find" => \A n \in StepNames : Fresh(j, n)
  /\ pc[j] = "asking" => Ladder(j) /\ Open(j, "stop") /\ Fresh(j, "verify")
  /\ pc[j] = "waiting" => Ladder(j) /\ steps[j]["stop"] = "done" /\ Open(j, "verify")
  /\ pc[j] = "confirmed" => Ladder(j) /\ SeenOff(j)
  /\ pc[j] \in {"asking", "waiting", "confirmed"} => Fresh(j, "rollback") /\ Fresh(j, "start")
  /\ pc[j] = "rollback" => ((Staged(j) /\ SeenOff(j)) \/ Direct(j)) /\ Open(j, "rollback") /\ Fresh(j, "start")
  /\ pc[j] = "create" => /\ Ladder(j) /\ SeenOff(j) /\ Open(j, "start")
                         /\ steps[j]["rollback"] = IF Staged(j) THEN "done" ELSE "absent"

(* And what they are once it has come back.                                *)
Back(j) ==
  /\ result[j] = "ok" => \A n \in StepNames : steps[j][n] \in {"absent", "done", "skipped"}
  /\ result[j] = "failed" => \/ \E n \in StepNames : steps[j][n] = "failed"
                             \/ \A n \in StepNames : Fresh(j, n)
  /\ result[j] = "timeout" => steps[j]["verify"] = "failed" /\ Fresh(j, "rollback") /\ Fresh(j, "start")
  /\ \A n \in StepNames : steps[j][n] # "active"
  /\ Staged(j) /\ ~Fresh(j, "rollback") => SeenOff(j)
  /\ ~Fresh(j, "start") => steps[j]["verify"] = "done" /\ (Staged(j) => steps[j]["rollback"] = "done")

Verdict(j) ==
  /\ pc[j] = "none" => state[j] = ""
  /\ pc[j] \notin {"none", "returned"} => state[j] \in {"running", "timeout"} /\ result[j] = ""
  /\ pc[j] = "returned" => /\ state[j] \in {"running", "timeout", result[j]}
                           /\ result[j] \in {"ok", "failed", "timeout"}

Pills(j) == Listed(j) /\ Underway(j) /\ Verdict(j) /\ (pc[j] = "returned" => Back(j)) /\ (pc[j] = "none" => result[j] = "")
PillsInv == \A j \in Jobs : Pills(j)

(* A record nobody touches stays well.                                     *)
LEMMA RecordStays ==
  ASSUME NEW i \in Jobs, Pills(i),
         req'[i] = req[i], state'[i] = state[i], pc'[i] = pc[i], result'[i] = result[i], steps'[i] = steps[i]
  PROVE  Pills(i)'
<1>1. /\ \A n \in StepNames : (Fresh(i, n)' <=> Fresh(i, n)) /\ (Open(i, n)' <=> Open(i, n))
      /\ SeenOff(i)' <=> SeenOff(i)
      /\ (Ladder(i)' <=> Ladder(i)) /\ (Staged(i)' <=> Staged(i)) /\ (Direct(i)' <=> Direct(i))
  BY DEF Fresh, Open, Ladder, SeenOff, Staged, Direct
<1>2. Listed(i)'
  BY DEF Pills, Listed, Ladder, Staged, Direct
<1>3. Underway(i)'
  BY <1>1 DEF Pills, Underway, StepNames
<1>4. Verdict(i)'
  BY DEF Pills, Verdict
<1>5. pc[i] = "returned" => Back(i)'
  BY <1>1 DEF Pills, Back, StepNames
<1>. QED
  BY <1>2, <1>3, <1>4, <1>5 DEF Pills

(* A step concerns the record of one job.                                  *)
LEMMA OneRecord ==
  ASSUME PillsInv, NEW j \in Jobs, Pills(j)',
         \A i \in Jobs \ {j} : /\ req'[i] = req[i] /\ state'[i] = state[i] /\ pc'[i] = pc[i]
                               /\ result'[i] = result[i] /\ steps'[i] = steps[i]
  PROVE  PillsInv'
<1>1. ASSUME NEW i \in Jobs, i # j PROVE Pills(i)'
  BY <1>1, RecordStays DEF PillsInv
<1>. QED
  BY <1>1 DEF PillsInv

(* A worker that comes back with r. *)
LEMMA ComesBack ==
  ASSUME TypeOK, PillsInv, NEW j \in Jobs, NEW r \in {"ok", "failed", "timeout"}, Returns(j, r),
         UNCHANGED <<req, state>>, pc[j] \notin {"none", "returned"},
         \A i \in Jobs \ {j} : steps'[i] = steps[i],
         Listed(j)', Back(j)'
  PROVE  PillsInv'
<1>1. pc'[j] = "returned" /\ result'[j] = r
  BY DEF TypeOK, Returns
<1>2. \A i \in Jobs \ {j} : pc'[i] = pc[i] /\ result'[i] = result[i]
  BY DEF TypeOK, Returns
<1>3. state[j] \in {"running", "timeout"}
  BY DEF PillsInv, Pills, Verdict
<1>4. Pills(j)'
  BY <1>1, <1>3 DEF Pills, Underway, Verdict
<1>. QED
  BY <1>2, <1>4, OneRecord

(* A worker that goes on.                                                  *)
LEMMA GoesOn ==
  ASSUME TypeOK, PillsInv, NEW j \in Jobs, NEW where \in Places \ {"none", "returned"}, Goes(j, where),
         UNCHANGED <<req, state>>, pc[j] \notin {"none", "returned"},
         \A i \in Jobs \ {j} : steps'[i] = steps[i],
         Listed(j)', Underway(j)'
  PROVE  PillsInv'
<1>1. pc'[j] = where /\ result' = result
  BY DEF TypeOK, Goes
<1>2. \A i \in Jobs \ {j} : pc'[i] = pc[i] /\ result'[i] = result[i]
  BY DEF TypeOK, Goes
<1>3. state[j] \in {"running", "timeout"} /\ result[j] = ""
  BY DEF PillsInv, Pills, Verdict
<1>4. Pills(j)'
  BY <1>1, <1>3 DEF Pills, Verdict
<1>. QED
  BY <1>2, <1>4, OneRecord

LEMMA WorkerKeepsPills ==
  ASSUME TypeOK, PillsInv, RequestsAssumption, NEW j \in Jobs, Worker(j)
  PROVE  PillsInv'
<1>a. StepsTyped /\ req[j] \in AllRequests \cup {NoRequest} /\ StepNames = {"stop", "verify", "rollback", "start"}
  BY DEF TypeOK, StepsTyped, RequestsAssumption, StepNames
<1>b. Listed(j) /\ Underway(j)
  BY DEF PillsInv, Pills
<1>c. ASSUME UNCHANGED <<req, state, steps>>, NEW r \in {"ok", "failed"}, Returns(j, r), pc[j] = "find",
             r = "ok" => ~Ladder(j) /\ ~Direct(j)
      PROVE  PillsInv'
  <2>1. Listed(j)'
    BY <1>b, <1>c DEF Listed, Ladder, Staged, Direct
  <2>2. result'[j] = r
    BY <1>c DEF Returns, TypeOK
  <2>3. \A n \in StepNames : Fresh(j, n)' /\ steps'[j][n] # "active" /\ (r = "ok" => steps'[j][n] = "absent")
    BY <1>a, <1>b, <1>c DEF Listed, Underway, Fresh, Ladder
  <2>4. Back(j)'
    BY <1>a, <1>c, <2>2, <2>3 DEF Back
  <2>. QED
    BY <1>c, <2>1, <2>4, ComesBack
<1>1. CASE CallVerb(j) \/ FindFails(j) \/ Delete(j)
  <2>1. UNCHANGED <<req, state, steps>> /\ pc[j] = "find"
    BY <1>1 DEF CallVerb, FindFails, Delete
  <2>2. Returns(j, "failed") \/ (Returns(j, "ok") /\ ~Ladder(j) /\ ~Direct(j))
    BY <1>1 DEF CallVerb, FindFails, Delete, CallVerbs, Ladder, Staged, Direct
  <2>. QED
    BY <1>c, <2>1, <2>2
<1>2. CASE Shutdown(j)
  <2>1. UNCHANGED <<req, state, steps>> /\ pc[j] = "find" /\ ~Ladder(j) /\ ~Direct(j)
    BY <1>2 DEF Shutdown, Ladder, Staged, Direct
  <2>2. Returns(j, "failed") \/ Returns(j, "ok")
    BY <1>2 DEF Shutdown
  <2>. QED
    BY <1>c, <2>1, <2>2
<1>3. CASE RebootBegin(j)
  <2>1. Becomes(j, "active", steps[j]["verify"], steps[j]["rollback"], steps[j]["start"])
    BY <1>3, <1>a, Marked DEF RebootBegin
  <2>2. Goes(j, "asking") /\ pc[j] = "find" /\ UNCHANGED <<req, state>> /\ Ladder(j)
    BY <1>3 DEF RebootBegin, Ladder
  <2>3. pc'[j] = "asking"
    BY <2>2 DEF Goes, TypeOK
  <2>4. Listed(j)'
    BY <1>a, <1>b, <2>1, <2>2 DEF Becomes, Listed, Underway, Fresh, Open, Ladder, SeenOff, Staged, Direct
  <2>5. Underway(j)'
    BY <1>a, <1>b, <2>1, <2>2, <2>3 DEF Becomes, Listed, Underway, Fresh, Open, Ladder, SeenOff, Staged, Direct
  <2>. QED
    BY <2>1, <2>2, <2>4, <2>5, GoesOn DEF Becomes, Places
<1>4. CASE StagedBegin(j)
  <2>1. CASE Mark(j, [stop |-> "skipped", verify |-> "done"]) /\ Goes(j, "confirmed")
    <3>1. Becomes(j, "skipped", "done", steps[j]["rollback"], steps[j]["start"])
      BY <1>4, <2>1, <1>a, Marked DEF StagedBegin
    <3>2. Goes(j, "confirmed") /\ pc[j] = "find" /\ UNCHANGED <<req, state>> /\ Staged(j)
      BY <1>4, <2>1 DEF StagedBegin, Ladder
    <3>3. pc'[j] = "confirmed"
      BY <3>2 DEF Goes, TypeOK
    <3>4. Listed(j)'
      BY <1>a, <1>b, <3>1, <3>2 DEF Becomes, Listed, Underway, Fresh, Open, Ladder, SeenOff, Staged, Direct
    <3>5. Underway(j)'
      BY <1>a, <1>b, <3>1, <3>2, <3>3 DEF Becomes, Listed, Underway, Fresh, Open, Ladder, SeenOff, Staged, Direct
    <3>. QED
      BY <3>1, <3>2, <3>4, <3>5, GoesOn DEF Becomes, Places
  <2>2. CASE Mark(j, [stop |-> "active"]) /\ Goes(j, "asking")
    <3>1. Becomes(j, "active", steps[j]["verify"], steps[j]["rollback"], steps[j]["start"])
      BY <1>4, <2>2, <1>a, Marked DEF StagedBegin
    <3>2. Goes(j, "asking") /\ pc[j] = "find" /\ UNCHANGED <<req, state>> /\ Staged(j)
      BY <1>4, <2>2 DEF StagedBegin, Ladder
    <3>3. pc'[j] = "asking"
      BY <3>2 DEF Goes, TypeOK
    <3>4. Listed(j)'
      BY <1>a, <1>b, <3>1, <3>2 DEF Becomes, Listed, Underway, Fresh, Open, Ladder, SeenOff, Staged, Direct
    <3>5. Underway(j)'
      BY <1>a, <1>b, <3>1, <3>2, <3>3 DEF Becomes, Listed, Underway, Fresh, Open, Ladder, SeenOff, Staged, Direct
    <3>. QED
      BY <3>1, <3>2, <3>4, <3>5, GoesOn DEF Becomes, Places
  <2>3. CASE Mark(j, [verify |-> "failed"]) /\ Returns(j, "failed")
    <3>1. Becomes(j, steps[j]["stop"], "failed", steps[j]["rollback"], steps[j]["start"])
      BY <1>4, <2>3, <1>a, Marked DEF StagedBegin
    <3>2. Returns(j, "failed") /\ pc[j] = "find" /\ UNCHANGED <<req, state>> /\ Staged(j)
      BY <1>4, <2>3 DEF StagedBegin, Ladder
    <3>3. result'[j] = "failed"
      BY <3>2 DEF Returns, TypeOK
    <3>4. Listed(j)'
      BY <1>a, <1>b, <3>1, <3>2 DEF Becomes, Listed, Underway, Fresh, Open, Ladder, SeenOff, Staged, Direct
    <3>5. Back(j)'
      BY <1>a, <1>b, <3>1, <3>2, <3>3 DEF Back, Becomes, Listed, Underway, Fresh, Open, Ladder, SeenOff, Staged, Direct
    <3>. QED
      BY <3>1, <3>2, <3>4, <3>5, ComesBack DEF Becomes
  <2>. QED
    BY <1>4, <2>1, <2>2, <2>3 DEF StagedBegin
<1>5. CASE Ask(j)
  <2>1. CASE Mark(j, [stop |-> "done", verify |-> "active"]) /\ Goes(j, "waiting")
    <3>1. Becomes(j, "done", "active", steps[j]["rollback"], steps[j]["start"])
      BY <1>5, <2>1, <1>a, Marked DEF Ask
    <3>2. Goes(j, "waiting") /\ pc[j] = "asking" /\ UNCHANGED <<req, state>>
      BY <1>5, <2>1 DEF Ask, Ladder
    <3>3. pc'[j] = "waiting"
      BY <3>2 DEF Goes, TypeOK
    <3>4. Listed(j)'
      BY <1>a, <1>b, <3>1, <3>2 DEF Becomes, Listed, Underway, Fresh, Open, Ladder, SeenOff, Staged, Direct
    <3>5. Underway(j)'
      BY <1>a, <1>b, <3>1, <3>2, <3>3 DEF Becomes, Listed, Underway, Fresh, Open, Ladder, SeenOff, Staged, Direct
    <3>. QED
      BY <3>1, <3>2, <3>4, <3>5, GoesOn DEF Becomes, Places
  <2>2. CASE Mark(j, [stop |-> "failed"]) /\ Returns(j, "failed")
    <3>1. Becomes(j, "failed", steps[j]["verify"], steps[j]["rollback"], steps[j]["start"])
      BY <1>5, <2>2, <1>a, Marked DEF Ask
    <3>2. Returns(j, "failed") /\ pc[j] = "asking" /\ UNCHANGED <<req, state>>
      BY <1>5, <2>2 DEF Ask, Ladder
    <3>3. result'[j] = "failed"
      BY <3>2 DEF Returns, TypeOK
    <3>4. Listed(j)'
      BY <1>a, <1>b, <3>1, <3>2 DEF Becomes, Listed, Underway, Fresh, Open, Ladder, SeenOff, Staged, Direct
    <3>5. Back(j)'
      BY <1>a, <1>b, <3>1, <3>2, <3>3 DEF Back, Becomes, Listed, Underway, Fresh, Open, Ladder, SeenOff, Staged, Direct
    <3>. QED
      BY <3>1, <3>2, <3>4, <3>5, ComesBack DEF Becomes
  <2>. QED
    BY <1>5, <2>1, <2>2 DEF Ask
<1>6. CASE ConfirmOff(j)
  <2>1. Becomes(j, steps[j]["stop"], "done", steps[j]["rollback"], steps[j]["start"])
    BY <1>6, <1>a, Marked DEF ConfirmOff
  <2>2. Goes(j, "confirmed") /\ pc[j] = "waiting" /\ UNCHANGED <<req, state>>
    BY <1>6 DEF ConfirmOff, Ladder
  <2>3. pc'[j] = "confirmed"
    BY <2>2 DEF Goes, TypeOK
  <2>4. Listed(j)'
    BY <1>a, <1>b, <2>1, <2>2 DEF Becomes, Listed, Underway, Fresh, Open, Ladder, SeenOff, Staged, Direct
  <2>5. Underway(j)'
    BY <1>a, <1>b, <2>1, <2>2, <2>3 DEF Becomes, Listed, Underway, Fresh, Open, Ladder, SeenOff, Staged, Direct
  <2>. QED
    BY <2>1, <2>2, <2>4, <2>5, GoesOn DEF Becomes, Places
<1>7. CASE GiveUp(j)
  <2>1. Becomes(j, steps[j]["stop"], "failed", steps[j]["rollback"], steps[j]["start"])
    BY <1>7, <1>a, Marked DEF GiveUp
  <2>2. Returns(j, "timeout") /\ pc[j] = "waiting" /\ UNCHANGED <<req, state>>
    BY <1>7 DEF GiveUp, Ladder
  <2>3. result'[j] = "timeout"
    BY <2>2 DEF Returns, TypeOK
  <2>4. Listed(j)'
    BY <1>a, <1>b, <2>1, <2>2 DEF Becomes, Listed, Underway, Fresh, Open, Ladder, SeenOff, Staged, Direct
  <2>5. Back(j)'
    BY <1>a, <1>b, <2>1, <2>2, <2>3 DEF Back, Becomes, Listed, Underway, Fresh, Open, Ladder, SeenOff, Staged, Direct
  <2>. QED
    BY <2>1, <2>2, <2>4, <2>5, ComesBack DEF Becomes
<1>8. CASE InfoFails(j)
  <2>1. Becomes(j, steps[j]["stop"], "failed", steps[j]["rollback"], steps[j]["start"])
    BY <1>8, <1>a, Marked DEF InfoFails
  <2>2. Returns(j, "failed") /\ pc[j] = "waiting" /\ UNCHANGED <<req, state>>
    BY <1>8 DEF InfoFails, Ladder
  <2>3. result'[j] = "failed"
    BY <2>2 DEF Returns, TypeOK
  <2>4. Listed(j)'
    BY <1>a, <1>b, <2>1, <2>2 DEF Becomes, Listed, Underway, Fresh, Open, Ladder, SeenOff, Staged, Direct
  <2>5. Back(j)'
    BY <1>a, <1>b, <2>1, <2>2, <2>3 DEF Back, Becomes, Listed, Underway, Fresh, Open, Ladder, SeenOff, Staged, Direct
  <2>. QED
    BY <2>1, <2>2, <2>4, <2>5, ComesBack DEF Becomes
<1>9. CASE Resend(j)
  <2>1. Becomes(j, "done", steps[j]["verify"], steps[j]["rollback"], steps[j]["start"])
    BY <1>9, <1>a, Marked DEF Resend
  <2>2. pc[j] = "waiting" /\ UNCHANGED <<req, state, pc, result>>
    BY <1>9 DEF Resend
  <2>3. steps'[j]["stop"] = steps[j]["stop"]
    BY <1>b, <2>1, <2>2 DEF Becomes, Underway
  <2>4. Listed(j)' /\ Underway(j)'
    BY <1>a, <1>b, <2>1, <2>2, <2>3 DEF Becomes, Listed, Underway, Fresh, Open, Ladder, SeenOff, Staged, Direct
  <2>5. Pills(j)'
    BY <2>2, <2>4 DEF PillsInv, Pills, Verdict
  <2>. QED
    BY <2>1, <2>2, <2>5, OneRecord DEF Becomes
<1>10. CASE IssueRollback(j)
  <2>1. Becomes(j, steps[j]["stop"], steps[j]["verify"], "active", steps[j]["start"])
    BY <1>10, <1>a, Marked DEF IssueRollback
  <2>2. /\ Goes(j, "rollback") /\ UNCHANGED <<req, state>>
        /\ (Staged(j) /\ pc[j] = "confirmed") \/ (Direct(j) /\ pc[j] = "find")
    BY <1>10 DEF IssueRollback
  <2>3. pc'[j] = "rollback"
    BY <2>2 DEF Goes, TypeOK, IssueRollback
  <2>4. Listed(j)'
    BY <1>a, <1>b, <2>1, <2>2 DEF Becomes, Listed, Underway, Fresh, Open, Ladder, SeenOff, Staged, Direct
  <2>5. Underway(j)'
    BY <1>a, <1>b, <2>1, <2>2, <2>3 DEF Becomes, Listed, Underway, Fresh, Open, Ladder, SeenOff, Staged, Direct
  <2>. QED
    BY <2>1, <2>2, <2>4, <2>5, GoesOn DEF Becomes, Places
<1>11. CASE RollbackFails(j)
  <2>1. Becomes(j, steps[j]["stop"], steps[j]["verify"], "failed", steps[j]["start"])
    BY <1>11, <1>a, Marked DEF RollbackFails
  <2>2. Returns(j, "failed") /\ pc[j] = "rollback" /\ UNCHANGED <<req, state>>
    BY <1>11 DEF RollbackFails, Ladder
  <2>3. result'[j] = "failed"
    BY <2>2 DEF Returns, TypeOK
  <2>4. Listed(j)'
    BY <1>a, <1>b, <2>1, <2>2 DEF Becomes, Listed, Underway, Fresh, Open, Ladder, SeenOff, Staged, Direct
  <2>5. Back(j)'
    BY <1>a, <1>b, <2>1, <2>2, <2>3 DEF Back, Becomes, Listed, Underway, Fresh, Open, Ladder, SeenOff, Staged, Direct
  <2>. QED
    BY <2>1, <2>2, <2>4, <2>5, ComesBack DEF Becomes
<1>12. CASE RolledBack(j)
  <2>1. CASE req[j].startAfter
    <3>1. Becomes(j, steps[j]["stop"], steps[j]["verify"], "done", "active")
      BY <1>12, <2>1, <1>a, Marked DEF RolledBack
    <3>2. Goes(j, "create") /\ pc[j] = "rollback" /\ UNCHANGED <<req, state>> /\ req[j].startAfter
      BY <1>12, <2>1 DEF RolledBack, Ladder
    <3>3. pc'[j] = "create"
      BY <3>2 DEF Goes, TypeOK
    <3>4. Listed(j)'
      BY <1>a, <1>b, <3>1, <3>2 DEF Becomes, Listed, Underway, Fresh, Open, Ladder, SeenOff, Staged, Direct
    <3>5. Underway(j)'
      BY <1>a, <1>b, <3>1, <3>2, <3>3 DEF Becomes, Listed, Underway, Fresh, Open, Ladder, SeenOff, Staged, Direct
    <3>. QED
      BY <3>1, <3>2, <3>4, <3>5, GoesOn DEF Becomes, Places
  <2>2. CASE ~req[j].startAfter
    <3>1. Becomes(j, steps[j]["stop"], steps[j]["verify"], "done", steps[j]["start"])
      BY <1>12, <2>2, <1>a, Marked DEF RolledBack
    <3>2. Returns(j, "ok") /\ pc[j] = "rollback" /\ UNCHANGED <<req, state>> /\ ~req[j].startAfter
      BY <1>12, <2>2 DEF RolledBack, Ladder
    <3>3. result'[j] = "ok"
      BY <3>2 DEF Returns, TypeOK
    <3>4. Listed(j)'
      BY <1>a, <1>b, <3>1, <3>2 DEF Becomes, Listed, Underway, Fresh, Open, Ladder, SeenOff, Staged, Direct
    <3>5. Back(j)'
      BY <1>a, <1>b, <3>1, <3>2, <3>3 DEF Back, Becomes, Listed, Underway, Fresh, Open, Ladder, SeenOff, Staged, Direct
    <3>. QED
      BY <3>1, <3>2, <3>4, <3>5, ComesBack DEF Becomes
  <2>. QED
    BY <1>12, <2>1, <2>2 DEF RolledBack
<1>13. CASE RebootStart(j)
  <2>1. Becomes(j, steps[j]["stop"], steps[j]["verify"], steps[j]["rollback"], "active")
    BY <1>13, <1>a, Marked DEF RebootStart
  <2>2. Goes(j, "create") /\ pc[j] = "confirmed" /\ UNCHANGED <<req, state>> /\ req[j].verb = "reboot"
    BY <1>13 DEF RebootStart, Ladder
  <2>3. pc'[j] = "create"
    BY <2>2 DEF Goes, TypeOK
  <2>4. Listed(j)'
    BY <1>a, <1>b, <2>1, <2>2 DEF Becomes, Listed, Underway, Fresh, Open, Ladder, SeenOff, Staged, Direct
  <2>5. Underway(j)'
    BY <1>a, <1>b, <2>1, <2>2, <2>3 DEF Becomes, Listed, Underway, Fresh, Open, Ladder, SeenOff, Staged, Direct
  <2>. QED
    BY <2>1, <2>2, <2>4, <2>5, GoesOn DEF Becomes, Places
<1>14. CASE Create(j)
  <2>1. CASE Mark(j, [start |-> "done"]) /\ Returns(j, "ok")
    <3>1. Becomes(j, steps[j]["stop"], steps[j]["verify"], steps[j]["rollback"], "done")
      BY <1>14, <2>1, <1>a, Marked DEF Create
    <3>2. Returns(j, "ok") /\ pc[j] = "create" /\ UNCHANGED <<req, state>>
      BY <1>14, <2>1 DEF Create, Ladder
    <3>3. result'[j] = "ok"
      BY <3>2 DEF Returns, TypeOK
    <3>4. Listed(j)'
      BY <1>a, <1>b, <3>1, <3>2 DEF Becomes, Listed, Underway, Fresh, Open, Ladder, SeenOff, Staged, Direct
    <3>5. Back(j)'
      BY <1>a, <1>b, <3>1, <3>2, <3>3 DEF Back, Becomes, Listed, Underway, Fresh, Open, Ladder, SeenOff, Staged, Direct
    <3>. QED
      BY <3>1, <3>2, <3>4, <3>5, ComesBack DEF Becomes
  <2>2. CASE Mark(j, [start |-> "failed"]) /\ Returns(j, "failed")
    <3>1. Becomes(j, steps[j]["stop"], steps[j]["verify"], steps[j]["rollback"], "failed")
      BY <1>14, <2>2, <1>a, Marked DEF Create
    <3>2. Returns(j, "failed") /\ pc[j] = "create" /\ UNCHANGED <<req, state>>
      BY <1>14, <2>2 DEF Create, Ladder
    <3>3. result'[j] = "failed"
      BY <3>2 DEF Returns, TypeOK
    <3>4. Listed(j)'
      BY <1>a, <1>b, <3>1, <3>2 DEF Becomes, Listed, Underway, Fresh, Open, Ladder, SeenOff, Staged, Direct
    <3>5. Back(j)'
      BY <1>a, <1>b, <3>1, <3>2, <3>3 DEF Back, Becomes, Listed, Underway, Fresh, Open, Ladder, SeenOff, Staged, Direct
    <3>. QED
      BY <3>1, <3>2, <3>4, <3>5, ComesBack DEF Becomes
  <2>. QED
    BY <1>14, <2>1, <2>2 DEF Create
<1>. QED
  BY <1>1, <1>2, <1>3, <1>4, <1>5, <1>6, <1>7, <1>8, <1>9, <1>10, <1>11, <1>12, <1>13, <1>14
     DEF Worker, Advance

(* The phases stepsFor lists, by what was asked for.                       *)
LEMMA StepsForListed ==
  ASSUME NEW r \in AllRequests \cup {NoRequest}, NEW n \in StepNames
  PROVE  /\ StepsFor(r)[n] \in {"absent", "pending"}
         /\ r.verb \notin {"reboot", "restore"} => StepsFor(r)[n] = "absent"
         /\ r.verb = "reboot" /\ n = "rollback" => StepsFor(r)[n] = "absent"
         /\ r.verb = "restore" /\ r.mode = "direct" /\ n # "rollback" => StepsFor(r)[n] = "absent"
         /\ r.verb = "restore" /\ r.mode = "staged" /\ ~r.startAfter /\ n = "start" => StepsFor(r)[n] = "absent"
         /\ ~(r.verb = "restore" /\ r.mode = "staged") => ~r.startAfter
         /\ r.verb = "restore" => r.mode \in {"staged", "direct"}
<1>0. \/ \E v \in CallVerbs \cup {"shutdown", "reboot", "delete", ""} : r = Request(v, "", FALSE, FALSE)
      \/ \E again \in BOOLEAN : r = Request("restore", "staged", again, FALSE)
      \/ \E ack \in BOOLEAN : r = Request("restore", "direct", FALSE, ack)
  BY DEF AllRequests, NoRequest
<1>1. CASE \E v \in CallVerbs \cup {"shutdown", "reboot", "delete", ""} : r = Request(v, "", FALSE, FALSE)
  <2>1. PICK v \in CallVerbs \cup {"shutdown", "reboot", "delete", ""} : r = Request(v, "", FALSE, FALSE)
    BY <1>1
  <2>2. r.verb = v /\ r.mode = "" /\ r.startAfter = FALSE
    BY <2>1 DEF Request
  <2>3. v # "restore"
    BY <2>1 DEF CallVerbs
  <2>. QED
    BY <2>2, <2>3 DEF StepsFor, StepNames
<1>2. CASE \E again \in BOOLEAN : r = Request("restore", "staged", again, FALSE)
  <2>1. PICK again \in BOOLEAN : r = Request("restore", "staged", again, FALSE)
    BY <1>2
  <2>2. r.verb = "restore" /\ r.mode = "staged" /\ r.startAfter = again
    BY <2>1 DEF Request
  <2>. QED
    BY <2>2 DEF StepsFor, StepNames
<1>3. CASE \E ack \in BOOLEAN : r = Request("restore", "direct", FALSE, ack)
  <2>1. r.verb = "restore" /\ r.mode = "direct" /\ r.startAfter = FALSE
    BY <1>3 DEF Request
  <2>. QED
    BY <2>1 DEF StepsFor, StepNames
<1>. QED
  BY <1>0, <1>1, <1>2, <1>3

LEMMA SubmitKeepsPills ==
  ASSUME TypeOK, PillsInv, RequestsAssumption, NEW j \in Jobs, NEW r \in Requests, Submit(j, r)
  PROVE  PillsInv'
<1>1. /\ req'[j] = r /\ state'[j] = "running" /\ pc'[j] = "find" /\ result'[j] = ""
      /\ steps'[j] = StepsFor(r) /\ r \in AllRequests
  BY DEF Submit, TypeOK, PillsInv, Pills, RequestsAssumption
<1>d. r \in AllRequests \cup {NoRequest} /\ StepNames = {"stop", "verify", "rollback", "start"}
  BY <1>1 DEF StepNames
<1>a. /\ r.verb \notin {"reboot", "restore"} => \A n \in StepNames : steps'[j][n] = "absent"
      /\ r.verb = "reboot" => steps'[j]["rollback"] = "absent"
      /\ r.verb = "restore" /\ r.mode = "direct" => \A n \in StepNames \ {"rollback"} : steps'[j][n] = "absent"
      /\ r.verb = "restore" /\ r.mode = "staged" /\ ~r.startAfter => steps'[j]["start"] = "absent"
  <2>1. ASSUME NEW n \in StepNames
        PROVE  /\ r.verb \notin {"reboot", "restore"} => StepsFor(r)[n] = "absent"
               /\ r.verb = "reboot" /\ n = "rollback" => StepsFor(r)[n] = "absent"
               /\ r.verb = "restore" /\ r.mode = "direct" /\ n # "rollback" => StepsFor(r)[n] = "absent"
               /\ r.verb = "restore" /\ r.mode = "staged" /\ ~r.startAfter /\ n = "start" => StepsFor(r)[n] = "absent"
    BY <1>d, StepsForListed
  <2>. QED
    BY <1>1, <1>d, <2>1
<1>b. /\ ~(r.verb = "restore" /\ r.mode = "staged") => ~r.startAfter
      /\ r.verb = "restore" => r.mode \in {"staged", "direct"}
  BY <1>d, StepsForListed
<1>2. Listed(j)'
  BY <1>1, <1>a, <1>b DEF Listed, Ladder, Staged, Direct, StepNames
<1>c. \A n \in StepNames : Fresh(j, n)'
  BY <1>1, StepsForListed DEF Fresh
<1>3. Pills(j)'
  BY <1>1, <1>2, <1>c DEF Pills, Underway, Verdict
<1>4. \A i \in Jobs \ {j} : /\ req'[i] = req[i] /\ state'[i] = state[i] /\ pc'[i] = pc[i]
                            /\ result'[i] = result[i] /\ steps'[i] = steps[i]
  BY DEF Submit, TypeOK
<1>. QED
  BY <1>3, <1>4, OneRecord

LEMMA RunnerKeepsPills ==
  ASSUME TypeOK, PillsInv, NEW j \in Jobs, Settle(j) \/ TimeOut(j)
  PROVE  PillsInv'
<1>a. Pills(j) /\ UNCHANGED <<req, pc, result>>
  BY DEF PillsInv, Settle, TimeOut
<1>1. CASE Settle(j)
  <2>1. state'[j] = result[j] /\ pc[j] = "returned" /\ steps' = steps
    BY <1>1 DEF Settle, TypeOK
  <2>2. Listed(j)' /\ Back(j)'
    BY <1>a, <2>1 DEF Pills, Listed, Back, Ladder, Staged, Direct, Fresh, SeenOff
  <2>3. Pills(j)'
    BY <1>a, <2>1, <2>2 DEF Pills, Underway, Verdict
  <2>4. \A i \in Jobs \ {j} : state'[i] = state[i]
    BY <1>1 DEF Settle, TypeOK
  <2>. QED
    BY <1>a, <2>1, <2>3, <2>4, OneRecord
<1>2. CASE TimeOut(j)
  <2>1. /\ state'[j] = "timeout" /\ state[j] = "running"
        /\ \A n \in StepNames : steps'[j][n] = IF steps[j][n] = "active" THEN "failed" ELSE steps[j][n]
    BY <1>2 DEF TimeOut, Live, TypeOK
  <2>2. ASSUME NEW n \in StepNames
        PROVE  /\ Fresh(j, n) => Fresh(j, n)'
               /\ steps[j][n] \in {"absent", "done", "skipped"} => steps'[j][n] = steps[j][n]
    BY <2>1 DEF Fresh
  <2>a. Listed(j) /\ Underway(j) /\ req' = req /\ pc' = pc
    BY <1>a DEF Pills
  <2>b. /\ steps[j]["stop"] \in {"absent", "done", "skipped"} => steps'[j]["stop"] = steps[j]["stop"]
        /\ steps[j]["verify"] \in {"absent", "done", "failed"} => steps'[j]["verify"] = steps[j]["verify"]
        /\ steps[j]["rollback"] \in {"absent", "done"} => steps'[j]["rollback"] = steps[j]["rollback"]
        /\ steps[j]["start"] = "absent" => steps'[j]["start"] = "absent"
    BY <2>1 DEF StepNames
  <2>d. /\ Fresh(j, "stop")' <=> Fresh(j, "stop")
        /\ Fresh(j, "verify")' <=> Fresh(j, "verify")
        /\ Fresh(j, "rollback")' <=> Fresh(j, "rollback")
        /\ Fresh(j, "start")' <=> Fresh(j, "start")
        /\ Open(j, "stop") => Open(j, "stop")'
        /\ Open(j, "verify") => Open(j, "verify")'
        /\ Open(j, "rollback") => Open(j, "rollback")'
        /\ Open(j, "start") => Open(j, "start")'
    BY <2>1 DEF Fresh, Open, StepNames
  <2>c. (Ladder(j)' <=> Ladder(j)) /\ (Staged(j)' <=> Staged(j)) /\ (Direct(j)' <=> Direct(j))
    BY <2>a DEF Ladder, Staged, Direct
  <2>3. SeenOff(j) => SeenOff(j)'
    BY <2>b DEF SeenOff
  <2>4. Listed(j)'
    BY <2>a, <2>b, <2>c DEF Listed
  <2>5. Underway(j)'
    <3>1. /\ pc[j] = "none" => \A n \in StepNames : steps'[j][n] = "absent"
          /\ pc[j] = "find" => \A n \in StepNames : Fresh(j, n)'
      <4>1. CASE pc[j] = "none"
        BY <2>a, <2>2, <4>1 DEF Underway
      <4>2. CASE pc[j] = "find"
        <5>1. \A n \in StepNames : Fresh(j, n)
          BY <2>a, <4>2 DEF Underway
        <5>. QED
          BY <2>2, <4>2, <5>1
      <4>. QED
        BY <4>1, <4>2
    <3>2. /\ pc[j] = "asking" => Ladder(j)' /\ Open(j, "stop")' /\ Fresh(j, "verify")'
          /\ pc[j] = "waiting" => Ladder(j)' /\ steps'[j]["stop"] = "done" /\ Open(j, "verify")'
          /\ pc[j] = "confirmed" => Ladder(j)' /\ SeenOff(j)'
      BY <2>a, <2>b, <2>c, <2>d, <2>3 DEF Underway
    <3>3. pc[j] \in {"asking", "waiting", "confirmed"} => Fresh(j, "rollback")' /\ Fresh(j, "start")'
      BY <2>a, <2>d DEF Underway
    <3>4. pc[j] = "rollback" => /\ (Staged(j)' /\ SeenOff(j)') \/ Direct(j)'
                                /\ Open(j, "rollback")' /\ Fresh(j, "start")'
      BY <2>a, <2>c, <2>d, <2>3 DEF Underway
    <3>5. pc[j] = "create" => /\ Ladder(j)' /\ SeenOff(j)' /\ Open(j, "start")'
                              /\ steps'[j]["rollback"] = IF Staged(j)' THEN "done" ELSE "absent"
      BY <2>a, <2>b, <2>c, <2>d, <2>3 DEF Underway
    <3>. QED
      BY <2>a, <3>1, <3>2, <3>3, <3>4, <3>5 DEF Underway
  <2>6. pc[j] = "returned" => Back(j)'
    <3>1. pc[j] = "returned" => \A n \in StepNames : steps'[j][n] = steps[j][n]
      BY <1>a, <2>1 DEF Pills, Back
    <3>2. /\ (\A n \in StepNames : steps[j][n] \in {"absent", "done", "skipped"})
             => \A n \in StepNames : steps'[j][n] \in {"absent", "done", "skipped"}
          /\ (\A n \in StepNames : Fresh(j, n)) => \A n \in StepNames : Fresh(j, n)'
      BY <2>2
    <3>3. pc[j] = "returned" => \A n \in StepNames : steps'[j][n] # "active"
      BY <1>a, <3>1 DEF Pills, Back
    <3>4. pc[j] = "returned" /\ (\E n \in StepNames : steps[j][n] = "failed")
            => \E n \in StepNames : steps'[j][n] = "failed"
      BY <3>1
    <3>. QED
      BY <1>a, <2>b, <2>3, <2>c, <2>d, <3>2, <3>3, <3>4 DEF Pills, Back
  <2>7. Verdict(j)'
    BY <1>a, <2>1 DEF Pills, Verdict
  <2>8. \A i \in Jobs \ {j} : state'[i] = state[i] /\ steps'[i] = steps[i]
    BY <1>2 DEF TimeOut, TypeOK
  <2>. QED
    BY <1>a, <2>4, <2>5, <2>6, <2>7, <2>8, OneRecord DEF Pills
<1>. QED
  BY <1>1, <1>2

LEMMA NextKeepsPills == TypeOK /\ PillsInv /\ [Next]_vars => PillsInv'
<1>. SUFFICES ASSUME TypeOK, PillsInv, [Next]_vars PROVE PillsInv'
  OBVIOUS
<1>1. ASSUME UNCHANGED <<req, state, pc, result, steps>> PROVE PillsInv'
  <2>1. ASSUME NEW j \in Jobs PROVE Pills(j)'
    <3>1. Pills(j)
      BY DEF PillsInv
    <3>. QED
      BY <1>1, <3>1, RecordStays
  <2>. QED
    BY <2>1 DEF PillsInv
<1>2. CASE \E j \in Jobs : LateRollback(j)
  BY <1>1, <1>2 DEF LateRollback
<1>3. CASE Poll \/ GuestStops \/ Outside \/ UNCHANGED vars
  BY <1>1, <1>3 DEF Poll, GuestStops, Outside, vars
<1>. QED
  BY <1>2, <1>3, SubmitKeepsPills, WorkerKeepsPills, RunnerKeepsPills, RequestsAssumption DEF Next

LEMMA InitPills == Init => PillsInv
<1>. SUFFICES ASSUME Init, NEW j \in Jobs PROVE Pills(j)
  BY DEF PillsInv
<1>1. req[j] = NoRequest /\ state[j] = "" /\ pc[j] = "none" /\ result[j] = "" /\ steps[j] = StepsFor(NoRequest)
  BY DEF Init
<1>2. \A n \in StepNames : steps[j][n] = "absent"
  <2>1. NoRequest.verb = ""
    BY DEF NoRequest, Request
  <2>. QED
    BY <1>1, <2>1 DEF StepsFor, NoRequest, Request
<1>3. NoRequest.verb = "" /\ ~NoRequest.startAfter
  BY DEF NoRequest, Request
<1>. QED
  BY <1>1, <1>2, <1>3 DEF Pills, Listed, Underway, Verdict, Ladder, Staged, Direct, StepNames

LEMMA PillsHold == SafeSpec => []PillsInv
BY InitPills, NextKeepsPills, Typing, PTL DEF SafeSpec

(* The pills tell the phases in order, also those of a job whose bound     *)
(* fired and whose worker goes on.                                         *)
THEOREM PillsInOrder == SafeSpec => []PhasesInOrder
<1>1. ASSUME TypeOK, PillsInv, NEW j \in Jobs
      PROVE  /\ ~Fresh(j, "rollback") /\ Staged(j) => SeenOff(j)
             /\ ~Fresh(j, "start") => steps[j]["verify"] = "done" /\ (Staged(j) => steps[j]["rollback"] = "done")
             /\ \E m \in StepNames : \A n \in StepNames : steps[j][n] = "active" => n = m
  <2>1. Pills(j)
    BY <1>1 DEF PillsInv
  <2>2. pc[j] \in {"none", "find"} => \A n \in StepNames : Fresh(j, n)
    BY <2>1 DEF Pills, Underway, Fresh
  <2>3. pc[j] \in Places
    BY <1>1 DEF TypeOK, Places
  <2>a. Listed(j) /\ Underway(j) /\ (pc[j] = "returned" => Back(j))
    BY <2>1 DEF Pills
  <2>4. CASE pc[j] \in {"none", "find"}
    BY <2>2, <2>4 DEF Fresh, StepNames
  <2>5. CASE pc[j] \in {"asking", "waiting", "confirmed"}
    BY <2>a, <2>5 DEF Underway, Fresh, Open, SeenOff, StepNames
  <2>6. CASE pc[j] \in {"rollback", "create"}
    BY <2>a, <2>6 DEF Listed, Underway, Fresh, Open, SeenOff, Ladder, Staged, Direct, StepNames
  <2>7. CASE pc[j] = "returned"
    BY <2>a, <2>7 DEF Back, StepNames
  <2>. QED
    BY <2>3, <2>4, <2>5, <2>6, <2>7 DEF Places
<1>2. ASSUME NEW m, NEW S \in SUBSET {m} PROVE Cardinality(S) <= 1
  <2>1. IsFiniteSet({m}) /\ Cardinality({m}) = 1
    BY FS_Singleton
  <2>. QED
    BY <2>1, FS_Subset
<1>3. TypeOK /\ PillsInv => PhasesInOrder
  BY <1>1, <1>2 DEF PhasesInOrder, Fresh, SeenOff
<1>. QED
  BY <1>3, PillsHold, Typing, PTL

(* A verdict and the pills beside it agree.                                *)
THEOREM VerdictsMatch == SafeSpec => []VerdictMatchesPills
<1>1. ASSUME PillsInv, NEW j \in Jobs PROVE Pills(j)
  BY <1>1 DEF PillsInv
<1>2. PillsInv => VerdictMatchesPills
  BY <1>1 DEF VerdictMatchesPills, Pills, Verdict, Back, Fresh
<1>. QED
  BY <1>2, PillsHold, PTL
=============================================================================
