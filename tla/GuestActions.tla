---------------------------- MODULE GuestActions ----------------------------
(***************************************************************************)
(* What the verbs of internal/actions do to one guest: execute and the     *)
(* sequences behind it (start, pause, resume, force-off, the shutdown      *)
(* ladder, reboot, the staged and the direct restore), run by worker       *)
(* goroutines that overlap with each other, with the runner's bound, with  *)
(* the poll that refreshes the cache the submissions are checked against,  *)
(* with rollbacks whose call was given up, and with whoever else manages   *)
(* the guest.  Snapshot jobs are in SnapshotHold, the check of a snapshot  *)
(* id in SnapshotService; the registry's sweep and clock are in            *)
(* JobRegistry, so here a bound or a deadline may pass at any moment.      *)
(* ShutdownAll's goroutine submits a shutdown per guest some time after    *)
(* its look at the cache, as anybody may.                                  *)
(***************************************************************************)
EXTENDS Naturals, FiniteSets

CONSTANTS
  Jobs,        \* the jobs submitted for this guest
  Requests,    \* the requests made, a subset of AllRequests
  Outsiders    \* TRUE: the guest is also managed from outside Pademelon

CallVerbs == {"start", "pause", "resume", "force-off"}

(* Submit's requests, SubmitRestore's, and the zero Job's. *)
Request(verb, mode, startAfter, ack) ==
  [verb |-> verb, mode |-> mode, startAfter |-> startAfter, ack |-> ack]

AllRequests ==
  {Request(v, "", FALSE, FALSE) : v \in CallVerbs \cup {"shutdown", "reboot", "delete"}}
    \cup {Request("restore", "staged", again, FALSE) : again \in BOOLEAN}
    \cup {Request("restore", "direct", FALSE, ack) : ack \in BOOLEAN}

NoRequest == Request("", "", FALSE, FALSE)

ASSUME RequestsAssumption == Requests \subseteq AllRequests /\ Outsiders \in BOOLEAN

VARIABLES
  power,      \* libvirt's truth: "running", "paused" or "off"
  asked,      \* the guest has a shutdown request it has not acted on
  seen,       \* what the last poll cached: state name and connected agent
  req,        \* what each job was submitted with
  state,      \* Job.State
  pc,         \* where the job's worker is; a call in flight is a place
  result,     \* what the worker returned
  steps,      \* Job.Steps: step name -> step state, "absent" when not listed
  rolling,    \* restores whose rollback the middleware has and may carry out
  disturbed   \* history: staged restores under whose confirmed or rolling
              \* guest somebody powered it on

guest == <<power, asked, disturbed>>
vars == <<power, asked, seen, rolling, req, state, pc, result, steps, disturbed>>

StepNames == {"stop", "verify", "rollback", "start"}
Live(j) == state[j] = "running"
Staged(j) == req[j].verb = "restore" /\ req[j].mode = "staged"
Direct(j) == req[j].verb = "restore" /\ req[j].mode = "direct"

(* stepsFor: the phases pre-built at submit. *)
StepsFor(r) ==
  LET listed == CASE r.verb = "reboot" -> {"stop", "verify", "start"}
                  [] r.mode = "staged" -> {"stop", "verify", "rollback"} \cup
                                          (IF r.startAfter THEN {"start"} ELSE {})
                  [] r.mode = "direct" -> {"rollback"}
                  [] OTHER             -> {}
  IN [n \in StepNames |-> IF n \in listed THEN "pending" ELSE "absent"]

(* setStep, for the steps a record names. *)
Mark(j, marks) ==
  steps' = [steps EXCEPT ![j] =
              [n \in StepNames |-> IF n \in DOMAIN marks THEN marks[n] ELSE @[n]]]

(* Mutant: the poll's raw state goes into the cache. *)
PolledRaw == power

(* stateName of what the poll read. *)
PolledName == IF power = "off" THEN "stopped" ELSE power

(* allowedStates. *)
AllowedStates(verb) ==
  CASE verb = "start"                  -> {"stopped"}
    [] verb = "resume"                 -> {"paused"}
    [] verb = "force-off"              -> {"running", "paused"}
    [] verb \in {"pause", "shutdown", "reboot"} -> {"running"}

(* A guest comes on: an outstanding shutdown request is forgotten, and     *)
(* whoever had seen it off for a rollback still to come is overtaken.      *)
PowerOn ==
  /\ power' = "running"
  /\ asked' = FALSE
  /\ disturbed' = disturbed \cup {j \in Jobs : Staged(j) /\ (pc[j] = "confirmed" \/ j \in rolling)}

PowerOff == power' = "off" /\ asked' = FALSE /\ UNCHANGED disturbed

(* The worker of job j ends with r; Settle turns it into the verdict. *)
Returns(j, r) ==
  /\ pc' = [pc EXCEPT ![j] = "returned"]
  /\ result' = [result EXCEPT ![j] = r]

Goes(j, where) == pc' = [pc EXCEPT ![j] = where] /\ UNCHANGED result

Init ==
  /\ power \in {"running", "off"}
  /\ asked = FALSE
  /\ seen = [state |-> PolledName, agent |-> power = "running"]
  /\ req = [j \in Jobs |-> NoRequest]
  /\ state = [j \in Jobs |-> ""]
  /\ pc = [j \in Jobs |-> "none"]
  /\ result = [j \in Jobs |-> ""]
  /\ steps = [j \in Jobs |-> StepsFor(NoRequest)]
  /\ rolling = {} /\ disturbed = {}

-----------------------------------------------------------------------------
(* Submissions.  Both checks read the cached poll, not the guest. *)

(* Submit's state table; SubmitRestore's refusal of an unacknowledged      *)
(* direct restore of a running guest (a staged one is always accepted, and *)
(* SubmitDelete does not ask for the guest).                               *)
Admissible(r) ==
  CASE r.verb = "restore" -> r.mode = "direct" /\ seen.state = "running" => r.ack
    [] r.verb = "delete"  -> TRUE
    [] OTHER              -> seen.state \in AllowedStates(r.verb)

(* register, and run up to the worker's start. *)
Submit(j, r) ==
  /\ pc[j] = "none"
  /\ Admissible(r)
  /\ \A i \in Jobs : ~(Live(i) /\ req[i].verb = r.verb)
  /\ req' = [req EXCEPT ![j] = r]
  /\ state' = [state EXCEPT ![j] = "running"]
  /\ pc' = [pc EXCEPT ![j] = "find"]
  /\ steps' = [steps EXCEPT ![j] = StepsFor(r)]
  /\ UNCHANGED <<guest, seen, rolling, result>>

(* No libvirt connection, the domain list fails, or the domain is gone. *)
FindFails(j) ==
  /\ pc[j] = "find"
  /\ Returns(j, "failed")
  /\ UNCHANGED <<guest, seen, rolling, req, state, steps>>

-----------------------------------------------------------------------------
(* The verbs that are one libvirt call.  libvirt refuses a call the guest's *)
(* real state does not allow, and may fail any other.                       *)
LibvirtAccepts(verb) ==
  \/ verb = "start" /\ power = "off" /\ PowerOn
  \/ verb = "pause" /\ power # "off" /\ power' = "paused" /\ UNCHANGED <<asked, disturbed>>
  \/ verb = "resume" /\ power = "paused" /\ power' = "running" /\ UNCHANGED <<asked, disturbed>>
  \/ verb = "force-off" /\ power # "off" /\ PowerOff

CallVerb(j) ==
  /\ pc[j] = "find" /\ req[j].verb \in CallVerbs
  /\ \/ LibvirtAccepts(req[j].verb) /\ Returns(j, "ok")
     \/ UNCHANGED guest /\ Returns(j, "failed")
  /\ UNCHANGED <<seen, rolling, req, state, steps>>

(* shutdown's ladder.  The agent path counts as sent when the agent        *)
(* vanishes mid-call, whether or not the guest heard it; ACPI is the       *)
(* fallback, and a paused guest takes the button press without acting.     *)
ShutdownSent ==
  /\ \/ seen.agent /\ power = "running" /\ asked' \in {asked, TRUE}
     \/ power # "off" /\ asked' = TRUE
  /\ UNCHANGED <<power, disturbed>>

(* Both paths fail; a timed-out agent call may still have been heard. *)
ShutdownFails ==
  /\ \/ UNCHANGED asked
     \/ seen.agent /\ power = "running" /\ asked' = TRUE
  /\ UNCHANGED <<power, disturbed>>

(* executeDelete: one middleware call, and no look at the guest. *)
Delete(j) ==
  /\ pc[j] = "find" /\ req[j].verb = "delete"
  /\ Returns(j, "ok") \/ Returns(j, "failed")
  /\ UNCHANGED <<guest, seen, rolling, req, state, steps>>

Shutdown(j) ==
  /\ pc[j] = "find" /\ req[j].verb = "shutdown"
  /\ \/ ShutdownSent /\ Returns(j, "ok")
     \/ ShutdownFails /\ Returns(j, "failed")
  /\ UNCHANGED <<seen, rolling, req, state, steps>>

-----------------------------------------------------------------------------
(* The stop phase reboot and the staged restore share. *)

RebootBegin(j) ==
  /\ pc[j] = "find" /\ req[j].verb = "reboot"
  /\ Mark(j, [stop |-> "active"])
  /\ Goes(j, "asking")
  /\ UNCHANGED <<guest, seen, rolling, req, state>>

(* restore's first look at the guest decides whether to ask it at all. *)
StagedBegin(j) ==
  /\ pc[j] = "find" /\ Staged(j)
  /\ \/ /\ power = "off"
        /\ Mark(j, [stop |-> "skipped", verify |-> "done"])
        /\ Goes(j, "confirmed")
     \/ /\ power # "off"
        /\ Mark(j, [stop |-> "active"])
        /\ Goes(j, "asking")
     \/ /\ Mark(j, [verify |-> "failed"])
        /\ Returns(j, "failed")
  /\ UNCHANGED <<guest, seen, rolling, req, state>>

Ask(j) ==
  /\ pc[j] = "asking"
  /\ \/ /\ ShutdownSent
        /\ Mark(j, [stop |-> "done", verify |-> "active"])
        /\ Goes(j, "waiting")
     \/ /\ ShutdownFails
        /\ Mark(j, [stop |-> "failed"])
        /\ Returns(j, "failed")
  /\ UNCHANGED <<seen, rolling, req, state>>

(* Mutant: a paused guest counts as stopped. *)
ConfirmPaused(j) ==
  /\ pc[j] = "waiting"
  /\ power # "running"
  /\ Mark(j, [verify |-> "done"])
  /\ Goes(j, "confirmed")
  /\ UNCHANGED <<guest, seen, rolling, req, state>>

(* waitStopped sees the guest off. *)
ConfirmOff(j) ==
  /\ pc[j] = "waiting"
  /\ power = "off"
  /\ Mark(j, [verify |-> "done"])
  /\ Goes(j, "confirmed")
  /\ UNCHANGED <<guest, seen, rolling, req, state>>

(* Mutant: a retry that was sent counts as a confirmation. *)
ResendAndMove(j) ==
  /\ pc[j] = "waiting"
  /\ power # "off"
  /\ ShutdownSent \/ ShutdownFails
  /\ Mark(j, [stop |-> "done"])
  /\ Goes(j, "confirmed")
  /\ UNCHANGED <<seen, rolling, req, state>>

(* waitStopped sees it on, and the retry interval is over. *)
Resend(j) ==
  /\ pc[j] = "waiting"
  /\ power # "off"
  /\ ShutdownSent \/ ShutdownFails
  /\ Mark(j, [stop |-> "done"])
  /\ UNCHANGED <<seen, rolling, req, state, pc, result>>

(* Mutant: the deadline is reset by every request the guest has heard. *)
GiveUpAnswered(j) ==
  /\ pc[j] = "waiting"
  /\ power # "off" /\ ~asked
  /\ Mark(j, [verify |-> "failed"])
  /\ Returns(j, "timeout")
  /\ UNCHANGED <<guest, seen, rolling, req, state>>

(* waitStopped sees it on past the deadline: ErrGuestNotStopped. *)
GiveUp(j) ==
  /\ pc[j] = "waiting"
  /\ power # "off"
  /\ Mark(j, [verify |-> "failed"])
  /\ Returns(j, "timeout")
  /\ UNCHANGED <<guest, seen, rolling, req, state>>

(* waitStopped cannot read the state. *)
InfoFails(j) ==
  /\ pc[j] = "waiting"
  /\ Mark(j, [verify |-> "failed"])
  /\ Returns(j, "failed")
  /\ UNCHANGED <<guest, seen, rolling, req, state>>

-----------------------------------------------------------------------------
(* The rollback, in place or on the guest confirmed off, and the start. *)

(* The middleware call is issued; nothing looks at the guest again. *)
IssueRollback(j) ==
  /\ \/ Staged(j) /\ pc[j] = "confirmed"
     \/ Direct(j) /\ pc[j] = "find"
  /\ rolling' = rolling \cup {j}
  /\ Mark(j, [rollback |-> "active"])
  /\ Goes(j, "rollback")
  /\ UNCHANGED <<guest, seen, req, state>>

(* It is refused, or its time is over and it may still be carried out. *)
RollbackFails(j) ==
  /\ pc[j] = "rollback"
  /\ rolling' \in {rolling, rolling \ {j}}
  /\ Mark(j, [rollback |-> "failed"])
  /\ Returns(j, "failed")
  /\ UNCHANGED <<guest, seen, req, state>>

(* It is done. *)
RolledBack(j) ==
  /\ pc[j] = "rollback"
  /\ rolling' = rolling \ {j}
  /\ IF req[j].startAfter
       THEN Mark(j, [rollback |-> "done", start |-> "active"]) /\ Goes(j, "create")
       ELSE Mark(j, [rollback |-> "done"]) /\ Returns(j, "ok")
  /\ UNCHANGED <<guest, seen, req, state>>

RebootStart(j) ==
  /\ pc[j] = "confirmed" /\ req[j].verb = "reboot"
  /\ Mark(j, [start |-> "active"])
  /\ Goes(j, "create")
  /\ UNCHANGED <<guest, seen, rolling, req, state>>

(* Mutant: a failed start leaves its phase open. *)
CreateUnmarked(j) ==
  /\ pc[j] = "create"
  /\ \/ /\ power = "off" /\ PowerOn
        /\ Mark(j, [start |-> "done"])
        /\ Returns(j, "ok")
     \/ /\ UNCHANGED guest
        /\ UNCHANGED steps
        /\ Returns(j, "failed")
  /\ UNCHANGED <<seen, rolling, req, state>>

(* DomainCreate at the end of a reboot or a staged restore. *)
Create(j) ==
  /\ pc[j] = "create"
  /\ \/ /\ power = "off" /\ PowerOn
        /\ Mark(j, [start |-> "done"])
        /\ Returns(j, "ok")
     \/ /\ UNCHANGED guest
        /\ Mark(j, [start |-> "failed"])
        /\ Returns(j, "failed")
  /\ UNCHANGED <<seen, rolling, req, state>>

-----------------------------------------------------------------------------
(* run's select. *)

Settle(j) ==
  /\ Live(j) /\ pc[j] = "returned"
  /\ state' = [state EXCEPT ![j] = result[j]]
  /\ UNCHANGED <<guest, seen, rolling, req, pc, result, steps>>

(* The bound: the phase under way is marked failed, the worker goes on. *)
TimeOut(j) ==
  /\ Live(j)
  /\ state' = [state EXCEPT ![j] = "timeout"]
  /\ steps' = [steps EXCEPT ![j] =
                 [n \in StepNames |-> IF @[n] = "active" THEN "failed" ELSE @[n]]]
  /\ UNCHANGED <<guest, seen, rolling, req, pc, result>>

-----------------------------------------------------------------------------
(* The world outside the action layer. *)

(* Source.Poll and Cache.Set. *)
Poll ==
  /\ seen' \in [state : {PolledName}, agent : IF power = "running" THEN BOOLEAN ELSE {FALSE}]
  /\ UNCHANGED <<guest, rolling, req, state, pc, result, steps>>

(* The guest acts on a shutdown request. *)
GuestStops ==
  /\ power = "running" /\ asked
  /\ PowerOff
  /\ UNCHANGED <<seen, rolling, req, state, pc, result, steps>>

(* The middleware gets to, or drops, a rollback whose caller has given up. *)
LateRollback(j) ==
  /\ j \in rolling /\ pc[j] = "returned"
  /\ rolling' = rolling \ {j}
  /\ UNCHANGED <<guest, seen, req, state, pc, result, steps>>

(* virsh, the TrueNAS page, or the guest itself. *)
Outside ==
  /\ Outsiders
  /\ \/ power = "off" /\ PowerOn
     \/ power = "running" /\ power' = "paused" /\ UNCHANGED <<asked, disturbed>>
     \/ power = "paused" /\ power' = "running" /\ UNCHANGED <<asked, disturbed>>
     \/ power # "off" /\ PowerOff
  /\ UNCHANGED <<seen, rolling, req, state, pc, result, steps>>

(* What a worker does when every call comes back with an answer. *)
Advance(j) ==
  \/ CallVerb(j) \/ Shutdown(j) \/ Delete(j)
  \/ RebootBegin(j) \/ StagedBegin(j) \/ Ask(j) \/ ConfirmOff(j) \/ GiveUp(j)
  \/ IssueRollback(j) \/ RollbackFails(j) \/ RolledBack(j) \/ RebootStart(j) \/ Create(j)

Worker(j) == Advance(j) \/ FindFails(j) \/ Resend(j) \/ InfoFails(j)

Next ==
  \/ \E j \in Jobs :
       \/ \E r \in Requests : Submit(j, r)
       \/ Worker(j) \/ Settle(j) \/ TimeOut(j) \/ LateRollback(j)
  \/ Poll \/ GuestStops \/ Outside

SafeSpec == Init /\ [][Next]_vars

(* Every call a worker makes comes back, the wait's deadline passes, and   *)
(* the runner is scheduled.  The guest is free to ignore every request.    *)
Spec == SafeSpec /\ \A j \in Jobs : WF_vars(Advance(j)) /\ WF_vars(Settle(j))

-----------------------------------------------------------------------------
StepStates == {"absent", "pending", "active", "done", "skipped", "failed"}

TypeOK ==
  /\ power \in {"running", "paused", "off"}
  /\ asked \in BOOLEAN
  /\ seen \in [state : {"running", "paused", "stopped"}, agent : BOOLEAN]
  /\ req \in [Jobs -> Requests \cup {NoRequest}]
  /\ state \in [Jobs -> {"", "running", "ok", "failed", "timeout"}]
  /\ pc \in [Jobs -> {"none", "find", "asking", "waiting", "confirmed", "rollback",
                      "create", "returned"}]
  /\ result \in [Jobs -> {"", "ok", "failed", "timeout"}]
  /\ steps \in [Jobs -> [StepNames -> StepStates]]
  /\ rolling \subseteq Jobs /\ disturbed \subseteq Jobs

(* As long as a staged restore's rollback may be carried out, also after   *)
(* its call was given up, the guest is off - unless somebody powered it on *)
(* after this very job had seen it off.  No interleaving of shutdown       *)
(* requests, retries, pauses and bounds gets a rollback under a guest that *)
(* never stopped.  That the guest is started under the rollback, by a      *)
(* start verb, by another job's sequence or from outside, nothing rules    *)
(* out: verbs on one guest are not serialised.  Those are in disturbed.    *)
RollbackOffUnlessRestarted ==
  \A j \in rolling : Staged(j) /\ power # "off" => j \in disturbed

(* The pills tell the phases in order, also those of a job whose bound     *)
(* fired and whose worker goes on: the rollback is touched only behind a   *)
(* done confirmation, the start only behind what must precede it, and one  *)
(* phase at most is under way.                                             *)
PhasesInOrder ==
  \A j \in Jobs :
    LET touched(n) == steps[j][n] \notin {"absent", "pending"}
    IN  /\ touched("rollback") /\ Staged(j) =>
             steps[j]["verify"] = "done" /\ steps[j]["stop"] \in {"done", "skipped"}
        /\ touched("start") =>
             /\ steps[j]["verify"] = "done"
             /\ Staged(j) => steps[j]["rollback"] = "done"
        /\ Cardinality({n \in StepNames : steps[j][n] = "active"}) <= 1

(* The verdict and the pills agree: an ok job has no phase open or broken, *)
(* a failed one shows the phase that broke it (or never got to its first), *)
(* and a guest that did not stop in time was neither rolled back nor       *)
(* started by the job that gave up on it.                                  *)
VerdictMatchesPills ==
  \A j \in Jobs :
    LET shown == {steps[j][n] : n \in StepNames}
    IN  /\ state[j] = "ok" => shown \subseteq {"absent", "done", "skipped"}
        /\ state[j] = "failed" => \/ "failed" \in shown /\ "active" \notin shown
                                  \/ shown \subseteq {"absent", "pending"}
        /\ result[j] = "timeout" => /\ steps[j]["verify"] = "failed"
                                    /\ steps[j]["rollback"] \in {"absent", "pending"}
                                    /\ steps[j]["start"] \in {"absent", "pending"}

(* A job accepted gets its verdict and its worker comes back, even when    *)
(* the guest ignores every shutdown request.                               *)
EveryWorkerReturns ==
  \A j \in Jobs : (pc[j] = "find") ~> (pc[j] = "returned" /\ ~Live(j))

-----------------------------------------------------------------------------
(* What the repository says and the code does not do. *)

(* When the bound fires while a job awaits its guest, the wait is the      *)
(* phase that did not land, and the sequence is over: no phase of the job  *)
(* is shown under way from then on.                                        *)
BoundEndsTheSequence ==
  \A j \in Jobs :
    [](state[j] = "timeout" /\ steps[j]["verify"] = "failed"
         => [](\A n \in StepNames : steps[j][n] # "active"))
=============================================================================
