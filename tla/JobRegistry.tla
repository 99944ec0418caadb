---------------------------- MODULE JobRegistry -----------------------------
(***************************************************************************)
(* The job store of internal/actions: register's single-flight check and   *)
(* lazy sweep, and run's two goroutines - the runner that waits for the    *)
(* result or for the wall-clock bound, and the worker that carries the     *)
(* verb out inside WithConnection.  What a verb does to a guest is in      *)
(* GuestActions and SnapshotHold; here a worker is any code that sends at  *)
(* most one result, possibly never.                                        *)
(*                                                                         *)
(* Time is discrete.  Tick advances it for everybody; a goroutine that is  *)
(* ready to run is scheduled within Latency, so Tick waits for it.         *)
(***************************************************************************)
EXTENDS Naturals

CONSTANTS
  Jobs,             \* the identities Config.NewID hands out, one per job
  Domains,          \* libvirt domain names
  Verbs,            \* the actions submitted
  ActionTimeout,    \* Config.Timeout
  RebootTimeout,    \* Config.RebootTimeout
  RebootSlack,      \* the minute run adds for a reboot or a staged restore
  SnapshotTimeout,  \* Config.SnapshotTimeout
  JobRetention,     \* clocks.JobRetention
  Latency           \* scheduling delay of a runnable goroutine or a due timer

ActionNames == {"start", "shutdown", "reboot", "force-off", "pause", "resume",
                "snapshot", "restore", "delete"}

Modes == {"", "staged", "direct"}

ASSUME VerbsAssumption == Verbs \subseteq ActionNames

ASSUME ClockAssumption ==
  {ActionTimeout, RebootTimeout, RebootSlack, SnapshotTimeout, JobRetention,
   Latency} \subseteq Nat

(* run's choice of bound for a job. *)
RunBound(action, mode) ==
  IF action = "reboot" \/ (action = "restore" /\ mode = "staged")
    THEN RebootTimeout + RebootSlack
    ELSE IF action = "snapshot" THEN SnapshotTimeout ELSE ActionTimeout

(* An hour of retention is longer than any job can be pending or running:  *)
(* 4 minutes at most, with two scheduling delays.                          *)
ASSUME RetentionAssumption ==
  \A a \in ActionNames, m \in Modes : RunBound(a, m) + 2 * Latency <= JobRetention

VARIABLES
  job,      \* the Job objects on the heap
  kept,     \* the keys of Store.jobs: what List can show
  age,      \* now - Requested, counted up to the sweep's threshold
  runner,   \* where the run goroutine of each job is
  waited,   \* how long the runner has been in its select
  worker,   \* where the goroutine inside WithConnection is
  done,     \* the one-slot channel between the two; "" when empty
  nudge     \* the pokes in the one-slot channel towards the poll loop

vars == <<job, kept, age, runner, waited, worker, done, nudge>>

Results == {"ok", "failed", "timeout"}
Terminal == Results
NoJob == [domain |-> "", action |-> "", mode |-> "", state |-> ""]

JobRecords ==
  [domain : Domains, action : Verbs, mode : Modes,
   state : {"pending", "running"} \cup Terminal]

BoundOf(j) == RunBound(job[j].action, job[j].mode)
Live(j) == job[j].state \in {"pending", "running"}
Key(j) == <<job[j].domain, job[j].action>>

Init ==
  /\ job = [j \in Jobs |-> NoJob]
  /\ kept = {}
  /\ age = [j \in Jobs |-> 0]
  /\ runner = [j \in Jobs |-> "none"]
  /\ waited = [j \in Jobs |-> 0]
  /\ worker = [j \in Jobs |-> "none"]
  /\ done = [j \in Jobs |-> ""]
  /\ nudge = 0

(* Mutant: the sweep is off by one. *)
SweptEarly == {j \in kept : age[j] < JobRetention}

(* sweepLocked: what stays in the map.  The sweep looks at the age alone,  *)
(* never at the state.                                                     *)
Swept == {j \in kept : age[j] <= JobRetention}

(* Mutant: single flight looks at running jobs only. *)
InFlightRunning(d, a) == {j \in Swept : job[j].state = "running" /\ Key(j) = <<d, a>>}

(* The jobs register's single-flight loop stops at. *)
InFlight(d, a) == {j \in Swept : Live(j) /\ Key(j) = <<d, a>>}

(* The modes a job of this verb carries: only a restore has one. *)
ModesOf(a) == IF a = "restore" THEN {"staged", "direct"} ELSE {""}

(* Mutant: an id is handed out twice. *)
RegisterOver(j, d, a, m) ==
  /\ m \in ModesOf(a)
  /\ InFlight(d, a) = {}
  /\ job' = [job EXCEPT ![j] = [domain |-> d, action |-> a, mode |-> m,
                                state |-> "pending"]]
  /\ kept' = Swept \cup {j}
  /\ runner' = [runner EXCEPT ![j] = "spawned"]
  /\ UNCHANGED <<age, waited, worker, done, nudge>>

(* register, the single-flight check passed: the job is stored under the   *)
(* mutex and its runner goroutine is spawned.                              *)
Register(j, d, a, m) ==
  /\ job[j] = NoJob
  /\ m \in ModesOf(a)
  /\ InFlight(d, a) = {}
  /\ job' = [job EXCEPT ![j] = [domain |-> d, action |-> a, mode |-> m,
                                state |-> "pending"]]
  /\ kept' = Swept \cup {j}
  /\ runner' = [runner EXCEPT ![j] = "spawned"]
  /\ UNCHANGED <<age, waited, worker, done, nudge>>

(* register refusing with ErrInFlight, and List: the two other places that *)
(* run the sweep.                                                          *)
Sweep ==
  /\ kept' = Swept
  /\ UNCHANGED <<job, age, runner, waited, worker, done, nudge>>

(* run up to its select: the job is running, the worker is started. *)
Begin(j) ==
  /\ runner[j] = "spawned"
  /\ job' = [job EXCEPT ![j].state = "running"]
  /\ runner' = [runner EXCEPT ![j] = "waiting"]
  /\ worker' = [worker EXCEPT ![j] = "executing"]
  /\ UNCHANGED <<kept, age, waited, done, nudge>>

(* WithConnection comes back.  The channel has room for the one result, so *)
(* the send never blocks, not even after the runner has given up.          *)
Return(j, r) ==
  /\ worker[j] = "executing"
  /\ worker' = [worker EXCEPT ![j] = "returned"]
  /\ done' = [done EXCEPT ![j] = r]
  /\ UNCHANGED <<job, kept, age, runner, waited, nudge>>

(* Mutant: the result is used without having been received. *)
SettleUnread(j) ==
  /\ runner[j] = "waiting"
  /\ job' = [job EXCEPT ![j].state = done[j]]
  /\ done' = [done EXCEPT ![j] = ""]
  /\ runner' = [runner EXCEPT ![j] = "finishing"]
  /\ waited' = [waited EXCEPT ![j] = 0]
  /\ UNCHANGED <<kept, age, worker, nudge>>

(* Mutant: a late result is still taken by a runner that has ended. *)
SettleLate(j) ==
  /\ runner[j] \in {"waiting", "ended"}
  /\ done[j] # ""
  /\ job' = [job EXCEPT ![j].state = done[j]]
  /\ done' = [done EXCEPT ![j] = ""]
  /\ runner' = [runner EXCEPT ![j] = "finishing"]
  /\ waited' = [waited EXCEPT ![j] = 0]
  /\ UNCHANGED <<kept, age, worker, nudge>>

(* The select's first branch: a result arrived.  ErrGuestNotStopped is the *)
(* result that reads timeout.                                              *)
Settle(j) ==
  /\ runner[j] = "waiting"
  /\ done[j] # ""
  /\ job' = [job EXCEPT ![j].state = done[j]]
  /\ done' = [done EXCEPT ![j] = ""]
  /\ runner' = [runner EXCEPT ![j] = "finishing"]
  /\ waited' = [waited EXCEPT ![j] = 0]
  /\ UNCHANGED <<kept, age, worker, nudge>>

(* Mutant: the bound waits for the worker to come back. *)
TimeOutJoined(j) ==
  /\ runner[j] = "waiting"
  /\ worker[j] = "returned"
  /\ waited[j] >= BoundOf(j)
  /\ job' = [job EXCEPT ![j].state = "timeout"]
  /\ runner' = [runner EXCEPT ![j] = "finishing"]
  /\ waited' = [waited EXCEPT ![j] = 0]
  /\ UNCHANGED <<kept, age, worker, done, nudge>>

(* The select's second branch: the bound has passed.  When both are ready  *)
(* Go picks either.  The worker is abandoned, not stopped.                 *)
TimeOut(j) ==
  /\ runner[j] = "waiting"
  /\ waited[j] >= BoundOf(j)
  /\ job' = [job EXCEPT ![j].state = "timeout"]
  /\ runner' = [runner EXCEPT ![j] = "finishing"]
  /\ waited' = [waited EXCEPT ![j] = 0]
  /\ UNCHANGED <<kept, age, worker, done, nudge>>

(* finish: poke the poll loop, dropping the poke when one is queued. *)
Finish(j) ==
  /\ runner[j] = "finishing"
  /\ nudge' = 1
  /\ runner' = [runner EXCEPT ![j] = "ended"]
  /\ UNCHANGED <<job, kept, age, waited, worker, done>>

(* The poll loop takes the poke (PollLoop says what it does with it). *)
TakeNudge ==
  /\ nudge = 1
  /\ nudge' = 0
  /\ UNCHANGED <<job, kept, age, runner, waited, worker, done>>

(* Time passes, unless a goroutine is overdue. *)
Tick ==
  /\ \A j \in Jobs :
       /\ runner[j] = "spawned" => age[j] < Latency
       /\ runner[j] = "waiting" => waited[j] < BoundOf(j) + Latency
  /\ age' = [j \in Jobs |->
               IF job[j] # NoJob /\ age[j] <= JobRetention THEN age[j] + 1 ELSE age[j]]
  /\ waited' = [j \in Jobs |->
                  IF runner[j] = "waiting" THEN waited[j] + 1 ELSE waited[j]]
  /\ UNCHANGED <<job, kept, runner, worker, done, nudge>>

Runner(j) == Begin(j) \/ Settle(j) \/ TimeOut(j) \/ Finish(j)

Next ==
  \/ \E j \in Jobs, d \in Domains, a \in Verbs, m \in Modes : Register(j, d, a, m)
  \/ Sweep
  \/ \E j \in Jobs : Runner(j) \/ \E r \in Results : Return(j, r)
  \/ TakeNudge
  \/ Tick

SafeSpec == Init /\ [][Next]_vars

(* Go runs every runnable goroutine and time passes.  Nothing is assumed   *)
(* of a worker: a libvirt or middleware call may hang for ever.            *)
Spec ==
  /\ SafeSpec
  /\ WF_vars(Tick)
  /\ \A j \in Jobs : WF_vars(Runner(j))

-----------------------------------------------------------------------------
TypeOK ==
  /\ job \in [Jobs -> JobRecords \cup {NoJob}]
  /\ kept \subseteq Jobs
  /\ age \in [Jobs -> Nat]
  /\ runner \in [Jobs -> {"none", "spawned", "waiting", "finishing", "ended"}]
  /\ waited \in [Jobs -> Nat]
  /\ worker \in [Jobs -> {"none", "executing", "returned"}]
  /\ done \in [Jobs -> Results \cup {""}]
  /\ nudge \in {0, 1}

(* Of all the jobs that were ever built - listed or not - at most one per  *)
(* domain and verb is pending or running.  register only looks at the map, *)
(* so this rests on the sweep never dropping a job that still runs.        *)
SingleFlight ==
  \A i, j \in Jobs : Live(i) /\ Live(j) /\ Key(i) = Key(j) => i = j

(* A job that is pending or running can be seen: the age-based sweep never *)
(* takes it out of the registry, however late its goroutines are.          *)
LiveListed == \A j \in Jobs : Live(j) => j \in kept

(* A verdict is final: a worker abandoned at the bound that answers late   *)
(* does not turn "timeout" into anything else.                             *)
VerdictStands ==
  [][\A j \in Jobs : job[j].state \in Terminal => job'[j].state = job[j].state]_vars

(* Every accepted job gets its verdict and its runner ends, even when the  *)
(* worker's call never comes back.                                         *)
EveryJobEnds ==
  \A j \in Jobs : (runner[j] = "spawned") ~> (runner[j] = "ended")

(* The slots and the verdicts a caller sees, computed from the Job objects. *)
Flying == [k \in Domains \X Verbs |-> {j \in Jobs : Live(j) /\ Key(j) = k}]
Verdict == [j \in Jobs |-> IF job[j].state \in Terminal THEN job[j].state ELSE ""]

(* What the registry promises, as a specification of its own. *)
Slots == INSTANCE JobSlots WITH
  Keys <- Domains \X Verbs, flying <- Flying, verdict <- Verdict

(* Every behaviour of the registry, the clock and the goroutines hidden,   *)
(* is one JobSlots allows, its landing guarantee included.                 *)
ImplementsSlots == Slots!Spec

(* The safety half of it, which JobRegistryProofs proves.                  *)
ImplementsSafeSlots == Slots!SafeSpec
=============================================================================
