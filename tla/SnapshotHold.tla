---------------------------- MODULE SnapshotHold ----------------------------
(***************************************************************************)
(* The snapshot job of internal/actions on one guest, and everything that  *)
(* is there so that a guest held still runs again: the job's own release,  *)
(* the frozen marker, SweepLoop's force-thaw and SweepFrozenOnce after a   *)
(* crash.  The guest, its agent and libvirt are modelled from the calls    *)
(* the code makes: an agent call may fail before it is heard, or time out  *)
(* and still be carried out later.                                         *)
(*                                                                         *)
(* A tick is a fraction of FreezeHoldBound.  Agent and libvirt calls are   *)
(* short on that scale, the middleware's creates are not, so ticks pass    *)
(* while a job creates and while nothing is under way.                     *)
(***************************************************************************)
EXTENDS Naturals, FiniteSets

CONSTANTS
  Jobs,             \* snapshot jobs submitted for the guest
  NumDatasets,      \* truenasDatasets: the guest's zvols
  FreezeHoldBound,  \* clocks.FreezeHoldBound, also the sweep's period
  SnapshotTimeout,  \* Config.SnapshotTimeout
  MaxCrashes,       \* bound: how often the process dies
  Outsiders         \* TRUE: others start, stop, pause and resume the guest

ASSUME BoundsAssumption ==
  /\ {NumDatasets, FreezeHoldBound, SnapshotTimeout} \subseteq Nat \ {0}
  /\ MaxCrashes \in Nat
  /\ Outsiders \in BOOLEAN
  /\ {"loop", "startup"} \cap Jobs = {}

(* 60 and 90 seconds in clocks, and main never sets Config.SnapshotTimeout. *)
ASSUME ClocksAssumption == FreezeHoldBound < SnapshotTimeout

Actors == Jobs \cup {"loop", "startup"}

VARIABLES
  power,      \* libvirt's truth: "running", "paused" or "off"
  frozen,     \* the guest's filesystems are frozen
  late,       \* freeze commands that timed out and may still be carried out
  seen,       \* the last poll: a state name and an answering agent; {} before it
  at,         \* where each goroutine is; a call in flight is a place
  state,      \* Job.State
  ran,        \* how long each job has been running, up to its bound
  left,       \* datasets a job has not tried yet
  failed,     \* a create of the job failed
  holding,    \* history: jobs that froze or paused the guest and have not
              \* had the release accepted
  warned,     \* jobs that report a release that failed
  froze,      \* jobs whose freeze was answered
  marked,     \* Store.frozen has the guest
  age,        \* how long it has been there
  phase,      \* time since the sweep's ticker fired
  due,        \* a tick waits in the ticker's channel
  crashes,    \* how often the process has died
  excuses     \* history: what may have made the store lose track: a "late"
              \* freeze, a "crash", a "clear" that took away a newer mark, a
              \* frozen guest the "startup" sweep took for its own or "missed";
              \* and whether a thaw "failed" since the guest was marked

guest == <<power, frozen, late>>
marker == <<marked, age>>
clock == <<phase, due>>
work == <<left, failed, holding, warned, froze>>
vars == <<guest, seen, at, state, ran, work, marker, clock, crashes, excuses>>

Live(j) == state[j] = "running"
(* Mutant: the sweep thaws whatever it finds marked. *)
HeldAtAll == age >= 0

(* Mutant: the sweep waits for a bound too many. *)
HeldTwiceAsLong == age > 2 * FreezeHoldBound

HeldLong == age > FreezeHoldBound

PolledName == IF power = "off" THEN "stopped" ELSE power

Goes(x, where) == at' = [at EXCEPT ![x] = where]

(* Where an actor ends: a job returns to its runner, the loop waits for the *)
(* next tick, the startup sweep is over.                                    *)
EndOf(x) == IF x \in Jobs THEN "returned" ELSE IF x = "loop" THEN "idle" ELSE "over"

Init ==
  /\ power \in {"running", "off"}
  /\ frozen = FALSE
  /\ late = {}
  /\ seen = {}
  /\ at = [x \in Actors |-> IF x \in Jobs THEN "none" ELSE IF x = "loop" THEN "idle" ELSE "waiting"]
  /\ state = [j \in Jobs |-> ""]
  /\ ran = [j \in Jobs |-> 0]
  /\ left = [j \in Jobs |-> NumDatasets]
  /\ failed = [j \in Jobs |-> FALSE]
  /\ holding = {} /\ warned = {} /\ froze = {}
  /\ marked = FALSE /\ age = 0
  /\ phase = 0 /\ due = FALSE
  /\ crashes = 0
  /\ excuses = {}

-----------------------------------------------------------------------------
(* The job: hold, create, release. *)

(* Submit, register and run: a guest of any state the poll shows may be    *)
(* snapshotted, one live snapshot job at a time.                           *)
Submit(j) ==
  /\ state[j] = ""
  /\ seen # {}
  /\ \A i \in Jobs : ~Live(i)
  /\ state' = [state EXCEPT ![j] = "running"]
  /\ Goes(j, "begin")
  /\ UNCHANGED <<guest, seen, ran, work, marker, clock, crashes, excuses>>

(* The hold is chosen by the cached poll, not by the guest.  No libvirt, no *)
(* such domain or no zvol ends the job before the guest is touched.         *)
Begin(j) ==
  /\ at[j] = "begin"
  /\ \E vm \in seen :
       \/ vm.state = "running" /\ vm.agent /\ Goes(j, "freezing")
       \/ vm.state = "running" /\ ~vm.agent /\ Goes(j, "suspending")
       \/ vm.state # "running" /\ Goes(j, "creating")
  /\ UNCHANGED <<guest, seen, state, ran, work, marker, clock, crashes, excuses>>

BeginFails(j) ==
  /\ at[j] = "begin"
  /\ Goes(j, "returned")
  /\ failed' = [failed EXCEPT ![j] = TRUE]
  /\ UNCHANGED <<guest, seen, state, ran, left, holding, warned, froze, marker, clock,
                 crashes, excuses>>

(* guest-fsfreeze-freeze answered.  A frozen guest refuses a second one. *)
FreezeAnswered(j) ==
  /\ at[j] = "freezing"
  /\ power = "running" /\ ~frozen
  /\ frozen' = TRUE
  /\ holding' = holding \cup {j}
  /\ froze' = froze \cup {j}
  /\ Goes(j, "marking")
  /\ UNCHANGED <<power, late, seen, state, ran, left, failed, warned, marker, clock,
                 crashes, excuses>>

(* Mutant: the frozen guest is not put into the store. *)
MarkSkipped(j) ==
  /\ at[j] = "marking"
  /\ UNCHANGED <<marked, age>>
  /\ Goes(j, "creating")
  /\ UNCHANGED <<guest, seen, state, ran, work, clock, crashes, excuses>>

(* frozenMark. *)
Mark(j) ==
  /\ at[j] = "marking"
  /\ marked' = TRUE /\ age' = 0
  /\ excuses' = excuses \ {"failed"}
  /\ Goes(j, "creating")
  /\ UNCHANGED <<guest, seen, state, ran, work, clock, crashes>>

(* The freeze fails: refused, not heard, or timed out and still to come.   *)
(* The job pauses the guest instead.                                       *)
FreezeFails(j) ==
  /\ at[j] = "freezing"
  /\ \/ UNCHANGED <<late, excuses>>
     \/ /\ power = "running"
        /\ late' = late \cup {j}
        /\ excuses' = excuses \cup {"late"}
  /\ Goes(j, "suspending")
  /\ UNCHANGED <<power, frozen, seen, state, ran, work, marker, clock, crashes>>

(* DomainSuspend; pausing a paused guest succeeds and changes nothing. *)
Suspend(j) ==
  /\ at[j] = "suspending"
  /\ \/ /\ power # "off"
        /\ power' = "paused"
        /\ holding' = holding \cup {j}
        /\ Goes(j, "creating")
        /\ UNCHANGED failed
     \/ /\ Goes(j, "returned")
        /\ failed' = [failed EXCEPT ![j] = TRUE]
        /\ UNCHANGED <<power, holding>>
  /\ UNCHANGED <<frozen, late, seen, state, ran, left, warned, froze, marker, clock,
                 crashes, excuses>>

(* What follows the last create. *)
ReleasePlace(j) ==
  IF j \notin holding THEN "returned" ELSE IF j \in froze THEN "thaw1" ELSE "resuming"

(* Mutant: the loop over the datasets runs once too often. *)
CreateAgain(j) ==
  /\ at[j] = "creating"
  /\ left' = [left EXCEPT ![j] = @ - 1]
  /\ \E broken \in BOOLEAN : failed' = [failed EXCEPT ![j] = @ \/ broken]
  /\ IF left[j] = 0 THEN Goes(j, ReleasePlace(j)) ELSE UNCHANGED at
  /\ UNCHANGED <<guest, seen, state, ran, holding, warned, froze, marker, clock,
                 crashes, excuses>>

(* Mutant: a failed last create returns without the release. *)
CreateReturns(j) ==
  /\ at[j] = "creating"
  /\ left' = [left EXCEPT ![j] = @ - 1]
  /\ \E broken \in BOOLEAN : failed' = [failed EXCEPT ![j] = @ \/ broken]
  /\ IF left[j] = 1 THEN Goes(j, IF failed'[j] THEN "returned" ELSE ReleasePlace(j))
                    ELSE UNCHANGED at
  /\ UNCHANGED <<guest, seen, state, ran, holding, warned, froze, marker, clock,
                 crashes, excuses>>

(* One create per dataset; a failure is noted and the rest are tried. *)
CreateSnapshot(j) ==
  /\ at[j] = "creating"
  /\ left' = [left EXCEPT ![j] = @ - 1]
  /\ \E broken \in BOOLEAN : failed' = [failed EXCEPT ![j] = @ \/ broken]
  /\ IF left[j] = 1 THEN Goes(j, ReleasePlace(j)) ELSE UNCHANGED at
  /\ UNCHANGED <<guest, seen, state, ran, holding, warned, froze, marker, clock,
                 crashes, excuses>>

(* DomainResume, without a retry: a failure becomes a warning. *)
Resume(j) ==
  /\ at[j] = "resuming"
  /\ \/ /\ power = "paused"
        /\ power' = "running"
        /\ holding' = holding \ {j}
        /\ UNCHANGED warned
     \/ /\ warned' = warned \cup {j}
        /\ UNCHANGED <<power, holding>>
  /\ Goes(j, "returned")
  /\ UNCHANGED <<frozen, late, seen, state, ran, left, failed, froze, marker, clock,
                 crashes, excuses>>

(* The report: failed creates fail the job, a failed release only warns. *)
Settle(j) ==
  /\ Live(j) /\ at[j] = "returned"
  /\ state' = [state EXCEPT ![j] = IF failed[j] THEN "failed" ELSE "ok"]
  /\ ran' = [ran EXCEPT ![j] = 0]
  /\ UNCHANGED <<guest, seen, at, work, marker, clock, crashes, excuses>>

(* run's bound: the verdict is timeout, the sequence goes on. *)
TimeOut(j) ==
  /\ Live(j) /\ ran[j] >= SnapshotTimeout
  /\ state' = [state EXCEPT ![j] = "timeout"]
  /\ UNCHANGED <<guest, seen, at, ran, work, marker, clock, crashes, excuses>>

-----------------------------------------------------------------------------
(* thaw, shared by the jobs, the loop and the startup sweep: one retry, and *)
(* the marker is cleared on success only.                                   *)

ThawAnswered(x) ==
  /\ at[x] \in {"thaw1", "thaw2"}
  /\ power = "running"
  /\ frozen' = FALSE
  /\ late' = {}                  \* the agent carries out its commands in turn
  /\ holding' = holding \ {x}
  /\ Goes(x, "clear")
  /\ UNCHANGED <<power, seen, state, ran, left, failed, warned, froze, marker, clock,
                 crashes, excuses>>

ThawFails(x) ==
  /\ at[x] \in {"thaw1", "thaw2"}
  /\ power # "running" => UNCHANGED frozen
  /\ frozen' \in {frozen, FALSE}     \* the answer may be what got lost
  /\ Goes(x, IF at[x] = "thaw1" THEN "thaw2" ELSE EndOf(x))
  /\ warned' = IF x \in Jobs /\ at[x] = "thaw2" THEN warned \cup {x} ELSE warned
  /\ excuses' = excuses \cup {"failed"}
  /\ UNCHANGED <<power, late, seen, state, ran, left, failed, holding, froze, marker,
                 clock, crashes>>

(* frozenClear.  The marker has no owner: it may be a newer job's by now. *)
Clear(x) ==
  /\ at[x] = "clear"
  /\ marked' = FALSE /\ age' = 0
  /\ excuses' = IF frozen /\ \A j \in Jobs : at[j] # "marking"
                   THEN excuses \cup {"clear"} ELSE excuses
  /\ Goes(x, EndOf(x))
  /\ UNCHANGED <<guest, seen, state, ran, work, clock, crashes>>

-----------------------------------------------------------------------------
(* SweepLoop. *)

(* One tick: what has been marked for longer than the bound is thawed. *)
LoopLooks ==
  /\ at["loop"] = "idle" /\ due
  /\ due' = FALSE
  /\ IF marked /\ HeldLong THEN Goes("loop", "thaw1") ELSE UNCHANGED at
  /\ UNCHANGED <<guest, seen, state, ran, work, marker, phase, crashes, excuses>>

(* forceThaw finds no connection or no domain. *)
LoopGivesUp ==
  /\ at["loop"] = "thaw1"
  /\ Goes("loop", "idle")
  /\ excuses' = excuses \cup {"failed"}
  /\ UNCHANGED <<guest, seen, state, ran, work, marker, clock, crashes>>

-----------------------------------------------------------------------------
(* SweepFrozenOnce. *)

(* The sweep is over without having asked the guest: a frozen one is missed. *)
StartupEnds ==
  /\ Goes("startup", "over")
  /\ excuses' = IF frozen THEN excuses \cup {"missed"} ELSE excuses

(* Mutant: the startup sweep does not wait for the first poll. *)
StartupAtOnce ==
  /\ at["startup"] = "waiting"
  /\ IF \E vm \in seen : vm.state = "running" /\ vm.agent
       THEN Goes("startup", "status") ELSE Goes("startup", "over")
  /\ UNCHANGED <<guest, seen, state, ran, work, marker, clock, crashes, excuses>>

(* The first poll is there: a guest it shows running, with an agent, is    *)
(* asked; any other is skipped.                                            *)
StartupLooks ==
  /\ at["startup"] = "waiting"
  /\ \E vm \in seen :
       IF vm.state = "running" /\ vm.agent
         THEN Goes("startup", "status") /\ UNCHANGED excuses ELSE StartupEnds
  /\ UNCHANGED <<guest, seen, state, ran, work, marker, clock, crashes>>

(* No poll came within a minute. *)
StartupGivesUp ==
  /\ at["startup"] = "waiting" /\ seen = {}
  /\ StartupEnds
  /\ UNCHANGED <<guest, seen, state, ran, work, marker, clock, crashes>>

(* guest-fsfreeze-status, and the marker for a guest found frozen. *)
StatusAnswered ==
  /\ at["startup"] = "status"
  /\ power = "running"
  /\ IF frozen THEN marked' = TRUE /\ age' = 0 /\ Goes("startup", "thaw1")
               ELSE UNCHANGED marker /\ Goes("startup", "over")
  /\ excuses' = IF frozen THEN (excuses \ {"failed"}) \cup {"startup"} ELSE excuses
  /\ UNCHANGED <<guest, seen, state, ran, work, clock, crashes>>

StatusFails ==
  /\ at["startup"] = "status"
  /\ StartupEnds
  /\ UNCHANGED <<guest, seen, state, ran, work, marker, clock, crashes>>

-----------------------------------------------------------------------------
(* The world around. *)

(* Source.Poll and Cache.Set: guest-ping is answered by a frozen guest too. *)
Poll ==
  /\ \E agent \in IF power = "running" THEN BOOLEAN ELSE {FALSE} :
       seen' = {[state |-> PolledName, agent |-> agent]}
  /\ UNCHANGED <<guest, at, state, ran, work, marker, clock, crashes, excuses>>

(* The agent gets to a freeze whose caller has given up. *)
LateFreeze(j) ==
  /\ j \in late /\ power = "running"
  /\ frozen' = TRUE
  /\ late' = late \ {j}
  /\ UNCHANGED <<power, seen, at, state, ran, work, marker, clock, crashes, excuses>>

(* Pademelon's other verbs, virsh, the TrueNAS page, the guest itself.  A   *)
(* guest that goes off forgets its freeze.                                  *)
Outside ==
  /\ Outsiders
  /\ \/ power = "off" /\ power' = "running" /\ UNCHANGED <<frozen, late>>
     \/ power = "running" /\ power' = "paused" /\ UNCHANGED <<frozen, late>>
     \/ power = "paused" /\ power' = "running" /\ UNCHANGED <<frozen, late>>
     \/ power # "off" /\ power' = "off" /\ frozen' = FALSE /\ late' = {}
  /\ UNCHANGED <<seen, at, state, ran, work, marker, clock, crashes, excuses>>

(* The process dies and comes up again: the registry, the marker and the   *)
(* cache are gone, the guest is as it was, and a freeze that was on its    *)
(* way may still arrive.                                                   *)
Crash ==
  /\ crashes < MaxCrashes
  /\ crashes' = crashes + 1
  /\ late' \in {late, late \cup {j \in Jobs : at[j] = "freezing"}}
  /\ excuses' = excuses \cup {"crash"} \cup (IF late' # late THEN {"late"} ELSE {})
  /\ seen' = {}
  /\ at' = [x \in Actors |->
              IF x = "loop" THEN "idle" ELSE IF x = "startup" THEN "waiting"
              ELSE IF at[x] = "none" THEN "none" ELSE "returned"]
  /\ state' = [j \in Jobs |-> IF state[j] = "" THEN "" ELSE "gone"]
  /\ ran' = [j \in Jobs |-> 0]
  /\ left' = [j \in Jobs |-> NumDatasets]
  /\ failed' = [j \in Jobs |-> FALSE]
  /\ holding' = {} /\ warned' = {} /\ froze' = {}
  /\ marked' = FALSE /\ age' = 0
  /\ phase' = 0 /\ due' = FALSE
  /\ UNCHANGED <<power, frozen>>

(* A tick, when no short call is under way and nobody is overdue. *)
Tick ==
  /\ \A x \in Actors : at[x] \in {"none", "creating", "returned", "idle", "waiting", "over"}
  /\ at["startup"] = "waiting" => seen = {}
  /\ ~due
  /\ phase' = (phase + 1) % FreezeHoldBound
  /\ due' = (phase + 1 = FreezeHoldBound)
  /\ age' = IF marked /\ age <= 2 * FreezeHoldBound THEN age + 1 ELSE age
  /\ ran' = [j \in Jobs |-> IF Live(j) /\ ran[j] < SnapshotTimeout THEN ran[j] + 1 ELSE ran[j]]
  /\ UNCHANGED <<guest, seen, at, state, work, marked, crashes, excuses>>

Job(j) ==
  \/ Begin(j) \/ BeginFails(j) \/ FreezeAnswered(j) \/ Mark(j) \/ FreezeFails(j)
  \/ Suspend(j) \/ CreateSnapshot(j) \/ Resume(j)
Thaw(x) == ThawAnswered(x) \/ ThawFails(x) \/ Clear(x)
Loop == LoopLooks \/ LoopGivesUp
Startup == StartupLooks \/ StartupGivesUp \/ StatusAnswered \/ StatusFails

Next ==
  \/ \E j \in Jobs : Submit(j) \/ Job(j) \/ Settle(j) \/ TimeOut(j) \/ LateFreeze(j)
  \/ \E x \in Actors : Thaw(x)
  \/ Loop \/ Startup
  \/ Poll \/ Outside \/ Crash \/ Tick

SafeSpec == Init /\ [][Next]_vars

(* Goroutines are scheduled, polls happen, time passes and every call comes *)
(* back (the client bounds its own); an agent that is asked again and again *)
(* while the guest runs answers at last, and carries out a late freeze.     *)
Spec ==
  /\ SafeSpec
  /\ WF_vars(Tick) /\ WF_vars(Poll) /\ WF_vars(LoopLooks) /\ WF_vars(Startup)
  /\ \A j \in Jobs : WF_vars(Job(j)) /\ WF_vars(Settle(j)) /\ WF_vars(LateFreeze(j))
  /\ \A x \in Actors : WF_vars(Thaw(x)) /\ SF_vars(ThawAnswered(x))

-----------------------------------------------------------------------------
TypeOK ==
  /\ power \in {"running", "paused", "off"}
  /\ frozen \in BOOLEAN
  /\ late \subseteq Jobs
  /\ seen \subseteq [state : {"running", "paused", "stopped"}, agent : BOOLEAN]
  /\ Cardinality(seen) <= 1
  /\ at \in [Actors -> {"none", "begin", "freezing", "marking", "suspending", "creating",
                        "thaw1", "thaw2", "clear", "resuming", "returned", "idle",
                        "waiting", "status", "over"}]
  /\ state \in [Jobs -> {"", "running", "ok", "failed", "timeout", "gone"}]
  /\ ran \in [Jobs -> 0..SnapshotTimeout]
  /\ left \in [Jobs -> 0..NumDatasets]
  /\ failed \in [Jobs -> BOOLEAN]
  /\ holding \subseteq Jobs /\ warned \subseteq Jobs /\ froze \subseteq Jobs
  /\ marked \in BOOLEAN
  /\ age \in 0..(2 * FreezeHoldBound + 1)
  /\ phase \in 0..(FreezeHoldBound - 1)
  /\ due \in BOOLEAN
  /\ crashes \in 0..MaxCrashes
  /\ excuses \subseteq {"late", "crash", "clear", "startup", "missed", "failed"}

(* A frozen guest is either in the store's marker or about to be put there *)
(* (or just thawed and not yet taken out): the sweep can always see it.    *)
(* The exceptions are named: a crash, a freeze whose answer came late, and *)
(* a clear that landed after a newer job's mark.                           *)
FrozenIsTracked ==
  frozen => \/ marked
            \/ \E j \in Jobs : at[j] = "marking"
            \/ excuses \cap {"late", "crash", "clear"} # {}

(* A job that ends without a warning has let go of the guest, whichever of *)
(* its creates failed and whether or not its bound had fired.              *)
EndedJobsHoldNothing ==
  \A j \in Jobs : at[j] = "returned" /\ j \notin warned => j \notin holding

(* While the first snapshot job creates its snapshots under a freeze, the  *)
(* guest stays frozen until the loop may thaw it past the bound, and only  *)
(* a startup sweep that took the freeze for a leftover thaws it earlier.   *)
(* (With a second job this is not so: thaws and clears of an earlier one,  *)
(* or of the loop on its behalf, are still on their way.)                  *)
FreezeCoversCreates ==
  \A j \in froze :
    at[j] = "creating" /\ ~frozen /\ ~Outsiders /\ (\A i \in Jobs \ {j} : state[i] = "")
      => ran[j] > FreezeHoldBound \/ "startup" \in excuses

(* Nobody stays marked for more than two periods of the sweep - one to     *)
(* grow older than the bound, one for the ticker to come round - unless a  *)
(* thaw failed since: the job's own, or the loop's.                        *)
HoldWithinTwoBounds == age <= 2 * FreezeHoldBound \/ "failed" \in excuses

(* Between the job, the loop and the startup sweep a frozen guest is thawed *)
(* in the end: however often its agent fails to answer, although the job    *)
(* that froze it gives up after two tries, and also when the process dies   *)
(* in between.  Nobody can thaw a guest that is not running, and nobody     *)
(* comes for one frozen after all had looked, unmarked by a crossing clear, *)
(* or skipped by the one sweep after a crash.                               *)
FrozenIsThawed ==
  frozen ~> (~frozen \/ power # "running" \/ excuses \cap {"late", "clear", "missed"} # {})
=============================================================================
