# Pademelon in TLA+

Pademelon is a small web dashboard for the libvirt guests of a TrueNAS host. It
polls libvirt, shows what it found, and carries out what a person at the page
asks for: power verbs, reboots, consistent snapshots, restores. This directory
holds TLA+ models of the parts of it that run concurrently or can fail half way,
the TLC configurations that check them, and theorems about them.

Source references are relative to the repository (`internal/...`, `cmd/...`);
`PROJECT.json` has the lines each definition stands for.

## The system

| component | state it keeps | operations | talks to |
|---|---|---|---|
| job registry (`internal/actions/actions.go`) | `jobs`, each job's state, steps, detail | register, List/Get, run (two goroutines per job), finish | workers by a one-slot channel; the poll loop by a nudge |
| guest verbs (`actions.go`: execute, restore, reboot, shutdown, executeDelete) | the job's steps | start, pause, resume, force-off, shutdown ladder, reboot, staged and direct restore, delete | the cached poll (admission), libvirt through `WithConnection`, the middleware for rollbacks |
| snapshot job and sweeps (`actions.go`: snapshot, thaw, SweepLoop, SweepFrozenOnce) | `frozen` marker, in memory | hold, create, release; force-thaw on a ticker; thaw at startup | guest agent, libvirt, middleware |
| poll loop (`cmd/pademelon/main.go`) | last poll, ticker, nudge channel, timers | poll, put off, re-poke | `Source.Poll`, `Cache.Set/SetError` |
| libvirt source (`internal/libvirtsrc/source.go`) | connection, subscription, event hints, rate samples | connect, Close, WithConnection, Poll, agent events | libvirt; the poll loop by Notify |
| middleware client (`internal/truenas/truenas.go`) | connection, reader, pending calls, status, `dead` and `wake` | Run, dial, login, call, readLoop, drop, keepalive | TrueNAS over one websocket |
| snapshot list service (`internal/snapshots`) | per-guest fetch states | Request, RefreshAll, ValidateKnown, fetch | the client; admission of restores and deletes |
| model and cache (`internal/model`) | the last snapshot of all guests | Set, SetError, Get | written by the poll loop, read by everybody |
| web (`internal/web`) | failed logins per source | routes, sessions, throttle | all of the above |
| inspection and rates (`source.go`: inspect, cpuPercent, fillDiskLive, enableStatsPeriod) | previous samples, balloon timer marker | read, difference, forget | libvirt, inside a poll |
| agent replies (`internal/agent`) | none | decoding | inside a poll |

A request becomes a job in the registry. Its admission is checked against the
*cached* poll, its worker acts on the *real* guest, its runner waits for the
worker or for a wall-clock bound, and when it is over it pokes the poll loop, so
that the cache catches up. Nothing serialises two verbs on one guest; nothing is
persisted; and the guest may also be managed from the TrueNAS page or virsh, or
act by itself. That is where the hard behaviour comes from:

* workers outlive their job: the bound abandons the job, not the call;
* decisions are taken on a poll that may be old;
* an agent or middleware call that timed out may still be carried out;
* pokes, loss signals and wakes go through one-slot channels that drop;
* connections die under their users, and are replaced by one of them;
* the process may die with a guest frozen, paused or stopped.

What makes each part correct, and the lines where it could go wrong, is listed
under `hazards` in `PROJECT.json`; the properties below are chosen from that list.

## Modules

| module | models | notes |
|---|---|---|
| `JobSlots` | what the registry promises | slots per (domain, verb) with one job each, one verdict per job |
| `JobRegistry` | `register`, `sweepLocked`, `List`'s sweep, `run`, `finish` | discrete time; implements `JobSlots` |
| `GuestActions` | `Submit`, `SubmitRestore`, `SubmitDelete`, `execute`, `executeDelete`, `shutdown`, `reboot`, `restore`, `waitStopped` on one guest | a bound or deadline may pass at any moment |
| `SnapshotHold` | `snapshot`, `thaw`, marker, `SweepLoop`, `SweepFrozenOnce`, crashes, on one guest | discrete time in fractions of the hold bound |
| `PollLoop` | `pollLoop` | discrete time |
| `LibvirtSource` | `connect`, `Close`, `WithConnection`, `Poll`, event subscription, hints | one guest with its runtime ids |
| `MiddlewareClient` | `Run`, `dial`, `login`, `drop`, `call`, `readLoop`, `failPending`, `Wake`, `Status` | payloads abstracted to question numbers |
| `SnapshotService` | `Request`, `RefreshAll` and its goroutine, `ValidateKnown`, `fetch` | a zvol stands for its dataset and the one snapshot it may have; the poller's list, clock and connection are read afresh at every step |
| `GuestSamples` | `inspect`, `cpuPercent`, `fillDiskLive`, `forget...`, `enableStatsPeriod` on one guest | one counter per QEMU process stands for processor time and bytes |
| `MC...` | constants, request sets and symmetry for TLC | one for each component |
| `...Proofs` | theorems and the lemmas they rest on | one for each component proved about |

How the models correspond to the code:

* **A goroutine is a program counter.** `runner`/`worker` (JobRegistry), `pc`
  (GuestActions), `at` (the others). A call in flight to libvirt, an agent or the
  middleware is a place; its effect on the guest and its answer are what the next
  action does. Code between two such calls, or between an unlock and the next
  lock, is one action.
* **A mutex is modelled where it is held across a blocking call** (`mu` in
  LibvirtSource). Elsewhere a critical section is one action.
* **A one-slot channel** is a bit (`nudge`, `slot`, `dead`, `wake`) or a value
  with an empty one (`done`, `box`); a `select` with `default` is a step that sets
  the bit whether or not it was set.
* **Time.** JobRegistry, PollLoop and SnapshotHold have a Tick. It waits for what
  the code does at once (a due timer, a runnable goroutine; in JobRegistry up to
  `Latency` late), and passes through what may take long: a libvirt call in a
  job, a middleware create, a poll. GuestActions and MiddlewareClient have no clock: their
  timers may fire at any moment, which allows more than the real timers do.
* **The guest, libvirt, the agent and the server** are not in `src/`. They are
  modelled from the calls made and the answers the code distinguishes, and marked
  external in the map. A paused guest ignores a shutdown request, a running one may
  act on it whenever it likes or never, a frozen guest refuses a second freeze; a
  rollback whose call timed out may be carried out later or not at all; a fresh QEMU
  counts from zero with its balloon timer off.
* **History variables** (`disturbed`, `holding`, `excuses`, `wanted`, `waited`,
  `news`, `crossed`, `questions`, `span`, `basis`, `done`, `markedFor`) are written and never read by a guard that
  models code, except `questions`, which only numbers the requests. `holding` also
  stands for the locals `froze` and `suspended` that decide on the release.

Modules stand alone; they meet at stated interfaces. GuestActions and SnapshotHold
are what a JobRegistry worker may do; the poll that refreshes `seen` in both is
PollLoop's EndPoll; the nudge JobRegistry's Finish sets is PollLoop's Poke;
LibvirtSource provides the `WithConnection` whose failure is GuestActions'
FindFails, and the Poll whose error PollLoop turns into a stale cache.
MiddlewareClient's calls are the creates, rollbacks and deletes, and the queries of
SnapshotService, whose ValidateKnown is the guard in GuestActions' admission of
restores and deletes. GuestSamples is what a poll of PollLoop keeps of a guest.

## Runs

| run | bounds | checks |
|---|---|---|
| `JobRegistry` | 2 jobs, 1 guest, a plain verb and one with two bounds, retention exactly as long as assumed | `TypeOK`, `SingleFlight`, `LiveListed`, `VerdictStands`, `EveryJobEnds`, `ImplementsSlots` |
| `GuestActions` | 2 jobs, all requests but the staged restore that leaves the guest off, outsiders | `TypeOK`, `RollbackOffUnlessRestarted`, `PhasesInOrder`, `VerdictMatchesPills`, `EveryWorkerReturns` |
| `GuestActions_pills` | 1 staged restore | refutes `BoundEndsTheSequence` |
| `SnapshotHold` | 2 jobs, 1 dataset, 1 crash, unreliable calls | `TypeOK`, `FrozenIsTracked`, `EndedJobsHoldNothing`, `FreezeCoversCreates` |
| `SnapshotHold_live` | 1 job, 2 datasets, 1 crash, unreliable calls, outsiders | `HoldWithinTwoBounds`, `FrozenIsThawed` |
| `PollLoop` | interval 5, window 2, polls up to 2, 4 pokes in flight | `TypeOK`, `Remembered`, `ServedInTime`, `FallsQuiet` |
| `LibvirtSource` | 1 worker beside the poll, 2 dials, 2 runtime ids | `TypeOK`, `EventsFollowConnection`, `ConnectionHasEvents`, `HintAwaitsPoll`, `PollsReturn` |
| `LibvirtSource_noevents` | the same | refutes `FailedSubscriptionDegrades` |
| `MiddlewareClient` | 1 caller beside Run, 2 dials, 1 call, 1 keepalive | `TypeOK`, `RepliesMatch`, `PendingListens`, `OneReader`, `StatusTrue`, `LossKnown`, `LiveDropExplained` |
| `SnapshotService` | 2 guests (2 zvols, none), 1 validator, 1 queued fetch per guest, 1 change | `TypeOK`, `FetchingHasFetch`, `CleanListHeld`, `AnswersFollowLastFetch`, `SweepsEnd` |
| `GuestSamples` | 3 boots, counters up to 2 | `RatesTrue`, `TimerComesOn` |
| `GuestSamples_restart` | 2 boots, counters up to 1 | refutes `StatsPeriodPerBoot` |

Why the bounds are enough to be of interest. Two jobs give every overlap of two
verbs, among them a job and the abandoned worker of an earlier one; three add
only pairs of pairs. In JobRegistry the retention is the smallest the assumption
allows, so the sweep is as eager as it can be against the slowest job (with the
defaults it is an hour against four minutes). In PollLoop the interval is longer
than a poll and a window together, as the defaults are; more pokes in flight
than four add timers of the same age. Two dials give a connection, its loss and
its successor, with the old reader or drain goroutine still on its way out; two
runtime ids let a guest return under another one or the same. One crash, because
the second startup finds nothing the first did not. A staged restore without a start
is the first part of one with it, and ends as a direct one does, so GuestActions
leaves it out. In SnapshotService two zvols let one query fail and the other
succeed; a queued fetch beside the sweep's and the running one makes two fetches of
one guest overlap with a drop and a new state in between; one change of a snapshot
falls before, during or after each of them. In GuestSamples the third boot lets a
sample outlive two unseen restarts, and a counter up to two can overtake an old
sample. The unsigned counter is as narrow as leaves room for -1 beyond all counts. Symmetry is used in
`SnapshotHold` only, a safety run whose jobs are interchangeable. Every run checks
for deadlock.

`SingleFlight` and the visibility of live jobs depend on `RetentionAssumption`
(the retention is at least the longest bound and two scheduling delays), which is
assumed in `JobRegistry` and true of the constants in `internal/clocks`. It is not
enforced by the code: the sweep does not look at a job's state. `FreezeCoversCreates`
depends on `ClocksAssumption` (the sweep's bound is shorter than a snapshot job's) in
the same way: 60 and 90 seconds in `internal/clocks`.

### Fairness

* Goroutines that can run are scheduled, timers fire, time passes: weak fairness
  of the runner's steps, of `Tick`, `Poll`, `Select`, `LoopLooks`, `Startup`.
* A worker's call in GuestActions comes back (weak fairness of `Advance`), as
  libvirt's answers do; **not** in JobRegistry, where a worker may hang for ever
  and jobs must end all the same. The guest is never obliged to act on a
  shutdown request, and nobody is obliged to submit anything.
* In SnapshotHold an agent asked again and again while the guest runs answers at
  last (strong fairness of `ThawAnswered`). Without it nothing can thaw a guest.
  It may fail any finite number of times before, in every run.
* In SnapshotService the goroutine that waits for `fetchMu` gets it (strong fairness
  of `TakeSlot`, `SweepTakesSlot`: the same hand-off), and a fetch's queries end, by
  its budget if not by an answer. Nobody is obliged to ask for anything.
* In GuestSamples polls go on, and a call that may fail does not fail each time
  (strong fairness of `Describe`, `Enable`). The guest owes nothing.
* In LibvirtSource a goroutine that waits for the mutex gets it (strong fairness
  of `Connect`): Go's mutexes switch to hand-off for a waiter of more than a
  millisecond. Dials and calls time out. `PollSteps` is strongly fair because a step
  of it, the hint's consumption, also takes that mutex for a moment.
* PollLoop assumes nothing of which ready channel `select` takes.
* MiddlewareClient is checked for safety only.

### What is bounded for the checker and not in the code

`MaxDials`, `MaxAsks`, `MaxPings`, `MaxPokes`, `MaxCrashes`, `MaxWaiting`,
`MaxChanges`, `MaxBoots`, `MaxCount` cap how often something
happens; once a cap is reached the action is no longer taken (a client out of
dials stays in its backoff). `age` in JobRegistry, `since` in PollLoop and `age`
in SnapshotHold are counted up to the last value a comparison tells apart.

## What the code does not do as written

Three disagreements are runs of their own:

1. **A failed event subscription hangs the source.** `connect` holds `Source.mu`;
   `startAgentEvents`, called under it, reports a failure through
   `warnEventsUnavailable`, which locks `Source.mu` again. The comment promises that
   failures degrade and do not kill the poll. `FailedSubscriptionDegrades` is
   violated; `PollsReturn` holds with exactly this case excepted.
2. **A timed-out job may go on with its phases.** The bound marks the active phase
   failed, as the one that did not land, so that the phases agree with the verdict.
   The abandoned worker does not know. In the run the bound fires while a staged
   restore awaits its guest; the guest then stops, the wait marked failed is shown done,
   and the rollback under way (`BoundEndsTheSequence` is violated). The bound was chosen so
   that this would not happen, but it covers the wait only: a first shutdown request that
   blocks for almost a minute and a slow re-send on top of three minutes of waiting
   exceed it. A bound that fires before the first phase marks nothing, and the phases
   then begin under the verdict; that one needs a lookup that takes as long as the
   bound, and is not what the run is about.
3. **A restart between two polls leaves the balloon timer off.** `statsPeriodSet`
   says "once per boot" but is cleared only by a poll that sees the guest not running.
   Pademelon's own reboot starts the guest right after its confirmed stop. The new
   QEMU then never gets its timer, and its memory figure goes stale and is hidden
   for the rest of that boot. `StatsPeriodPerBoot` is violated; `TimerComesOn` holds
   with exactly this case excepted.

Others are built into the models and described here; the properties state what
holds in spite of them:

* `clocks.go` says a nudge too soon after a poll is dropped; it is put off and
  poked again (`Remembered`).
* `clocks.go` says the sweep unfreezes within one bound. A freeze just after a
  tick waits for the second one: it is two (`HoldWithinTwoBounds`), and after a thaw
  that failed, as it does on a guest a second job has paused, it has no bound.
* `SweepFrozenOnce` asks each guest once: a frozen guest whose agent does not answer
  just then, or that the first poll has as not running, is not looked at again
  (`missed` in `FrozenIsThawed`).
* A freeze that timed out and is carried out later, and a clear that lands after a
  newer mark, leave a frozen guest without a marker (`FrozenIsTracked` names both).
* The startup sweep thaws a freeze of a job accepted since (`FreezeCoversCreates`
  names it); it does not resume a guest that a snapshot job had paused when the
  process died, and a reboot cut short leaves its guest off.
* "rollback failed, the guest is left as-is": a call that timed out may still be
  carried out, after the job's verdict and after somebody has started the guest.
* A direct rollback is refused under a running guest by the cache only: a guest
  started since the last poll gets it without the acknowledgement.
* `ValidateKnown` promises the middleware's answer "right now", but a clean held list
  of any age that has the snapshot is enough: a restore or delete of a snapshot gone
  since is accepted, and fails later. It says "never a silent unknown" of a failed
  fetch; a wait whose state was dropped and made anew meanwhile, and not fetched,
  does answer unknown.
* `RefreshAll` drops the state of a vanished guest under a running fetch. If both come
  back, the older fetch fills the new state and takes its fetching mark down while
  the newer one is still queued: a panel stops waiting early, with a true list.
* A rate after an unseen restart whose counter has overtaken the old sample is shown,
  and too low (`RatesTrue` says never too high). The comments say the counter going
  backwards tells a restart.
* A snapshot job's release resumes a guest an operator paused after the last poll.
* `Source.Close` after a failed list closes whatever connection is current, a
  worker's fresh one too.
* A hint for a guest that stopped before the poll is not consumed by it, although
  the comment in `inspect` says a hint cannot outlive its poll.
* The client drains a stale loss signal after its login, but the old reader may
  send it later still: a healthy connection is then dropped once
  (`LiveDropExplained` says for no other reason). The old reader also fails
  the calls that wait on the new connection.

## Proofs

TLC checks the instances above; these theorems hold for every value of the
constants that satisfies the modules' assumptions.

`JobRegistryProofs` (any jobs, domains, verbs, bounds): `TypeCorrect`,
`SingleFlightHolds`, `LiveListedHolds`, `VerdictStandsHolds`, and
`RegistryImplementsSlots`, the safety half of the refinement. `SingleFlight` is not
inductive: `register` looks for a live job only among those in the map. `IInv` adds
`RunnerInv`, which ties each runner's place to its job's state, to its age and to
the time it has waited; from it a live job is at most bound plus two latencies old,
so by `RetentionAssumption` the sweep keeps it (`LiveSurvivesSweep`), and `register`
sees it. The refinement shows action by action that the registry takes a
`JobSlots` step or a stutter: `Register` accepts, `Settle` and `TimeOut` conclude.

`GuestActionsProofs` (any number of jobs, any requests, with or without outsiders):
`StagedRollbackHolds`. The property speaks of a rollback under way; the invariant
extends it to jobs that have confirmed the guest off and are about to issue it
(`Guarded`), because only `ConfirmOff` looks at the guest, and to rollbacks the
middleware still has after their call gave up (`rolling`). Whatever powers the guest
on enters those jobs into `disturbed`. `PillsInOrder` and `VerdictsMatch` rest on one
invariant per job, `Pills`, which says for each place of the worker what the pills are:
which phases its job lists, which is open, what must be done behind it. A phase is
open if it is active, or if the bound has marked it failed while the worker is still in it
(`Open`); that is what keeps the order true of a timed-out job. `Typing` is `TypeOK`.

`PollLoopProofs` (any interval, window, poll duration and number of pokes):
`NoPokeLost`, `PokesServedInTime` and `Typing`. `Remembered` says that a timer is there;
`Windowed` adds that it fires before the window since the last poll is over, and
`Aged` what a poke has waited at each point of a round. No relation between
interval and window is needed.

`SnapshotServiceProofs` (any guests, zvols, validators, queued fetches and changes):
`FetchingHasFetchHolds`, `CleanListHolds`, `AnswersFollow`. A list is judged by what
was there while its fetch ran (`span`); the invariant says of the fetch under way
that whatever was there all along is already listed or still to be asked for, unless
an error is noted (`FetchTrue`), and of a state that was dropped that it is not
marked as fetching (`GoneIdle`). `Typing` needs in addition that a guest
without a state has nothing on record (`UntrackedFresh`).

`GuestSamplesProofs` (any number of boots, any counter, any width beyond it):
`RatesHold`. Readings are ordered by `After`: within one boot the counter moved by
what the guest did, across boots at least what the later counter says was done. Every
reading held is before the present, and the processor time an inspection has read is
after the sample it will replace (`Chronology`). `TypeOK` is part of the invariant
and proved with it (`Typed`).

`SnapshotHoldProofs` (any jobs, zvols, bounds and crashes, outsiders or not):

* `JobsLetGo`: what a job holds is on record from the answer of the hold to that of
  the release, and every way back leads over one of the two or over the warning
  (`LetGo`).
* `FrozenTracked`: a freeze that is still to come is one the excuses name
  (`LateExcused`), and every other one is a job's that is about to mark it.
* `TwoBounds`: a mark no thaw has failed on is at most the bound plus the time since
  the last tick old (`NotOverdue`), because time waits for the loop once it goes for it.
  The run has one job; the theorem has any number.
* `CreatesCovered`: up to the bound the marker can only be the first job's and is no
  older than the job, so neither the loop nor a thaw of the job's own is on its way
  (`Early` implies `Quiet`). This needs `ClocksAssumption`: a job's age (`ran`) is
  counted up to its own bound, which must lie beyond the sweep's to tell the two apart.
* `Typing`; all of them build on `BaseInv`, which adds to the types that a dataset is
  left as long as creates are, and that a submitted job has a goroutine.

`LibvirtSourceProofs` (any workers, runtime ids, dials, events wired or not): `Typing`,
`DrainsFollow`, `RedialsResubscribe`, `HintsAwait`. The types alone are not inductive:
that a subscription is put beside a connection that is there depends on who holds the
mutex at each place. `SubscriptionInv` proves them together with it: a user inside
`connect` is the holder (`Locking`), the connection is gone as long as the dial lasts
(`DialInside`), and the one drain goroutine not cancelled is the one on record
(`OneSubscription`). A hint outlives the end of a poll because an event during it
pokes again or is seen by that poll (`HintLeaves`).

`MiddlewareClientProofs` (any callers, dials, calls and keepalives): `Typing`,
`SendsNeverBlock`, `RepliesReachTheirCall`, `ReadersCancelled`, `StatusIsTrue`,
`LossIsKnown`, and the action property `DropsExplained`. `Run` is one goroutine, and
which of its places it is in says which connection it has and whether a call of its
own is under way (`Place`); ids count the questions (`Counted`), so an id stands for
one question (`Matched`) and a slot of the pending table for one listening call whose
channel is empty (`CallTable`). For the loss: a reader that failed has closed
its socket (`ReaderGone`), and nothing tells `Run` of a loss while the last socket
lives and no older reader has signalled late (`NoFalseLoss`). Proving `LossKnown` showed
that one of its disjuncts was not needed; the property is the stronger for it.

Every invariant and action property that a passing run checks is stated by one of these
theorems. Only model-checked is liveness (`EveryJobEnds`, the fair half of
`ImplementsSlots`, `EveryWorkerReturns`, `FrozenIsThawed`, `FallsQuiet`,
`PollsReturn`, `SweepsEnd`, `TimerComesOn`): it rests on fairness and so on ENABLED, which
the prover's backends do not cover.

## Not modelled

* Routes, rendering, sessions, the theme: translation between HTTP and the calls
  above. The login throttle is planned.
* Decoding of agent replies and domain XML; startup, flags and the health probe:
  no state that outlives a call, or sequential set-up.
* The rows of a snapshot list (two snapshots of one zvol come in one answer and share
  its fate), the time a rate is divided by and the clamping of the processor's, the
  balloon memory figure (one answer, no state), the log of transitions.

## Plan

In the order of importance; the first nine are done.

1. `JobSlots`, `JobRegistry` and their theorems.
2. `GuestActions` and the rollback theorem.
3. `SnapshotHold`.
4. `PollLoop` and its theorems.
5. `LibvirtSource`.
6. `MiddlewareClient`.
7. `SnapshotService` and its theorems.
8. `GuestSamples` and the theorem about rates.
9. Proofs of every other invariant and action property of the passing runs.
10. `AuthThrottle`: the delay sequence and its cap, and the pruned table.
