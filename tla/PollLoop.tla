------------------------------ MODULE PollLoop ------------------------------
(***************************************************************************)
(* pollLoop of cmd/pademelon: the one goroutine that polls libvirt, on a   *)
(* ticker and when poked through a one-slot channel.  Finished jobs, agent *)
(* events and the refresh button poke; a poke that comes too soon after    *)
(* the last poll is put off with a timer that pokes again.                 *)
(*                                                                         *)
(* Time is discrete and the loop prompt: Tick waits while the select has   *)
(* something to take or a timer is due.  A poll takes up to MaxPoll.       *)
(***************************************************************************)
EXTENDS Naturals, Functions

CONSTANTS
  Interval,       \* the -interval flag
  NudgeInterval,  \* clocks.NudgeInterval
  MaxPoll,        \* the longest a poll takes
  MaxPokes        \* bound: pokes on their way at any time

ASSUME PollAssumption ==
  /\ {Interval, NudgeInterval} \subseteq Nat \ {0}
  /\ {MaxPoll, MaxPokes} \subseteq Nat

VARIABLES
  loop,     \* "polling" or in its "select"
  took,     \* how long the poll has been running
  since,    \* time since last, counted up to NudgeInterval
  slot,     \* what the nudge channel holds
  timers,   \* AfterFunc timers: time left -> how many
  phase,    \* time since the ticker fired
  due,      \* a tick waits in the ticker's channel
  cache,    \* what the cache shows: "empty", "fresh" or "stale"
  wanted,   \* history: somebody poked since the last poll started
  waited    \* history: for how long

vars == <<loop, took, since, slot, timers, phase, due, cache, wanted, waited>>

Pending == \E n \in 0..NudgeInterval : timers[n] > 0
InFlight == slot + FoldFunction(+, 0, timers)

Init ==
  /\ loop = "polling" /\ took = 0
  /\ since = 0
  /\ slot = 0
  /\ timers = [n \in 0..NudgeInterval |-> 0]
  /\ phase = 0 /\ due = FALSE
  /\ cache = "empty"
  /\ wanted = FALSE /\ waited = 0

(* Mutant: the channel queues every poke. *)
PokeQueued ==
  /\ InFlight < MaxPokes
  /\ slot' = slot + 1
  /\ wanted' = TRUE
  /\ UNCHANGED <<loop, took, since, timers, phase, due, cache, waited>>

(* finish, the refresh handler, an agent event: a poke that finds the slot *)
(* taken is dropped.                                                       *)
Poke ==
  /\ InFlight < MaxPokes
  /\ slot' = 1
  /\ wanted' = TRUE
  /\ UNCHANGED <<loop, took, since, timers, phase, due, cache, waited>>

(* poll() begins to look at the guests: whoever poked before is served. *)
StartPoll ==
  /\ loop' = "polling" /\ took' = 0
  /\ wanted' = FALSE /\ waited' = 0

(* poll() returns: Set or SetError, and last is now. *)
EndPoll ==
  /\ loop = "polling"
  /\ loop' = "select"
  /\ since' = 0
  /\ cache' \in {"fresh", "stale"}
  /\ UNCHANGED <<took, slot, timers, phase, due, wanted, waited>>

OnTicker ==
  /\ loop = "select" /\ due
  /\ due' = FALSE
  /\ StartPoll
  /\ UNCHANGED <<since, slot, timers, phase, cache>>

(* Mutant: the nudge is looked at and left in the channel. *)
OnNudgeKept ==
  /\ loop = "select" /\ slot = 1
  /\ since >= NudgeInterval
  /\ StartPoll
  /\ UNCHANGED <<since, slot, timers, phase, due, cache>>

(* A nudge late enough is a poll. *)
OnNudge ==
  /\ loop = "select" /\ slot = 1
  /\ since >= NudgeInterval
  /\ slot' = 0
  /\ StartPoll
  /\ UNCHANGED <<since, timers, phase, due, cache>>

(* Mutant: a nudge too soon is dropped. *)
PutOffDropped ==
  /\ loop = "select" /\ slot = 1
  /\ since < NudgeInterval
  /\ slot' = 0
  /\ UNCHANGED <<loop, took, since, timers, phase, due, cache, wanted, waited>>

(* Mutant: every nudge restarts the debounce window. *)
PutOffRestarts ==
  /\ loop = "select" /\ slot = 1
  /\ since < NudgeInterval
  /\ slot' = 0
  /\ timers' = [timers EXCEPT ![NudgeInterval] = @ + 1]
  /\ since' = 0
  /\ UNCHANGED <<loop, took, phase, due, cache, wanted, waited>>

(* A nudge too soon becomes a timer for the end of the window. *)
PutOff ==
  /\ loop = "select" /\ slot = 1
  /\ since < NudgeInterval
  /\ slot' = 0
  /\ timers' = [timers EXCEPT ![NudgeInterval - since] = @ + 1]
  /\ UNCHANGED <<loop, took, since, phase, due, cache, wanted, waited>>

(* The timer's function pokes, and is done. *)
TimerFires ==
  /\ timers[0] > 0
  /\ timers' = [timers EXCEPT ![0] = @ - 1]
  /\ slot' = 1
  /\ UNCHANGED <<loop, took, since, phase, due, cache, wanted, waited>>

Tick ==
  /\ timers[0] = 0
  /\ IF loop = "polling" THEN took < MaxPoll ELSE slot = 0 /\ ~due
  /\ took' = IF loop = "polling" THEN took + 1 ELSE took
  /\ since' = IF since < NudgeInterval THEN since + 1 ELSE since
  /\ timers' = [n \in 0..NudgeInterval |-> IF n < NudgeInterval THEN timers[n + 1] ELSE 0]
  /\ phase' = IF cache = "empty" THEN 0 ELSE (phase + 1) % Interval
  /\ due' = (due \/ (cache # "empty" /\ phase + 1 = Interval))
  /\ waited' = IF wanted THEN waited + 1 ELSE waited
  /\ UNCHANGED <<loop, slot, cache, wanted>>

Select == OnTicker \/ OnNudge \/ PutOff

Next == Poke \/ EndPoll \/ Select \/ TimerFires \/ Tick

SafeSpec == Init /\ [][Next]_vars

(* Time passes, timers fire, a poll comes back (every call it makes has a  *)
(* timeout), and the select takes what is ready - with nothing said about  *)
(* which of two ready channels it takes.                                   *)
Spec ==
  /\ SafeSpec
  /\ WF_vars(EndPoll) /\ WF_vars(Select) /\ WF_vars(TimerFires) /\ WF_vars(Tick)

-----------------------------------------------------------------------------
TypeOK ==
  /\ loop \in {"polling", "select"}
  /\ took \in 0..MaxPoll
  /\ since \in 0..NudgeInterval
  /\ slot \in {0, 1}
  /\ timers \in [0..NudgeInterval -> Nat]
  /\ phase \in 0..(Interval - 1)
  /\ due \in BOOLEAN
  /\ cache \in {"empty", "fresh", "stale"}
  /\ wanted \in BOOLEAN
  /\ waited \in Nat

(* No poke is lost, dropped though it may be: as long as nobody has polled *)
(* since, it is in the slot or a timer will put it there again.  Job       *)
(* verdicts and agent events rely on it to be seen before the interval.    *)
Remembered == wanted => slot = 1 \/ Pending

(* A poke is served within the poll under way plus one debounce window,    *)
(* however many others poke and however often the ticker polls in between. *)
ServedInTime == wanted => waited <= MaxPoll + NudgeInterval

(* When nobody pokes any more the loop falls quiet: the put-off pokes do   *)
(* not keep each other alive, and only the interval polls are left.        *)
FallsQuiet == <>[][~Poke]_vars => <>[](InFlight = 0)
=============================================================================
