--------------------------- MODULE SnapshotService ---------------------------
(***************************************************************************)
(* internal/snapshots: the per-guest snapshot lists, fetched from the      *)
(* middleware one guest at a time when a panel opens (Request), when the   *)
(* refresh button asks (RefreshAll), or when a restore or a delete has its *)
(* snapshot id checked (ValidateKnown).  Fetch goroutines queue for        *)
(* fetchMu; every critical section under Service.mu is one step, and what  *)
(* is read before one may be stale in it.                                  *)
(*                                                                         *)
(* A zvol stands for its dataset and the one snapshot it may have.  The    *)
(* poller's list, the clock and the middleware connection change at any    *)
(* moment, so each step that reads one of them reads any value of it.      *)
(***************************************************************************)
EXTENDS Naturals

CONSTANTS
  Domains,      \* the guests there may be
  Zvols,        \* their zvols
  ZvolsOf,      \* which guest has which: DatasetFromDiskSource of its disks
  Validators,   \* goroutines inside SubmitRestore or SubmitDelete
  Questions,    \* what they ask: <<guest, snapshot>>
  AtStart,      \* the snapshots there are at the start
  MaxWaiting,   \* bound: fetch goroutines queued for one guest
  MaxChanges    \* bound: snapshots that come and go

ASSUME DomainsAssumption ==
  /\ ZvolsOf \in [Domains -> SUBSET Zvols]
  /\ AtStart \subseteq Zvols
  /\ Questions \subseteq Domains \X Zvols
  /\ {MaxWaiting, MaxChanges} \subseteq Nat

VARIABLES
  there,      \* the zvols whose snapshot exists on the middleware
  changes,    \* how often a snapshot came or went
  tracked,    \* the keys of Service.states
  held,       \* their values; Fresh where there is none
  sweeping,   \* Service.sweeping
  toSweep,    \* guests the sweep's goroutine has still to fetch
  waiting,    \* single fetches that wait for fetchMu, per guest
  cur,        \* the fetch that holds fetchMu
  span,       \* history: zvols with a snapshot all through cur, and at some time
  basis,      \* history: the span behind each held list
  looking     \* what each validator waits for a fetch with, if it does

world == <<there, changes>>
lists == <<tracked, held, basis>>
sweep == <<sweeping, toSweep>>
fetch == <<cur, span>>
vars == <<world, looking, lists, sweep, waiting, fetch>>

(* state{}. *)
Fresh == [list |-> {}, broken |-> FALSE, stale |-> FALSE, fetching |-> FALSE, fetched |-> FALSE]

NoFetch == [place |-> "free", domain |-> "", found |-> FALSE, left |-> {}, list |-> {},
            broken |-> FALSE, sweeps |-> FALSE]

(* What a list that was never fetched, or is an error's, says of snapshots: *)
(* the first knows of none, the second may not be asked at all.             *)
Unread == [all |-> {}, some |-> {}]
NoWord(d) == [all |-> ZvolsOf[d], some |-> {}]

(* A clean attempt, which may be inside the refetch floor. *)
FreshEnough(d) == ~held[d].broken /\ held[d].fetched

(* delete(s.states, d), for each of them. *)
Drop(gone) ==
  /\ tracked' = tracked \ gone
  /\ held' = [d \in Domains |-> IF d \in gone THEN Fresh ELSE held[d]]
  /\ basis' = [d \in Domains |-> IF d \in gone THEN Unread ELSE basis[d]]

(* The flag goes up and a goroutine of its own is started. *)
StartFetch(d) ==
  /\ waiting[d] < MaxWaiting
  /\ held' = [held EXCEPT ![d].fetching = TRUE]
  /\ waiting' = [waiting EXCEPT ![d] = @ + 1]

Init ==
  /\ there = AtStart
  /\ changes = 0
  /\ tracked = {}
  /\ held = [d \in Domains |-> Fresh]
  /\ basis = [d \in Domains |-> Unread]
  /\ sweeping = FALSE /\ toSweep = {}
  /\ waiting = [d \in Domains |-> 0]
  /\ cur = NoFetch /\ span = Unread
  /\ looking = [c \in Validators |-> {}]

-----------------------------------------------------------------------------
(* Request.  A forced one starts a fetch unless one is coming or the last  *)
(* is fresh; any request leaves a state behind.  The handler has found the *)
(* guest in the cache, which may be history by now.                        *)
Request(d) ==
  /\ tracked' = tracked \cup {d}
  /\ \/ UNCHANGED <<held, waiting>>
     \/ ~held[d].fetching /\ StartFetch(d)
  /\ UNCHANGED <<world, looking, basis, sweep, fetch>>

(* RefreshAll, with the guests of the list it has read.  States of others  *)
(* are dropped, also while a sweep is still running; a sweep queues all    *)
(* that is neither coming nor fresh.                                       *)
RefreshAll(guests) ==
  LET gone == tracked \ guests
      idle == {d \in guests : ~held[d].fetching}
  IN  \E queued \in SUBSET idle :
        /\ IF sweeping THEN queued = {} ELSE \A d \in idle \ queued : FreshEnough(d)
        /\ tracked' = (tracked \ gone) \cup queued
        /\ held' = [d \in Domains |->
                      IF d \in gone THEN Fresh
                      ELSE IF d \in queued THEN [held[d] EXCEPT !.fetching = TRUE] ELSE held[d]]
        /\ basis' = [d \in Domains |-> IF d \in gone THEN Unread ELSE basis[d]]
        /\ toSweep' = toSweep \cup queued
        /\ sweeping' = (sweeping \/ queued # {})
        /\ UNCHANGED <<world, looking, waiting, fetch>>

(* Its goroutine is through with the queue. *)
SweepEnds ==
  /\ sweeping /\ toSweep = {} /\ ~cur.sweeps
  /\ sweeping' = FALSE
  /\ UNCHANGED <<world, looking, lists, toSweep, waiting, fetch>>

-----------------------------------------------------------------------------
(* ValidateKnown. *)

(* Mutant: a list kept over a failed fetch is as good as a clean one. *)
VouchesStale(q) == ~held[q[1]].fetching /\ q[2] \in held[q[1]].list

(* A clean held list that has the snapshot: the answer is yes at once, and *)
(* nothing changes.                                                        *)
Vouches(q) == ~held[q[1]].fetching /\ ~held[q[1]].broken /\ q[2] \in held[q[1]].list

(* No such list: the fetch that is coming, or one started now, is awaited. *)
Validate(c, q) ==
  /\ looking[c] = {}
  /\ ~Vouches(q)
  /\ looking' = [looking EXCEPT ![c] = {q}]
  /\ tracked' = tracked \cup {q[1]}
  /\ IF held[q[1]].fetching THEN UNCHANGED <<held, waiting>> ELSE StartFetch(q[1])
  /\ UNCHANGED <<world, basis, sweep, fetch>>

(* What a turn of the wait answers: no state any more, or not fetching any *)
(* more.                                                                   *)
Answer(q) ==
  CASE held[q[1]].fetching                           -> "wait"
    [] q[1] \notin tracked \/ held[q[1]].broken      -> "error"
    [] OTHER -> IF q[2] \in held[q[1]].list THEN "known" ELSE "unknown"

(* The wait ends with an answer, or at the caller's deadline. *)
Answered(c) ==
  /\ \E q \in looking[c] : Answer(q) # "wait"
  /\ looking' = [looking EXCEPT ![c] = {}]
  /\ UNCHANGED <<world, lists, sweep, waiting, fetch>>

GiveUp(c) ==
  /\ \E q \in looking[c] : Answer(q) = "wait"
  /\ looking' = [looking EXCEPT ![c] = {}]
  /\ UNCHANGED <<world, lists, sweep, waiting, fetch>>

-----------------------------------------------------------------------------
(* fetch. *)

(* fetchMu, and whether the poller still has the guest. *)
Begins(d, sweeps) ==
  /\ cur.place = "free"
  /\ \E found \in BOOLEAN :
       cur' = [NoFetch EXCEPT !.place = "looked", !.domain = d, !.found = found,
                              !.left = IF found THEN ZvolsOf[d] ELSE {}, !.sweeps = sweeps]
  /\ span' = [all |-> there \cap ZvolsOf[d], some |-> there \cap ZvolsOf[d]]
  /\ UNCHANGED <<world, looking, lists, sweeping>>

TakeSlot(d) ==
  /\ waiting[d] > 0
  /\ waiting' = [waiting EXCEPT ![d] = @ - 1]
  /\ Begins(d, FALSE)
  /\ UNCHANGED toSweep

SweepTakesSlot(d) ==
  /\ d \in toSweep
  /\ toSweep' = toSweep \ {d}
  /\ Begins(d, TRUE)
  /\ UNCHANGED waiting

(* Mutant: the state of a guest that vanished is left as it is. *)
CheckKeeps ==
  /\ cur.place = "looked"
  /\ IF cur.domain \in tracked /\ cur.found
       THEN cur' = [cur EXCEPT !.place = "listing"] /\ UNCHANGED <<lists, span>>
       ELSE cur' = NoFetch /\ span' = Unread /\ UNCHANGED lists
  /\ UNCHANGED <<world, looking, sweep, waiting>>

(* Mutant: the early return does not give the slot back. *)
CheckLocked ==
  /\ cur.place = "looked"
  /\ IF cur.domain \in tracked /\ cur.found
       THEN cur' = [cur EXCEPT !.place = "listing"] /\ UNCHANGED <<lists, span>>
       ELSE UNCHANGED <<cur, span>> /\ Drop({cur.domain})
  /\ UNCHANGED <<world, looking, sweep, waiting>>

(* Nothing to fill: the guest vanished, or its state was dropped. *)
Check ==
  /\ cur.place = "looked"
  /\ IF cur.domain \in tracked /\ cur.found
       THEN cur' = [cur EXCEPT !.place = "listing"] /\ UNCHANGED <<lists, span>>
       ELSE cur' = NoFetch /\ span' = Unread /\ Drop({cur.domain})
  /\ UNCHANGED <<world, looking, sweep, waiting>>

(* One query per dataset; the first error is kept and the rest are asked. *)
ListZvol(z) ==
  /\ cur.place = "listing" /\ z \in cur.left
  /\ \/ cur' = [cur EXCEPT !.left = @ \ {z}, !.list = @ \cup ({z} \cap there)]
     \/ cur' = [cur EXCEPT !.left = @ \ {z}, !.broken = TRUE]
  /\ UNCHANGED <<world, looking, lists, sweep, waiting, span>>

(* Mutant: the queries that are left out leave no error. *)
CutSilent ==
  /\ cur.place = "listing" /\ cur.left # {}
  /\ cur' = [cur EXCEPT !.left = {}]
  /\ UNCHANGED <<world, looking, lists, sweep, waiting, span>>

(* The connection is down and does not come back within the grace after    *)
(* Wake, or the budget is spent: the queries left are not made.            *)
Cut ==
  /\ cur.place = "listing" /\ cur.left # {}
  /\ cur' = [cur EXCEPT !.left = {}, !.broken = TRUE]
  /\ UNCHANGED <<world, looking, lists, sweep, waiting, span>>

(* What the attempt makes of a held state: a clean or a partial list       *)
(* replaces the old one, a total failure keeps it and calls it stale.      *)
Filled(st) ==
  LET kept == cur.broken /\ cur.list = {}
  IN  [list |-> IF kept THEN st.list ELSE cur.list, broken |-> cur.broken,
       stale |-> kept /\ st.list # {}, fetching |-> FALSE, fetched |-> TRUE]

(* Mutant: the state is filled without a second look whether it is there. *)
EndUnchecked ==
  /\ cur.place = "listing" /\ cur.left = {}
  /\ held' = [held EXCEPT ![cur.domain] = Filled(@)]
  /\ basis' = [basis EXCEPT ![cur.domain] = IF cur.broken THEN NoWord(cur.domain) ELSE span]
  /\ cur' = NoFetch /\ span' = Unread
  /\ UNCHANGED <<world, looking, tracked, sweep, waiting>>

(* The result goes into whatever state the guest has by now. *)
End ==
  /\ cur.place = "listing" /\ cur.left = {}
  /\ IF cur.domain \in tracked
       THEN /\ held' = [held EXCEPT ![cur.domain] = Filled(@)]
            /\ basis' = [basis EXCEPT ![cur.domain] =
                           IF cur.broken THEN NoWord(cur.domain) ELSE span]
       ELSE UNCHANGED <<held, basis>>
  /\ cur' = NoFetch /\ span' = Unread
  /\ UNCHANGED <<world, looking, tracked, sweep, waiting>>

-----------------------------------------------------------------------------
(* The world around. *)

(* A snapshot is taken, by a job or a periodic task, or deleted. *)
SnapshotChanges(z) ==
  /\ changes < MaxChanges
  /\ changes' = changes + 1
  /\ there' = IF z \in there THEN there \ {z} ELSE there \cup {z}
  /\ span' = IF cur.place # "free" /\ z \in ZvolsOf[cur.domain]
               THEN [all |-> span.all \ {z}, some |-> span.some \cup {z}] ELSE span
  /\ UNCHANGED <<looking, lists, sweep, waiting, cur>>

Fetch == Check \/ (\E z \in Zvols : ListZvol(z)) \/ Cut \/ End

Next ==
  \/ \E d \in Domains :
       Request(d) \/ TakeSlot(d) \/ SweepTakesSlot(d)
  \/ \E guests \in SUBSET Domains : RefreshAll(guests)
  \/ SweepEnds
  \/ \E c \in Validators :
       \/ \E q \in Questions : Validate(c, q)
       \/ Answered(c) \/ GiveUp(c)
  \/ Fetch
  \/ \E z \in Zvols : SnapshotChanges(z)

SafeSpec == Init /\ [][Next]_vars

(* A fetch's calls and its grace end, the sweep's goroutine is scheduled,  *)
(* and Go's mutex hands itself to every waiter in turn.                    *)
Spec ==
  /\ SafeSpec
  /\ WF_vars(Fetch) /\ WF_vars(SweepEnds)
  /\ \A d \in Domains : SF_vars(TakeSlot(d)) /\ SF_vars(SweepTakesSlot(d))

-----------------------------------------------------------------------------
Spans == [all : SUBSET Zvols, some : SUBSET Zvols]

TypeOK ==
  /\ there \subseteq Zvols
  /\ changes \in 0..MaxChanges
  /\ tracked \subseteq Domains
  /\ held \in [Domains -> [list : SUBSET Zvols, broken : BOOLEAN, stale : BOOLEAN,
                           fetching : BOOLEAN, fetched : BOOLEAN]]
  /\ \A d \in Domains \ tracked : held[d] = Fresh
  /\ sweeping \in BOOLEAN /\ toSweep \subseteq Domains
  /\ waiting \in [Domains -> 0..MaxWaiting]
  /\ cur \in [place : {"free", "looked", "listing"}, domain : Domains \cup {""},
              found : BOOLEAN, left : SUBSET Zvols, list : SUBSET Zvols, broken : BOOLEAN,
              sweeps : BOOLEAN]
  /\ cur.place # "free" => cur.domain \in Domains
  /\ span \in Spans
  /\ basis \in [Domains -> Spans]
  /\ looking \in [Validators -> SUBSET Questions]

(* A list marked as being fetched has a fetch that is queued, swept for or *)
(* running, across dropped and recreated states and overlapping fetches of *)
(* one guest: nobody's panel says fetching with nobody at work.            *)
FetchingHasFetch ==
  \A d \in Domains :
    held[d].fetching => \/ waiting[d] > 0
                        \/ d \in toSweep
                        \/ cur.place # "free" /\ cur.domain = d

(* A list without an error is a true one: it has every snapshot that was   *)
(* there all through its fetch, and none that was there at no time of it,  *)
(* whatever failed, ran out of time, changed or was dropped on the way.    *)
CleanListHeld ==
  \A d \in Domains :
    ~held[d].broken => basis[d].all \subseteq held[d].list /\ held[d].list \subseteq basis[d].some

(* A validator answers from the last attempt: known, if that attempt was   *)
(* clean and may have seen the snapshot; unknown, if it was clean and may  *)
(* have missed it (or none has ended since the state was made anew).       *)
AnswersFollowLastFetch ==
  /\ \A q \in Domains \X Zvols : Vouches(q) => q[2] \in basis[q[1]].some
  /\ \A c \in Validators : \A q \in looking[c] :
       /\ Answer(q) = "known" => q[2] \in basis[q[1]].some
       /\ Answer(q) = "unknown" => q[2] \notin basis[q[1]].all

(* Every sweep comes to its end, whatever else waits for the slot: the     *)
(* refresh button does not turn into a no-op.                              *)
SweepsEnd == sweeping ~> ~sweeping
=============================================================================
