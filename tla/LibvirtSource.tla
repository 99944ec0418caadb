--------------------------- MODULE LibvirtSource ----------------------------
(***************************************************************************)
(* The connection owner of internal/libvirtsrc: one libvirt connection     *)
(* shared by the poll loop and the action workers, redialled on demand     *)
(* under one mutex, and the agent lifecycle events that ride on it.  What  *)
(* a poll reads of a guest besides consuming its event hint is left out,   *)
(* and one guest stands for all: inspections only meet at the mutex.       *)
(***************************************************************************)
EXTENDS Naturals

CONSTANTS
  Workers,       \* goroutines inside WithConnection
  Ids,           \* libvirt's runtime domain ids; 0 is a guest that is off
  MaxDials,      \* bound: successful dials
  Events         \* Config.Notify is wired

ASSUME SourceAssumption ==
  /\ Ids \subseteq Nat \ {0}
  /\ MaxDials \in Nat
  /\ Events \in BOOLEAN
  /\ {"poll", "free"} \cap Workers = {}

Users == Workers \cup {"poll"}
Conns == 1..MaxDials

VARIABLES
  mu,         \* who holds Source.mu across a blocking call, or "free"
  conn,       \* Source.conn; 0 is nil
  up,         \* the connections whose socket lives
  dials,      \* connections made so far
  cancel,     \* whose subscription eventCancel cancels; 0 is nil
  drains,     \* connections with a drain goroutine
  cancelled,  \* subscriptions whose context is cancelled
  at,         \* where each user is
  using,      \* the connection a user has borrowed
  guest,      \* the guest's runtime id
  wire,       \* events on their way to the drain goroutine of a connection
  hints,      \* Source.agentEvents
  nudge,      \* the poll loop's one-slot channel
  lost,       \* the last poll ended in SetError
  listed,     \* the id the poll in progress has listed
  news        \* history: an event of the guest's present run awaits a poll

connection == <<mu, conn, up, dials>>
events == <<cancel, drains, cancelled>>
world == <<guest, wire>>
hinting == <<hints, nudge, lost, listed, news>>
vars == <<connection, events, at, using, world, hinting>>

Init ==
  /\ mu = "free" /\ conn = 0 /\ up = {} /\ dials = 0
  /\ cancel = 0 /\ drains = {} /\ cancelled = {}
  /\ at = [u \in Users |-> "idle"]
  /\ using = [u \in Users |-> 0]
  /\ guest \in Ids \cup {0}
  /\ wire = {} /\ hints = {} /\ nudge = FALSE /\ lost = FALSE
  /\ listed = 0 /\ news = FALSE

Goes(u, where) == at' = [at EXCEPT ![u] = where]

(* Mutant: the subscription is taken off the record but not cancelled. *)
StopUncancelled ==
  /\ cancel' = 0
  /\ UNCHANGED cancelled

(* stopAgentEvents. *)
StopAgentEvents ==
  /\ cancelled' = IF cancel # 0 THEN cancelled \cup {cancel} ELSE cancelled
  /\ cancel' = 0

(* The end of a poll or of a borrowed call. *)
Ends(u, failed) ==
  /\ Goes(u, "idle")
  /\ using' = [using EXCEPT ![u] = 0]
  /\ lost' = IF u = "poll" THEN failed ELSE lost

-----------------------------------------------------------------------------
(* connect *)

(* A worker calls WithConnection; the poll loop calls Poll, on its ticker  *)
(* or for a nudge it takes.                                                *)
Call(u) ==
  /\ at[u] = "idle"
  /\ Goes(u, "connecting")
  /\ IF u = "poll" THEN nudge' \in {nudge, FALSE} ELSE UNCHANGED nudge
  /\ UNCHANGED <<connection, events, using, world, hints, lost, listed, news>>

(* The lock taken on a live connection, which is lent and the lock let go. *)
Borrow(u) ==
  /\ at[u] = "connecting" /\ mu = "free"
  /\ conn \in up
  /\ using' = [using EXCEPT ![u] = conn]
  /\ Goes(u, "borrowed")
  /\ UNCHANGED <<connection, events, world, hinting>>

(* The lock taken on a dead connection or none: its events are stopped,    *)
(* and the dial begins with the lock held.                                 *)
BeginDial(u) ==
  /\ at[u] = "connecting" /\ mu = "free"
  /\ conn \notin up
  /\ mu' = u
  /\ IF conn # 0 THEN StopAgentEvents ELSE UNCHANGED <<cancel, cancelled>>
  /\ conn' = 0
  /\ Goes(u, "dialling")
  /\ UNCHANGED <<up, dials, drains, using, world, hinting>>

(* Mutant: a failed dial returns without unlocking. *)
DialKeepsLock(u) ==
  /\ at[u] = "dialling"
  /\ UNCHANGED mu
  /\ Ends(u, TRUE)
  /\ UNCHANGED <<conn, up, dials, events, world, hints, nudge, listed, news>>

DialFails(u) ==
  /\ at[u] = "dialling"
  /\ mu' = "free"
  /\ Ends(u, TRUE)
  /\ UNCHANGED <<conn, up, dials, events, world, hints, nudge, listed, news>>

Dialled(u) ==
  /\ at[u] = "dialling"
  /\ dials < MaxDials
  /\ dials' = dials + 1
  /\ conn' = dials + 1
  /\ up' = up \cup {dials + 1}
  /\ IF Events
       THEN Goes(u, "subscribing") /\ UNCHANGED <<mu, using>>
       ELSE Goes(u, "borrowed") /\ mu' = "free" /\ using' = [using EXCEPT ![u] = dials + 1]
  /\ UNCHANGED <<events, world, hinting>>

(* Mutant: the drain goroutine runs, its cancel function is lost. *)
SubscribedUncancelled(u) ==
  /\ at[u] = "subscribing"
  /\ UNCHANGED cancel
  /\ drains' = drains \cup {conn}
  /\ mu' = "free"
  /\ using' = [using EXCEPT ![u] = conn]
  /\ Goes(u, "borrowed")
  /\ UNCHANGED <<conn, up, dials, cancelled, world, hinting>>

(* startAgentEvents: the subscription stands, its drain goroutine runs. *)
Subscribed(u) ==
  /\ at[u] = "subscribing"
  /\ cancel' = conn
  /\ drains' = drains \cup {conn}
  /\ mu' = "free"
  /\ using' = [using EXCEPT ![u] = conn]
  /\ Goes(u, "borrowed")
  /\ UNCHANGED <<conn, up, dials, cancelled, world, hinting>>

(* startAgentEvents: libvirt refuses, or the connection died since the     *)
(* dial.  warnEventsUnavailable locks Source.mu, which connect holds: Go's *)
(* mutex is not reentrant, so there is no step from "warning".             *)
SubscribeFails(u) ==
  /\ at[u] = "subscribing"
  /\ Goes(u, "warning")
  /\ UNCHANGED <<connection, events, using, world, hinting>>

-----------------------------------------------------------------------------
(* What is done with the connection. *)

(* A worker's calls come back, well or not. *)
WorkerEnds(u) ==
  /\ u \in Workers /\ at[u] = "borrowed"
  /\ Ends(u, FALSE)
  /\ UNCHANGED <<connection, events, world, hints, nudge, listed, news>>

(* Poll lists the domains. *)
List ==
  /\ at["poll"] = "borrowed" /\ using["poll"] \in up
  /\ listed' = guest
  /\ Goes("poll", "inspecting")
  /\ UNCHANGED <<connection, events, using, world, hints, nudge, lost, news>>

(* The list fails: mostly, but not only, because the connection died. *)
ListFails ==
  /\ at["poll"] = "borrowed"
  /\ Goes("poll", "closing")
  /\ UNCHANGED <<connection, events, using, world, hinting>>

(* Events of a connection that is gone are lost, or already in the channel. *)
MayLose(c) == wire' \in {wire, {e \in wire : e.on # c}}

(* Close drops whatever connection is there by now. *)
CloseConn ==
  /\ at["poll"] = "closing" /\ mu = "free"
  /\ StopAgentEvents
  /\ conn' = 0
  /\ up' = up \ {conn}
  /\ MayLose(conn)
  /\ Ends("poll", TRUE)
  /\ UNCHANGED <<mu, dials, drains, guest, hints, nudge, listed, news>>

(* Mutant: a poll consumes the hints of every domain, without poking anew. *)
ConsumeAll ==
  /\ at["poll"] = "inspecting" /\ mu = "free"
  /\ hints' = {}
  /\ news' = (news /\ listed # guest)
  /\ Goes("poll", "reading")
  /\ UNCHANGED <<connection, events, using, world, nudge, lost, listed>>

(* inspect's first act: the hint of the listed id is consumed.  A guest    *)
(* that is off is listed under no id.                                      *)
Consume ==
  /\ at["poll"] = "inspecting" /\ mu = "free"
  /\ hints' = hints \ {listed}
  /\ news' = (news /\ listed # guest)
  /\ Goes("poll", "reading")
  /\ UNCHANGED <<connection, events, using, world, nudge, lost, listed>>

(* The poll is complete and goes to Cache.Set. *)
Report ==
  /\ at["poll"] = "reading"
  /\ Ends("poll", FALSE)
  /\ listed' = 0
  /\ UNCHANGED <<connection, events, world, hints, nudge, news>>

-----------------------------------------------------------------------------
(* Events. *)

(* drainAgentEvents and handleAgentEvent: the hint is recorded, the poll    *)
(* loop poked.  A drain that has been cancelled may still take an event.   *)
Deliver(c, id) ==
  /\ c \in drains /\ [on |-> c, id |-> id] \in wire /\ mu = "free"
  /\ wire' = wire \ {[on |-> c, id |-> id]}
  /\ hints' = hints \cup {id}
  /\ nudge' = TRUE
  /\ news' = (news \/ id = guest)
  /\ UNCHANGED <<connection, events, at, using, guest, lost, listed>>

(* The drain goroutine ends: cancelled, or its channel closed. *)
DrainEnds(c) ==
  /\ c \in drains /\ (c \in cancelled \/ c \notin up)
  /\ drains' = drains \ {c}
  /\ wire' = {e \in wire : e.on # c}
  /\ UNCHANGED <<connection, cancel, cancelled, at, using, guest, hinting>>

-----------------------------------------------------------------------------
(* libvirt and the guest. *)

(* What libvirt sends reaches a live, subscribed connection or nobody. *)
Sent(id) == IF cancel \in up THEN wire \cup {[on |-> cancel, id |-> id]} ELSE wire

AgentChanges ==
  /\ guest # 0
  /\ wire' = Sent(guest)
  /\ UNCHANGED <<connection, events, at, using, guest, hinting>>

(* Mutant: a stopped guest's event carries the id it no longer has. *)
StopsWithoutId ==
  /\ guest # 0
  /\ guest' = 0
  /\ wire' = Sent(0)
  /\ news' = FALSE
  /\ UNCHANGED <<connection, events, at, using, hints, nudge, lost, listed>>

GuestStops ==
  /\ guest # 0
  /\ guest' = 0
  /\ wire' = Sent(guest)
  /\ news' = FALSE
  /\ UNCHANGED <<connection, events, at, using, hints, nudge, lost, listed>>

(* libvirt gives the guest an id, which it may have given out before. *)
GuestStarts ==
  /\ guest = 0
  /\ guest' \in Ids
  /\ UNCHANGED <<connection, events, at, using, wire, hinting>>

ConnDies(c) ==
  /\ c \in up
  /\ up' = up \ {c}
  /\ MayLose(c)
  /\ UNCHANGED <<mu, conn, dials, events, at, using, guest, hinting>>

Connect(u) ==
  Borrow(u) \/ BeginDial(u) \/ DialFails(u) \/ Dialled(u) \/ Subscribed(u) \/ SubscribeFails(u)
PollSteps == List \/ ListFails \/ CloseConn \/ Consume \/ Report

Next ==
  \/ \E u \in Users : Call(u) \/ Connect(u) \/ WorkerEnds(u)
  \/ PollSteps
  \/ \E c \in Conns : DrainEnds(c) \/ ConnDies(c) \/ \E id \in Ids : Deliver(c, id)
  \/ AgentChanges \/ GuestStops \/ GuestStarts

SafeSpec == Init /\ [][Next]_vars

(* Every call comes back (dials and calls have timeouts), and a goroutine  *)
(* that waits for the mutex gets it, as Go's starvation mode promises.     *)
Spec ==
  /\ SafeSpec
  /\ \A u \in Users : SF_vars(Connect(u)) /\ WF_vars(WorkerEnds(u))
  /\ SF_vars(PollSteps)

-----------------------------------------------------------------------------
Places == {"idle", "connecting", "dialling", "subscribing", "warning", "borrowed",
           "closing", "inspecting", "reading"}

TypeOK ==
  /\ mu \in Users \cup {"free"}
  /\ conn \in Conns \cup {0} /\ cancel \in Conns \cup {0}
  /\ up \subseteq Conns /\ drains \subseteq Conns /\ cancelled \subseteq Conns
  /\ dials \in 0..MaxDials
  /\ at \in [Users -> Places]
  /\ using \in [Users -> Conns \cup {0}]
  /\ guest \in Ids \cup {0} /\ listed \in Ids \cup {0}
  /\ wire \subseteq [on : Conns, id : Ids] /\ hints \subseteq Ids
  /\ {nudge, lost, news} \subseteq BOOLEAN

(* A drain goroutine whose context is not cancelled rides on the current   *)
(* connection, whoever redialled or closed in between: a subscription dies *)
(* with its connection and no guest event is handled twice.                *)
EventsFollowConnection == \A c \in drains \ cancelled : c = conn

(* Every connection lent out after a redial has its subscription: losing   *)
(* libvirt never leaves the source on polls alone.                         *)
ConnectionHasEvents == Events /\ mu = "free" /\ conn # 0 => cancel = conn

(* An event of the guest as it runs now is not forgotten: the hint is      *)
(* there for the next poll, and that poll does not wait for the ticker - a *)
(* nudge is queued, or a poll under way has yet to consume the hint - or   *)
(* else the last poll failed.                                              *)
HintAwaitsPoll ==
  news => /\ guest \in hints
          /\ \/ nudge
             \/ at["poll"] \in Places \ {"idle", "reading"}
             \/ lost

(* A poll that was begun ends, well or not, while workers come and go,     *)
(* connections die and the dial holds the lock - unless a subscription has *)
(* failed, which leaves the mutex held for good.                           *)
PollsReturn ==
  (at["poll"] = "connecting") ~> (at["poll"] = "idle" \/ \E u \in Users : at[u] = "warning")

-----------------------------------------------------------------------------
(* What the repository says and the code does not do. *)

(* A failed event subscription degrades, it does not kill the poll. *)
FailedSubscriptionDegrades == (at["poll"] = "subscribing") ~> (at["poll"] = "idle")
=============================================================================
