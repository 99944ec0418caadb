------------------------- MODULE LibvirtSourceProofs -------------------------
(***************************************************************************)
(* Proofs about LibvirtSource, for any workers, runtime ids and number of  *)
(* dials, with events wired or not: subscriptions live and die with their  *)
(* connection, and an event of the present run is not forgotten.           *)
(*                                                                         *)
(* Both rest on who is where while it holds Source.mu.                     *)
(***************************************************************************)
EXTENDS LibvirtSource, TLAPS

(* Where a user is while it holds the mutex across a call. *)
Inside == {"dialling", "subscribing", "warning"}

(* Who is inside connect is the holder of mu, so one user at a time.       *)
Locking == \A u \in Users : at[u] \in Inside => mu = u

(* The connection is gone as long as the dial lasts, and there afterwards. *)
DialInside ==
  \A u \in Users : /\ at[u] = "dialling" => conn = 0
                   /\ at[u] \in {"subscribing", "warning"} => conn # 0 /\ cancel = 0

(* The subscription on record is that of the connection, and the only one  *)
(* whose drain goroutine has not been cancelled.                           *)
OneSubscription ==
  /\ cancel \in {0, conn}
  /\ drains \ cancelled \subseteq {cancel}

SubscriptionInv == TypeOK /\ Locking /\ DialInside /\ OneSubscription /\ ConnectionHasEvents

(* What HintAwaitsPoll needs to survive the end of a poll: an event that   *)
(* came after the poll had consumed the guest's hint, or of a run that was *)
(* not listed by it, has left its nudge.                                   *)
HintLeaves ==
  news =>
    /\ guest \in hints
    /\ at["poll"] = "idle" => nudge \/ lost
    /\ at["poll"] = "reading" => nudge
    /\ at["poll"] = "inspecting" /\ listed # guest => nudge

-----------------------------------------------------------------------------
(* The variables have their types.  A drain goroutine rides on a real      *)
(* connection only because a dial that succeeded is still the current one  *)
(* when its events are subscribed to.                                      *)

LEMMA Typed == Init => TypeOK
<1>. SUFFICES ASSUME Init PROVE TypeOK
  OBVIOUS
<1>. USE SourceAssumption DEF Init
<1>1. at \in [Users -> Places] /\ using \in [Users -> Conns \cup {0}]
  BY DEF Places
<1>2. dials \in 0..MaxDials
  OBVIOUS
<1>3. {nudge, lost, news} \subseteq BOOLEAN
  OBVIOUS
<1>. QED
  BY <1>1, <1>2, <1>3 DEF TypeOK

LEMMA TypesKept ==
  ASSUME TypeOK, DialInside, [Next]_vars
  PROVE  TypeOK'
<1>. USE SourceAssumption DEF TypeOK, Conns, Places, Goes
<1>1. "poll" \in Users /\ Workers \subseteq Users
  BY DEF Users
<1>2. ASSUME NEW u \in Users, Call(u) PROVE TypeOK'
  BY <1>2 DEF Call, connection, events, world
<1>3. ASSUME NEW u \in Users, Borrow(u) PROVE TypeOK'
  BY <1>3 DEF Borrow, connection, events, world, hinting
<1>4. ASSUME NEW u \in Users, BeginDial(u) PROVE TypeOK'
  BY <1>4 DEF BeginDial, StopAgentEvents, world, hinting
<1>5. ASSUME NEW u \in Users, DialFails(u) PROVE TypeOK'
  BY <1>5 DEF DialFails, Ends, events, world
<1>6. ASSUME NEW u \in Users, Dialled(u) PROVE TypeOK'
  <2>1. dials + 1 \in 1..MaxDials /\ dials + 1 \in 0..MaxDials
    BY <1>6 DEF Dialled
  <2>2. (Goes(u, "subscribing") /\ UNCHANGED <<mu, using>>)
          \/ (Goes(u, "borrowed") /\ mu' = "free" /\ using' = [using EXCEPT ![u] = dials + 1])
    BY <1>6 DEF Dialled
  <2>3. mu' \in Users \cup {"free"} /\ at' \in [Users -> Places] /\ using' \in [Users -> Conns \cup {0}]
    BY <2>1, <2>2
  <2>. QED
    BY <1>6, <2>1, <2>3 DEF Dialled, events, world, hinting
<1>7. ASSUME NEW u \in Users, Subscribed(u) PROVE TypeOK'
  <2>1. conn \in Conns
    BY <1>7 DEF Subscribed, DialInside
  <2>2. drains' \subseteq Conns /\ cancel' \in Conns \cup {0}
    BY <1>7, <2>1 DEF Subscribed
  <2>3. using' \in [Users -> Conns \cup {0}] /\ at' \in [Users -> Places]
    BY <1>7, <2>1 DEF Subscribed
  <2>. QED
    BY <1>7, <2>2, <2>3 DEF Subscribed, world, hinting
<1>8. ASSUME NEW u \in Users, SubscribeFails(u) PROVE TypeOK'
  BY <1>8 DEF SubscribeFails, connection, events, world, hinting
<1>9. ASSUME NEW u \in Users, WorkerEnds(u) PROVE TypeOK'
  BY <1>9 DEF WorkerEnds, Ends, connection, events, world
<1>10. CASE PollSteps
  <2>1. CASE List \/ ListFails
    BY <1>1, <2>1 DEF List, ListFails, connection, events, world, hinting
  <2>2. CASE CloseConn
    BY <1>1, <2>2 DEF CloseConn, Ends, StopAgentEvents, MayLose
  <2>3. CASE Consume
    BY <1>1, <2>3 DEF Consume, connection, events, world
  <2>4. CASE Report
    BY <1>1, <2>4 DEF Report, Ends, connection, events, world
  <2>. QED
    BY <1>10, <2>1, <2>2, <2>3, <2>4 DEF PollSteps
<1>11. ASSUME NEW c \in Conns, DrainEnds(c) PROVE TypeOK'
  BY <1>11 DEF DrainEnds, connection, hinting
<1>12. ASSUME NEW c \in Conns, ConnDies(c) PROVE TypeOK'
  BY <1>12 DEF ConnDies, MayLose, events, hinting
<1>13. ASSUME NEW c \in Conns, NEW id \in Ids, Deliver(c, id) PROVE TypeOK'
  BY <1>13 DEF Deliver, connection, events
<1>14. CASE AgentChanges \/ GuestStops \/ GuestStarts
  <2>1. ASSUME guest # 0 PROVE Sent(guest) \subseteq [on : Conns, id : Ids]
    <3>1. guest \in Ids
      BY <2>1
    <3>2. cancel \in up => [on |-> cancel, id |-> guest] \in [on : Conns, id : Ids]
      BY <3>1
    <3>. QED
      BY <3>2 DEF Sent
  <2>2. wire' \subseteq [on : Conns, id : Ids]
    BY <1>14, <2>1 DEF AgentChanges, GuestStops, GuestStarts
  <2>3. guest' \in Ids \cup {0}
    BY <1>14 DEF AgentChanges, GuestStops, GuestStarts
  <2>. QED
    BY <1>14, <2>2, <2>3 DEF AgentChanges, GuestStops, GuestStarts, connection, events, hinting
<1>15. CASE UNCHANGED vars
  BY <1>15 DEF vars, connection, events, world, hinting
<1>. QED
  BY <1>2, <1>3, <1>4, <1>5, <1>6, <1>7, <1>8, <1>9, <1>10, <1>11, <1>12, <1>13, <1>14, <1>15
     DEF Next, Connect

-----------------------------------------------------------------------------
(* Subscriptions follow their connection. *)

LEMMA SubscriptionStarts == Init => SubscriptionInv
BY Typed, SourceAssumption DEF Init, SubscriptionInv, Locking, DialInside, OneSubscription,
   ConnectionHasEvents, Inside

LEMMA SubscriptionKept == SubscriptionInv /\ [Next]_vars => SubscriptionInv'
<1>. SUFFICES ASSUME SubscriptionInv, [Next]_vars PROVE SubscriptionInv'
  OBVIOUS
<1>. DEFINE Kept == Locking' /\ DialInside' /\ OneSubscription' /\ ConnectionHasEvents'
<1>0. TypeOK /\ TypeOK'
  BY TypesKept DEF SubscriptionInv
<1>. SUFFICES Kept
  BY <1>0 DEF SubscriptionInv
<1>a. "poll" \in Users /\ Workers \subseteq Users /\ "free" \notin Users /\ 0 \notin Conns
  BY SourceAssumption DEF Users, Conns
<1>b. at \in [Users -> Places] /\ drains \subseteq Conns
  BY <1>0 DEF TypeOK
<1>. USE <1>a, <1>b DEF SubscriptionInv, Locking, DialInside, OneSubscription, ConnectionHasEvents,
                        Inside, Goes
<1>1. ASSUME NEW u \in Users, Call(u) \/ Borrow(u) PROVE Kept
  BY <1>1 DEF Call, Borrow, connection, events
<1>2. ASSUME NEW u \in Users, BeginDial(u) PROVE Kept
  BY <1>2 DEF BeginDial, StopAgentEvents
<1>3. ASSUME NEW u \in Users, DialFails(u) PROVE Kept
  BY <1>3 DEF DialFails, Ends, events
<1>4. ASSUME NEW u \in Users, Dialled(u) PROVE Kept
  <2>1. mu = u /\ conn = 0 /\ cancel = 0 /\ drains \subseteq cancelled /\ conn' # 0
    BY <1>4, <1>0 DEF Dialled, TypeOK
  <2>2. CASE Events
    BY <1>4, <2>1, <2>2 DEF Dialled, events
  <2>3. CASE ~Events
    BY <1>4, <2>1, <2>3 DEF Dialled, events
  <2>. QED
    BY <2>2, <2>3
<1>5. ASSUME NEW u \in Users, Subscribed(u) PROVE Kept
  BY <1>5 DEF Subscribed
<1>6. ASSUME NEW u \in Users, SubscribeFails(u) PROVE Kept
  BY <1>6 DEF SubscribeFails, connection, events
<1>7. ASSUME NEW u \in Users, WorkerEnds(u) PROVE Kept
  BY <1>7 DEF WorkerEnds, Ends, connection, events
<1>8. CASE PollSteps
  <2>1. CASE List \/ ListFails
    BY <2>1 DEF List, ListFails, connection, events
  <2>2. CASE CloseConn
    BY <2>2 DEF CloseConn, Ends, StopAgentEvents
  <2>3. CASE Consume \/ Report
    BY <2>3 DEF Consume, Report, Ends, connection, events
  <2>. QED
    BY <1>8, <2>1, <2>2, <2>3 DEF PollSteps
<1>9. ASSUME NEW c \in Conns, DrainEnds(c) \/ ConnDies(c) \/ \E id \in Ids : Deliver(c, id) PROVE Kept
  BY <1>9 DEF DrainEnds, ConnDies, Deliver, connection, events
<1>10. CASE AgentChanges \/ GuestStops \/ GuestStarts \/ UNCHANGED vars
  <2>1. UNCHANGED <<connection, events, at>>
    BY <1>10 DEF AgentChanges, GuestStops, GuestStarts, vars
  <2>. QED
    BY <2>1 DEF connection, events
<1>. QED
  BY <1>1, <1>2, <1>3, <1>4, <1>5, <1>6, <1>7, <1>8, <1>9, <1>10 DEF Next, Connect

(* The invariant of the subscriptions, over whole behaviours.              *)
LEMMA Subscriptions == SafeSpec => []SubscriptionInv
<1>1. Init => SubscriptionInv
  BY SubscriptionStarts
<1>2. SubscriptionInv /\ [Next]_vars => SubscriptionInv'
  BY SubscriptionKept
<1>. QED
  BY <1>1, <1>2, PTL DEF SafeSpec

(* The variables of the source have their types.                           *)
THEOREM Typing == SafeSpec => []TypeOK
<1>1. SubscriptionInv => TypeOK
  BY DEF SubscriptionInv
<1>. QED
  BY <1>1, Subscriptions, PTL

(* No drain goroutine outlives its connection uncancelled, so no guest     *)
(* event is handled twice, whoever redials, closes or dies when.           *)
THEOREM DrainsFollow == SafeSpec => []EventsFollowConnection
<1>1. SubscriptionInv => EventsFollowConnection
  BY DEF SubscriptionInv, TypeOK, OneSubscription, EventsFollowConnection, Conns
<1>. QED
  BY <1>1, Subscriptions, PTL

(* Every connection lent out with the mutex free has its subscription.     *)
THEOREM RedialsResubscribe == SafeSpec => []ConnectionHasEvents
<1>1. SubscriptionInv => ConnectionHasEvents
  BY DEF SubscriptionInv
<1>. QED
  BY <1>1, Subscriptions, PTL

-----------------------------------------------------------------------------
(* An event of the guest's present run is not forgotten. *)

LEMMA HintLeavesKept == TypeOK /\ HintLeaves /\ [Next]_vars => HintLeaves'
<1>. SUFFICES ASSUME TypeOK, HintLeaves, [Next]_vars PROVE HintLeaves'
  OBVIOUS
<1>1. /\ at \in [Users -> Places] /\ hints \subseteq Ids /\ 0 \notin Ids
      /\ "poll" \in Users /\ "poll" \notin Workers
  BY SourceAssumption DEF TypeOK, Users
<1>. USE <1>1 DEF HintLeaves, Goes
<1>2. ASSUME NEW u \in Users, Call(u) PROVE HintLeaves'
  BY <1>2 DEF Call, connection, events, world
<1>3. ASSUME NEW u \in Users, Borrow(u) PROVE HintLeaves'
  BY <1>3 DEF Borrow, connection, events, world, hinting
<1>4. ASSUME NEW u \in Users, BeginDial(u) PROVE HintLeaves'
  BY <1>4 DEF BeginDial, world, hinting
<1>5. ASSUME NEW u \in Users, DialFails(u) PROVE HintLeaves'
  BY <1>5 DEF DialFails, Ends, events, world
<1>6. ASSUME NEW u \in Users, Dialled(u) PROVE HintLeaves'
  BY <1>6 DEF Dialled, events, world, hinting
<1>7. ASSUME NEW u \in Users, Subscribed(u) PROVE HintLeaves'
  BY <1>7 DEF Subscribed, world, hinting
<1>8. ASSUME NEW u \in Users, SubscribeFails(u) PROVE HintLeaves'
  BY <1>8 DEF SubscribeFails, connection, events, world, hinting
<1>9. ASSUME NEW u \in Users, WorkerEnds(u) PROVE HintLeaves'
  BY <1>9 DEF WorkerEnds, Ends, connection, events, world
<1>10. CASE List
  BY <1>10 DEF List, connection, events, world
<1>11. CASE ListFails
  BY <1>11 DEF ListFails, connection, events, world, hinting
<1>12. CASE CloseConn
  BY <1>12 DEF CloseConn, Ends
<1>13. CASE Consume
  BY <1>13 DEF Consume, connection, events, world
<1>14. CASE Report
  BY <1>14 DEF Report, Ends, connection, events, world
<1>15. ASSUME NEW c \in Conns, DrainEnds(c) PROVE HintLeaves'
  BY <1>15 DEF DrainEnds, connection, hinting
<1>16. ASSUME NEW c \in Conns, ConnDies(c) PROVE HintLeaves'
  BY <1>16 DEF ConnDies, events, hinting
<1>17. ASSUME NEW c \in Conns, NEW id \in Ids, Deliver(c, id) PROVE HintLeaves'
  BY <1>17 DEF Deliver, connection, events
<1>18. CASE AgentChanges
  BY <1>18 DEF AgentChanges, connection, events, hinting
<1>19. CASE GuestStops
  BY <1>19 DEF GuestStops, connection, events
<1>20. CASE GuestStarts
  BY <1>20 DEF GuestStarts, connection, events, hinting
<1>21. CASE UNCHANGED vars
  BY <1>21 DEF vars, connection, events, world, hinting
<1>. QED
  BY <1>2, <1>3, <1>4, <1>5, <1>6, <1>7, <1>8, <1>9, <1>10, <1>11,
     <1>12, <1>13, <1>14, <1>15, <1>16, <1>17, <1>18, <1>19, <1>20, <1>21
     DEF Next, Connect, PollSteps

(* The hint of an event waits for a poll that is bound to come.            *)
THEOREM HintsAwait == SafeSpec => []HintAwaitsPoll
<1>1. Init => HintLeaves
  BY DEF Init, HintLeaves
<1>2. TypeOK /\ HintLeaves /\ [Next]_vars => HintLeaves'
  BY HintLeavesKept
<1>3. TypeOK /\ HintLeaves => HintAwaitsPoll
  BY DEF TypeOK, HintLeaves, HintAwaitsPoll, Users
<1>. QED
  BY <1>1, <1>2, <1>3, Typing, PTL DEF SafeSpec
=============================================================================
