------------------------ MODULE MiddlewareClientProofs ------------------------
(***************************************************************************)
(* Proofs about MiddlewareClient, for any callers and any number of dials, *)
(* calls and keepalives.                                                   *)
(*                                                                         *)
(* Run is one goroutine: which of its places it is in says which           *)
(* connection it has and whether a call of its own is under way.  The rest *)
(* is about what the others may do to it meanwhile.                        *)
(***************************************************************************)
EXTENDS MiddlewareClient, FiniteSetTheorems, TLAPS

(* What each of Run's places says of its connection and of its own call.   *)
Place ==
  /\ at["run"] # "idle" <=> run \in {"login", "version", "ping"}
  /\ run \in {"login", "version", "ping"} => call["run"].on = dials
  /\ run \in {"login", "fresh", "version", "serving", "ping"} => cancel = dials /\ dials # 0
  /\ run = "login" => conn = 0
  /\ run \in {"fresh", "version", "serving", "ping"} => conn = dials
  /\ run = "drop" => conn \in {0, dials} /\ cancel = dials
  /\ run \in {"dial", "dropped", "backoff", "floor", "ended"} => conn = 0 /\ cancel = 0

(* A request's id says which question it asks.                             *)
Matched ==
  /\ \A u \in Users : /\ call[u].question = call[u].id
                      /\ at[u] \in {"writing", "waiting"} => call[u].id # 0
  /\ \A q \in wire : q.question = q.id

(* Calls that have begun and have no id yet. *)
Entering == {u \in Users : at[u] = "entering"}

(* A version is still to be asked for on the connection dialled last. *)
Owed == IF run \in {"login", "fresh"} THEN 1 ELSE 0

(* The calls that may have been begun. *)
Begun == 2 * dials + asks + pings

(* Ids count the questions, and there are no more of them than calls. *)
Counted ==
  /\ questions = nextID
  /\ IsFiniteSet(Entering)
  /\ nextID + Cardinality(Entering) + Owed <= Begun

LEMMA Bounds == MaxDials \in Nat /\ MaxAsks \in Nat /\ MaxPings \in Nat
BY ClientAssumption

LEMMA Numbers ==
  ASSUME TypeOK
  PROVE  dials \in Nat /\ nextID \in Nat /\ questions \in Nat /\ asks \in Nat /\ pings \in Nat
<1>1. dials \in 0..MaxDials /\ nextID \in Questions /\ questions \in Questions
      /\ asks \in 0..MaxAsks /\ pings \in 0..MaxPings
  BY DEF TypeOK
<1>. QED
  BY <1>1, Bounds DEF Questions

-----------------------------------------------------------------------------
(* The steps of a call, whoever makes it, leave Run where it is. *)

LEMMA RequestFrame ==
  ASSUME TypeOK, NEW u \in Users, Request(u)
  PROVE  /\ UNCHANGED <<lifecycle, conn, cancel, cancelled, reader, signals, counts, crossed>>
         /\ up' \subseteq up
         /\ at'["run"] = "idle" <=> at["run"] = "idle"
         /\ call'["run"].on = call["run"].on
<1>. USE DEF TypeOK, Users
<1>1. CASE Enter(u)
  <2>1. call' = [call EXCEPT ![u] = [@ EXCEPT !.id = NewID, !.question = questions']]
    BY <1>1 DEF Enter
  <2>2. call'["run"].on = call["run"].on
    <3>. HIDE DEF TypeOK
    <3>1. call \in [Users -> [on : Conns \cup {0}, id : Questions, question : Questions]] /\ "run" \in Users
      BY DEF TypeOK
    <3>2. CASE u = "run"
      BY <2>1, <3>1, <3>2
    <3>3. CASE u # "run"
      BY <2>1, <3>1, <3>3
    <3>. QED
      BY <3>2, <3>3
  <2>3. at'["run"] = "idle" <=> at["run"] = "idle"
    BY <1>1 DEF Enter
  <2>. QED
    BY <1>1, <2>2, <2>3 DEF Enter, sockets
<1>2. CASE Write(u)
  BY <1>2 DEF Write, sockets
<1>3. CASE WriteFails(u)
  BY <1>3 DEF WriteFails, Concludes
<1>4. CASE Answered(u) \/ TimedOut(u)
  BY <1>4 DEF Answered, TimedOut, Concludes, sockets
<1>. QED
  BY <1>1, <1>2, <1>3, <1>4 DEF Request

LEMMA PlaceKept == TypeOK /\ Place /\ [Next]_vars => Place'
<1>. SUFFICES ASSUME TypeOK, Place, [Next]_vars PROVE Place'
  OBVIOUS
<1>. USE DEF Place
<1>0. dials \in Nat
  BY Numbers
<1>a. "run" \in Users /\ "run" \notin Callers /\ at \in [Users -> {"idle", "entering", "writing", "waiting", "done"}]
      /\ call \in [Users -> [on : Conns \cup {0}, id : Questions, question : Questions]]
      /\ dials \in Nat /\ next \in {"dial", "backoff", "floor", "ended"}
  BY <1>0, ClientAssumption DEF TypeOK, Users
<1>1. ASSUME NEW u \in Users, Ask(u) PROVE Place'
  BY <1>1, <1>a DEF Ask, Borrows, lifecycle, sockets
<1>2. ASSUME NEW u \in Users, Request(u) PROVE Place'
  BY <1>2, <1>a, RequestFrame DEF lifecycle
<1>3. ASSUME NEW q \in wire, NEW kind \in {"data", "error"}, Reply(q, kind) PROVE Place'
  BY <1>3 DEF Reply, lifecycle, sockets
<1>4. ASSUME NEW c \in Conns, Reader(c) \/ SocketDies(c) PROVE Place'
  BY <1>4 DEF Reader, ReadFails, Signal, SocketDies, FailPending, lifecycle, sockets, calls
<1>5. CASE Dialled
  BY <1>5, <1>a DEF Dialled, Borrows
<1>6. CASE DialFails
  BY <1>6 DEF DialFails, sockets, calls
<1>7. CASE LoggedIn
  BY <1>7, <1>a DEF LoggedIn, Got, TakesResult
<1>8. CASE Unproven
  BY <1>8, <1>a DEF Unproven, TakesResult, sockets
<1>9. CASE AskVersion \/ OnTicker
  <2>1. CASE AskVersion
    BY <2>1, <1>a DEF AskVersion, Borrows, sockets
  <2>2. CASE OnTicker
    BY <2>2, <1>a DEF OnTicker, Borrows, sockets
  <2>. QED
    BY <1>9, <2>1, <2>2
<1>10. CASE Proven
  BY <1>10, <1>a DEF Proven, Got, TakesResult, sockets
<1>11. CASE OnDead \/ OnWake \/ PauseEnds \/ Stop
  BY <1>11, <1>a DEF OnDead, OnWake, PauseEnds, Stop, sockets, calls
<1>12. CASE Pinged
  BY <1>12, <1>a DEF Pinged, TakesResult, sockets
<1>13. CASE Drop
  BY <1>13 DEF Drop
<1>14. CASE Dropped
  BY <1>14, <1>a DEF Dropped, sockets, calls
<1>15. CASE Wake \/ Shutdown
  BY <1>15 DEF Wake, Shutdown, lifecycle, sockets, calls
<1>16. CASE UNCHANGED vars
  BY <1>16 DEF vars, lifecycle, sockets, calls
<1>. QED
  BY <1>1, <1>2, <1>3, <1>4, <1>5, <1>6, <1>7, <1>8, <1>9, <1>10, <1>11, <1>12, <1>13, <1>14,
     <1>15, <1>16 DEF Next, Run, Connect

-----------------------------------------------------------------------------
(* There is an id for every call. *)

LEMMA OneMoreEnters ==
  ASSUME TypeOK, IsFiniteSet(Entering), NEW u \in Users, at' = [at EXCEPT ![u] = "entering"]
  PROVE  /\ IsFiniteSet(Entering')
         /\ Cardinality(Entering) \in Nat /\ Cardinality(Entering') \in Nat
         /\ Cardinality(Entering') <= Cardinality(Entering) + 1
<1>1. Entering' = Entering \cup {u}
  BY DEF TypeOK, Entering
<1>2. Cardinality(Entering) \in Nat
  BY FS_CardinalityType
<1>3. IsFiniteSet(Entering')
  BY <1>1, FS_AddElement
<1>4. Cardinality(Entering') = IF u \in Entering THEN Cardinality(Entering) ELSE Cardinality(Entering) + 1
  BY <1>1, FS_AddElement
<1>. QED
  BY <1>2, <1>3, <1>4

LEMMA StillEnough ==
  ASSUME NEW n \in Nat, NEW e \in Nat, NEW f \in Nat, NEW o \in Nat, NEW p \in Nat, NEW b \in Nat, NEW c \in Nat,
         n + e + o <= b, f <= e + 1, b + p + 1 <= c + o
  PROVE  n + f + p <= c
OBVIOUS

LEMMA NobodyEnters ==
  ASSUME TypeOK, NEW u \in Users, NEW where, where # "entering", at[u] # "entering",
         at' = [at EXCEPT ![u] = where]
  PROVE  Entering' = Entering
BY DEF TypeOK, Entering

LEMMA CountedKept == TypeOK /\ Counted /\ [Next]_vars => Counted'
<1>. SUFFICES ASSUME TypeOK, Counted, [Next]_vars PROVE Counted'
  OBVIOUS
<1>a. dials \in Nat /\ nextID \in Nat /\ questions \in Nat /\ asks \in Nat /\ pings \in Nat
  BY Numbers
<1>b. Cardinality(Entering) \in Nat /\ IsFiniteSet(Entering)
  BY FS_CardinalityType DEF Counted
<1>c. "run" \in Users
  BY DEF Users
<1>1. ASSUME NEW u \in Users, Ask(u) PROVE Counted'
  <2>1. at' = [at EXCEPT ![u] = "entering"] /\ UNCHANGED <<nextID, questions>>
    BY <1>1 DEF Ask, Borrows, ids
  <2>2. /\ IsFiniteSet(Entering')
        /\ Cardinality(Entering') \in Nat /\ Cardinality(Entering') <= Cardinality(Entering) + 1
    BY <1>b, <1>c, <2>1, OneMoreEnters
  <2>3. /\ Begun + Owed' + 1 <= Begun' + Owed
        /\ Begun \in Nat /\ Begun' \in Nat /\ Owed \in Nat /\ Owed' \in Nat
    BY <1>1, <1>a DEF Ask, Owed, lifecycle, Begun
  <2>. QED
    BY <1>a, <1>b, <2>1, <2>2, <2>3, StillEnough DEF Counted
<1>2. ASSUME NEW u \in Users, Enter(u) PROVE Counted'
  <2>1. Entering' = Entering \ {u} /\ u \in Entering
    BY <1>2 DEF Enter, Entering, TypeOK
  <2>2. IsFiniteSet(Entering') /\ Cardinality(Entering') = Cardinality(Entering) - 1
    BY <2>1, <1>b, FS_RemoveElement
  <2>. QED
    BY <1>2, <2>2, <1>a, <1>b DEF Counted, Begun, Enter, NewID, Owed, lifecycle, counts
<1>3. ASSUME NEW u \in Users, Write(u) \/ WriteFails(u) \/ Answered(u) \/ TimedOut(u) PROVE Counted'
  <2>1. Entering' = Entering
    BY <1>3, NobodyEnters DEF Write, WriteFails, Answered, TimedOut, Concludes
  <2>. QED
    BY <1>3, <2>1 DEF Counted, Begun, Write, WriteFails, Answered, TimedOut, Owed, ids, lifecycle, counts
<1>4. ASSUME NEW q \in wire, NEW kind \in {"data", "error"}, Reply(q, kind) PROVE Counted'
  BY <1>4 DEF Counted, Begun, Entering, Owed, Reply, lifecycle, counts
<1>5. ASSUME NEW c \in Conns, Reader(c) \/ SocketDies(c) PROVE Counted'
  BY <1>5 DEF Counted, Begun, Entering, Owed, Reader, ReadFails, Signal, SocketDies, FailPending,
              lifecycle, counts, calls, ids
<1>6. CASE Dialled
  <2>1. at' = [at EXCEPT !["run"] = "entering"] /\ UNCHANGED <<nextID, questions>>
    BY <1>6 DEF Dialled, Borrows, ids
  <2>2. /\ IsFiniteSet(Entering')
        /\ Cardinality(Entering') \in Nat /\ Cardinality(Entering') <= Cardinality(Entering) + 1
    BY <1>b, <1>c, <2>1, OneMoreEnters
  <2>3. /\ Begun + Owed' + 1 <= Begun' + Owed
        /\ Begun \in Nat /\ Begun' \in Nat /\ Owed \in Nat /\ Owed' \in Nat
    BY <1>6, <1>a DEF Dialled, Owed, counts, Begun
  <2>. QED
    BY <1>a, <1>b, <2>1, <2>2, <2>3, StillEnough DEF Counted
<1>7. CASE AskVersion
  <2>1. at' = [at EXCEPT !["run"] = "entering"] /\ UNCHANGED <<nextID, questions>>
    BY <1>7 DEF AskVersion, Borrows, ids
  <2>2. /\ IsFiniteSet(Entering')
        /\ Cardinality(Entering') \in Nat /\ Cardinality(Entering') <= Cardinality(Entering) + 1
    BY <1>b, <1>c, <2>1, OneMoreEnters
  <2>3. /\ Begun + Owed' + 1 <= Begun' + Owed
        /\ Begun \in Nat /\ Begun' \in Nat /\ Owed \in Nat /\ Owed' \in Nat
    BY <1>7, <1>a DEF AskVersion, Owed, counts, Begun
  <2>. QED
    BY <1>a, <1>b, <2>1, <2>2, <2>3, StillEnough DEF Counted
<1>8. CASE OnTicker
  <2>1. at' = [at EXCEPT !["run"] = "entering"] /\ UNCHANGED <<nextID, questions>>
    BY <1>8 DEF OnTicker, Borrows, ids
  <2>2. /\ IsFiniteSet(Entering')
        /\ Cardinality(Entering') \in Nat /\ Cardinality(Entering') <= Cardinality(Entering) + 1
    BY <1>b, <1>c, <2>1, OneMoreEnters
  <2>3. /\ Begun + Owed' + 1 <= Begun' + Owed
        /\ Begun \in Nat /\ Begun' \in Nat /\ Owed \in Nat /\ Owed' \in Nat
    BY <1>8, <1>a DEF OnTicker, Owed, Begun
  <2>. QED
    BY <1>a, <1>b, <2>1, <2>2, <2>3, StillEnough DEF Counted
<1>9. CASE LoggedIn \/ Unproven \/ Proven \/ Pinged
  <2>1. Entering' = Entering
    BY <1>9, <1>c, NobodyEnters DEF LoggedIn, Unproven, Proven, Pinged, Got, TakesResult
  <2>2. UNCHANGED <<questions, nextID, dials, asks, pings>>
    BY <1>9 DEF LoggedIn, Unproven, Proven, Pinged, TakesResult, ids, counts
  <2>3. Owed' <= Owed /\ Owed \in {0, 1} /\ Owed' \in {0, 1}
    BY <1>9 DEF LoggedIn, Unproven, Proven, Pinged, Owed
  <2>. QED
    BY <2>1, <2>2, <2>3, <1>a, <1>b DEF Counted, Begun
<1>10. CASE DialFails \/ OnDead \/ OnWake \/ PauseEnds \/ Stop
  BY <1>10, <1>a, <1>b DEF Counted, Begun, Entering, Owed, DialFails, OnDead, OnWake, PauseEnds, Stop, calls, ids, counts
<1>11. CASE Drop \/ Dropped
  <2>1. UNCHANGED <<questions, nextID, dials, asks, pings, Entering>>
    BY <1>11 DEF Drop, Dropped, Entering, calls, ids, counts
  <2>2. Owed' = 0 /\ Owed \in {0, 1}
    BY <1>11 DEF TypeOK, Drop, Dropped, Owed
  <2>. QED
    BY <2>1, <2>2, <1>a, <1>b DEF Counted, Begun
<1>12. CASE Wake \/ Shutdown \/ UNCHANGED vars
  BY <1>12 DEF Counted, Begun, Entering, Owed, Wake, Shutdown, vars, lifecycle, calls, ids, counts
<1>. QED
  BY <1>1, <1>2, <1>3, <1>4, <1>5, <1>6, <1>7, <1>8, <1>9, <1>10, <1>11, <1>12
     DEF Next, Request, Run, Connect

-----------------------------------------------------------------------------
(* The variables have their types. *)

LEMMA NewIDTyped ==
  ASSUME TypeOK, Counted, NEW u \in Users, Enter(u)
  PROVE  NewID \in Ids /\ NewID \in Questions /\ questions' \in Questions /\ questions' = NewID
<1>1. u \in Entering
  BY DEF Enter, Entering
<1>2. Cardinality(Entering) \in Nat /\ Cardinality(Entering) # 0
  BY <1>1, FS_CardinalityType, FS_EmptySet DEF Counted
<1>3. Owed \in Nat /\ Begun <= 2 * MaxDials + MaxAsks + MaxPings
  <2>1. dials \in 0..MaxDials /\ asks \in 0..MaxAsks /\ pings \in 0..MaxPings
    BY DEF TypeOK
  <2>. QED
    BY <2>1, Bounds DEF Owed, Begun
<1>4. nextID + 1 <= 2 * MaxDials + MaxAsks + MaxPings
  BY <1>2, <1>3, Numbers, Bounds DEF Counted, Begun
<1>5. questions' = NewID
  BY DEF Enter, NewID, Counted
<1>. QED
  BY <1>4, <1>5, Numbers, Bounds DEF NewID, Ids, Questions

CallType == [on : Conns \cup {0}, id : Questions, question : Questions]
BoxType == [kind : {"", "data", "error", "lost"}, question : Questions]
Stages == {"idle", "entering", "writing", "waiting", "done"}

(* The parts of TypeOK that the steps of a call and of Run have in common. *)
CallsTyped ==
  /\ at \in [Users -> Stages] /\ call \in [Users -> CallType] /\ box \in [Users -> BoxType]
  /\ got \in {"", "data", "error", "lost", "broken", "timeout"}
  /\ pending \in [Ids -> Users \cup {"none"}]
  /\ nextID \in Questions /\ questions \in Questions
  /\ wire \subseteq [on : Conns, id : Ids, question : Ids]

RunTyped ==
  /\ run \in RunPlaces /\ next \in {"dial", "backoff", "floor", "ended"}
  /\ {connected, stopped, dead, wake, crossed} \subseteq BOOLEAN
  /\ dials \in 0..MaxDials
  /\ conn \in 0..dials /\ cancel \in 0..dials
  /\ cancelled \subseteq 1..dials /\ up \subseteq 1..dials
  /\ reader \in [Conns -> {"none", "reading", "failed", "ended"}]
  /\ asks \in 0..MaxAsks /\ pings \in 0..MaxPings

LEMMA TypeParts == TypeOK <=> CallsTyped /\ RunTyped
BY DEF TypeOK, CallsTyped, RunTyped, Stages, CallType, BoxType

LEMMA Constants ==
  /\ 0 \in Questions /\ 0 \notin Ids
  /\ Ids \subseteq Questions /\ \A i \in Questions : i # 0 => i \in Ids
  /\ NoCall \in CallType /\ Empty \in BoxType /\ Lost \in BoxType
<1>1. 0 \in Questions /\ 0 \notin Ids /\ Ids \subseteq Questions /\ \A i \in Questions : i # 0 => i \in Ids
  BY Bounds DEF Questions, Ids
<1>. QED
  BY <1>1 DEF NoCall, Empty, Lost, CallType, BoxType

LEMMA RunTypedKept == TypeOK /\ Place /\ [Next]_vars => RunTyped'
<1>. SUFFICES ASSUME TypeOK, Place, [Next]_vars PROVE RunTyped'
  OBVIOUS
<1>a. RunTyped /\ dials \in Nat /\ MaxDials \in Nat
  BY TypeParts, Numbers, Bounds
<1>. USE <1>a DEF RunTyped, RunPlaces
<1>1. ASSUME NEW u \in Users, Ask(u) PROVE RunTyped'
  BY <1>1, Bounds DEF Ask, lifecycle, sockets, signals
<1>2. ASSUME NEW u \in Users, Request(u) PROVE RunTyped'
  BY <1>2, RequestFrame DEF lifecycle, signals, counts
<1>3. ASSUME NEW q \in wire, NEW kind \in {"data", "error"}, Reply(q, kind) PROVE RunTyped'
  BY <1>3 DEF Reply, lifecycle, sockets, signals, counts
<1>4. ASSUME NEW c \in Conns, Reader(c) \/ SocketDies(c) PROVE RunTyped'
  <2>1. CASE ReadFails(c)
    BY <2>1 DEF ReadFails, lifecycle, signals, counts
  <2>2. CASE Signal(c)
    BY <2>2 DEF Signal, lifecycle, sockets, counts
  <2>3. CASE SocketDies(c)
    BY <2>3 DEF SocketDies, lifecycle, signals, counts
  <2>. QED
    BY <1>4, <2>1, <2>2, <2>3 DEF Reader
<1>5. CASE Dialled
  <2>1. dials' \in Conns /\ dials' \in 0..MaxDials /\ dials' = dials + 1
    BY <1>5 DEF Dialled, Conns
  <2>a. 0..dials \subseteq 0..dials' /\ 1..dials \subseteq 1..dials' /\ dials' \in 1..dials' /\ dials' \in 0..dials'
    BY <2>1
  <2>2. conn' \in 0..dials' /\ cancel' \in 0..dials' /\ cancelled' \subseteq 1..dials' /\ up' \subseteq 1..dials'
    BY <1>5, <2>a DEF Dialled
  <2>. QED
    BY <1>5, <2>1, <2>2 DEF Dialled, signals, counts
<1>6. CASE DialFails
  BY <1>6 DEF DialFails, sockets, signals, counts
<1>7. CASE LoggedIn
  BY <1>7 DEF LoggedIn, Place, signals, counts
<1>8. CASE Unproven
  BY <1>8 DEF Unproven, sockets, signals, counts
<1>9. CASE AskVersion
  BY <1>9 DEF AskVersion, sockets, counts
<1>10. CASE OnTicker
  BY <1>10, Bounds DEF OnTicker, sockets, signals
<1>11. CASE Proven
  BY <1>11 DEF Proven, sockets, signals, counts
<1>12. CASE OnDead
  BY <1>12 DEF OnDead, sockets, counts
<1>13. CASE OnWake
  BY <1>13 DEF OnWake, sockets, counts
<1>14. CASE Pinged
  BY <1>14 DEF Pinged, sockets, signals, counts
<1>15. CASE Drop
  BY <1>15 DEF Drop, signals, counts
<1>16. CASE Dropped
  BY <1>16 DEF Dropped, sockets, signals, counts
<1>17. CASE PauseEnds
  BY <1>17 DEF PauseEnds, sockets, signals, counts
<1>18. CASE Stop
  BY <1>18 DEF Stop, sockets, signals, counts
<1>19. CASE Wake
  BY <1>19 DEF Wake, lifecycle, sockets, counts
<1>20. CASE Shutdown
  BY <1>20 DEF Shutdown, sockets, signals, counts
<1>21. CASE UNCHANGED vars
  BY <1>21 DEF vars, lifecycle, sockets, signals, counts
<1>. QED
  BY <1>1, <1>2, <1>3, <1>4, <1>5, <1>6, <1>7, <1>8, <1>9, <1>10, <1>11, <1>12, <1>13, <1>14,
     <1>15, <1>16, <1>17, <1>18, <1>19, <1>20, <1>21 DEF Next, Run, Connect

LEMMA NextConn ==
  ASSUME TypeOK, Dialled
  PROVE  dials' \in Conns
<1>1. dials < MaxDials /\ dials' = dials + 1
  BY DEF Dialled
<1>. QED
  BY <1>1, Numbers, Bounds DEF Conns

LEMMA CallsTypedKept == TypeOK /\ Counted /\ Matched /\ [Next]_vars => CallsTyped'
<1>. SUFFICES ASSUME TypeOK, Counted, Matched, [Next]_vars PROVE CallsTyped'
  OBVIOUS
<1>a. CallsTyped /\ "run" \in Users
  BY TypeParts DEF Users
<1>b. up \subseteq Conns /\ conn \in Conns \cup {0}
  BY Numbers, Bounds, TypeParts DEF RunTyped, Conns
<1>. USE <1>a, Constants DEF CallsTyped, Stages
<1>c. ASSUME NEW u \in Users, NEW c \in Conns \cup {0}, Borrows(u, c) PROVE CallsTyped'
  <2>1. [NoCall EXCEPT !.on = c] \in CallType
    BY DEF NoCall, CallType
  <2>. QED
    BY <1>c, <2>1 DEF Borrows, ids
<1>d. ASSUME NEW u \in Users, NEW r \in {"", "data", "error", "lost", "broken", "timeout"}, Concludes(u, r)
      PROVE  /\ at' \in [Users -> Stages] /\ call' \in [Users -> CallType] /\ box' \in [Users -> BoxType]
             /\ got' \in {"", "data", "error", "lost", "broken", "timeout"}
  BY <1>d DEF Concludes
<1>e. ASSUME TakesResult PROVE CallsTyped'
  BY <1>e DEF TakesResult, ids
<1>f. ASSUME FailPending PROVE box' \in [Users -> BoxType] /\ pending' \in [Ids -> Users \cup {"none"}]
  BY <1>f DEF FailPending
<1>g. ASSUME NEW u \in Users, Forget(u) PROVE pending' \in [Ids -> Users \cup {"none"}]
  BY <1>g DEF Forget
<1>1. ASSUME NEW u \in Users, Ask(u) PROVE CallsTyped'
  BY <1>1, <1>b, <1>c DEF Ask
<1>2. ASSUME NEW u \in Users, Enter(u) PROVE CallsTyped'
  <2>1. NewID \in Ids /\ NewID \in Questions /\ questions' \in Questions
    BY <1>2, NewIDTyped
  <2>2. [call[u] EXCEPT !.id = NewID, !.question = questions'] \in CallType
    BY <2>1 DEF CallType
  <2>3. call' = [call EXCEPT ![u] = [@ EXCEPT !.id = NewID, !.question = questions']]
    BY <1>2 DEF Enter
  <2>4. call' \in [Users -> CallType]
    BY <2>2, <2>3
  <2>. QED
    BY <1>2, <2>1, <2>4 DEF Enter
<1>3. ASSUME NEW u \in Users, Write(u) PROVE CallsTyped'
  <2>1. call[u] \in CallType /\ call[u].id \in Ids /\ call[u].question \in Ids
    BY <1>3 DEF Write, Matched, CallType
  <2>2. CASE call[u].on \in up
    <3>1. call[u] \in [on : Conns, id : Ids, question : Ids]
      BY <1>b, <2>1, <2>2 DEF CallType
    <3>. QED
      BY <1>3, <3>1 DEF Write, ids
  <2>3. CASE call[u].on \notin up
    BY <1>3, <2>3 DEF Write, ids
  <2>. QED
    BY <2>2, <2>3
<1>4. ASSUME NEW u \in Users, WriteFails(u) PROVE CallsTyped'
  BY <1>4, <1>d, <1>g DEF WriteFails
<1>5. ASSUME NEW u \in Users, Answered(u) \/ TimedOut(u) PROVE CallsTyped'
  <2>1. box[u].kind \in {"", "data", "error", "lost", "broken", "timeout"}
    BY DEF BoxType
  <2>. QED
    BY <1>5, <2>1, <1>d, <1>g DEF Answered, TimedOut
<1>6. ASSUME NEW q \in wire, NEW kind \in {"data", "error"}, Reply(q, kind) PROVE CallsTyped'
  <2>1. q.id \in Ids /\ [kind |-> kind, question |-> q.question] \in BoxType
    BY DEF BoxType
  <2>2. wire' \subseteq wire /\ UNCHANGED <<at, call, got, nextID, questions>>
    BY <1>6 DEF Reply
  <2>3. pending' \in [Ids -> Users \cup {"none"}] /\ box' \in [Users -> BoxType]
    BY <1>6, <2>1 DEF Reply
  <2>. QED
    BY <2>2, <2>3
<1>7. ASSUME NEW c \in Conns, Reader(c) \/ SocketDies(c) PROVE CallsTyped'
  <2>1. CASE ReadFails(c)
    BY <2>1, <1>f DEF ReadFails
  <2>. QED
    BY <1>7, <2>1 DEF Reader, Signal, SocketDies, calls, ids
<1>8. CASE Dialled
  <2>1. dials' \in Conns
    BY <1>8, NextConn
  <2>. QED
    BY <1>8, <2>1, <1>c DEF Dialled
<1>9. CASE AskVersion \/ OnTicker
  BY <1>9, <1>b, <1>c DEF AskVersion, OnTicker
<1>10. CASE LoggedIn \/ Unproven \/ Proven \/ Pinged
  BY <1>10, <1>e DEF LoggedIn, Unproven, Proven, Pinged
<1>11. CASE Drop
  BY <1>11, <1>f DEF Drop
<1>12. CASE DialFails \/ OnDead \/ OnWake \/ Dropped \/ PauseEnds \/ Stop \/ Wake \/ Shutdown \/ UNCHANGED vars
  <2>1. UNCHANGED calls
    BY <1>12 DEF DialFails, OnDead, OnWake, Dropped, PauseEnds, Stop, Wake, Shutdown, vars
  <2>. QED
    BY <2>1 DEF calls, ids
<1>. QED
  BY <1>1, <1>2, <1>3, <1>4, <1>5, <1>6, <1>7, <1>8, <1>9, <1>10, <1>11, <1>12
     DEF Next, Request, Run, Connect

LEMMA MatchedKept == TypeOK /\ Counted /\ Matched /\ [Next]_vars => Matched'
<1>. SUFFICES ASSUME TypeOK, Counted, Matched, [Next]_vars PROVE Matched'
  OBVIOUS
<1>a. CallsTyped /\ "run" \in Users
  BY TypeParts DEF Users
<1>. USE <1>a DEF CallsTyped, Matched
<1>b. ASSUME NEW u \in Users, NEW c, Borrows(u, c) PROVE Matched'
  BY <1>b DEF Borrows, NoCall
<1>c. ASSUME TakesResult PROVE Matched'
  BY <1>c DEF TakesResult, NoCall
<1>d. ASSUME NEW u \in Users, NEW r, Concludes(u, r), UNCHANGED wire PROVE Matched'
  BY <1>d DEF Concludes, NoCall
<1>1. ASSUME NEW u \in Users, Ask(u) PROVE Matched'
  BY <1>1, <1>b DEF Ask
<1>2. ASSUME NEW u \in Users, Enter(u) PROVE Matched'
  <2>1. NewID # 0 /\ questions' = NewID
    BY <1>2, NewIDTyped, Constants
  <2>2. call' = [call EXCEPT ![u] = [@ EXCEPT !.id = NewID, !.question = NewID]]
    BY <1>2, <2>1 DEF Enter
  <2>3. call'[u].id = NewID /\ call'[u].question = NewID
    BY <2>2 DEF CallType
  <2>4. \A v \in Users \ {u} : call'[v] = call[v] /\ at'[v] = at[v]
    BY <1>2, <2>2 DEF Enter
  <2>. QED
    BY <1>2, <2>1, <2>3, <2>4 DEF Enter
<1>3. ASSUME NEW u \in Users, Write(u) PROVE Matched'
  BY <1>3 DEF Write
<1>4. ASSUME NEW u \in Users, WriteFails(u) \/ Answered(u) \/ TimedOut(u) PROVE Matched'
  BY <1>4, <1>d DEF WriteFails, Answered, TimedOut
<1>5. ASSUME NEW q \in wire, NEW kind \in {"data", "error"}, Reply(q, kind) PROVE Matched'
  BY <1>5 DEF Reply
<1>6. ASSUME NEW c \in Conns, Reader(c) \/ SocketDies(c) PROVE Matched'
  BY <1>6 DEF Reader, ReadFails, Signal, SocketDies, calls
<1>7. CASE Dialled \/ AskVersion \/ OnTicker
  BY <1>7, <1>b DEF Dialled, AskVersion, OnTicker
<1>8. CASE LoggedIn \/ Unproven \/ Proven \/ Pinged
  BY <1>8, <1>c DEF LoggedIn, Unproven, Proven, Pinged
<1>9. CASE Drop
  BY <1>9 DEF Drop
<1>10. CASE DialFails \/ OnDead \/ OnWake \/ Dropped \/ PauseEnds \/ Stop \/ Wake \/ Shutdown \/ UNCHANGED vars
  BY <1>10 DEF DialFails, OnDead, OnWake, Dropped, PauseEnds, Stop, Wake, Shutdown, vars, calls
<1>. QED
  BY <1>1, <1>2, <1>3, <1>4, <1>5, <1>6, <1>7, <1>8, <1>9, <1>10 DEF Next, Request, Run, Connect

(* What every other proof builds on.                                       *)
BaseInv == TypeOK /\ Place /\ Counted /\ Matched

LEMMA Base == Spec => []BaseInv
<1>1. Init => BaseInv
  <2>. SUFFICES ASSUME Init PROVE BaseInv
    OBVIOUS
  <2>1. CallsTyped
    BY Constants DEF Init, CallsTyped, Stages
  <2>2. RunTyped
    <3>1. {connected, stopped, dead, wake, crossed} \subseteq BOOLEAN
      BY DEF Init
    <3>2. dials = 0 /\ asks = 0 /\ pings = 0 /\ conn = 0 /\ cancel = 0
      BY DEF Init
    <3>3. dials \in 0..MaxDials /\ asks \in 0..MaxAsks /\ pings \in 0..MaxPings /\ conn \in 0..dials /\ cancel \in 0..dials
      BY <3>2, Bounds
    <3>. QED
      BY <3>1, <3>3 DEF Init, RunTyped, RunPlaces
  <2>3. Place /\ Matched
    BY DEF Init, Place, Matched, NoCall, Users
  <2>4. Entering = {} /\ nextID = 0 /\ questions = nextID
    BY DEF Init, Entering
  <2>a. Owed = 0 /\ Begun = 0
    <3>1. dials = 0 /\ asks = 0 /\ pings = 0 /\ run = "dial"
      BY DEF Init
    <3>. QED
      BY <3>1 DEF Begun, Owed
  <2>5. Counted
    BY <2>4, <2>a, FS_EmptySet DEF Counted
  <2>. QED
    BY <2>1, <2>2, <2>3, <2>5, TypeParts DEF BaseInv
<1>2. BaseInv /\ [Next]_vars => BaseInv'
  <2>. SUFFICES ASSUME BaseInv, [Next]_vars PROVE BaseInv'
    OBVIOUS
  <2>1. TypeOK'
    <3>1. CallsTyped' /\ RunTyped'
      BY CallsTypedKept, RunTypedKept DEF BaseInv
    <3>. QED
      BY <3>1 DEF TypeOK, CallsTyped, RunTyped, Stages, CallType, BoxType
  <2>. QED
    BY <2>1, PlaceKept, CountedKept, MatchedKept DEF BaseInv
<1>. QED
  BY <1>1, <1>2, PTL DEF Spec

(* The variables of the client have their types; above all, every call     *)
(* gets an id of its own, within what the callers and Run can ask.         *)
THEOREM Typing == Spec => []TypeOK
<1>1. BaseInv => TypeOK
  BY DEF BaseInv
<1>. QED
  BY <1>1, Base, PTL

-----------------------------------------------------------------------------
(* Replies find their call. *)

(* Only a call that waits, or is about to, has something in its channel.   *)
BoxHeld == \A u \in Users : box[u] # Empty => at[u] \in {"writing", "waiting"}

CallTable == PendingListens /\ BoxHeld /\ RepliesMatch

(* One call changes and what it has registered; the rest stays.           *)
LEMMA OneCallMoves ==
  ASSUME TypeOK, CallTable, NEW u \in Users,
         \A v \in Users \ {u} : at'[v] = at[v] /\ call'[v] = call[v] /\ box'[v] = box[v],
         \A i \in Ids : pending'[i] # "none" =>
           \/ pending'[i] = pending[i] /\ pending[i] # u
           \/ pending'[i] = u /\ at'[u] \in {"writing", "waiting"} /\ call'[u].id = i /\ box'[u] = Empty,
         box'[u] # Empty => at'[u] \in {"writing", "waiting"},
         box'[u].kind \in {"data", "error"} => box'[u].question = call'[u].question
  PROVE  CallTable'
<1>1. \A i \in Ids : pending[i] # "none" => pending[i] \in Users
  BY DEF TypeOK
<1>2. PendingListens'
  BY <1>1 DEF CallTable, PendingListens
<1>3. BoxHeld' /\ RepliesMatch'
  BY DEF CallTable, BoxHeld, RepliesMatch
<1>. QED
  BY <1>2, <1>3 DEF CallTable

LEMMA EmptyIsNoReply == Empty.kind \notin {"data", "error"} /\ Lost.kind \notin {"data", "error"}
BY DEF Empty, Lost

LEMMA CallTableKept == BaseInv /\ CallTable /\ [Next]_vars => CallTable'
<1>. SUFFICES ASSUME BaseInv, CallTable, [Next]_vars PROVE CallTable'
  OBVIOUS
<1>a. TypeOK /\ "run" \in Users /\ "none" \notin Users
  BY ClientAssumption DEF Users, BaseInv
<1>b. /\ at \in [Users -> Stages] /\ call \in [Users -> CallType] /\ box \in [Users -> BoxType]
      /\ pending \in [Ids -> Users \cup {"none"}]
  BY <1>a, TypeParts DEF CallsTyped
<1>c. \A u \in Users, i \in Ids : pending[i] = u =>
        at[u] \in {"writing", "waiting"} /\ call[u].id = i /\ box[u] = Empty
  BY <1>a DEF CallTable, PendingListens
<1>d. \A u \in Users : box[u] # Empty => at[u] \in {"writing", "waiting"}
  BY DEF CallTable, BoxHeld
<1>1. ASSUME NEW u \in Users, NEW c, at[u] = "idle", Borrows(u, c) PROVE CallTable'
  <2>1. \A v \in Users \ {u} : at'[v] = at[v] /\ call'[v] = call[v] /\ box'[v] = box[v]
    BY <1>b, <1>1 DEF Borrows
  <2>2. box'[u] = Empty /\ pending' = pending
    BY <1>d, <1>1 DEF Borrows, ids
  <2>3. \A i \in Ids : pending[i] # u
    BY <1>c, <1>1
  <2>. QED
    BY <1>a, <2>1, <2>2, <2>3, OneCallMoves, EmptyIsNoReply
<1>2. ASSUME TakesResult, at["run"] = "done" PROVE CallTable'
  <2>1. \A v \in Users \ {"run"} : at'[v] = at[v] /\ call'[v] = call[v] /\ box'[v] = box[v]
    BY <1>b, <1>2 DEF TakesResult
  <2>2. box'["run"] = Empty /\ pending' = pending
    BY <1>a, <1>d, <1>2 DEF TakesResult, ids
  <2>3. \A i \in Ids : pending[i] # "run"
    BY <1>a, <1>c, <1>2
  <2>. QED
    BY <1>a, <2>1, <2>2, <2>3, OneCallMoves, EmptyIsNoReply
<1>3. ASSUME NEW u \in Users, NEW r, Concludes(u, r), Forget(u) PROVE CallTable'
  <2>1. \A v \in Users \ {u} : at'[v] = at[v] /\ call'[v] = call[v] /\ box'[v] = box[v]
    BY <1>b, <1>3 DEF Concludes
  <2>2. box'[u] = Empty
    BY <1>b, <1>3 DEF Concludes
  <2>3. \A i \in Ids : pending'[i] # "none" => pending'[i] = pending[i] /\ pending[i] # u
    BY <1>b, <1>c, <1>3 DEF Forget
  <2>. QED
    BY <1>a, <2>1, <2>2, <2>3, OneCallMoves, EmptyIsNoReply
<1>4. ASSUME FailPending, UNCHANGED <<at, call>> PROVE CallTable'
  <2>1. \A u \in Users : box'[u] = box[u] \/ (box'[u] = Lost /\ at[u] \in {"writing", "waiting"})
    BY <1>b, <1>c, <1>4 DEF FailPending
  <2>2. \A i \in Ids : pending'[i] = "none"
    BY <1>4 DEF FailPending
  <2>3. BoxHeld'
    BY <1>4, <1>d, <2>1 DEF BoxHeld
  <2>4. RepliesMatch'
    BY <1>4, <2>1, EmptyIsNoReply DEF CallTable, RepliesMatch
  <2>5. PendingListens'
    BY <2>2 DEF PendingListens
  <2>. QED
    BY <2>3, <2>4, <2>5 DEF CallTable
<1>5. ASSUME UNCHANGED <<at, call, box, pending>> PROVE CallTable'
  BY <1>5 DEF CallTable, PendingListens, BoxHeld, RepliesMatch
<1>6. ASSUME NEW u \in Users, Enter(u) PROVE CallTable'
  <2>1. NewID \in Ids
    BY <1>6, NewIDTyped DEF BaseInv
  <2>2. call' = [call EXCEPT ![u] = [@ EXCEPT !.id = NewID, !.question = questions']]
    BY <1>6 DEF Enter
  <2>3. call'[u].id = NewID
    BY <1>b, <2>2 DEF CallType
  <2>4. \A v \in Users \ {u} : at'[v] = at[v] /\ call'[v] = call[v] /\ box'[v] = box[v]
    BY <1>b, <1>6, <2>2 DEF Enter
  <2>5. at'[u] = "writing" /\ box'[u] = Empty
    BY <1>b, <1>6 DEF Enter
  <2>6. \A i \in Ids : pending[i] # u
    BY <1>6, <1>c DEF Enter
  <2>7. pending'[NewID] = u /\ \A i \in Ids \ {NewID} : pending'[i] = pending[i]
    BY <1>b, <1>6, <2>1 DEF Enter
  <2>. QED
    BY <1>a, <2>1, <2>3, <2>4, <2>5, <2>6, <2>7, OneCallMoves, EmptyIsNoReply
<1>7. ASSUME NEW u \in Users, Write(u) PROVE CallTable'
  <2>1. UNCHANGED <<call, box, pending>>
    BY <1>7 DEF Write, ids
  <2>2. at' = [at EXCEPT ![u] = "waiting"] /\ at[u] = "writing"
    BY <1>7 DEF Write
  <2>3. \A v \in Users : at[v] \in {"writing", "waiting"} => at'[v] \in {"writing", "waiting"}
    BY <1>b, <2>2
  <2>. QED
    BY <1>a, <2>1, <2>3, <1>b DEF CallTable, PendingListens, BoxHeld, RepliesMatch
<1>8. ASSUME NEW u \in Users, WriteFails(u) \/ Answered(u) \/ TimedOut(u) PROVE CallTable'
  BY <1>3, <1>8 DEF WriteFails, Answered, TimedOut
<1>9. ASSUME NEW q \in wire, NEW kind \in {"data", "error"}, Reply(q, kind) PROVE CallTable'
  <2>0. q.id \in Ids /\ q.question = q.id /\ UNCHANGED <<at, call>>
    BY <1>9 DEF BaseInv, TypeOK, Matched, Reply
  <2>1. CASE pending[q.id] = "none"
    BY <1>5, <1>9, <2>0, <2>1 DEF Reply
  <2>2. ASSUME NEW to \in Users, to = pending[q.id] PROVE CallTable'
    <3>1. at[to] \in {"writing", "waiting"} /\ call[to].id = q.id
      BY <2>0, <2>2, <1>c
    <3>2. q.question = call[to].question
      BY <2>0, <3>1 DEF BaseInv, Matched
    <3>3. /\ box' = [box EXCEPT ![to] = [kind |-> kind, question |-> q.question]]
          /\ pending' = [pending EXCEPT ![q.id] = "none"]
      BY <1>9, <1>a, <2>2 DEF Reply
    <3>4. box'[to].question = call'[to].question
      BY <1>b, <2>0, <3>2, <3>3
    <3>5. \A i \in Ids : pending'[i] # "none" => pending'[i] = pending[i] /\ pending[i] # to
      BY <1>b, <1>c, <2>0, <3>1, <3>3
    <3>6. \A v \in Users \ {to} : at'[v] = at[v] /\ call'[v] = call[v] /\ box'[v] = box[v]
      BY <1>b, <2>0, <3>3
    <3>. QED
      BY <1>a, <2>0, <3>1, <3>4, <3>5, <3>6, OneCallMoves
  <2>. QED
    BY <1>b, <2>0, <2>1, <2>2
<1>10. ASSUME NEW c \in Conns, Reader(c) \/ SocketDies(c) PROVE CallTable'
  BY <1>4, <1>5, <1>10 DEF Reader, ReadFails, Signal, SocketDies, calls, ids
<1>11. CASE Dialled \/ AskVersion \/ OnTicker
  <2>1. at["run"] = "idle"
    BY <1>11, <1>a DEF Dialled, AskVersion, OnTicker, BaseInv, Place
  <2>. QED
    BY <1>1, <1>a, <1>11, <2>1 DEF Dialled, AskVersion, OnTicker
<1>12. CASE LoggedIn \/ Unproven \/ Proven \/ Pinged
  BY <1>2, <1>12 DEF LoggedIn, Unproven, Proven, Pinged, Got
<1>13. CASE Drop
  BY <1>4, <1>13 DEF Drop
<1>14. CASE DialFails \/ OnDead \/ OnWake \/ Dropped \/ PauseEnds \/ Stop \/ Wake \/ Shutdown \/ UNCHANGED vars
  <2>1. UNCHANGED <<at, call, box, pending>>
    BY <1>14 DEF DialFails, OnDead, OnWake, Dropped, PauseEnds, Stop, Wake, Shutdown, vars, calls, ids
  <2>. QED
    BY <1>5, <2>1
<1>15. ASSUME NEW u \in Users, Ask(u) PROVE CallTable'
  BY <1>1, <1>15 DEF Ask
<1>. QED
  BY <1>6, <1>7, <1>8, <1>9, <1>10, <1>11, <1>12, <1>13, <1>14, <1>15 DEF Next, Request, Run, Connect

LEMMA CallTables == Spec => []CallTable
<1>1. Init => CallTable
  BY EmptyIsNoReply DEF Init, CallTable, PendingListens, BoxHeld, RepliesMatch
<1>2. BaseInv /\ CallTable /\ [Next]_vars => CallTable'
  BY CallTableKept
<1>. QED
  BY <1>1, <1>2, Base, PTL DEF Spec

(* Whoever is registered still listens on an empty channel: the read loop  *)
(* and drop never block on a send.                                         *)
THEOREM SendsNeverBlock == Spec => []PendingListens
<1>1. CallTable => PendingListens
  BY DEF CallTable
<1>. QED
  BY <1>1, CallTables, PTL

(* A call gets the reply to its own question or none.                      *)
THEOREM RepliesReachTheirCall == Spec => []RepliesMatch
<1>1. CallTable => RepliesMatch
  BY DEF CallTable
<1>. QED
  BY <1>1, CallTables, PTL

-----------------------------------------------------------------------------
(* Connections, their readers, and what is said of them. *)

(* A read loop that has failed has closed its socket. *)
ReaderGone == \A c \in Conns : reader[c] \in {"failed", "ended"} => c \notin up

AllCancelled == \A c \in 1..dials : c = cancel \/ c \in cancelled

(* As long as the socket of the connection dialled last lives and no other *)
(* reader has come to its end, nothing tells Run of a loss.                *)
NoFalseLoss ==
  dials \in up /\ ~crossed =>
    /\ box["run"].kind # "lost"
    /\ at["run"] = "done" => ~DeadSocket(got)
    /\ run \in {"version", "serving", "ping"} => ~dead

LEMMA ReadersKept == TypeOK /\ ReaderGone /\ [Next]_vars => ReaderGone'
<1>. SUFFICES ASSUME TypeOK, ReaderGone, [Next]_vars PROVE ReaderGone'
  OBVIOUS
<1>a. reader \in [Conns -> {"none", "reading", "failed", "ended"}]
  BY DEF TypeOK
<1>1. ASSUME NEW c \in Conns, Reader(c) \/ SocketDies(c) PROVE ReaderGone'
  BY <1>a, <1>1 DEF ReaderGone, Reader, ReadFails, Signal, SocketDies, sockets
<1>2. CASE Dialled
  BY <1>a, <1>2, NextConn DEF ReaderGone, Dialled
<1>3. ASSUME up' \subseteq up, reader' = reader PROVE ReaderGone'
  BY <1>3 DEF ReaderGone
<1>4. ASSUME NEW u \in Users, Ask(u) \/ Request(u) PROVE ReaderGone'
  BY <1>3, <1>4, RequestFrame DEF Ask, sockets
<1>5. ASSUME NEW q \in wire, NEW kind \in {"data", "error"}, Reply(q, kind) PROVE ReaderGone'
  BY <1>3, <1>5 DEF Reply, sockets
<1>6. CASE DialFails \/ LoggedIn \/ Unproven \/ AskVersion \/ Proven
  BY <1>3, <1>6 DEF DialFails, LoggedIn, Unproven, AskVersion, Proven, sockets
<1>7. CASE OnDead \/ OnWake \/ OnTicker \/ Pinged \/ Drop \/ Dropped \/ PauseEnds \/ Stop
  BY <1>3, <1>7 DEF OnDead, OnWake, OnTicker, Pinged, Drop, Dropped, PauseEnds, Stop, sockets
<1>8. CASE Wake \/ Shutdown \/ UNCHANGED vars
  BY <1>3, <1>8 DEF Wake, Shutdown, vars, sockets
<1>. QED
  BY <1>1, <1>2, <1>4, <1>5, <1>6, <1>7, <1>8 DEF Next, Run, Connect

LEMMA CancelledKept == BaseInv /\ AllCancelled /\ StatusTrue /\ [Next]_vars => AllCancelled' /\ StatusTrue'
<1>. SUFFICES ASSUME BaseInv, AllCancelled, StatusTrue, [Next]_vars PROVE AllCancelled' /\ StatusTrue'
  OBVIOUS
<1>. DEFINE Kept == AllCancelled' /\ StatusTrue'
<1>a. TypeOK /\ Place /\ dials \in Nat
  BY Numbers DEF BaseInv
<1>1. ASSUME UNCHANGED <<dials, conn, cancel, cancelled, connected, run>> PROVE Kept
  BY <1>1 DEF AllCancelled, StatusTrue
<1>2. ASSUME NEW u \in Users, Ask(u) \/ Request(u) PROVE Kept
  BY <1>1, <1>2, <1>a, RequestFrame DEF Ask, lifecycle, sockets
<1>3. ASSUME NEW q \in wire, NEW kind \in {"data", "error"}, Reply(q, kind) PROVE Kept
  BY <1>1, <1>3 DEF Reply, lifecycle, sockets
<1>4. ASSUME NEW c \in Conns, Reader(c) \/ SocketDies(c) PROVE Kept
  BY <1>1, <1>4 DEF Reader, ReadFails, Signal, SocketDies, lifecycle, sockets
<1>5. CASE Dialled
  <2>1. AllCancelled'
    BY <1>5, <1>a DEF Dialled, AllCancelled, Place
  <2>2. StatusTrue'
    BY <1>5, <1>a DEF Dialled, StatusTrue, Place
  <2>. QED
    BY <2>1, <2>2
<1>6. CASE LoggedIn
  BY <1>6 DEF LoggedIn, AllCancelled, StatusTrue
<1>7. CASE Drop
  <2>1. AllCancelled'
    BY <1>7, <1>a DEF Drop, AllCancelled
  <2>2. StatusTrue'
    BY <1>7 DEF Drop, StatusTrue
  <2>. QED
    BY <2>1, <2>2
<1>8. ASSUME UNCHANGED <<dials, sockets>>, StatusTrue' PROVE Kept
  BY <1>8 DEF AllCancelled, sockets
<1>9. CASE DialFails
  BY <1>8, <1>9 DEF DialFails, StatusTrue
<1>10. CASE Unproven \/ AskVersion
  BY <1>8, <1>10 DEF Unproven, AskVersion, StatusTrue, sockets
<1>11. CASE Proven
  BY <1>8, <1>11, <1>a DEF Proven, Place, StatusTrue, sockets
<1>12. CASE OnDead \/ OnWake \/ OnTicker \/ Pinged
  <2>1. StatusTrue'
    BY <1>12 DEF OnDead, OnWake, OnTicker, Pinged, StatusTrue, sockets
  <2>. QED
    BY <1>8, <1>12, <2>1 DEF OnDead, OnWake, OnTicker, Pinged
<1>13. CASE Dropped \/ PauseEnds \/ Stop
  <2>1. StatusTrue'
    BY <1>13 DEF Dropped, PauseEnds, Stop, StatusTrue, sockets
  <2>. QED
    BY <1>8, <1>13, <2>1 DEF Dropped, PauseEnds, Stop
<1>14. CASE Wake \/ Shutdown \/ UNCHANGED vars
  BY <1>1, <1>14 DEF Wake, Shutdown, vars, lifecycle, sockets
<1>. QED
  BY <1>2, <1>3, <1>4, <1>5, <1>6, <1>7, <1>9, <1>10, <1>11, <1>12, <1>13, <1>14 DEF Next, Run, Connect

LEMMA Connections ==
  ASSUME TypeOK
  PROVE  (conn # 0 => conn \in Conns) /\ (dials # 0 => dials \in Conns)
<1>1. dials \in 0..MaxDials /\ conn \in 0..dials
  BY DEF TypeOK
<1>. QED
  BY <1>1, Bounds DEF Conns

LEMMA LossKept == BaseInv /\ ReaderGone /\ LossKnown /\ [Next]_vars => LossKnown'
<1>. SUFFICES ASSUME BaseInv, ReaderGone, LossKnown, [Next]_vars PROVE LossKnown'
  OBVIOUS
<1>a. /\ TypeOK /\ Place /\ "run" \in Users /\ "run" \notin Callers
      /\ at \in [Users -> Stages] /\ reader \in [Conns -> {"none", "reading", "failed", "ended"}]
      /\ conn # 0 => conn \in Conns
  <2>1. TypeOK
    BY DEF BaseInv
  <2>. QED
    BY <2>1, ClientAssumption, Connections, TypeParts DEF BaseInv, CallsTyped, RunTyped, Users
<1>1. ASSUME UNCHANGED <<conn, reader, dead, run, at, got>> PROVE LossKnown'
  BY <1>1 DEF LossKnown, Got
<1>2. ASSUME UNCHANGED <<conn, reader, dead, run>>, run # "version" PROVE LossKnown'
  BY <1>2 DEF LossKnown
<1>3. ASSUME conn' = 0 \/ dead' \/ run' \in {"drop", "fresh"} PROVE LossKnown'
  BY <1>3 DEF LossKnown
<1>4. ASSUME run \in {"serving", "ping"}, run' \in {"serving", "ping"}, UNCHANGED <<conn, reader, dead>>
      PROVE  LossKnown'
  BY <1>4 DEF LossKnown
<1>5. ASSUME UNCHANGED <<conn, reader, dead, run, got>>, at'["run"] = at["run"] PROVE LossKnown'
  BY <1>5 DEF LossKnown, Got
<1>6. ASSUME NEW u \in Users, Request(u) PROVE LossKnown'
  <2>1. UNCHANGED <<conn, reader, dead, run>>
    BY <1>6, <1>a, RequestFrame DEF lifecycle, signals
  <2>2. CASE u # "run"
    <3>1. at'["run"] = at["run"] /\ got' = got
      BY <1>6, <2>2, <1>a DEF Request, Enter, Write, WriteFails, Answered, TimedOut, Concludes
    <3>. QED
      BY <1>5, <2>1, <3>1
  <2>3. CASE u = "run" /\ run = "version" /\ conn # 0 /\ reader[conn] = "ended" /\ ~dead
    <3>1. call["run"].on = conn /\ conn \notin up
      BY <1>a, <2>3 DEF Place, ReaderGone
    <3>2. at["run"] \in {"entering", "writing"} \/ Got("broken")
      BY <2>3 DEF LossKnown
    <3>3. CASE Enter(u)
      BY <2>1, <2>3, <3>3, <1>a DEF Enter, LossKnown
    <3>4. ~Write(u)
      BY <2>3, <3>1 DEF Write
    <3>5. CASE WriteFails(u)
      BY <2>1, <2>3, <3>1, <3>5, <1>a DEF WriteFails, Concludes, LossKnown, Got
    <3>6. ~(Answered(u) \/ TimedOut(u))
      BY <2>3, <3>2 DEF Answered, TimedOut, Got
    <3>. QED
      BY <1>6, <3>3, <3>4, <3>5, <3>6 DEF Request
  <2>. QED
    BY <1>2, <1>3, <2>1, <2>2, <2>3 DEF LossKnown
<1>7. ASSUME NEW u \in Users, Ask(u) PROVE LossKnown'
  BY <1>5, <1>7, <1>a DEF Ask, Borrows, lifecycle, sockets, signals
<1>8. ASSUME NEW q \in wire, NEW kind \in {"data", "error"}, Reply(q, kind) PROVE LossKnown'
  BY <1>1, <1>8 DEF Reply, lifecycle, sockets, signals
<1>9. ASSUME NEW c \in Conns, ReadFails(c) PROVE LossKnown'
  BY <1>9, <1>a DEF ReadFails, LossKnown, Got, lifecycle, signals
<1>10. ASSUME NEW c \in Conns, Signal(c) PROVE LossKnown'
  BY <1>3, <1>10 DEF Signal
<1>11. ASSUME NEW c \in Conns, SocketDies(c) PROVE LossKnown'
  BY <1>1, <1>11 DEF SocketDies, lifecycle, signals, calls
<1>12. CASE Dialled
  BY <1>3, <1>12, <1>a DEF Dialled, Place
<1>13. CASE DialFails
  BY <1>3, <1>13, <1>a DEF DialFails, sockets, Place
<1>14. CASE LoggedIn \/ Unproven \/ OnDead
  BY <1>3, <1>14 DEF LoggedIn, Unproven, OnDead
<1>15. CASE AskVersion
  BY <1>15, <1>a DEF AskVersion, Borrows, LossKnown
<1>16. CASE Proven
  BY <1>16 DEF Proven, LossKnown, Got, sockets, signals
<1>17. CASE OnWake
  BY <1>3, <1>4, <1>17, <1>a DEF OnWake, sockets, Place
<1>18. CASE OnTicker
  BY <1>4, <1>18 DEF OnTicker, sockets, signals
<1>19. CASE Pinged
  BY <1>3, <1>4, <1>19 DEF Pinged, sockets, signals
<1>20. CASE Drop
  BY <1>3, <1>20 DEF Drop
<1>21. CASE Dropped \/ PauseEnds
  BY <1>3, <1>21, <1>a DEF Dropped, PauseEnds, sockets, Place
<1>22. CASE Stop
  BY <1>3, <1>22, <1>a DEF Stop, sockets, Place
<1>23. CASE Wake \/ Shutdown \/ UNCHANGED vars
  BY <1>1, <1>23 DEF Wake, Shutdown, vars, lifecycle, sockets, signals, calls
<1>. QED
  BY <1>6, <1>7, <1>8, <1>9, <1>10, <1>11, <1>12, <1>13, <1>14, <1>15, <1>16, <1>17, <1>18, <1>19,
     <1>20, <1>21, <1>22, <1>23 DEF Next, Reader, Run, Connect

LEMMA NoFalseLossKept ==
  BaseInv /\ CallTable /\ ReaderGone /\ NoFalseLoss /\ [Next]_vars => NoFalseLoss'
<1>. SUFFICES ASSUME BaseInv, CallTable, ReaderGone, NoFalseLoss, [Next]_vars PROVE NoFalseLoss'
  OBVIOUS
<1>a. /\ TypeOK /\ Place /\ "run" \in Users /\ "run" \notin Callers
      /\ at \in [Users -> Stages] /\ box \in [Users -> BoxType]
      /\ dials \in Nat /\ dials # 0 => dials \in Conns
      /\ next \in {"dial", "backoff", "floor", "ended"}
  <2>1. TypeOK
    BY DEF BaseInv
  <2>. QED
    BY <2>1, ClientAssumption, Connections, Numbers, TypeParts DEF BaseInv, CallsTyped, RunTyped, Users
<1>e. Empty.kind # "lost" /\ Empty.kind = ""
  BY DEF Empty
<1>b. at["run"] \notin {"writing", "waiting"} => /\ box["run"] = Empty
                                                /\ \A i \in Ids : pending[i] # "run"
  <2>1. at["run"] \notin {"writing", "waiting"} => box["run"] = Empty
    BY <1>a DEF CallTable, BoxHeld
  <2>2. ASSUME NEW i \in Ids, pending[i] = "run" PROVE at["run"] \in {"writing", "waiting"}
    BY <2>2 DEF CallTable, PendingListens
  <2>. QED
    BY <2>1, <2>2
<1>1. ASSUME dials' = dials, up' \subseteq up, crossed' = crossed,
             run' \in {"version", "serving", "ping"} => run \in {"version", "serving", "ping"} /\ dead' = dead,
             at'["run"] = "done" => at["run"] = "done" /\ got' = got,
             box'["run"].kind = "lost" => box["run"].kind = "lost"
      PROVE  NoFalseLoss'
  BY <1>1 DEF NoFalseLoss, DeadSocket
<1>2. ASSUME NEW u \in Users, Request(u) PROVE NoFalseLoss'
  <2>1. UNCHANGED <<dials, dead, run, crossed>> /\ up' \subseteq up
    BY <1>2, <1>a, RequestFrame DEF lifecycle, signals
  <2>2. CASE u # "run"
    <3>1. UNCHANGED got /\ at'["run"] = at["run"] /\ box'["run"] = box["run"]
      BY <1>2, <2>2, <1>a DEF Request, Enter, Write, WriteFails, Answered, TimedOut, Concludes
    <3>. QED
      BY <1>1, <2>1, <3>1
  <2>3. CASE u = "run" /\ (Enter(u) \/ Write(u))
    <3>1. at'["run"] # "done" /\ box'["run"].kind \in {"", box["run"].kind}
      BY <1>a, <1>e, <2>3 DEF Enter, Write
    <3>. QED
      BY <1>1, <2>1, <3>1
  <2>4. CASE u = "run" /\ WriteFails(u)
    <3>1. call["run"].on = dials /\ dials \notin up'
      BY <2>4, <1>a DEF WriteFails, Place
    <3>. QED
      BY <2>1, <3>1 DEF NoFalseLoss
  <2>5. CASE u = "run" /\ Answered(u)
    <3>1. at'["run"] = "done" /\ got' = box["run"].kind /\ box'["run"] = Empty
      BY <2>5, <1>a DEF Answered, Concludes
    <3>2. box["run"].kind # "broken"
      BY <1>a DEF BoxType
    <3>. QED
      BY <1>e, <2>1, <3>1, <3>2 DEF NoFalseLoss, DeadSocket
  <2>6. CASE u = "run" /\ TimedOut(u)
    <3>1. got' = "timeout" /\ box'["run"] = Empty
      BY <2>6, <1>a DEF TimedOut, Concludes
    <3>. QED
      BY <1>e, <2>1, <3>1 DEF NoFalseLoss, DeadSocket
  <2>. QED
    BY <1>2, <2>2, <2>3, <2>4, <2>5, <2>6 DEF Request
<1>3. ASSUME NEW u \in Users, Ask(u) PROVE NoFalseLoss'
  BY <1>1, <1>3, <1>a DEF Ask, Borrows, lifecycle, sockets, signals
<1>4. ASSUME NEW q \in wire, NEW kind \in {"data", "error"}, Reply(q, kind) PROVE NoFalseLoss'
  <2>1. box'["run"].kind = "lost" => box["run"].kind = "lost"
    BY <1>4, <1>a DEF Reply
  <2>. QED
    BY <1>1, <1>4, <2>1 DEF Reply, lifecycle, sockets, signals
<1>5. ASSUME NEW c \in Conns, ReadFails(c) PROVE NoFalseLoss'
  BY <1>5 DEF ReadFails, NoFalseLoss, lifecycle
<1>6. ASSUME NEW c \in Conns, Signal(c) PROVE NoFalseLoss'
  BY <1>6 DEF Signal, NoFalseLoss, ReaderGone, lifecycle, sockets
<1>7. ASSUME NEW c \in Conns, SocketDies(c) PROVE NoFalseLoss'
  BY <1>1, <1>7 DEF SocketDies, lifecycle, signals, calls
<1>8. CASE Dialled
  BY <1>8, <1>a, <1>b, <1>e DEF Dialled, Borrows, Place, NoFalseLoss
<1>9. CASE AskVersion
  BY <1>9, <1>a, <1>b, <1>e DEF AskVersion, Borrows, Place, NoFalseLoss
<1>10. CASE OnTicker
  BY <1>1, <1>10, <1>a DEF OnTicker, Borrows, sockets, signals
<1>11. CASE LoggedIn \/ Unproven \/ Proven \/ Pinged
  <2>1. at'["run"] = "idle" /\ box' = box /\ UNCHANGED <<dials, up, crossed, dead>>
    BY <1>11, <1>a DEF LoggedIn, Unproven, Proven, Pinged, TakesResult, sockets, signals
  <2>2. run' \in {"version", "serving", "ping"} => run \in {"version", "serving", "ping"}
    BY <1>11 DEF LoggedIn, Unproven, Proven, Pinged
  <2>. QED
    BY <1>1, <2>1, <2>2
<1>12. CASE Drop
  <2>1. box'["run"] = box["run"]
    BY <1>12, <1>a, <1>b DEF Drop, FailPending, Place
  <2>. QED
    BY <1>1, <1>12, <2>1 DEF Drop
<1>13. CASE DialFails \/ OnDead \/ OnWake \/ Dropped \/ PauseEnds \/ Stop
  <2>1. UNCHANGED <<dials, up, crossed, at, got, box>>
    BY <1>13 DEF DialFails, OnDead, OnWake, Dropped, PauseEnds, Stop, sockets, calls
  <2>2. run' \in {"version", "serving", "ping"} => run \in {"version", "serving", "ping"} /\ dead' = dead
    BY <1>13, <1>a DEF DialFails, OnDead, OnWake, Dropped, PauseEnds, Stop, signals
  <2>. QED
    BY <1>1, <2>1, <2>2
<1>14. CASE Wake \/ Shutdown \/ UNCHANGED vars
  BY <1>1, <1>14 DEF Wake, Shutdown, vars, lifecycle, sockets, signals, calls
<1>. QED
  BY <1>2, <1>3, <1>4, <1>5, <1>6, <1>7, <1>8, <1>9, <1>10, <1>11, <1>12, <1>13, <1>14
     DEF Next, Reader, Run, Connect

(* The invariant of the connections, over whole behaviours.                *)
SessionInv == ReaderGone /\ AllCancelled /\ StatusTrue /\ LossKnown /\ NoFalseLoss

LEMMA Session == Spec => []SessionInv
<1>1. Init => SessionInv
  <2>. SUFFICES ASSUME Init PROVE SessionInv
    OBVIOUS
  <2>1. ReaderGone /\ StatusTrue /\ LossKnown /\ NoFalseLoss
    BY DEF Init, ReaderGone, StatusTrue, LossKnown, NoFalseLoss
  <2>2. dials = 0
    BY DEF Init
  <2>3. 1..dials = {}
    BY <2>2
  <2>. QED
    BY <2>1, <2>3 DEF SessionInv, AllCancelled
<1>2. BaseInv /\ CallTable /\ SessionInv /\ [Next]_vars => SessionInv'
  <2>. SUFFICES ASSUME BaseInv, CallTable, SessionInv, [Next]_vars PROVE SessionInv'
    OBVIOUS
  <2>. QED
    BY ReadersKept, CancelledKept, LossKept, NoFalseLossKept DEF SessionInv, BaseInv
<1>. QED
  BY <1>1, <1>2, Base, CallTables, PTL DEF Spec

(* Every connection but the current one has had its reader cancelled, and  *)
(* nothing is left once Run has ended.                                     *)
THEOREM ReadersCancelled == Spec => []OneReader
<1>1. BaseInv /\ SessionInv => OneReader
  BY DEF BaseInv, Place, SessionInv, AllCancelled, StatusTrue, OneReader
<1>. QED
  BY <1>1, Base, Session, PTL

(* The status says connected only of a connection that has proven itself.  *)
THEOREM StatusIsTrue == Spec => []StatusTrue
<1>1. SessionInv => StatusTrue
  BY DEF SessionInv
<1>. QED
  BY <1>1, Session, PTL

(* The drain of stale loss signals never loses a true one.                 *)
THEOREM LossIsKnown == Spec => []LossKnown
<1>1. SessionInv => LossKnown
  BY DEF SessionInv
<1>. QED
  BY <1>1, Session, PTL

(* A connection that works is dropped only at shutdown or for the loss of  *)
(* an earlier one.                                                         *)
THEOREM DropsExplained == Spec => LiveDropExplained
<1>1. ASSUME BaseInv, NoFalseLoss, Next, run \in {"serving", "ping"}, run' = "drop", conn \in up
      PROVE  crossed \/ stopped
  <2>1. conn = dials
    BY <1>1 DEF BaseInv, Place
  <2>2. CASE OnDead
    BY <1>1, <2>1, <2>2 DEF OnDead, NoFalseLoss
  <2>3. CASE Pinged
    BY <1>1, <2>1, <2>3 DEF Pinged, NoFalseLoss
  <2>4. CASE Stop
    BY <2>4 DEF Stop
  <2>5. ASSUME NEW u \in Users, Ask(u) \/ Request(u) PROVE run' = run
    BY <1>1, <2>5, RequestFrame DEF BaseInv, Ask, lifecycle
  <2>6. ASSUME NEW q \in wire, NEW kind \in {"data", "error"}, Reply(q, kind) PROVE run' = run
    BY <2>6 DEF Reply, lifecycle
  <2>7. ASSUME NEW c \in Conns, Reader(c) \/ SocketDies(c) PROVE run' = run
    BY <2>7 DEF Reader, ReadFails, Signal, SocketDies, lifecycle
  <2>8. CASE Connect \/ OnWake \/ OnTicker \/ Drop \/ Dropped \/ PauseEnds
    BY <1>1, <2>8 DEF Connect, Dialled, DialFails, LoggedIn, Unproven, AskVersion, Proven, OnWake, OnTicker,
                      Drop, Dropped, PauseEnds
  <2>9. ASSUME Wake \/ Shutdown PROVE run' = run
    BY <2>9 DEF Wake, Shutdown, lifecycle
  <2>. QED
    BY <1>1, <2>2, <2>3, <2>4, <2>5, <2>6, <2>7, <2>8, <2>9 DEF Next, Run
<1>2. BaseInv /\ SessionInv /\ [Next]_vars
        => [(run \in {"serving", "ping"} /\ run' = "drop" /\ conn \in up) => crossed \/ stopped]_vars
  BY <1>1 DEF SessionInv
<1>. QED
  BY <1>2, Base, Session, PTL DEF Spec, LiveDropExplained
=============================================================================
