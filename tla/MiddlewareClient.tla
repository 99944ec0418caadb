-------------------------- MODULE MiddlewareClient --------------------------
(***************************************************************************)
(* The client of internal/truenas: one websocket to the middleware, owned  *)
(* by Run (dial, login, keepalive, reconnect), read by one read loop per   *)
(* connection, borrowed by any number of calls.  A reply finds its call by *)
(* a numeric id; a connection that dies, or is dropped, fails every call   *)
(* that waits - whichever connection it was written to.                    *)
(*                                                                         *)
(* What a request asks and what its reply says are left out: a request is  *)
(* a question with a number of its own, so that an answer to another one   *)
(* would be seen.  Timers may fire at any moment.                          *)
(***************************************************************************)
EXTENDS Naturals

CONSTANTS
  Callers,     \* goroutines that call: snapshot fetches, action workers
  MaxDials,    \* bound: successful dials
  MaxAsks,     \* bound: calls the callers make
  MaxPings     \* bound: keepalives

ASSUME ClientAssumption ==
  /\ {MaxDials, MaxAsks, MaxPings} \subseteq Nat
  /\ {"run", "none"} \cap Callers = {}

Users == Callers \cup {"run"}
Conns == 1..MaxDials
Ids == 1..(2 * MaxDials + MaxAsks + MaxPings)    \* login and version per dial

VARIABLES
  run,        \* where Run is
  next,       \* where Run goes after the drop under way
  conn,       \* Client.conn; 0 is nil
  cancel,     \* whose reader readerCancel cancels; 0 is nil
  cancelled,  \* connections whose reader has been cancelled
  up,         \* connections whose socket lives
  dials,      \* connections made so far
  reader,     \* the read loop of each connection
  dead,       \* a loss signal waits in Client.dead
  wake,       \* a token waits in Client.wake
  connected,  \* Status.Connected
  stopped,    \* Run's context is done
  at,         \* where each call is
  call,       \* the call: the connection it borrowed, its id, its question
  box,        \* the call's one-slot channel
  got,        \* what Run's last call came back with
  pending,    \* Client.pending: id -> whose channel, or "none"
  nextID,     \* Client.nextID
  wire,       \* requests the server has not answered
  questions,  \* history: the questions asked so far
  asks,       \* calls the callers have made
  pings,      \* keepalives sent
  crossed     \* history: the reader of another connection has come to its end
              \* since the current one was dialled

lifecycle == <<run, next, connected, stopped, dials>>
sockets == <<conn, cancel, cancelled, up>>
signals == <<dead, wake>>
ids == <<pending, nextID>>
calls == <<at, call, box, got, ids, wire, questions>>
counts == <<asks, pings>>
vars == <<lifecycle, sockets, reader, signals, calls, counts, crossed>>

NoCall == [on |-> 0, id |-> 0, question |-> 0]
Empty == [kind |-> "", question |-> 0]
Lost == [kind |-> "lost", question |-> 0]

Init ==
  /\ run = "dial" /\ next = "dial" /\ connected = FALSE /\ stopped = FALSE /\ dials = 0
  /\ conn = 0 /\ cancel = 0 /\ cancelled = {} /\ up = {}
  /\ reader = [c \in Conns |-> "none"]
  /\ dead = FALSE /\ wake = FALSE
  /\ at = [u \in Users |-> "idle"]
  /\ call = [u \in Users |-> NoCall]
  /\ box = [u \in Users |-> Empty]
  /\ got = ""
  /\ pending = [i \in Ids |-> "none"]
  /\ nextID = 0
  /\ wire = {} /\ questions = 0
  /\ asks = 0 /\ pings = 0
  /\ crossed = FALSE

(* Mutant: the calls that were told stay in the table. *)
FailPendingKept ==
  /\ box' = [u \in Users |-> IF \E i \in Ids : pending[i] = u THEN Lost ELSE box[u]]
  /\ UNCHANGED pending

(* failPendingLocked: every waiting call gets the reason, whichever        *)
(* connection it was written to.                                           *)
FailPending ==
  /\ box' = [u \in Users |-> IF \E i \in Ids : pending[i] = u THEN Lost ELSE box[u]]
  /\ pending' = [i \in Ids |-> "none"]

(* A call borrows the connection c. *)
Borrows(u, c) ==
  /\ at' = [at EXCEPT ![u] = "entering"]
  /\ call' = [call EXCEPT ![u] = [NoCall EXCEPT !.on = c]]
  /\ UNCHANGED <<box, got, ids, wire, questions>>

(* A call comes back with r: its channel is garbage, and Run looks at r. *)
Concludes(u, r) ==
  /\ at' = [at EXCEPT ![u] = IF u = "run" THEN "done" ELSE "idle"]
  /\ got' = IF u = "run" THEN r ELSE got
  /\ box' = [box EXCEPT ![u] = Empty]
  /\ call' = IF u = "run" THEN call ELSE [call EXCEPT ![u] = NoCall]

(* Run has the result r of its call. *)
Got(r) == at["run"] = "done" /\ got = r
TakesResult ==
  /\ at' = [at EXCEPT !["run"] = "idle"]
  /\ call' = [call EXCEPT !["run"] = NoCall]
  /\ got' = ""
  /\ UNCHANGED <<box, ids, wire, questions>>

-----------------------------------------------------------------------------
(* request, for the calls of Run and of everybody else. *)

(* Call: without a connection it fails at once, which changes nothing. *)
Ask(u) ==
  /\ u \in Callers /\ at[u] = "idle" /\ conn # 0
  /\ asks < MaxAsks
  /\ asks' = asks + 1
  /\ Borrows(u, conn)
  /\ UNCHANGED <<lifecycle, sockets, reader, signals, pings, crossed>>

(* Mutant: every connection counts its requests anew. *)
NewIDHere == IF run = "login" THEN 1 ELSE nextID + 1

(* Mutant: the id is taken before it is counted up. *)
NewIDEarly == nextID

(* The id of the next request; ids are never used again, not even on       *)
(* another connection.                                                     *)
NewID == nextID + 1

(* The call is registered, under the lock. *)
Enter(u) ==
  /\ at[u] = "entering"
  /\ nextID' = NewID
  /\ pending' = [pending EXCEPT ![NewID] = u]
  /\ questions' = questions + 1
  /\ call' = [call EXCEPT ![u].id = NewID, ![u].question = questions']
  /\ box' = [box EXCEPT ![u] = Empty]
  /\ at' = [at EXCEPT ![u] = "writing"]
  /\ UNCHANGED <<lifecycle, sockets, reader, signals, got, wire, counts, crossed>>

(* The request is on its way - or in the buffers of a socket that is dead  *)
(* and not yet known to be.                                                *)
Write(u) ==
  /\ at[u] = "writing"
  /\ \/ call[u].on \in up /\ wire' = wire \cup {call[u]}
     \/ call[u].on \notin up /\ reader[call[u].on] = "reading" /\ UNCHANGED wire
  /\ at' = [at EXCEPT ![u] = "waiting"]
  /\ UNCHANGED <<lifecycle, sockets, reader, signals, call, box, got, ids, questions,
                 counts, crossed>>

(* removePending: the caller stops waiting. *)
Forget(u) == pending' = [pending EXCEPT ![call[u].id] = "none"]

(* The write fails on a closed socket, or takes too long: the websocket    *)
(* library then closes the connection.                                     *)
WriteFails(u) ==
  /\ at[u] = "writing"
  /\ \/ call[u].on \notin up /\ Concludes(u, "broken")
     \/ call[u].on \in up /\ Concludes(u, "timeout")
  /\ up' = up \ {call[u].on}
  /\ Forget(u)
  /\ UNCHANGED <<lifecycle, conn, cancel, cancelled, reader, signals, nextID, wire,
                 questions, counts, crossed>>

(* The channel has something for the caller. *)
Answered(u) ==
  /\ at[u] = "waiting" /\ box[u] # Empty
  /\ Concludes(u, box[u].kind)
  /\ Forget(u)
  /\ UNCHANGED <<lifecycle, sockets, reader, signals, nextID, wire, questions, counts, crossed>>

(* The caller has waited long enough; select may prefer this to an answer. *)
TimedOut(u) ==
  /\ at[u] = "waiting"
  /\ Concludes(u, "timeout")
  /\ Forget(u)
  /\ UNCHANGED <<lifecycle, sockets, reader, signals, nextID, wire, questions, counts, crossed>>

-----------------------------------------------------------------------------
(* readLoop *)

(* A reply: dispatched by id, or skipped when nobody waits for it. *)
Reply(q, kind) ==
  LET to == pending[q.id] IN
  /\ q \in wire /\ q.on \in up /\ reader[q.on] = "reading"
  /\ wire' = wire \ {q}
  /\ IF to = "none" THEN UNCHANGED <<box, pending>>
       ELSE /\ box[to] = Empty       \* a full channel would block the loop
            /\ box' = [box EXCEPT ![to] = [kind |-> kind, question |-> q.question]]
            /\ pending' = [pending EXCEPT ![q.id] = "none"]
  /\ UNCHANGED <<lifecycle, sockets, reader, signals, at, call, got, nextID, questions,
                 counts, crossed>>

(* The read fails: the socket is dead, or the reader was cancelled. *)
ReadFails(c) ==
  /\ reader[c] = "reading"
  /\ c \notin up \/ c \in cancelled \/ stopped
  /\ up' = up \ {c}
  /\ FailPending
  /\ reader' = [reader EXCEPT ![c] = "failed"]
  /\ crossed' = (crossed \/ c # dials)
  /\ UNCHANGED <<lifecycle, conn, cancel, cancelled, signals, at, call, got, nextID, wire,
                 questions, counts>>

(* Its last act: one loss signal, unless one is waiting already. *)
Signal(c) ==
  /\ reader[c] = "failed"
  /\ dead' = TRUE
  /\ reader' = [reader EXCEPT ![c] = "ended"]
  /\ crossed' = (crossed \/ c # dials)
  /\ UNCHANGED <<lifecycle, sockets, wake, calls, counts>>

-----------------------------------------------------------------------------
(* ensureConnected *)

(* The dial succeeds: the read loop starts, and the login rides on it. *)
Dialled ==
  /\ run = "dial" /\ ~stopped /\ dials < MaxDials
  /\ dials' = dials + 1
  /\ up' = up \cup {dials'}
  /\ cancel' = dials'
  /\ reader' = [reader EXCEPT ![dials'] = "reading"]
  /\ Borrows("run", dials')
  /\ run' = "login"
  /\ crossed' = FALSE
  /\ UNCHANGED <<next, connected, stopped, conn, cancelled, signals, counts>>

DialFails ==
  /\ run = "dial"
  /\ connected' = FALSE
  /\ run' = "backoff"
  /\ UNCHANGED <<next, stopped, dials, sockets, reader, signals, calls, counts, crossed>>

LoggedIn ==
  /\ run = "login" /\ Got("data")
  /\ TakesResult
  /\ conn' = call["run"].on
  /\ run' = "fresh"
  /\ UNCHANGED <<next, connected, stopped, dials, cancel, cancelled, up, reader, signals,
                 counts, crossed>>

(* Login or version fails, or is refused. *)
Unproven ==
  /\ run \in {"login", "version"} /\ at["run"] = "done"
  /\ run = "version" => got # "data"
  /\ TakesResult
  /\ run' = "drop" /\ next' = "backoff"
  /\ UNCHANGED <<connected, stopped, dials, sockets, reader, signals, counts, crossed>>

(* A stale loss signal is thrown away, and the version asked for. *)
AskVersion ==
  /\ run = "fresh"
  /\ dead' = FALSE
  /\ Borrows("run", conn)
  /\ run' = "version"
  /\ UNCHANGED <<next, connected, stopped, dials, sockets, reader, wake, counts, crossed>>

(* Mutant: the drain comes after the version has been answered. *)
ProvenDrained ==
  /\ run = "version" /\ Got("data")
  /\ TakesResult
  /\ connected' = TRUE /\ dead' = FALSE
  /\ run' = "serving"
  /\ UNCHANGED <<next, stopped, dials, sockets, reader, wake, counts, crossed>>

(* The version is there: the session is good. *)
Proven ==
  /\ run = "version" /\ Got("data")
  /\ TakesResult
  /\ connected' = TRUE
  /\ run' = "serving"
  /\ UNCHANGED <<next, stopped, dials, sockets, reader, signals, counts, crossed>>

-----------------------------------------------------------------------------
(* Run *)

(* The loss signal of the read loop. *)
OnDead ==
  /\ run = "serving" /\ dead
  /\ dead' = FALSE
  /\ run' = "drop" /\ next' = "floor"
  /\ UNCHANGED <<connected, stopped, dials, sockets, reader, wake, calls, counts, crossed>>

(* A wake is a no-op on a healthy connection and the end of a pause. *)
OnWake ==
  /\ wake /\ run \in {"serving", "backoff", "floor"}
  /\ wake' = FALSE
  /\ run' = IF run = "serving" THEN "serving" ELSE "dial"
  /\ UNCHANGED <<next, connected, stopped, dials, sockets, reader, dead, calls, counts,
                 crossed>>

OnTicker ==
  /\ run = "serving" /\ pings < MaxPings
  /\ pings' = pings + 1
  /\ Borrows("run", conn)
  /\ run' = "ping"
  /\ UNCHANGED <<next, connected, stopped, dials, sockets, reader, signals, asks, crossed>>

(* Mutant: a slow server is taken for a dead socket. *)
DeadOrSlow(r) == r \in {"lost", "broken", "timeout"}

(* isDeadSocketErr *)
DeadSocket(r) == r \in {"lost", "broken"}

(* Only evidence of a dead socket drops the connection. *)
Pinged ==
  /\ run = "ping" /\ at["run"] = "done"
  /\ TakesResult
  /\ IF DeadSocket(got) /\ ~stopped THEN run' = "drop" /\ next' = "dial"
                                   ELSE run' = "serving" /\ UNCHANGED next
  /\ UNCHANGED <<connected, stopped, dials, sockets, reader, signals, counts, crossed>>

(* Mutant: only a connection that had logged in is torn down. *)
DropLoggedIn ==
  /\ run = "drop"
  /\ conn' = 0 /\ cancel' = 0
  /\ cancelled' = IF conn # 0 THEN cancelled \cup {conn} ELSE cancelled
  /\ up' = up \ {conn}
  /\ FailPending
  /\ run' = "dropped"
  /\ UNCHANGED <<next, connected, stopped, dials, reader, signals, at, call, got, nextID,
                 wire, questions, counts, crossed>>

(* drop: the connection is taken away and torn down, every call that waits *)
(* is told.                                                                *)
Drop ==
  /\ run = "drop"
  /\ conn' = 0 /\ cancel' = 0
  /\ cancelled' = IF cancel # 0 THEN cancelled \cup {cancel} ELSE cancelled
  /\ up' = up \ {conn}
  /\ FailPending
  /\ run' = "dropped"
  /\ UNCHANGED <<next, connected, stopped, dials, reader, signals, at, call, got, nextID,
                 wire, questions, counts, crossed>>

(* Mutant: the status is left as it was. *)
DroppedSilently ==
  /\ run = "dropped"
  /\ UNCHANGED connected
  /\ run' = next /\ next' = "dial"
  /\ UNCHANGED <<stopped, dials, sockets, reader, signals, calls, counts, crossed>>

(* drop's last act, on the way to the pause or the redial. *)
Dropped ==
  /\ run = "dropped"
  /\ connected' = FALSE
  /\ run' = next /\ next' = "dial"
  /\ UNCHANGED <<stopped, dials, sockets, reader, signals, calls, counts, crossed>>

(* The backoff, or the retry floor, is over. *)
PauseEnds ==
  /\ run \in {"backoff", "floor"}
  /\ run' = "dial"
  /\ UNCHANGED <<next, connected, stopped, dials, sockets, reader, signals, calls, counts,
                 crossed>>

(* The context is done: the connection is dropped, a pause is cut short. *)
Stop ==
  /\ stopped
  /\ \/ run = "serving" /\ run' = "drop" /\ next' = "ended"
     \/ run \in {"backoff", "floor"} /\ run' = "ended" /\ UNCHANGED next
  /\ UNCHANGED <<connected, stopped, dials, sockets, reader, signals, calls, counts, crossed>>

-----------------------------------------------------------------------------
(* The world around. *)

Wake ==
  /\ wake' = TRUE
  /\ UNCHANGED <<lifecycle, sockets, reader, dead, calls, counts, crossed>>

Shutdown ==
  /\ stopped' = TRUE
  /\ UNCHANGED <<run, next, connected, dials, sockets, reader, signals, calls, counts, crossed>>

SocketDies(c) ==
  /\ c \in up
  /\ up' = up \ {c}
  /\ UNCHANGED <<lifecycle, conn, cancel, cancelled, reader, signals, calls, counts, crossed>>

Request(u) == Enter(u) \/ Write(u) \/ WriteFails(u) \/ Answered(u) \/ TimedOut(u)
Reader(c) == ReadFails(c) \/ Signal(c)
Connect == Dialled \/ DialFails \/ LoggedIn \/ Unproven \/ AskVersion \/ Proven
Run == Connect \/ OnDead \/ OnWake \/ OnTicker \/ Pinged \/ Drop \/ Dropped \/ PauseEnds \/ Stop

Next ==
  \/ \E u \in Users : Ask(u) \/ Request(u)
  \/ \E q \in wire, kind \in {"data", "error"} : Reply(q, kind)
  \/ \E c \in Conns : Reader(c) \/ SocketDies(c)
  \/ Run
  \/ Wake \/ Shutdown

Spec == Init /\ [][Next]_vars

-----------------------------------------------------------------------------
RunPlaces == {"dial", "login", "fresh", "version", "serving", "ping", "drop", "dropped",
              "backoff", "floor", "ended"}
Questions == 0..(2 * MaxDials + MaxAsks + MaxPings)

TypeOK ==
  /\ run \in RunPlaces
  /\ next \in {"dial", "backoff", "floor", "ended"}
  /\ {connected, stopped, dead, wake, crossed} \subseteq BOOLEAN
  /\ dials \in 0..MaxDials
  /\ conn \in 0..dials /\ cancel \in 0..dials
  /\ cancelled \subseteq 1..dials /\ up \subseteq 1..dials
  /\ reader \in [Conns -> {"none", "reading", "failed", "ended"}]
  /\ at \in [Users -> {"idle", "entering", "writing", "waiting", "done"}]
  /\ call \in [Users -> [on : Conns \cup {0}, id : Questions, question : Questions]]
  /\ box \in [Users -> [kind : {"", "data", "error", "lost"}, question : Questions]]
  /\ got \in {"", "data", "error", "lost", "broken", "timeout"}
  /\ pending \in [Ids -> Users \cup {"none"}]
  /\ nextID \in Questions /\ questions \in Questions
  /\ wire \subseteq [on : Conns, id : Ids, question : Ids]
  /\ asks \in 0..MaxAsks /\ pings \in 0..MaxPings

(* A call gets the reply to its own question or none: late replies,        *)
(* replies of an earlier connection and calls that gave up never mix.      *)
RepliesMatch ==
  \A u \in Users : box[u].kind \in {"data", "error"} => box[u].question = call[u].question

(* Whatever is registered has a caller that still listens on an empty      *)
(* channel: a send into it never blocks the read loop, or drop under the   *)
(* lock, and the table does not grow with calls that timed out.            *)
PendingListens ==
  \A i \in Ids : pending[i] # "none" =>
    /\ at[pending[i]] \in {"writing", "waiting"}
    /\ call[pending[i]].id = i
    /\ box[pending[i]] = Empty

(* Every connection ever dialled but the current one has had its reader    *)
(* cancelled, logged in or not: no socket and no goroutine is left behind, *)
(* and once Run has ended none at all.                                     *)
OneReader ==
  /\ \A c \in 1..dials : c = cancel \/ c \in cancelled
  /\ run = "ended" => cancel = 0 /\ conn = 0 /\ ~connected

(* The status says connected only of a connection that is there and has    *)
(* answered its version, up to the moment a drop takes to say so.          *)
StatusTrue ==
  connected => run = "dropped" \/ (conn # 0 /\ conn = cancel /\ run \in {"serving", "ping", "drop"})

(* A connection whose socket lives is dropped because it could not be      *)
(* proven, at shutdown, or for the loss of an earlier connection whose     *)
(* reader outlived the redial - and for nothing else, however slow the     *)
(* server is.                                                              *)
LiveDropExplained ==
  [][(run \in {"serving", "ping"} /\ run' = "drop" /\ conn \in up) => crossed \/ stopped]_vars

(* The loss of the current connection is never forgotten: once its reader  *)
(* is gone, a loss signal waits, or Run is about to drop, or it is about   *)
(* to write the version request, which that socket refuses.  So the drain  *)
(* of stale signals does not lose a true one, and a full channel neither.  *)
LossKnown ==
  conn # 0 /\ reader[conn] = "ended" =>
    \/ dead
    \/ run \in {"drop", "fresh"}
    \/ run = "version" /\ (at["run"] \in {"entering", "writing"} \/ Got("broken"))
=============================================================================
