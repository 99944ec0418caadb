-------------------------- MODULE SnapshotHoldProofs --------------------------
(***************************************************************************)
(* Proofs about SnapshotHold, for any jobs, datasets, bounds and crashes,  *)
(* with outsiders or without: what a snapshot job holds it lets go of, what *)
(* is frozen is tracked, and neither the job nor the sweep lets go early   *)
(* or late.                                                                *)
(***************************************************************************)
EXTENDS SnapshotHold, FiniteSetTheorems, TLAPS

Places == {"none", "begin", "freezing", "marking", "suspending", "creating",
           "thaw1", "thaw2", "clear", "resuming", "returned", "idle",
           "waiting", "status", "over"}

(* Where a job is before it lets go of what it holds. *)
Before == {"none", "begin", "freezing", "marking", "suspending", "creating"}

(* A dataset is left as long as the creates are not over, so that the last *)
(* one is found by counting down to it.                                    *)
Unfinished == \A j \in Jobs : at[j] \in Before => left[j] > 0

(* A job has a goroutine once it was submitted. *)
Submitted == \A j \in Jobs : state[j] = "" <=> at[j] = "none"

BaseInv == TypeOK /\ Unfinished /\ Submitted

(* The guest is not held on the way to the hold and behind the thaw. *)
LetGo == \A j \in Jobs : at[j] \in {"none", "begin", "freezing", "suspending", "clear"} => j \notin holding

(* A freeze still to come is one the excuses know of. *)
LateExcused == late # {} => "late" \in excuses

-----------------------------------------------------------------------------
(* Helpers. *)

LEMMA Moves ==
  ASSUME NEW x \in Actors, NEW where \in Places, at \in [Actors -> Places], Goes(x, where)
  PROVE  /\ at' \in [Actors -> Places] /\ at'[x] = where
         /\ \A y \in Actors \ {x} : at'[y] = at[y]
BY DEF Goes

LEMMA Who == /\ Jobs \subseteq Actors /\ "loop" \in Actors /\ "startup" \in Actors
             /\ \A j \in Jobs : j # "loop" /\ j # "startup"
BY BoundsAssumption DEF Actors

(* The sweep's ticker. *)
LEMMA Wraps ==
  ASSUME NEW p \in 0..(FreezeHoldBound - 1)
  PROVE  (p + 1) % FreezeHoldBound = IF p + 1 = FreezeHoldBound THEN 0 ELSE p + 1
BY BoundsAssumption

LEMMA FewSeen == Cardinality({}) <= 1 /\ \A vm : Cardinality({vm}) <= 1
<1>1. Cardinality({}) <= 1
  <2>1. Cardinality({}) = 0
    BY FS_EmptySet
  <2>. QED
    BY <2>1
<1>2. ASSUME NEW vm PROVE Cardinality({vm}) <= 1
  <2>1. Cardinality({vm}) = 1
    BY FS_Singleton
  <2>. QED
    BY <2>1
<1>. QED
  BY <1>1, <1>2

LEMMA EndPlaces == \A x \in Actors : EndOf(x) \in {"returned", "idle", "over"}
BY DEF EndOf

LEMMA EndsReturned == \A j \in Jobs : EndOf(j) = "returned"
BY DEF EndOf

LEMMA ReleasePlaces == \A j \in Jobs : ReleasePlace(j) \in {"returned", "thaw1", "resuming"}
BY DEF ReleasePlace

-----------------------------------------------------------------------------
(* The variables have their types. *)

LEMMA BaseInit == Init => BaseInv
<1>. SUFFICES ASSUME Init PROVE BaseInv
  OBVIOUS
<1>1. at \in [Actors -> Places]
  BY DEF Init, Places
<1>2. 0 \in 0..SnapshotTimeout /\ NumDatasets \in 0..NumDatasets /\ NumDatasets > 0
  BY BoundsAssumption
<1>3. ran \in [Jobs -> 0..SnapshotTimeout] /\ left \in [Jobs -> 0..NumDatasets]
  BY <1>2 DEF Init
<1>4. 0 \in 0..(2 * FreezeHoldBound + 1) /\ 0 \in 0..(FreezeHoldBound - 1) /\ 0 \in 0..MaxCrashes
  BY BoundsAssumption
<1>5. Cardinality(seen) <= 1
  BY FewSeen DEF Init
<1>6. TypeOK
  BY <1>1, <1>3, <1>4, <1>5 DEF Init, TypeOK, Places
<1>7. \A j \in Jobs : left[j] > 0 /\ state[j] = "" /\ at[j] = "none"
  BY <1>2, Who DEF Init
<1>. QED
  BY <1>6, <1>7 DEF BaseInv, Unfinished, Submitted

(* A step of a goroutine keeps the types of what is not its own. *)
LEMMA BaseKept == BaseInv /\ [Next]_vars => BaseInv'
<1>. SUFFICES ASSUME BaseInv, [Next]_vars PROVE BaseInv'
  OBVIOUS
<1>a. TypeOK /\ Unfinished /\ Submitted /\ at \in [Actors -> Places]
  BY DEF BaseInv, TypeOK, Places
<1>. USE DEF guest, marker, clock, work
<1>1. ASSUME NEW x \in Actors, NEW where \in Places, Goes(x, where),
             UNCHANGED <<state, left>>, at[x] # "none" /\ where # "none",
             x \in Jobs /\ where \in Before => at[x] \in Before
      PROVE  Unfinished' /\ Submitted'
  <2>1. at'[x] = where /\ \A y \in Actors \ {x} : at'[y] = at[y]
    BY <1>a, <1>1, Moves
  <2>2. ASSUME NEW j \in Jobs PROVE (at'[j] \in Before => left'[j] > 0) /\ (state'[j] = "" <=> at'[j] = "none")
    BY <1>a, <1>1, <2>1, Who DEF Unfinished, Submitted
  <2>. QED
    BY <2>2 DEF Unfinished, Submitted
<1>2. ASSUME NEW j \in Jobs, Submit(j) PROVE BaseInv'
  <2>1. j \in Actors /\ at[j] = "none" /\ left[j] > 0
    BY <1>a, <1>2, Who DEF Submit, Submitted, Unfinished, Before
  <2>2. at' \in [Actors -> Places] /\ at'[j] = "begin" /\ \A y \in Actors \ {j} : at'[y] = at[y]
    BY <1>a, <1>2, <2>1, Moves DEF Submit, Places
  <2>3. state' \in [Jobs -> {"", "running", "ok", "failed", "timeout", "gone"}]
        /\ state'[j] = "running" /\ \A i \in Jobs \ {j} : state'[i] = state[i]
    BY <1>a, <1>2 DEF Submit, TypeOK
  <2>4. TypeOK'
    BY <1>a, <1>2, <2>2, <2>3 DEF Submit, TypeOK, Places
  <2>5. Unfinished' /\ Submitted'
    BY <1>a, <1>2, <2>1, <2>2, <2>3, Who DEF Submit, Unfinished, Submitted, Before
  <2>. QED
    BY <2>4, <2>5 DEF BaseInv
<1>3. ASSUME NEW j \in Jobs, CreateSnapshot(j) PROVE BaseInv'
  <2>1. j \in Actors /\ at[j] = "creating" /\ left[j] > 0 /\ left[j] \in 0..NumDatasets
    BY <1>a, <1>3, Who DEF CreateSnapshot, Unfinished, TypeOK, Before
  <2>2. left[j] - 1 \in 0..NumDatasets
    BY <2>1, BoundsAssumption
  <2>3. left' \in [Jobs -> 0..NumDatasets] /\ left'[j] = left[j] - 1 /\ \A i \in Jobs \ {j} : left'[i] = left[i]
    BY <1>a, <1>3, <2>2 DEF CreateSnapshot, TypeOK
  <2>4. failed' \in [Jobs -> BOOLEAN]
    BY <1>a, <1>3 DEF CreateSnapshot, TypeOK
  <2>5. (left[j] = 1 /\ Goes(j, ReleasePlace(j))) \/ (left[j] # 1 /\ at' = at)
    BY <1>3 DEF CreateSnapshot
  <2>6. /\ at' \in [Actors -> Places] /\ \A y \in Actors \ {j} : at'[y] = at[y]
        /\ left[j] = 1 => at'[j] \notin Before
        /\ left[j] # 1 => at'[j] = at[j]
        /\ at'[j] # "none"
    <3>1. CASE left[j] = 1
      BY <1>a, <2>1, <2>5, <3>1, Moves, ReleasePlaces DEF Places, Before
    <3>2. CASE left[j] # 1
      BY <1>a, <2>1, <2>5, <3>2
    <3>. QED
      BY <3>1, <3>2
  <2>7. TypeOK'
    BY <1>a, <1>3, <2>3, <2>4, <2>6 DEF CreateSnapshot, TypeOK, Places
  <2>8. Submitted'
    BY <1>a, <1>3, <2>1, <2>6, Who DEF CreateSnapshot, Submitted
  <2>9. left[j] # 1 => left'[j] > 0
    BY <2>1, <2>3
  <2>10. Unfinished'
    BY <1>a, <2>3, <2>6, <2>9, Who DEF Unfinished
  <2>. QED
    BY <2>7, <2>8, <2>10 DEF BaseInv
<1>4. ASSUME NEW j \in Jobs, Job(j), ~CreateSnapshot(j) PROVE BaseInv'
  <2>. j \in Actors
    BY Who
  <2>1. ASSUME NEW where \in Places, Goes(j, where) PROVE at' \in [Actors -> Places]
    BY <1>a, <2>1, Moves
  <2>2. CASE Begin(j)
    <3>1. PICK where \in {"freezing", "suspending", "creating"} : Goes(j, where)
      BY <2>2 DEF Begin
    <3>2. where \in Places /\ at[j] \in Before /\ at[j] # "none"
      BY <2>2 DEF Places, Begin, Before
    <3>. QED
      BY <1>a, <1>1, <2>1, <2>2, <3>1, <3>2 DEF Begin, TypeOK, BaseInv, Places
  <2>3. CASE BeginFails(j)
    BY <1>a, <1>1, <2>1, <2>3 DEF BeginFails, TypeOK, BaseInv, Places, Before
  <2>4. CASE FreezeAnswered(j)
    BY <1>a, <1>1, <2>1, <2>4 DEF FreezeAnswered, TypeOK, BaseInv, Places, Before
  <2>5. CASE Mark(j)
    <3>1. 0 \in 0..(2 * FreezeHoldBound + 1)
      BY BoundsAssumption
    <3>. QED
      BY <1>a, <1>1, <2>1, <2>5, <3>1 DEF Mark, TypeOK, BaseInv, Places, Before
  <2>6. CASE FreezeFails(j)
    BY <1>a, <1>1, <2>1, <2>6 DEF FreezeFails, TypeOK, BaseInv, Places, Before
  <2>7. CASE Suspend(j)
    <3>1. PICK where \in {"creating", "returned"} : Goes(j, where)
      BY <2>7 DEF Suspend
    <3>2. where \in Places /\ at[j] \in Before /\ at[j] # "none"
      BY <2>7 DEF Places, Suspend, Before
    <3>. QED
      BY <1>a, <1>1, <2>1, <2>7, <3>1, <3>2 DEF Suspend, TypeOK, BaseInv, Places
  <2>8. CASE Resume(j)
    BY <1>a, <1>1, <2>1, <2>8 DEF Resume, TypeOK, BaseInv, Places, Before
  <2>. QED
    BY <1>4, <2>2, <2>3, <2>4, <2>5, <2>6, <2>7, <2>8 DEF Job
<1>5. ASSUME NEW j \in Jobs, Settle(j) \/ TimeOut(j) \/ LateFreeze(j) PROVE BaseInv'
  <2>1. CASE Settle(j)
    <3>1. ran' \in [Jobs -> 0..SnapshotTimeout]
      <4>1. 0 \in 0..SnapshotTimeout
        BY BoundsAssumption
      <4>. QED
        BY <1>a, <2>1, <4>1 DEF Settle, TypeOK
    <3>2. TypeOK'
      BY <1>a, <2>1, <3>1 DEF Settle, TypeOK
    <3>. QED
      BY <1>a, <2>1, <3>2 DEF Settle, Live, BaseInv, Unfinished, Submitted, TypeOK
  <2>2. CASE TimeOut(j)
    BY <1>a, <2>2 DEF TimeOut, Live, BaseInv, Unfinished, Submitted, TypeOK
  <2>3. CASE LateFreeze(j)
    BY <1>a, <2>3 DEF LateFreeze, BaseInv, Unfinished, Submitted, TypeOK
  <2>. QED
    BY <1>5, <2>1, <2>2, <2>3
<1>6. ASSUME NEW x \in Actors, Thaw(x) PROVE BaseInv'
  <2>1. ASSUME NEW where \in Places, Goes(x, where) PROVE at' \in [Actors -> Places]
    BY <1>a, <2>1, Moves
  <2>2. CASE ThawAnswered(x)
    BY <1>a, <1>1, <2>1, <2>2 DEF ThawAnswered, TypeOK, BaseInv, Places, Before
  <2>3. CASE ThawFails(x)
    <3>1. PICK where \in {"thaw2", "returned", "idle", "over"} : Goes(x, where)
      BY <2>3, EndPlaces DEF ThawFails
    <3>2. warned' \subseteq Jobs /\ frozen' \in BOOLEAN
      BY <1>a, <2>3 DEF ThawFails, TypeOK
    <3>. QED
      BY <1>a, <1>1, <2>1, <2>3, <3>1, <3>2 DEF ThawFails, TypeOK, BaseInv, Places, Before
  <2>4. CASE Clear(x)
    <3>1. PICK where \in {"returned", "idle", "over"} : Goes(x, where)
      BY <2>4, EndPlaces DEF Clear
    <3>2. 0 \in 0..(2 * FreezeHoldBound + 1)
      BY BoundsAssumption
    <3>3. excuses' \subseteq {"late", "crash", "clear", "startup", "missed", "failed"}
      BY <1>a, <2>4 DEF Clear, TypeOK
    <3>. QED
      BY <1>a, <1>1, <2>1, <2>4, <3>1, <3>2, <3>3 DEF Clear, TypeOK, BaseInv, Places, Before
  <2>. QED
    BY <1>6, <2>2, <2>3, <2>4 DEF Thaw
<1>7. CASE Loop
  <2>1. "loop" \in Actors /\ "loop" \notin Jobs
    BY Who
  <2>2. CASE LoopLooks
    <3>1. (at' = at) \/ Goes("loop", "thaw1")
      BY <2>2 DEF LoopLooks
    <3>. QED
      BY <1>a, <1>1, <2>1, <2>2, <3>1, Moves DEF LoopLooks, TypeOK, BaseInv, Unfinished, Submitted, Places
  <2>3. CASE LoopGivesUp
    BY <1>a, <1>1, <2>1, <2>3, Moves DEF LoopGivesUp, TypeOK, BaseInv, Places
  <2>. QED
    BY <1>7, <2>2, <2>3 DEF Loop
<1>8. CASE Startup
  <2>1. "startup" \in Actors /\ "startup" \notin Jobs
    BY Who
  <2>2. PICK where \in {"status", "over", "thaw1"} : Goes("startup", where)
    BY <1>8 DEF Startup, StartupLooks, StartupGivesUp, StatusAnswered, StatusFails, StartupEnds
  <2>3. at[ "startup"] \in {"waiting", "status"} /\ UNCHANGED <<state, left>>
    BY <1>8 DEF Startup, StartupLooks, StartupGivesUp, StatusAnswered, StatusFails
  <2>4. at' \in [Actors -> Places] /\ Unfinished' /\ Submitted'
    BY <1>a, <1>1, <2>1, <2>2, <2>3, Moves DEF Places
  <2>5. excuses' \subseteq {"late", "crash", "clear", "startup", "missed", "failed"}
    BY <1>a, <1>8 DEF Startup, StartupLooks, StartupGivesUp, StatusAnswered, StatusFails, StartupEnds, TypeOK
  <2>6. 0 \in 0..(2 * FreezeHoldBound + 1)
    BY BoundsAssumption
  <2>7. marked' \in BOOLEAN /\ age' \in 0..(2 * FreezeHoldBound + 1)
    BY <1>a, <1>8, <2>6 DEF Startup, StartupLooks, StartupGivesUp, StatusAnswered, StatusFails, TypeOK
  <2>8. UNCHANGED <<guest, seen, ran, work, clock, crashes>>
    BY <1>8 DEF Startup, StartupLooks, StartupGivesUp, StatusAnswered, StatusFails
  <2>. QED
    BY <1>a, <2>3, <2>4, <2>5, <2>7, <2>8 DEF TypeOK, BaseInv, Places
<1>9. CASE Poll
  <2>1. PICK agent \in BOOLEAN : seen' = {[state |-> PolledName, agent |-> agent]}
    BY <1>9 DEF Poll
  <2>2. Cardinality(seen') <= 1
    BY <2>1, FewSeen
  <2>3. PolledName \in {"running", "paused", "stopped"}
    BY <1>a DEF PolledName, TypeOK
  <2>4. seen' \subseteq [state : {"running", "paused", "stopped"}, agent : BOOLEAN]
    BY <2>1, <2>3
  <2>. QED
    BY <1>a, <1>9, <2>2, <2>4 DEF Poll, TypeOK, BaseInv, Unfinished, Submitted
<1>10. CASE Outside
  BY <1>a, <1>10 DEF Outside, TypeOK, BaseInv, Unfinished, Submitted
<1>11. CASE Crash
  <2>1. at' \in [Actors -> Places] /\ \A j \in Jobs : at'[j] = IF at[j] = "none" THEN "none" ELSE "returned"
    BY <1>a, <1>11, Who DEF Crash, Places
  <2>2. crashes' \in 0..MaxCrashes
    <3>1. crashes \in 0..MaxCrashes /\ crashes < MaxCrashes /\ crashes' = crashes + 1
      BY <1>a, <1>11 DEF Crash, TypeOK
    <3>. QED
      BY <3>1, BoundsAssumption
  <2>3. late' \subseteq Jobs /\ excuses' \subseteq {"late", "crash", "clear", "startup", "missed", "failed"}
    BY <1>a, <1>11 DEF Crash, TypeOK
  <2>4. Cardinality(seen') <= 1 /\ seen' = {}
    BY <1>11, FewSeen DEF Crash
  <2>5. /\ 0 \in 0..SnapshotTimeout /\ NumDatasets \in 0..NumDatasets /\ NumDatasets > 0
        /\ 0 \in 0..(2 * FreezeHoldBound + 1) /\ 0 \in 0..(FreezeHoldBound - 1)
    BY BoundsAssumption
  <2>6. /\ state' \in [Jobs -> {"", "running", "ok", "failed", "timeout", "gone"}]
        /\ ran' \in [Jobs -> 0..SnapshotTimeout] /\ left' \in [Jobs -> 0..NumDatasets]
        /\ failed' \in [Jobs -> BOOLEAN]
    BY <1>11, <2>5 DEF Crash
  <2>7. TypeOK'
    BY <1>a, <1>11, <2>1, <2>2, <2>3, <2>4, <2>5, <2>6 DEF Crash, TypeOK, Places
  <2>8. \A j \in Jobs : left'[j] > 0 /\ state'[j] = IF state[j] = "" THEN "" ELSE "gone"
    BY <1>11, <2>5 DEF Crash
  <2>. QED
    BY <1>a, <2>1, <2>7, <2>8 DEF BaseInv, Unfinished, Submitted
<1>12. CASE Tick
  <2>1. phase \in 0..(FreezeHoldBound - 1) /\ age \in 0..(2 * FreezeHoldBound + 1)
    BY <1>a DEF TypeOK
  <2>2. phase' = IF phase + 1 = FreezeHoldBound THEN 0 ELSE phase + 1
    BY <1>12, <2>1, Wraps DEF Tick
  <2>3. phase' \in 0..(FreezeHoldBound - 1)
    BY <2>1, <2>2, BoundsAssumption
  <2>4. age' \in 0..(2 * FreezeHoldBound + 1)
    BY <1>12, <2>1, BoundsAssumption DEF Tick
  <2>5. ran' \in [Jobs -> 0..SnapshotTimeout]
    <3>1. ASSUME NEW j \in Jobs
          PROVE  (IF Live(j) /\ ran[j] < SnapshotTimeout THEN ran[j] + 1 ELSE ran[j]) \in 0..SnapshotTimeout
      <4>1. ran[j] \in 0..SnapshotTimeout
        BY <1>a DEF TypeOK
      <4>. QED
        BY <4>1, BoundsAssumption
    <3>. QED
      BY <1>12, <3>1 DEF Tick
  <2>6. due' \in BOOLEAN
    BY <1>12 DEF Tick
  <2>. QED
    BY <1>a, <1>12, <2>3, <2>4, <2>5, <2>6 DEF Tick, TypeOK, BaseInv, Unfinished, Submitted
<1>13. CASE UNCHANGED vars
  BY <1>a, <1>13 DEF vars, TypeOK, BaseInv, Unfinished, Submitted
<1>. QED
  BY <1>2, <1>3, <1>4, <1>5, <1>6, <1>7, <1>8, <1>9, <1>10, <1>11, <1>12, <1>13 DEF Next

LEMMA BaseHolds == SafeSpec => []BaseInv
BY BaseInit, BaseKept, PTL DEF SafeSpec

(* Every variable has its type; a job counts its datasets down to the last *)
(* and no further.                                                         *)
THEOREM Typing == SafeSpec => []TypeOK
<1>1. BaseInv => TypeOK
  BY DEF BaseInv
<1>. QED
  BY <1>1, BaseHolds, PTL

-----------------------------------------------------------------------------
(* The job lets go. *)

LEMMA LetGoKept ==
  ASSUME BaseInv, LetGo, EndedJobsHoldNothing, [Next]_vars
  PROVE  LetGo' /\ EndedJobsHoldNothing'
<1>a. TypeOK /\ Submitted /\ at \in [Actors -> Places]
  BY DEF BaseInv, TypeOK, Places
<1>. DEFINE Good(i) == /\ at[i] \in {"none", "begin", "freezing", "suspending", "clear"} => i \notin holding
                       /\ at[i] = "returned" /\ i \notin warned => i \notin holding
<1>b. \A i \in Jobs : Good(i)
  BY DEF LetGo, EndedJobsHoldNothing
<1>c. (\A i \in Jobs : Good(i)') => LetGo' /\ EndedJobsHoldNothing'
  BY DEF LetGo, EndedJobsHoldNothing
<1>. USE DEF work
<1>1. ASSUME NEW i \in Jobs, at'[i] = at[i],
             i \in holding' => i \in holding, i \in warned => i \in warned'
      PROVE  Good(i)'
  BY <1>b, <1>1
<1>2. ASSUME NEW j \in Jobs, Submit(j), NEW i \in Jobs PROVE Good(i)'
  <2>1. at[j] = "none" /\ j \notin holding
    BY <1>a, <1>b, <1>2 DEF Submit, Submitted
  <2>2. at'[j] = "begin" /\ \A y \in Actors \ {j} : at'[y] = at[y]
    BY <1>a, <1>2, Moves, Who DEF Submit, Places
  <2>3. UNCHANGED <<holding, warned>>
    BY <1>2 DEF Submit
  <2>4. CASE i = j
    BY <2>1, <2>2, <2>3, <2>4
  <2>5. CASE i # j
    BY <1>1, <2>2, <2>3, <2>5, Who
  <2>. QED
    BY <2>4, <2>5
<1>3. ASSUME NEW j \in Jobs, Job(j), NEW i \in Jobs PROVE Good(i)'
  <2>1. ASSUME NEW where \in Places, Goes(j, where),
               \A k \in Jobs \ {j} : k \in holding' => k \in holding, warned \subseteq warned',
               where \in {"begin", "freezing", "suspending"} => j \notin holding',
               where = "returned" => j \in warned' \/ j \notin holding',
               where \notin {"none", "clear"}
        PROVE  Good(i)'
    <3>1. at'[j] = where /\ \A y \in Actors \ {j} : at'[y] = at[y]
      BY <1>a, <2>1, Moves, Who
    <3>2. CASE i = j
      BY <2>1, <3>1, <3>2
    <3>3. CASE i # j
      BY <1>1, <2>1, <3>1, <3>3, Who
    <3>. QED
      BY <3>2, <3>3
  <2>2. CASE Begin(j)
    <3>1. PICK where \in {"freezing", "suspending", "creating"} : Goes(j, where)
      BY <2>2 DEF Begin
    <3>2. j \notin holding /\ UNCHANGED <<holding, warned>>
      BY <1>b, <2>2 DEF Begin
    <3>. QED
      BY <2>1, <3>1, <3>2 DEF Places
  <2>3. CASE BeginFails(j)
    <3>1. j \notin holding
      BY <1>b, <2>3 DEF BeginFails
    <3>. QED
      BY <2>1, <2>3, <3>1 DEF BeginFails, Places
  <2>4. CASE FreezeAnswered(j)
    BY <2>1, <2>4 DEF FreezeAnswered, Places
  <2>5. CASE Mark(j)
    BY <2>1, <2>5 DEF Mark, Places
  <2>6. CASE FreezeFails(j)
    <3>1. j \notin holding
      BY <1>b, <2>6 DEF FreezeFails
    <3>. QED
      BY <2>1, <2>6, <3>1 DEF FreezeFails, Places
  <2>7. CASE Suspend(j)
    <3>1. j \notin holding
      BY <1>b, <2>7 DEF Suspend
    <3>2. CASE Goes(j, "creating") /\ holding' = holding \cup {j}
      BY <2>1, <2>7, <3>2 DEF Suspend, Places
    <3>3. CASE Goes(j, "returned") /\ UNCHANGED holding
      BY <2>1, <2>7, <3>1, <3>3 DEF Suspend, Places
    <3>. QED
      BY <2>7, <3>2, <3>3 DEF Suspend
  <2>8. CASE CreateSnapshot(j)
    <3>1. UNCHANGED <<holding, warned>>
      BY <2>8 DEF CreateSnapshot
    <3>2. CASE Goes(j, ReleasePlace(j))
      BY <2>1, <3>1, <3>2 DEF ReleasePlace, Places
    <3>3. CASE UNCHANGED at
      BY <1>1, <3>1, <3>3
    <3>. QED
      BY <2>8, <3>2, <3>3 DEF CreateSnapshot
  <2>9. CASE Resume(j)
    <3>1. Goes(j, "returned") /\ warned \subseteq warned' /\ (j \in warned' \/ j \notin holding')
      BY <2>9 DEF Resume
    <3>2. \A k \in Jobs : k \in holding' => k \in holding
      BY <2>9 DEF Resume
    <3>. QED
      BY <2>1, <3>1, <3>2 DEF Places
  <2>. QED
    BY <1>3, <2>2, <2>3, <2>4, <2>5, <2>6, <2>7, <2>8, <2>9 DEF Job
<1>4. ASSUME NEW x \in Actors, Thaw(x), NEW i \in Jobs PROVE Good(i)'
  <2>1. ASSUME NEW where \in Places, Goes(x, where), holding' \subseteq holding, warned \subseteq warned',
               where \in {"thaw2", "clear", "returned", "idle", "over"},
               x \in Jobs /\ where = "clear" => x \notin holding',
               x \in Jobs /\ where = "returned" => x \in warned' \/ x \notin holding'
        PROVE  Good(i)'
    <3>1. at'[x] = where /\ \A y \in Actors \ {x} : at'[y] = at[y]
      BY <1>a, <2>1, Moves
    <3>2. CASE i = x
      BY <2>1, <3>1, <3>2
    <3>3. CASE i # x
      BY <1>1, <2>1, <3>1, <3>3, Who
    <3>. QED
      BY <3>2, <3>3
  <2>2. CASE ThawAnswered(x)
    BY <2>1, <2>2 DEF ThawAnswered, Places
  <2>3. CASE ThawFails(x)
    <3>1. PICK where \in {"thaw2", "returned", "idle", "over"} : Goes(x, where) /\ (at[x] = "thaw1" <=> where = "thaw2")
      BY <2>3, EndPlaces DEF ThawFails
    <3>2. warned \subseteq warned' /\ UNCHANGED holding /\ (x \in Jobs /\ at[x] # "thaw1" => x \in warned')
      BY <2>3 DEF ThawFails
    <3>. QED
      BY <2>1, <3>1, <3>2 DEF Places
  <2>4. CASE Clear(x)
    <3>1. PICK where \in {"returned", "idle", "over"} : Goes(x, where)
      BY <2>4, EndPlaces DEF Clear
    <3>2. UNCHANGED <<holding, warned>> /\ (x \in Jobs => x \notin holding)
      BY <1>b, <2>4 DEF Clear
    <3>. QED
      BY <2>1, <3>1, <3>2 DEF Places
  <2>. QED
    BY <1>4, <2>2, <2>3, <2>4 DEF Thaw
<1>5. ASSUME Loop \/ Startup, NEW i \in Jobs PROVE Good(i)'
  <2>1. UNCHANGED <<holding, warned>>
    BY <1>5 DEF Loop, LoopLooks, LoopGivesUp, Startup, StartupLooks, StartupGivesUp, StatusAnswered, StatusFails
  <2>2. \/ UNCHANGED at
        \/ \E where \in {"thaw1", "idle"} : Goes("loop", where)
        \/ \E where \in {"status", "over", "thaw1"} : Goes("startup", where)
    BY <1>5 DEF Loop, LoopLooks, LoopGivesUp, Startup, StartupLooks, StartupGivesUp, StatusAnswered,
                StatusFails, StartupEnds
  <2>3. at'[i] = at[i]
    BY <1>a, <2>2, Who DEF Goes
  <2>. QED
    BY <1>1, <2>1, <2>3
<1>6. ASSUME UNCHANGED <<at, holding, warned>>, NEW i \in Jobs PROVE Good(i)'
  BY <1>1, <1>6
<1>7. ASSUME Crash, NEW i \in Jobs PROVE Good(i)'
  BY <1>7 DEF Crash
<1>8. ASSUME NEW j \in Jobs, Settle(j) \/ TimeOut(j) \/ LateFreeze(j) PROVE UNCHANGED <<at, holding, warned>>
  BY <1>8 DEF Settle, TimeOut, LateFreeze
<1>9. ASSUME Poll \/ Outside \/ Tick \/ UNCHANGED vars PROVE UNCHANGED <<at, holding, warned>>
  BY <1>9 DEF Poll, Outside, Tick, vars
<1>. QED
  <2>. HIDE DEF Good
  <2>. QED
    BY <1>c, <1>2, <1>3, <1>4, <1>5, <1>6, <1>7, <1>8, <1>9 DEF Next

(* A job that ends without a warning has let go of the guest: what it held *)
(* is on record from the answer of the hold to that of the release, and    *)
(* every way back leads over one of the two or over the warning.           *)
THEOREM JobsLetGo == SafeSpec => []EndedJobsHoldNothing
<1>1. Init => LetGo /\ EndedJobsHoldNothing
  BY Who DEF Init, LetGo, EndedJobsHoldNothing
<1>. QED
  BY <1>1, LetGoKept, BaseHolds, PTL DEF SafeSpec

-----------------------------------------------------------------------------
(* What is frozen is tracked. *)

LEMMA TrackedKept ==
  ASSUME BaseInv, LateExcused, FrozenIsTracked, [Next]_vars
  PROVE  LateExcused' /\ FrozenIsTracked'
<1>a. TypeOK /\ at \in [Actors -> Places]
  BY DEF BaseInv, TypeOK, Places
<1>. USE DEF work, guest, marker
<1>1. ASSUME late' \subseteq late, excuses \ {"failed"} \subseteq excuses' PROVE LateExcused'
  BY <1>1 DEF LateExcused
<1>2. ASSUME frozen' => frozen, marked => marked', excuses \ {"failed"} \subseteq excuses',
             \A j \in Jobs : at[j] = "marking" => at'[j] = "marking"
      PROVE  FrozenIsTracked'
  BY <1>2 DEF FrozenIsTracked
<1>3. ASSUME NEW x \in Actors, NEW where \in Places, Goes(x, where), at[x] # "marking"
      PROVE  \A j \in Jobs : at[j] = "marking" => at'[j] = "marking"
  BY <1>a, <1>3, Moves, Who
<1>4. ASSUME NEW j \in Jobs, Submit(j) PROVE LateExcused' /\ FrozenIsTracked'
  <2>1. at[j] # "marking"
    BY <1>4 DEF Submit, BaseInv, Submitted
  <2>. QED
    BY <1>1, <1>2, <1>3, <1>4, <2>1, Who DEF Submit, Places
<1>5. ASSUME NEW j \in Jobs, Job(j) PROVE LateExcused' /\ FrozenIsTracked'
  <2>1. CASE Begin(j)
    <3>1. PICK where \in {"freezing", "suspending", "creating"} : Goes(j, where)
      BY <2>1 DEF Begin
    <3>. QED
      BY <1>1, <1>2, <1>3, <2>1, <3>1, Who DEF Begin, Places
  <2>2. CASE BeginFails(j)
    BY <1>1, <1>2, <1>3, <2>2, Who DEF BeginFails, Places
  <2>3. CASE FreezeAnswered(j)
    <3>1. at'[j] = "marking"
      BY <1>a, <2>3, Moves, Who DEF FreezeAnswered, Places
    <3>. QED
      BY <1>1, <2>3, <3>1 DEF FreezeAnswered, FrozenIsTracked
  <2>4. CASE Mark(j)
    BY <1>1, <2>4 DEF Mark, FrozenIsTracked
  <2>5. CASE FreezeFails(j)
    <3>1. FrozenIsTracked'
      BY <1>2, <1>3, <2>5, Who DEF FreezeFails, Places
    <3>. QED
      BY <2>5, <3>1 DEF FreezeFails, LateExcused
  <2>6. CASE Suspend(j)
    <3>1. PICK where \in {"creating", "returned"} : Goes(j, where)
      BY <2>6 DEF Suspend
    <3>. QED
      BY <1>1, <1>2, <1>3, <2>6, <3>1, Who DEF Suspend, Places
  <2>7. CASE CreateSnapshot(j)
    <3>1. UNCHANGED at \/ \E where \in Places : Goes(j, where)
      BY <2>7, ReleasePlaces DEF CreateSnapshot, Places
    <3>. QED
      BY <1>1, <1>2, <1>3, <2>7, <3>1, Who DEF CreateSnapshot
  <2>8. CASE Resume(j)
    BY <1>1, <1>2, <1>3, <2>8, Who DEF Resume, Places
  <2>. QED
    BY <1>5, <2>1, <2>2, <2>3, <2>4, <2>5, <2>6, <2>7, <2>8 DEF Job
<1>6. ASSUME NEW x \in Actors, Thaw(x) PROVE LateExcused' /\ FrozenIsTracked'
  <2>1. CASE ThawAnswered(x)
    BY <2>1 DEF ThawAnswered, LateExcused, FrozenIsTracked
  <2>2. CASE ThawFails(x)
    <3>1. PICK where \in {"thaw2", "returned", "idle", "over"} : Goes(x, where)
      BY <2>2, EndPlaces DEF ThawFails
    <3>2. frozen' => frozen
      BY <2>2 DEF ThawFails
    <3>. QED
      BY <1>1, <1>2, <1>3, <2>2, <3>1, <3>2 DEF ThawFails, Places
  <2>3. CASE Clear(x)
    <3>1. PICK where \in {"returned", "idle", "over"} : Goes(x, where)
      BY <2>3, EndPlaces DEF Clear
    <3>2. \A j \in Jobs : at[j] = "marking" => at'[j] = "marking"
      BY <1>3, <2>3, <3>1 DEF Clear, Places
    <3>3. LateExcused'
      BY <1>1, <2>3 DEF Clear
    <3>4. FrozenIsTracked'
      BY <2>3, <3>2 DEF Clear, FrozenIsTracked
    <3>. QED
      BY <3>3, <3>4
  <2>. QED
    BY <1>6, <2>1, <2>2, <2>3 DEF Thaw
<1>7. CASE Loop
  <2>1. UNCHANGED at \/ \E where \in {"thaw1", "idle"} : Goes("loop", where)
    BY <1>7 DEF Loop, LoopLooks, LoopGivesUp
  <2>2. \A j \in Jobs : at'[j] = at[j]
    BY <1>a, <2>1, Who DEF Goes
  <2>. QED
    BY <1>1, <1>2, <1>7, <2>2 DEF Loop, LoopLooks, LoopGivesUp
<1>8. CASE Startup
  <2>1. \E where \in {"status", "over", "thaw1"} : Goes("startup", where)
    BY <1>8 DEF Startup, StartupLooks, StartupGivesUp, StatusAnswered, StatusFails, StartupEnds
  <2>2. \A j \in Jobs : at'[j] = at[j]
    BY <1>a, <2>1, Who DEF Goes
  <2>3. /\ UNCHANGED <<frozen, late>> /\ excuses \ {"failed"} \subseteq excuses'
        /\ UNCHANGED marked \/ marked'
    BY <1>8 DEF Startup, StartupLooks, StartupGivesUp, StatusAnswered, StatusFails, StartupEnds
  <2>. QED
    BY <1>1, <1>2, <2>2, <2>3
<1>9. ASSUME NEW j \in Jobs, LateFreeze(j) PROVE LateExcused' /\ FrozenIsTracked'
  BY <1>9 DEF LateFreeze, LateExcused, FrozenIsTracked
<1>10. CASE Crash
  BY <1>10 DEF Crash, LateExcused, FrozenIsTracked
<1>11. ASSUME NEW j \in Jobs, Settle(j) \/ TimeOut(j) PROVE LateExcused' /\ FrozenIsTracked'
  BY <1>1, <1>2, <1>11 DEF Settle, TimeOut
<1>12. CASE Outside
  BY <1>1, <1>2, <1>12 DEF Outside
<1>13. CASE Poll \/ Tick \/ UNCHANGED vars
  <2>1. UNCHANGED <<frozen, late, marked, excuses, at>>
    BY <1>13 DEF Poll, Tick, vars
  <2>. QED
    BY <1>1, <1>2, <2>1
<1>. QED
  BY <1>4, <1>5, <1>6, <1>7, <1>8, <1>9, <1>10, <1>11, <1>12, <1>13 DEF Next

(* A frozen guest is in the marker, about to be put there, or one of the   *)
(* exceptions the property names, whichever calls fail and however jobs,   *)
(* sweeps and outsiders cross.                                             *)
THEOREM FrozenTracked == SafeSpec => []FrozenIsTracked
<1>1. Init => LateExcused /\ FrozenIsTracked
  BY DEF Init, LateExcused, FrozenIsTracked
<1>. QED
  BY <1>1, TrackedKept, BaseHolds, PTL DEF SafeSpec

-----------------------------------------------------------------------------
(* The mark does not grow too old. *)

LoopPlaces == {"idle", "thaw1", "thaw2", "clear"}

(* A mark that no thaw has failed on is looked at when the ticker comes    *)
(* round, which was at most phase ticks ago: it was no older than the      *)
(* bound then, or the loop went for it and time waits for the loop.        *)
NotOverdue ==
  /\ at["loop"] \in LoopPlaces
  /\ ~marked => age = 0
  /\ due => phase = 0
  /\ "failed" \notin excuses =>
       /\ age <= 2 * FreezeHoldBound
       /\ at["loop"] = "idle" /\ ~due => age <= FreezeHoldBound + phase

LEMMA NotOverdueKept ==
  ASSUME BaseInv, NotOverdue, [Next]_vars
  PROVE  NotOverdue'
<1>a. /\ at \in [Actors -> Places] /\ age \in Nat /\ phase \in Nat /\ due \in BOOLEAN
      /\ FreezeHoldBound \in Nat /\ FreezeHoldBound > 0 /\ phase < FreezeHoldBound
  <2>1. /\ at \in [Actors -> Places] /\ age \in 0..(2 * FreezeHoldBound + 1)
        /\ phase \in 0..(FreezeHoldBound - 1) /\ due \in BOOLEAN
    BY DEF BaseInv, TypeOK, Places
  <2>2. FreezeHoldBound \in Nat /\ FreezeHoldBound > 0
    BY BoundsAssumption
  <2>. QED
    BY <2>1, <2>2
<1>. USE DEF work, guest, marker, clock
<1>1. ASSUME UNCHANGED <<marked, age, phase, due>>, at'["loop"] \in LoopPlaces,
             "failed" \notin excuses' => "failed" \notin excuses,
             at'["loop"] = "idle" => at["loop"] = "idle" \/ age = 0 \/ "failed" \in excuses'
      PROVE  NotOverdue'
  BY <1>a, <1>1 DEF NotOverdue
<1>2. ASSUME age' = 0, at'["loop"] \in LoopPlaces, UNCHANGED <<phase, due>> PROVE NotOverdue'
  BY <1>a, <1>2 DEF NotOverdue
<1>3. ASSUME NEW x \in Actors \ {"loop"}, NEW where \in Places, Goes(x, where)
      PROVE  at'["loop"] = at["loop"] /\ at'["loop"] \in LoopPlaces
  BY <1>a, <1>3, Moves, Who DEF NotOverdue
<1>4. ASSUME NEW j \in Jobs,
             \/ Submit(j) \/ Job(j) \/ Settle(j) \/ TimeOut(j) \/ LateFreeze(j)
      PROVE  NotOverdue'
  <2>1. j \in Actors \ {"loop"}
    BY Who
  <2>2. CASE Mark(j)
    BY <1>2, <1>3, <2>1, <2>2 DEF Mark, Places
  <2>3. CASE ~Mark(j)
    <3>1. UNCHANGED <<marked, age, phase, due>> /\ ("failed" \notin excuses' => "failed" \notin excuses)
      BY <1>4, <2>3 DEF Submit, Job, Settle, TimeOut, LateFreeze, Begin, BeginFails, FreezeAnswered, FreezeFails,
                        Suspend, CreateSnapshot, Resume
    <3>2. UNCHANGED at \/ \E where \in Places : Goes(j, where)
      BY <1>4, <2>3, <2>1, ReleasePlaces
         DEF Submit, Job, Settle, TimeOut, LateFreeze, Begin, BeginFails, FreezeAnswered, FreezeFails,
             Suspend, CreateSnapshot, Resume, Places
    <3>. QED
      BY <1>1, <1>3, <2>1, <3>1, <3>2 DEF NotOverdue
  <2>. QED
    BY <2>2, <2>3
<1>5. ASSUME NEW x \in Actors, Thaw(x) PROVE NotOverdue'
  <2>a. x = "loop" => EndOf(x) = "idle"
    BY Who DEF EndOf
  <2>b. EndOf(x) \in Places
    BY EndPlaces DEF Places
  <2>c. Goes(x, "clear") \/ Goes(x, "thaw2") \/ Goes(x, EndOf(x))
    BY <1>5 DEF Thaw, ThawAnswered, ThawFails, Clear
  <2>1. PICK where \in Places : Goes(x, where) /\ (x = "loop" => where \in LoopPlaces)
    BY <2>a, <2>b, <2>c DEF Places, LoopPlaces
  <2>2. at'["loop"] \in LoopPlaces /\ (at'["loop"] = at["loop"] \/ at'["loop"] = where)
    BY <1>a, <2>1, Moves, Who DEF NotOverdue
  <2>3. CASE ThawAnswered(x)
    <3>1. at'["loop"] # "idle" \/ at'["loop"] = at["loop"]
      BY <1>a, <2>3, Moves, Who DEF ThawAnswered, Places
    <3>. QED
      BY <1>1, <2>2, <2>3, <3>1 DEF ThawAnswered
  <2>4. CASE ThawFails(x)
    BY <1>1, <2>2, <2>4 DEF ThawFails
  <2>5. CASE Clear(x)
    BY <1>2, <2>2, <2>5 DEF Clear
  <2>. QED
    BY <1>5, <2>3, <2>4, <2>5 DEF Thaw
<1>6. CASE LoopGivesUp
  <2>1. at'["loop"] \in LoopPlaces
    BY <1>a, <1>6, Moves, Who DEF LoopGivesUp, Places, LoopPlaces
  <2>. QED
    BY <1>1, <1>6, <2>1 DEF LoopGivesUp
<1>7. CASE LoopLooks
  <2>1. CASE marked /\ HeldLong
    <3>1. at'["loop"] = "thaw1"
      BY <1>a, <1>7, <2>1, Moves, Who DEF LoopLooks, Places
    <3>2. due' = FALSE /\ UNCHANGED <<marked, age, phase, excuses>>
      BY <1>7 DEF LoopLooks
    <3>. QED
      BY <3>1, <3>2 DEF NotOverdue, LoopPlaces
  <2>2. CASE ~marked \/ ~HeldLong
    <3>1. age <= FreezeHoldBound
      BY <1>a, <2>2 DEF HeldLong, NotOverdue
    <3>2. due' = FALSE /\ UNCHANGED <<at, marked, age, phase, excuses>>
      BY <1>7, <2>2 DEF LoopLooks
    <3>. QED
      BY <1>a, <3>1, <3>2 DEF NotOverdue
  <2>. QED
    BY <2>1, <2>2
<1>8. CASE Startup
  <2>1. \E where \in {"status", "over", "thaw1"} : Goes("startup", where)
    BY <1>8 DEF Startup, StartupLooks, StartupGivesUp, StatusAnswered, StatusFails, StartupEnds
  <2>2. at'["loop"] = at["loop"] /\ at'["loop"] \in LoopPlaces
    BY <1>3, <2>1, Who DEF Places
  <2>3. \/ age' = 0 /\ UNCHANGED <<phase, due>>
        \/ UNCHANGED <<marked, age, phase, due>> /\ ("failed" \notin excuses' => "failed" \notin excuses)
    BY <1>8 DEF Startup, StartupLooks, StartupGivesUp, StatusAnswered, StatusFails, StartupEnds
  <2>. QED
    BY <1>1, <1>2, <2>2, <2>3
<1>9. CASE Crash
  <2>1. age' = 0 /\ phase' = 0 /\ due' = FALSE /\ at'["loop"] = "idle"
    BY <1>9, Who DEF Crash
  <2>. QED
    BY <1>a, <2>1 DEF NotOverdue, LoopPlaces
<1>10. CASE Tick
  <2>1. at["loop"] = "idle" /\ ~due /\ UNCHANGED <<at, marked, excuses>>
    <3>1. at["loop"] \in {"none", "creating", "returned", "idle", "waiting", "over"}
      BY <1>10, Who DEF Tick
    <3>. QED
      BY <1>10, <3>1 DEF Tick, NotOverdue, LoopPlaces
  <2>2. phase' = IF phase + 1 = FreezeHoldBound THEN 0 ELSE phase + 1
    <3>1. phase \in 0..(FreezeHoldBound - 1)
      BY DEF BaseInv, TypeOK
    <3>. QED
      BY <1>10, <3>1, Wraps DEF Tick
  <2>3. due' = (phase + 1 = FreezeHoldBound)
    BY <1>10 DEF Tick
  <2>4. (age' = age \/ age' = age + 1) /\ (~marked => age' = age)
    BY <1>10 DEF Tick
  <2>5. due' => phase' = 0
    BY <2>2, <2>3
  <2>6. ASSUME "failed" \notin excuses' PROVE age' <= 2 * FreezeHoldBound /\ (~due' => age' <= FreezeHoldBound + phase')
    <3>1. age <= FreezeHoldBound + phase
      BY <2>1, <2>6 DEF NotOverdue
    <3>2. age' <= FreezeHoldBound + phase + 1
      BY <1>a, <2>4, <3>1
    <3>3. CASE phase + 1 = FreezeHoldBound
      <4>1. due' /\ age' <= 2 * FreezeHoldBound
        <5>1. age' <= FreezeHoldBound + FreezeHoldBound
          BY <1>a, <2>4, <3>2, <3>3
        <5>2. age' <= 2 * FreezeHoldBound
          BY <1>a, <2>4, <5>1
        <5>. QED
          BY <2>3, <3>3, <5>2
      <4>. QED
        BY <4>1
    <3>4. CASE phase + 1 # FreezeHoldBound
      <4>1. phase' = phase + 1
        BY <2>2, <3>4
      <4>. QED
        BY <1>a, <2>4, <3>2, <4>1
    <3>. QED
      BY <3>3, <3>4
  <2>. QED
    BY <2>1, <2>4, <2>5, <2>6 DEF NotOverdue
<1>11. CASE Poll \/ Outside \/ UNCHANGED vars
  <2>1. UNCHANGED <<marked, age, phase, due, excuses, at>>
    BY <1>11 DEF Poll, Outside, vars
  <2>. QED
    BY <1>1, <2>1 DEF NotOverdue
<1>. QED
  BY <1>4, <1>5, <1>6, <1>7, <1>8, <1>9, <1>10, <1>11 DEF Next, Loop

(* A mark no thaw has failed on is never older than two periods, with any  *)
(* number of jobs under way.                                               *)
THEOREM TwoBounds == SafeSpec => []HoldWithinTwoBounds
<1>1. Init => NotOverdue
  <2>1. ASSUME Init PROVE at["loop"] = "idle" /\ age = 0 /\ phase = 0 /\ due = FALSE
    BY <2>1, Who DEF Init
  <2>2. 0 <= 2 * FreezeHoldBound /\ 0 <= FreezeHoldBound + 0
    BY BoundsAssumption
  <2>. QED
    BY <2>1, <2>2 DEF NotOverdue, LoopPlaces
<1>2. NotOverdue => HoldWithinTwoBounds
  BY DEF NotOverdue, HoldWithinTwoBounds
<1>. QED
  BY <1>1, <1>2, NotOverdueKept, BaseHolds, PTL DEF SafeSpec

-----------------------------------------------------------------------------
(* The freeze covers the creates. *)

(* The first job there ever was, before its release and within the bound,  *)
(* while nobody else manages the guest and no startup sweep took its       *)
(* freeze for a leftover.                                                  *)
First(j) == \A i \in Jobs \ {j} : state[i] = ""
Early(j) ==
  /\ First(j) /\ ~Outsiders /\ "startup" \notin excuses
  /\ ran[j] <= FreezeHoldBound
  /\ at[j] \in Before

(* Nobody thaws the guest meanwhile: the marker can only be this job's,    *)
(* and it is no older than the job.                                        *)
Quiet(j) ==
  /\ at["loop"] = "idle"
  /\ at["startup"] \notin {"thaw1", "thaw2", "clear"}
  /\ marked => age <= ran[j] /\ at[j] = "creating"
  /\ state[j] \in {"", "running"}
  /\ j \in froze => frozen /\ at[j] \in {"marking", "creating"}

Covered == \A j \in Jobs : Early(j) => Quiet(j)

LEMMA CoveredKept ==
  ASSUME BaseInv, Covered, [Next]_vars
  PROVE  Covered'
<1>. SUFFICES ASSUME NEW j \in Jobs, Early(j)' PROVE Quiet(j)'
  BY DEF Covered
<1>a. /\ at \in [Actors -> Places] /\ (at[j] = "none" <=> state[j] = "")
      /\ state \in [Jobs -> {"", "running", "ok", "failed", "timeout", "gone"}]
  BY DEF BaseInv, TypeOK, Places, Submitted
<1>w. j \in Actors /\ j # "loop" /\ j # "startup" /\ "loop" \in Actors /\ "startup" \in Actors
  BY Who
<1>b. /\ ran[j] \in Nat /\ age \in Nat /\ FreezeHoldBound \in Nat /\ SnapshotTimeout \in Nat
      /\ FreezeHoldBound < SnapshotTimeout
  <2>1. ran[j] \in 0..SnapshotTimeout /\ age \in 0..(2 * FreezeHoldBound + 1)
    BY DEF BaseInv, TypeOK
  <2>. QED
    BY <2>1, BoundsAssumption, ClocksAssumption
<1>e. /\ \A i \in Jobs \ {j} : state'[i] = ""
      /\ ~Outsiders /\ "startup" \notin excuses' /\ at'[j] \in Before
      /\ ran'[j] <= FreezeHoldBound
  BY DEF Early, First
<1>. USE DEF work, guest, marker, clock
<1>1. ASSUME \A i \in Jobs \ {j} : state'[i] = state[i], at[j] \in Before,
             ran[j] <= ran'[j], excuses \ {"failed"} \subseteq excuses'
      PROVE  Quiet(j) /\ ran[j] <= FreezeHoldBound
  <2>1. ran[j] <= FreezeHoldBound
    <3>1. ran'[j] \in 0..SnapshotTimeout
      BY BaseKept DEF BaseInv, TypeOK
    <3>2. ran[j] <= ran'[j] /\ ran'[j] <= FreezeHoldBound
      BY <1>e, <1>1
    <3>. QED
      BY <1>b, <3>1, <3>2
  <2>2. "startup" \notin excuses /\ First(j)
    BY <1>e, <1>1 DEF First
  <2>3. Early(j)
    BY <1>e, <1>1, <2>1, <2>2 DEF Early
  <2>. QED
    BY <2>1, <2>3 DEF Covered
<1>2. ASSUME UNCHANGED <<state, ran>>, excuses \ {"failed"} \subseteq excuses', at[j] \in Before
      PROVE  Quiet(j) /\ ran[j] <= FreezeHoldBound
  BY <1>1, <1>2, <1>b
<1>3. ASSUME Quiet(j), at'["loop"] = "idle", at'["startup"] \notin {"thaw1", "thaw2", "clear"},
             UNCHANGED <<marked, age, ran, froze, frozen>>, state'[j] \in {"", "running"},
             at[j] \notin {"marking", "creating"} \/ at'[j] = at[j]
      PROVE  Quiet(j)'
  BY <1>3 DEF Quiet
<1>4. ASSUME NEW x \in Actors, NEW where \in Places, Goes(x, where)
      PROVE  at'[x] = where /\ \A y \in Actors \ {x} : at'[y] = at[y]
  BY <1>a, <1>4, Moves
<1>5. ASSUME NEW i \in Jobs, i # j, Submit(i) \/ Job(i) \/ Settle(i) \/ TimeOut(i) \/ Thaw(i)
      PROVE  FALSE
  <2>1. CASE Submit(i) \/ Settle(i) \/ TimeOut(i)
    <3>1. state'[i] # ""
      BY <1>a, <2>1 DEF Submit, Settle, TimeOut
    <3>. QED
      BY <1>5, <1>e, <3>1
  <2>2. CASE Job(i) \/ Thaw(i)
    <3>1. state' = state /\ at[i] # "none"
      BY <2>2 DEF Job, Thaw, Begin, BeginFails, FreezeAnswered, Mark, FreezeFails, Suspend, CreateSnapshot,
                  Resume, ThawAnswered, ThawFails, Clear
    <3>2. state[i] = ""
      BY <1>5, <1>e, <3>1
    <3>. QED
      BY <3>1, <3>2 DEF BaseInv, Submitted
  <2>. QED
    BY <1>5, <2>1, <2>2
<1>6. CASE Submit(j)
  <2>1. at[j] = "none" /\ at[j] \in Before
    BY <1>a, <1>6 DEF Submit, Before
  <2>2. state'[j] = "running" /\ \A i \in Jobs \ {j} : state'[i] = state[i]
    BY <1>a, <1>6 DEF Submit
  <2>3. Quiet(j)
    <3>1. ran[j] <= ran'[j]
      <4>1. ran' = ran
        BY <1>6 DEF Submit
      <4>. QED
        BY <4>1, <1>b
    <3>2. excuses \ {"failed"} \subseteq excuses'
      BY <1>6 DEF Submit
    <3>. QED
      BY <1>1, <2>1, <2>2, <3>1, <3>2
  <2>4. at'["loop"] = at["loop"] /\ at'["startup"] = at["startup"]
    BY <1>4, <1>6, <1>w DEF Submit, Places
  <2>. QED
    BY <1>3, <1>6, <2>1, <2>2, <2>3, <2>4 DEF Submit, Quiet
<1>7. CASE Job(j)
  <2>a. at[j] \in Before \/ Resume(j)
    BY <1>7 DEF Job, Begin, BeginFails, FreezeAnswered, Mark, FreezeFails, Suspend, CreateSnapshot, Before
  <2>b. UNCHANGED <<state, ran>> /\ excuses \ {"failed"} \subseteq excuses'
    BY <1>7 DEF Job, Begin, BeginFails, FreezeAnswered, Mark, FreezeFails, Suspend, CreateSnapshot, Resume
  <2>c. ~Goes(j, "returned") /\ ~Goes(j, "thaw1") /\ ~Goes(j, "resuming")
    BY <1>4, <1>e, <1>w DEF Places, Before
  <2>d. at[j] \in Before /\ Quiet(j)
    BY <1>2, <2>a, <2>b, <2>c DEF Resume
  <2>e. \E where \in Places : Goes(j, where) \/ UNCHANGED at
    BY <1>7, ReleasePlaces DEF Job, Begin, BeginFails, FreezeAnswered, Mark, FreezeFails, Suspend,
                               CreateSnapshot, Resume, Places
  <2>f. at'["loop"] = "idle" /\ at'["startup"] \notin {"thaw1", "thaw2", "clear"}
    BY <1>4, <1>w, <2>d, <2>e DEF Quiet
  <2>g. state'[j] \in {"", "running"}
    BY <2>b, <2>d DEF Quiet
  <2>1. CASE FreezeAnswered(j)
    <3>1. at'[j] = "marking"
      BY <1>4, <1>w, <2>1 DEF FreezeAnswered, Places
    <3>. QED
      BY <2>1, <2>d, <2>f, <2>g, <3>1 DEF FreezeAnswered, Quiet
  <2>2. CASE Mark(j)
    <3>1. at'[j] = "creating" /\ age' = 0 /\ UNCHANGED <<ran, frozen, froze>>
      BY <1>4, <1>w, <2>2 DEF Mark, Places
    <3>2. age' <= ran'[j]
      BY <1>b, <3>1
    <3>. QED
      BY <2>d, <2>f, <2>g, <3>1, <3>2 DEF Quiet
  <2>3. CASE CreateSnapshot(j)
    <3>1. UNCHANGED at
      BY <2>3, <2>c DEF CreateSnapshot, ReleasePlace
    <3>. QED
      BY <1>3, <2>3, <2>d, <2>f, <2>g, <3>1 DEF CreateSnapshot
  <2>4. CASE Begin(j) \/ FreezeFails(j) \/ Suspend(j)
    <3>1. at[j] \notin {"marking", "creating"} /\ UNCHANGED <<marked, age, ran, froze, frozen>>
      BY <2>4 DEF Begin, FreezeFails, Suspend
    <3>. QED
      BY <1>3, <2>d, <2>f, <2>g, <3>1
  <2>5. CASE BeginFails(j) \/ Resume(j)
    BY <2>5, <2>c DEF BeginFails, Resume
  <2>. QED
    BY <1>7, <2>1, <2>2, <2>3, <2>4, <2>5 DEF Job
<1>8. CASE Settle(j) \/ TimeOut(j)
  <2>1. CASE Settle(j)
    BY <1>e, <2>1 DEF Settle, Before
  <2>2. CASE TimeOut(j)
    <3>1. ran[j] >= SnapshotTimeout /\ ran' = ran
      BY <2>2 DEF TimeOut
    <3>2. ran[j] <= FreezeHoldBound
      BY <1>e, <3>1
    <3>. QED
      BY <1>b, <3>1, <3>2
  <2>. QED
    BY <1>8, <2>1, <2>2
<1>9. CASE \E x \in Actors : Thaw(x)
  <2>1. PICK x \in Actors : Thaw(x)
    BY <1>9
  <2>2. at[x] \in {"thaw1", "thaw2", "clear"}
    BY <2>1 DEF Thaw, ThawAnswered, ThawFails, Clear
  <2>3. PICK where \in {"clear", "thaw2", "returned", "idle", "over"} : Goes(x, where)
    BY <2>1, EndPlaces DEF Thaw, ThawAnswered, ThawFails, Clear
  <2>4. at'[x] = where /\ \A y \in Actors \ {x} : at'[y] = at[y]
    BY <1>4, <2>3 DEF Places
  <2>5. x # j
    BY <1>e, <2>4 DEF Before
  <2>6. x \notin Jobs
    BY <1>5, <2>1, <2>5
  <2>7. x \in {"loop", "startup"}
    BY <2>6 DEF Actors
  <2>8. at[j] \in Before
    BY <1>e, <1>w, <2>4, <2>5
  <2>9. UNCHANGED <<state, ran>> /\ excuses \ {"failed"} \subseteq excuses'
    BY <2>1 DEF Thaw, ThawAnswered, ThawFails, Clear
  <2>. QED
    BY <1>2, <2>2, <2>7, <2>8, <2>9 DEF Quiet
<1>10. CASE Loop
  <2>1. \A where : Goes("loop", where) => at'[j] = at[j]
    BY <1>a, <1>w DEF Goes
  <2>2. at'[j] = at[j] /\ UNCHANGED <<state, ran, froze, frozen, marked, age>> /\ excuses \ {"failed"} \subseteq excuses'
    BY <1>10, <2>1 DEF Loop, LoopLooks, LoopGivesUp
  <2>3. Quiet(j) /\ ran[j] <= FreezeHoldBound
    BY <1>2, <1>e, <2>2
  <2>4. ~(marked /\ HeldLong)
    <3>1. marked => age <= ran[j]
      BY <2>3 DEF Quiet
    <3>2. marked => ~(age > FreezeHoldBound)
      BY <1>b, <2>3, <3>1
    <3>. QED
      BY <3>2 DEF HeldLong
  <2>5. UNCHANGED at
    BY <1>10, <2>3, <2>4 DEF Loop, LoopLooks, LoopGivesUp, Quiet
  <2>. QED
    BY <1>3, <2>2, <2>3, <2>5 DEF Quiet
<1>11. CASE Startup
  <2>1. ~(StatusAnswered /\ frozen)
    BY <1>e DEF StatusAnswered
  <2>2. \E where \in {"status", "over"} : Goes("startup", where)
    BY <1>11, <2>1 DEF Startup, StartupLooks, StartupGivesUp, StatusAnswered, StatusFails, StartupEnds
  <2>3. at'["startup"] \in {"status", "over"} /\ at'["loop"] = at["loop"] /\ at'[j] = at[j]
    BY <1>4, <1>w, <2>2 DEF Places
  <2>4. age' = age /\ UNCHANGED <<state, ran, froze, frozen, marked>> /\ excuses \ {"failed"} \subseteq excuses'
    BY <1>11, <2>1 DEF Startup, StartupLooks, StartupGivesUp, StatusAnswered, StatusFails, StartupEnds
  <2>5. Quiet(j)
    BY <1>2, <1>e, <2>3, <2>4
  <2>. QED
    BY <1>3, <2>3, <2>4, <2>5 DEF Quiet
<1>12. CASE \E i \in Jobs : LateFreeze(i)
  <2>1. frozen' = TRUE /\ UNCHANGED <<at, state, ran, froze, marked, age, excuses>>
    BY <1>12 DEF LateFreeze
  <2>2. Quiet(j)
    BY <1>2, <1>e, <2>1
  <2>. QED
    BY <2>1, <2>2 DEF Quiet
<1>13. CASE Poll \/ UNCHANGED vars
  <2>1. UNCHANGED <<at, state, ran, froze, frozen, marked, age, excuses>>
    BY <1>13 DEF Poll, vars
  <2>2. Quiet(j)
    BY <1>2, <1>e, <2>1
  <2>. QED
    BY <2>1, <2>2 DEF Quiet
<1>14. CASE Outside
  BY <1>14, <1>e DEF Outside
<1>15. CASE Crash
  <2>1. at'[j] = "none"
    BY <1>15, <1>e, <1>w DEF Crash, Before
  <2>2. at[j] = "none"
    BY <1>15, <1>w, <2>1 DEF Crash
  <2>3. state'[j] = ""
    BY <1>15, <1>a, <2>2 DEF Crash
  <2>. QED
    BY <1>15, <1>w, <2>3 DEF Crash, Quiet
<1>16. CASE Tick
  <2>1. UNCHANGED <<at, state, froze, frozen, marked, excuses>>
    BY <1>16 DEF Tick
  <2>2. ran'[j] = IF Live(j) /\ ran[j] < SnapshotTimeout THEN ran[j] + 1 ELSE ran[j]
    BY <1>16 DEF Tick
  <2>3. age' = age \/ age' = age + 1
    BY <1>16 DEF Tick
  <2>4. Quiet(j) /\ ran[j] <= FreezeHoldBound
    <3>1. ran[j] <= ran'[j]
      BY <1>b, <2>2
    <3>. QED
      BY <1>1, <1>e, <2>1, <3>1
  <2>5. ASSUME marked PROVE age' <= ran'[j] /\ at[j] = "creating"
    <3>1. age <= ran[j] /\ at[j] = "creating" /\ state[j] = "running"
      BY <1>a, <2>4, <2>5 DEF Quiet
    <3>2. ran'[j] = ran[j] + 1
      BY <1>b, <2>2, <2>4, <3>1 DEF Live
    <3>. QED
      BY <1>b, <2>3, <3>1, <3>2
  <2>. QED
    BY <2>1, <2>4, <2>5 DEF Quiet
<1>. QED
  BY <1>5, <1>6, <1>7, <1>8, <1>9, <1>10, <1>11, <1>12, <1>13, <1>14, <1>15, <1>16 DEF Next

(* The guest stays frozen while the first job creates its snapshots, until *)
(* the bound has passed: the sweep's bound is shorter than the job's, so   *)
(* the mark ages with the job, and no other goroutine has a reason to thaw *)
(* but the startup sweep.                                                  *)
THEOREM CreatesCovered == SafeSpec => []FreezeCoversCreates
<1>1. Init => Covered
  <2>1. ASSUME Init, NEW j \in Jobs PROVE Quiet(j)
    BY <2>1, Who DEF Init, Quiet
  <2>. QED
    BY <2>1 DEF Covered
<1>2. ASSUME BaseInv, NEW j \in Jobs PROVE ran[j] <= FreezeHoldBound \/ ran[j] > FreezeHoldBound
  <2>1. ran[j] \in 0..SnapshotTimeout
    BY <1>2 DEF BaseInv, TypeOK
  <2>. QED
    BY <2>1, BoundsAssumption
<1>3. BaseInv /\ Covered => FreezeCoversCreates
  <2>1. BaseInv => froze \subseteq Jobs
    BY DEF BaseInv, TypeOK
  <2>. QED
    BY <1>2, <2>1 DEF FreezeCoversCreates, Covered, Early, First, Quiet, Before
<1>. QED
  BY <1>1, <1>3, CoveredKept, BaseHolds, PTL DEF SafeSpec
=============================================================================
