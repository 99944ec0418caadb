------------------------- MODULE JobRegistryProofs --------------------------
(***************************************************************************)
(* Theorems about JobRegistry for every set of jobs, domains and verbs and *)
(* every choice of bounds that satisfies the module's assumptions.         *)
(***************************************************************************)
EXTENDS JobRegistry, TLAPS

(* The runner's program counter determines the state of its job, and how   *)
(* old the job can be at that point.                                       *)
RunnerInv(j) ==
  /\ runner[j] = "none" => job[j] = NoJob /\ j \notin kept /\ age[j] = 0
  /\ runner[j] = "spawned" =>
       /\ job[j].state = "pending"
       /\ age[j] <= Latency
       /\ waited[j] = 0
       /\ j \in kept
  /\ runner[j] = "waiting" =>
       /\ job[j].state = "running"
       /\ waited[j] <= BoundOf(j) + Latency
       /\ age[j] <= waited[j] + Latency
       /\ j \in kept
  /\ runner[j] \in {"finishing", "ended"} => job[j].state \in Terminal
  /\ runner[j] # "none" => job[j] \in JobRecords
  /\ runner[j] \in {"none", "spawned"} => waited[j] = 0

(* The inductive invariant: SingleFlight alone is not inductive, because   *)
(* register looks for a job in flight only among those still in the map.   *)
IInv == TypeOK /\ SingleFlight /\ \A j \in Jobs : RunnerInv(j)

-----------------------------------------------------------------------------
(* Every bound is a natural number, and the retention covers it with the   *)
(* two scheduling delays.                                                  *)
LEMMA BoundFacts ==
  ASSUME NEW a \in ActionNames, NEW m \in Modes
  PROVE  /\ RunBound(a, m) \in Nat
         /\ RunBound(a, m) + 2 * Latency <= JobRetention
BY ClockAssumption, RetentionAssumption DEF RunBound

(* What has been built has a verb and a mode with a bound. *)
LEMMA BuiltBound ==
  ASSUME NEW j \in Jobs, job[j] \in JobRecords
  PROVE  /\ BoundOf(j) \in Nat
         /\ BoundOf(j) + 2 * Latency <= JobRetention
<1>1. job[j].action \in ActionNames /\ job[j].mode \in Modes
  BY VerbsAssumption DEF JobRecords
<1> QED BY <1>1, BoundFacts DEF BoundOf

(* The zero Job is no job that was built. *)
LEMMA ZeroJob == NoJob.state = "" /\ NoJob \notin JobRecords
<1>1. NoJob.state = ""
  BY DEF NoJob
<1>2. \A r \in JobRecords : r.state # ""
  BY DEF JobRecords, Terminal, Results
<1> QED BY <1>1, <1>2

(* Writing the state of a job leaves the rest of it alone. *)
LEMMA WithState ==
  ASSUME NEW r \in JobRecords, NEW v \in {"pending", "running"} \cup Terminal
  PROVE  /\ [r EXCEPT !.state = v] \in JobRecords
         /\ [r EXCEPT !.state = v].state = v
BY DEF JobRecords

(* A job in flight survives the sweep: it is in the map and too young to   *)
(* be dropped.                                                             *)
LEMMA LiveSurvivesSweep ==
  ASSUME IInv, NEW j \in Jobs, Live(j)
  PROVE  j \in Swept
<1>1. runner[j] \in {"spawned", "waiting"}
  <2>1. job[j] # NoJob /\ job[j].state \notin Terminal
    BY ZeroJob DEF Live, Terminal, Results
  <2> QED BY <2>1 DEF IInv, TypeOK, RunnerInv
<1>2. job[j] \in JobRecords /\ j \in kept
  BY <1>1 DEF IInv, RunnerInv
<1>3. BoundOf(j) \in Nat /\ BoundOf(j) + 2 * Latency <= JobRetention
  BY <1>2, BuiltBound
<1>4. age[j] \in Nat /\ waited[j] \in Nat /\ Latency \in Nat /\ JobRetention \in Nat
  BY ClockAssumption DEF IInv, TypeOK
<1>5. age[j] <= BoundOf(j) + 2 * Latency
  BY <1>1, <1>3, <1>4 DEF IInv, RunnerInv
<1> QED BY <1>2, <1>3, <1>4, <1>5 DEF Swept

-----------------------------------------------------------------------------
LEMMA InitInv == ASSUME Init PROVE IInv
<1> USE DEF Init
<1>1. TypeOK
  BY DEF TypeOK
<1>2. SingleFlight
  BY ZeroJob DEF SingleFlight, Live
<1>3. \A j \in Jobs : RunnerInv(j)
  BY DEF RunnerInv
<1> QED BY <1>1, <1>2, <1>3 DEF IInv

LEMMA RegisterInv ==
  ASSUME IInv, NEW j \in Jobs, NEW d \in Domains, NEW a \in Verbs, NEW m \in Modes,
         Register(j, d, a, m)
  PROVE  IInv'
<1> USE DEF IInv, Register
<1> DEFINE new == [domain |-> d, action |-> a, mode |-> m, state |-> "pending"]
<1>1. new \in JobRecords
  BY DEF JobRecords
<1>2. job' = [job EXCEPT ![j] = new] /\ job \in [Jobs -> JobRecords \cup {NoJob}]
  BY DEF TypeOK
<1>3. /\ job'[j] = new
      /\ \A i \in Jobs : i # j => job'[i] = job[i]
  BY <1>2
<1>4. runner[j] = "none"
  BY ZeroJob DEF RunnerInv
<1>5. \A i \in Jobs : Live(i) => i \in Swept
  BY LiveSurvivesSweep
<1>6. TypeOK'
  <2>1. job' \in [Jobs -> JobRecords \cup {NoJob}]
    BY <1>1, <1>2
  <2>2. kept' \subseteq Jobs
    BY DEF TypeOK, Swept
  <2> QED BY <2>1, <2>2 DEF TypeOK
<1>7. SingleFlight'
  <2> SUFFICES ASSUME NEW i \in Jobs, Live(i), Key(i) = <<d, a>>
               PROVE  FALSE
    <3>1. \A i \in Jobs : i # j => (Live(i)' <=> Live(i)) /\ Key(i)' = Key(i)
      BY <1>3 DEF Live, Key
    <3>2. Key(j)' = <<d, a>>
      BY <1>3 DEF Key
    <3> QED BY <3>1, <3>2 DEF SingleFlight
  <2> QED BY <1>5 DEF InFlight
<1>8. ASSUME NEW i \in Jobs PROVE RunnerInv(i)'
  <2>1. CASE i = j
    <3>1. runner'[i] = "spawned"
      BY <2>1 DEF TypeOK
    <3>2. age'[i] = 0 /\ waited'[i] = 0
      BY <1>4, <2>1 DEF RunnerInv
    <3>3. job'[i] = new /\ i \in kept'
      BY <1>3, <2>1
    <3> QED BY <1>1, <3>1, <3>2, <3>3, ClockAssumption DEF RunnerInv
  <2>2. CASE i # j
    <3>1. job'[i] = job[i] /\ runner'[i] = runner[i] /\ age'[i] = age[i] /\ waited'[i] = waited[i]
      BY <1>3, <2>2 DEF TypeOK
    <3>2. RunnerInv(i)
      OBVIOUS
    <3>3. runner[i] = "none" => i \notin kept'
      BY <2>2, <3>2 DEF RunnerInv, Swept
    <3>4. runner[i] \in {"spawned", "waiting"} => i \in kept'
      BY <1>5, <3>2 DEF RunnerInv, Live
    <3>5. BoundOf(i)' = BoundOf(i)
      BY <3>1 DEF BoundOf
    <3> QED BY <3>1, <3>2, <3>3, <3>4, <3>5 DEF RunnerInv
  <2> QED BY <2>1, <2>2
<1> QED BY <1>6, <1>7, <1>8

LEMMA SweepInv == ASSUME IInv, Sweep PROVE IInv'
<1> USE DEF IInv, Sweep
<1>1. \A i \in Jobs : Live(i) => i \in kept'
  BY LiveSurvivesSweep
<1>2. TypeOK'
  BY DEF TypeOK, Swept
<1>3. SingleFlight'
  BY DEF SingleFlight, Live, Key
<1>4. ASSUME NEW i \in Jobs PROVE RunnerInv(i)'
  <2>1. RunnerInv(i) /\ BoundOf(i)' = BoundOf(i)
    BY DEF BoundOf
  <2>2. runner[i] \in {"spawned", "waiting"} => i \in kept'
    BY <1>1, <2>1 DEF RunnerInv, Live
  <2> QED BY <2>1, <2>2 DEF RunnerInv, Swept
<1> QED BY <1>2, <1>3, <1>4

LEMMA BeginInv ==
  ASSUME IInv, NEW j \in Jobs, Begin(j)
  PROVE  IInv'
<1> USE DEF IInv, Begin
<1>1. job[j] \in JobRecords /\ job[j].state = "pending" /\ RunnerInv(j)
  BY DEF RunnerInv
<1>2. /\ job'[j] = [job[j] EXCEPT !.state = "running"]
      /\ \A i \in Jobs : i # j => job'[i] = job[i]
  BY DEF TypeOK
<1>3. /\ job'[j] \in JobRecords
      /\ job'[j].state = "running"
      /\ Key(j)' = Key(j)
      /\ BoundOf(j)' = BoundOf(j)
  BY <1>1, <1>2 DEF JobRecords, Key, BoundOf
<1>4. TypeOK'
  BY <1>3, <1>2 DEF TypeOK
<1>5. \A i \in Jobs : Key(i)' = Key(i) /\ (Live(i)' <=> Live(i))
  BY <1>1, <1>2, <1>3 DEF Key, Live
<1>6. SingleFlight'
  BY <1>5 DEF SingleFlight
<1>7. ASSUME NEW i \in Jobs PROVE RunnerInv(i)'
  <2>1. CASE i = j
    <3>1. runner'[j] = "waiting" /\ waited'[j] = 0 /\ age'[j] = age[j]
      BY <1>1 DEF TypeOK, RunnerInv
    <3>2. age[j] <= Latency /\ j \in kept'
      BY <1>1 DEF RunnerInv
    <3>3. BoundOf(j) \in Nat /\ Latency \in Nat /\ age[j] \in Nat
      BY <1>1, BuiltBound, ClockAssumption DEF TypeOK
    <3> QED BY <1>3, <2>1, <3>1, <3>2, <3>3 DEF RunnerInv
  <2>2. CASE i # j
    <3>1. job'[i] = job[i] /\ runner'[i] = runner[i] /\ age'[i] = age[i] /\ waited'[i] = waited[i]
      BY <1>2, <2>2 DEF TypeOK
    <3> QED BY <3>1 DEF RunnerInv, BoundOf
  <2> QED BY <2>1, <2>2
<1> QED BY <1>4, <1>6, <1>7

LEMMA ReturnInv ==
  ASSUME IInv, NEW j \in Jobs, NEW r \in Results, Return(j, r)
  PROVE  IInv'
<1> USE DEF IInv, Return
<1>1. TypeOK'
  BY DEF TypeOK
<1>2. SingleFlight'
  BY DEF SingleFlight, Live, Key
<1>3. ASSUME NEW i \in Jobs PROVE RunnerInv(i)'
  BY DEF RunnerInv, BoundOf
<1> QED BY <1>1, <1>2, <1>3

(* Settle and TimeOut both leave the select with a verdict. *)
LEMMA VerdictInv ==
  ASSUME IInv, NEW j \in Jobs, NEW v \in Terminal,
         runner[j] = "waiting",
         job' = [job EXCEPT ![j].state = v],
         runner' = [runner EXCEPT ![j] = "finishing"],
         waited' = [waited EXCEPT ![j] = 0],
         done' \in [Jobs -> Results \cup {""}],
         UNCHANGED <<kept, age, worker, nudge>>
  PROVE  IInv'
<1> USE DEF IInv
<1>1. job[j] \in JobRecords
  BY DEF RunnerInv
<1>2. /\ job'[j] = [job[j] EXCEPT !.state = v]
      /\ \A i \in Jobs : i # j => job'[i] = job[i]
  BY DEF TypeOK
<1>3. job'[j] \in JobRecords /\ job'[j].state = v /\ ~Live(j)'
  <2>1. job'[j] \in JobRecords /\ job'[j].state = v
    BY <1>1, <1>2, WithState
  <2>2. v \notin {"pending", "running"}
    BY DEF Terminal, Results
  <2> QED BY <2>1, <2>2 DEF Live
<1>4. TypeOK'
  BY <1>2, <1>3 DEF TypeOK
<1>5. \A i \in Jobs : i # j => Key(i)' = Key(i) /\ (Live(i)' <=> Live(i))
  BY <1>2 DEF Key, Live
<1>6. SingleFlight'
  BY <1>3, <1>5 DEF SingleFlight
<1>7. ASSUME NEW i \in Jobs PROVE RunnerInv(i)'
  <2>1. CASE i = j
    <3>1. runner'[j] = "finishing"
      BY DEF TypeOK
    <3> QED BY <1>3, <2>1, <3>1 DEF RunnerInv
  <2>2. CASE i # j
    <3>1. job'[i] = job[i] /\ runner'[i] = runner[i] /\ age'[i] = age[i] /\ waited'[i] = waited[i]
      BY <1>2, <2>2 DEF TypeOK
    <3> QED BY <3>1 DEF RunnerInv, BoundOf
  <2> QED BY <2>1, <2>2
<1> QED BY <1>4, <1>6, <1>7

LEMMA SettleInv == ASSUME IInv, NEW j \in Jobs, Settle(j) PROVE IInv'
<1>1. done[j] \in Terminal /\ done' \in [Jobs -> Results \cup {""}]
  BY DEF IInv, TypeOK, Settle, Terminal
<1> QED BY <1>1, VerdictInv DEF Settle

LEMMA TimeOutInv == ASSUME IInv, NEW j \in Jobs, TimeOut(j) PROVE IInv'
<1>1. "timeout" \in Terminal /\ done' \in [Jobs -> Results \cup {""}]
  BY DEF IInv, TypeOK, TimeOut, Terminal, Results
<1> QED BY <1>1, VerdictInv DEF TimeOut

LEMMA FinishInv == ASSUME IInv, NEW j \in Jobs, Finish(j) PROVE IInv'
<1> USE DEF IInv, Finish
<1>1. TypeOK'
  BY DEF TypeOK
<1>2. SingleFlight'
  BY DEF SingleFlight, Live, Key
<1>3. ASSUME NEW i \in Jobs PROVE RunnerInv(i)'
  BY DEF RunnerInv, BoundOf, TypeOK
<1> QED BY <1>1, <1>2, <1>3

LEMMA TickInv == ASSUME IInv, Tick PROVE IInv'
<1> USE DEF IInv, Tick
<1>1. TypeOK'
  <2>1. \A n \in Nat : n + 1 \in Nat
    OBVIOUS
  <2>2. age' \in [Jobs -> Nat] /\ waited' \in [Jobs -> Nat]
    BY <2>1 DEF TypeOK
  <2> QED BY <2>2 DEF TypeOK
<1>2. SingleFlight'
  BY DEF SingleFlight, Live, Key
<1>3. ASSUME NEW i \in Jobs PROVE RunnerInv(i)'
  <2>1. RunnerInv(i) /\ BoundOf(i)' = BoundOf(i)
    BY DEF BoundOf
  <2>2. /\ age'[i] = IF job[i] # NoJob /\ age[i] <= JobRetention THEN age[i] + 1 ELSE age[i]
        /\ waited'[i] = IF runner[i] = "waiting" THEN waited[i] + 1 ELSE waited[i]
        /\ age[i] \in Nat /\ waited[i] \in Nat /\ Latency \in Nat /\ JobRetention \in Nat
    BY ClockAssumption DEF TypeOK
  <2>3. CASE runner[i] = "spawned"
    BY <2>1, <2>2, <2>3 DEF RunnerInv
  <2>4. CASE runner[i] = "waiting"
    <3>1. BoundOf(i) \in Nat
      BY <2>1, <2>4, BuiltBound DEF RunnerInv
    <3>2. waited[i] < BoundOf(i) + Latency
      BY <2>4
    <3> QED BY <2>1, <2>2, <2>4, <3>1, <3>2 DEF RunnerInv
  <2>5. CASE runner[i] \notin {"spawned", "waiting"}
    BY <2>1, <2>2, <2>5 DEF RunnerInv
  <2> QED BY <2>3, <2>4, <2>5
<1> QED BY <1>1, <1>2, <1>3

LEMMA StutterInv == ASSUME IInv, UNCHANGED vars PROVE IInv'
BY DEF IInv, vars, TypeOK, SingleFlight, RunnerInv, Live, Key, BoundOf

LEMMA TakeNudgeInv == ASSUME IInv, TakeNudge PROVE IInv'
BY DEF IInv, TakeNudge, TypeOK, SingleFlight, RunnerInv, Live, Key, BoundOf

LEMMA NextInv == ASSUME IInv, [Next]_vars PROVE IInv'
<1>1. ASSUME NEW j \in Jobs, NEW d \in Domains, NEW a \in Verbs, NEW m \in Modes,
             Register(j, d, a, m)
      PROVE IInv'
  BY <1>1, RegisterInv
<1>2. CASE Sweep
  BY <1>2, SweepInv
<1>3. ASSUME NEW j \in Jobs, Runner(j) PROVE IInv'
  BY <1>3, BeginInv, SettleInv, TimeOutInv, FinishInv DEF Runner
<1>4. ASSUME NEW j \in Jobs, NEW r \in Results, Return(j, r) PROVE IInv'
  BY <1>4, ReturnInv
<1>5. CASE TakeNudge
  BY <1>5, TakeNudgeInv
<1>6. CASE Tick
  BY <1>6, TickInv
<1>7. CASE UNCHANGED vars
  BY <1>7, StutterInv
<1> QED BY <1>1, <1>2, <1>3, <1>4, <1>5, <1>6, <1>7 DEF Next

THEOREM Invariance == SafeSpec => []IInv
BY InitInv, NextInv, PTL DEF SafeSpec

-----------------------------------------------------------------------------
(* The state of the registry always has its type. *)
THEOREM TypeCorrect == SafeSpec => []TypeOK
<1>1. IInv => TypeOK
  BY DEF IInv
<1> QED BY <1>1, Invariance, PTL

(* register never lets two jobs of one domain and verb be pending or       *)
(* running at once, whatever the sweep, the timers and the workers do.     *)
THEOREM SingleFlightHolds == SafeSpec => []SingleFlight
<1>1. IInv => SingleFlight
  BY DEF IInv
<1> QED BY <1>1, Invariance, PTL

(* sweepLocked never drops a job that is pending or running.               *)
THEOREM LiveListedHolds == SafeSpec => []LiveListed
<1>1. IInv => LiveListed
  BY LiveSurvivesSweep DEF LiveListed, Swept
<1> QED BY <1>1, Invariance, PTL

-----------------------------------------------------------------------------
(* A step that writes no Job object changes no slot and no verdict. *)
LEMMA SameJobsSameSlots ==
  ASSUME job' = job
  PROVE  UNCHANGED <<Flying, Verdict>>
BY DEF Flying, Verdict, Live, Key

(* register takes the slot of its key. *)
LEMMA RegisterRefines ==
  ASSUME IInv, NEW j \in Jobs, NEW d \in Domains, NEW a \in Verbs, NEW m \in Modes,
         Register(j, d, a, m)
  PROVE  Slots!Accept(j, <<d, a>>)
<1> DEFINE new == [domain |-> d, action |-> a, mode |-> m, state |-> "pending"]
<1>1. job[j] = NoJob /\ job' = [job EXCEPT ![j] = new] /\ InFlight(d, a) = {}
  BY DEF Register
<1>2. /\ job'[j] = new
      /\ \A i \in Jobs : i # j => job'[i] = job[i]
  BY <1>1 DEF IInv, TypeOK
<1>3. ~Live(j) /\ job[j].state \notin Terminal
  BY <1>1, ZeroJob DEF Live, Terminal, Results
<1>4. Live(j)' /\ Key(j)' = <<d, a>> /\ job'[j].state \notin Terminal
  BY <1>2 DEF Live, Key, Terminal, Results
<1>5. \A i \in Jobs : i # j => (Live(i)' <=> Live(i)) /\ Key(i)' = Key(i)
  BY <1>2 DEF Live, Key
<1>6. Verdict[j] = ""
  BY <1>3 DEF Verdict
<1>7. \A k \in Domains \X Verbs : j \notin Flying[k]
  BY <1>3 DEF Flying
<1>8. Flying[<<d, a>>] = {}
  <2>1. \A i \in Jobs : Live(i) => Key(i) # <<d, a>>
    BY <1>1, LiveSurvivesSweep DEF InFlight
  <2> QED BY <2>1 DEF Flying
<1>9. Flying' = [Flying EXCEPT ![<<d, a>>] = {j}]
  <2>1. ASSUME NEW k \in Domains \X Verbs
        PROVE  Flying'[k] = IF k = <<d, a>> THEN {j} ELSE Flying[k]
    <3>1. Flying'[k] = {i \in Jobs : Live(i)' /\ Key(i)' = k}
      BY DEF Flying
    <3>2. Flying[k] = {i \in Jobs : Live(i) /\ Key(i) = k}
      BY DEF Flying
    <3>3. CASE k = <<d, a>>
      BY <1>4, <1>5, <1>8, <3>1, <3>2, <3>3
    <3>4. CASE k # <<d, a>>
      BY <1>3, <1>4, <1>5, <3>1, <3>2, <3>4
    <3> QED BY <3>3, <3>4
  <2> QED BY <2>1 DEF Flying
<1>10. Verdict' = Verdict
  <2>1. \A i \in Jobs : Verdict'[i] = Verdict[i]
    BY <1>2, <1>3, <1>4 DEF Verdict
  <2> QED BY <2>1 DEF Verdict
<1> QED BY <1>6, <1>7, <1>8, <1>9, <1>10 DEF Slots!Accept

(* A verdict frees the slot of its job. *)
LEMMA VerdictRefines ==
  ASSUME IInv, NEW j \in Jobs, NEW v \in Terminal,
         runner[j] = "waiting",
         job' = [job EXCEPT ![j].state = v]
  PROVE  /\ Key(j) \in Domains \X Verbs
         /\ Slots!Conclude(j, Key(j), v)
<1>1. job[j] \in JobRecords /\ job[j].state = "running"
  BY DEF IInv, RunnerInv
<1>2. Key(j) \in Domains \X Verbs
  BY <1>1 DEF JobRecords, Key
<1>3. /\ job'[j] = [job[j] EXCEPT !.state = v]
      /\ \A i \in Jobs : i # j => job'[i] = job[i]
  BY DEF IInv, TypeOK
<1>4. Live(j) /\ job'[j].state = v /\ ~Live(j)'
  <2>1. v \notin {"pending", "running"}
    BY DEF Terminal, Results
  <2> QED BY <1>1, <1>3, <2>1, WithState DEF Live
<1>5. \A i \in Jobs : i # j => (Live(i)' <=> Live(i)) /\ Key(i)' = Key(i)
  BY <1>3 DEF Live, Key
<1>6. j \in Flying[Key(j)]
  BY <1>2, <1>4 DEF Flying
<1>7. Flying' = [Flying EXCEPT ![Key(j)] = @ \ {j}]
  <2>1. ASSUME NEW k \in Domains \X Verbs
        PROVE  Flying'[k] = IF k = Key(j) THEN Flying[k] \ {j} ELSE Flying[k]
    <3>1. Flying'[k] = {i \in Jobs : Live(i)' /\ Key(i)' = k}
      BY DEF Flying
    <3>2. Flying[k] = {i \in Jobs : Live(i) /\ Key(i) = k}
      BY DEF Flying
    <3>3. j \notin Flying'[k]
      BY <1>4, <3>1
    <3>4. \A i \in Jobs : i # j => (i \in Flying'[k] <=> i \in Flying[k])
      BY <1>5, <3>1, <3>2
    <3>5. k # Key(j) => j \notin Flying[k]
      BY <3>2
    <3>6. Flying[k] \subseteq Jobs /\ Flying'[k] \subseteq Jobs
      BY <3>1, <3>2
    <3> QED BY <3>3, <3>4, <3>5, <3>6
  <2> QED BY <1>2, <2>1 DEF Flying
<1>8. Verdict' = [Verdict EXCEPT ![j] = v]
  <2>1. Verdict'[j] = v
    BY <1>4 DEF Verdict
  <2>2. \A i \in Jobs : i # j => Verdict'[i] = Verdict[i]
    BY <1>3 DEF Verdict
  <2> QED BY <2>1, <2>2 DEF Verdict
<1> QED BY <1>2, <1>6, <1>7, <1>8 DEF Slots!Conclude

(* Marking a pending job running moves neither a slot nor a verdict. *)
LEMMA BeginRefines ==
  ASSUME IInv, NEW j \in Jobs, Begin(j)
  PROVE  UNCHANGED <<Flying, Verdict>>
<1>1. job[j] \in JobRecords /\ job[j].state = "pending"
  BY DEF IInv, RunnerInv, Begin
<1>2. /\ job'[j] = [job[j] EXCEPT !.state = "running"]
      /\ \A i \in Jobs : i # j => job'[i] = job[i]
  BY DEF IInv, TypeOK, Begin
<1>3. job'[j].state = "running" /\ Key(j)' = Key(j)
  BY <1>1, <1>2 DEF JobRecords, Key
<1>4. \A i \in Jobs : (Live(i)' <=> Live(i)) /\ Key(i)' = Key(i)
  BY <1>1, <1>2, <1>3 DEF Live, Key
<1>5. Flying' = Flying
  BY <1>4 DEF Flying
<1>6. \A i \in Jobs : Verdict'[i] = Verdict[i]
  BY <1>1, <1>2, <1>3 DEF Verdict, Terminal, Results
<1>7. Verdict' = Verdict
  BY <1>6 DEF Verdict
<1> QED BY <1>5, <1>7

LEMMA StepRefines ==
  ASSUME IInv, [Next]_vars
  PROVE  [Slots!Next]_(Slots!vars)
<1>1. ASSUME NEW j \in Jobs, NEW d \in Domains, NEW a \in Verbs, NEW m \in Modes,
             Register(j, d, a, m)
      PROVE  Slots!Next
  BY <1>1, RegisterRefines DEF Slots!Next
<1>2. ASSUME NEW j \in Jobs, Settle(j) \/ TimeOut(j) PROVE Slots!Next
  <2>1. PICK v \in Terminal : runner[j] = "waiting" /\ job' = [job EXCEPT ![j].state = v]
    BY <1>2 DEF Settle, TimeOut, IInv, TypeOK, Terminal, Results
  <2>2. Terminal = Slots!Verdicts
    BY DEF Terminal, Results, Slots!Verdicts
  <2> QED BY <2>1, <2>2, VerdictRefines DEF Slots!Next
<1>3. ASSUME NEW j \in Jobs, Begin(j) PROVE UNCHANGED Slots!vars
  BY <1>3, BeginRefines DEF Slots!vars
<1>4. ASSUME job' = job PROVE UNCHANGED Slots!vars
  BY <1>4, SameJobsSameSlots DEF Slots!vars
<1>5. CASE Sweep \/ TakeNudge \/ Tick \/ UNCHANGED vars
  BY <1>4, <1>5 DEF Sweep, TakeNudge, Tick, vars
<1>6. ASSUME NEW j \in Jobs, Finish(j) \/ \E r \in Results : Return(j, r)
      PROVE  UNCHANGED Slots!vars
  BY <1>4, <1>6 DEF Finish, Return
<1> QED BY <1>1, <1>2, <1>3, <1>5, <1>6 DEF Next, Runner

LEMMA InitRefines == ASSUME Init PROVE Slots!Init
<1>1. \A j \in Jobs : ~Live(j) /\ job[j].state = ""
  BY ZeroJob DEF Init, Live
<1>2. Flying = [k \in Domains \X Verbs |-> {}]
  BY <1>1 DEF Flying
<1>3. Verdict = [j \in Jobs |-> ""]
  BY <1>1 DEF Verdict, Terminal, Results
<1> QED BY <1>2, <1>3 DEF Slots!Init

(* The registry implements the slots: a busy slot refuses, and a job       *)
(* leaves its slot with one verdict.                                       *)
THEOREM RegistryImplementsSlots == SafeSpec => ImplementsSafeSlots
<1>1. Init => Slots!Init
  BY InitRefines
<1>2. IInv /\ [Next]_vars => [Slots!Next]_(Slots!vars)
  BY StepRefines
<1> QED BY <1>1, <1>2, Invariance, PTL DEF SafeSpec, ImplementsSafeSlots, Slots!SafeSpec

(* A worker that answers after its job timed out never changes the verdict. *)
THEOREM VerdictStandsHolds == SafeSpec => VerdictStands
<1> DEFINE Stands == \A j \in Jobs : job[j].state \in Terminal => job'[j].state = job[j].state
<1>1. ASSUME IInv, Next PROVE Stands
  <2> SUFFICES ASSUME NEW i \in Jobs, job[i].state \in Terminal
               PROVE  job'[i] = job[i]
    BY Zenon
  <2>1. runner[i] \notin {"none", "spawned", "waiting"} /\ job[i] # NoJob
    BY <1>1, ZeroJob DEF IInv, RunnerInv, Terminal, Results
  <2>2. ASSUME NEW j \in Jobs, Runner(j) PROVE job'[i] = job[i]
    BY <1>1, <2>1, <2>2 DEF Runner, Begin, Settle, TimeOut, Finish, IInv, TypeOK
  <2>3. ASSUME NEW j \in Jobs, NEW d \in Domains, NEW a \in Verbs, NEW m \in Modes,
               Register(j, d, a, m)
        PROVE  job'[i] = job[i]
    BY <1>1, <2>1, <2>3 DEF Register, IInv, TypeOK
  <2>4. ASSUME Sweep \/ TakeNudge \/ Tick PROVE job'[i] = job[i]
    BY <2>4 DEF Sweep, TakeNudge, Tick
  <2>5. ASSUME NEW j \in Jobs, NEW r \in Results, Return(j, r) PROVE job'[i] = job[i]
    BY <2>5 DEF Return
  <2> QED BY <1>1, <2>2, <2>3, <2>4, <2>5 DEF Next
<1>2. ASSUME UNCHANGED vars PROVE Stands
  BY <1>2 DEF vars
<1>3. IInv /\ [Next]_vars => [Stands]_vars
  BY <1>1, <1>2
<1> QED BY <1>3, Invariance, PTL DEF SafeSpec, VerdictStands
=============================================================================
