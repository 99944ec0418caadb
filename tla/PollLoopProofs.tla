--------------------------- MODULE PollLoopProofs ---------------------------
(***************************************************************************)
(* For every interval, debounce window and poll duration: the poll loop    *)
(* loses no poke (Remembered) and serves each in time (ServedInTime).      *)
(*                                                                         *)
(* Neither is inductive.  Remembered says that a timer is there, not when  *)
(* it fires; Windowed adds that it fires before the window since the last  *)
(* poll is over, and Aged what a poke has waited at each point of a round. *)
(***************************************************************************)
EXTENDS PollLoop, TLAPS

Windowed ==
  loop = "select" => \A n \in 0..NudgeInterval : timers[n] > 0 => n + since <= NudgeInterval

Aged ==
  /\ ~wanted => waited = 0
  /\ wanted => waited <= IF loop = "polling" THEN took ELSE MaxPoll + since

IInv == TypeOK /\ Remembered /\ Windowed /\ Aged

(* What the provers need to know of the constants. *)
LEMMA Bounds == Interval \in Nat /\ Interval >= 1 /\ NudgeInterval \in Nat /\ NudgeInterval >= 1
                /\ MaxPoll \in Nat
BY PollAssumption

(* The loop starts in its first poll, with nothing asked for. *)
LEMMA InitIInv == Init => IInv
<1> SUFFICES ASSUME Init PROVE IInv
  OBVIOUS
<1>1. timers \in [0..NudgeInterval -> Nat]
  BY DEF Init
<1>2. TypeOK
  <2>1. wanted \in BOOLEAN /\ due \in BOOLEAN
    BY DEF Init
  <2>2. QED BY <1>1, <2>1, Bounds DEF Init, TypeOK
<1>3. Remembered /\ Windowed /\ Aged
  BY DEF Init, Remembered, Windowed, Aged
<1>4. QED BY <1>2, <1>3 DEF IInv

(* A poll that starts serves everybody: only the types are left to check.  *)
LEMMA StartPollKeeps ==
  ASSUME IInv, StartPoll,
         slot' \in {0, 1}, since' = since, timers' = timers, phase' = phase,
         due' \in BOOLEAN, cache' = cache
  PROVE  IInv'
<1>1. TypeOK'
  <2>1. wanted' \in BOOLEAN
    BY DEF StartPoll
  <2>2. QED BY <2>1, Bounds DEF StartPoll, IInv, TypeOK
<1>2. Remembered' /\ Windowed' /\ Aged'
  BY DEF StartPoll, Remembered, Windowed, Aged
<1>3. QED BY <1>1, <1>2 DEF IInv

(* Time moves every timer one nearer and the window one on; a poke cannot  *)
(* wait beyond the window, because its timer would be due.                 *)
LEMMA TickKeeps ==
  ASSUME IInv, Tick
  PROVE  IInv'
<1> USE Bounds DEF IInv
<1>1. TypeOK'
  <2>1. phase' \in 0..(Interval - 1)
    BY DEF Tick, TypeOK
  <2>2. timers' \in [0..NudgeInterval -> Nat]
    BY DEF Tick, TypeOK
  <2>3. QED BY <2>1, <2>2 DEF Tick, TypeOK
<1>2. ASSUME wanted
      PROVE  slot = 1 \/ \E n \in 1..NudgeInterval : timers[n] > 0
  <2>1. CASE slot = 1
    BY <2>1
  <2>2. CASE slot # 1
    <3>1. PICK n \in 0..NudgeInterval : timers[n] > 0
      BY <1>2, <2>2 DEF Remembered, Pending
    <3>2. n # 0
      BY <3>1 DEF Tick, TypeOK
    <3>3. QED BY <3>1, <3>2
  <2>3. QED BY <2>1, <2>2
<1>3. Remembered'
  <2>1. SUFFICES ASSUME wanted, slot # 1
                 PROVE  \E n \in 0..NudgeInterval : timers'[n] > 0
    BY DEF Tick, Remembered, Pending
  <2>2. PICK n \in 1..NudgeInterval : timers[n] > 0
    BY <1>2, <2>1
  <2>3. n - 1 \in 0..NudgeInterval /\ timers'[n - 1] > 0
    BY <2>2 DEF Tick, TypeOK
  <2>4. QED BY <2>3
<1>4. Windowed'
  <2>1. SUFFICES ASSUME loop = "select", NEW n \in 0..NudgeInterval, timers'[n] > 0
                 PROVE  n + since' <= NudgeInterval
    BY DEF Tick, Windowed
  <2>2. n < NudgeInterval /\ timers[n + 1] > 0
    BY <2>1 DEF Tick, TypeOK
  <2>3. n + 1 \in 0..NudgeInterval
    BY <2>2
  <2>4. n + 1 + since <= NudgeInterval
    BY <2>1, <2>2, <2>3 DEF Windowed
  <2>5. QED BY <2>4 DEF Tick, TypeOK
<1>5. Aged'
  <2>1. CASE ~wanted
    BY <2>1 DEF Tick, Aged, TypeOK
  <2>2. CASE wanted /\ loop = "polling"
    BY <2>2 DEF Tick, Aged, TypeOK
  <2>3. CASE wanted /\ loop = "select"
    <3>1. slot # 1
      BY <2>3 DEF Tick, TypeOK
    <3>2. PICK n \in 1..NudgeInterval : timers[n] > 0
      BY <1>2, <2>3, <3>1
    <3>3. n + since <= NudgeInterval
      BY <2>3, <3>2 DEF Windowed
    <3>4. since' = since + 1 /\ waited' = waited + 1
      BY <2>3, <3>3 DEF Tick, TypeOK
    <3>5. QED BY <2>3, <3>4 DEF Tick, Aged, TypeOK
  <2>4. QED BY <2>1, <2>2, <2>3 DEF TypeOK
<1>6. QED BY <1>1, <1>3, <1>4, <1>5

(* Every step keeps the invariant. *)
LEMMA NextKeepsIInv == IInv /\ [Next]_vars => IInv'
<1> SUFFICES ASSUME IInv, [Next]_vars PROVE IInv'
  OBVIOUS
<1> USE Bounds
<1>1. CASE Poke
  BY <1>1 DEF Poke, IInv, TypeOK, Remembered, Windowed, Aged, Pending
<1>2. CASE EndPoll
  BY <1>2 DEF EndPoll, IInv, TypeOK, Remembered, Windowed, Aged, Pending
<1>3. CASE OnTicker
  BY <1>3, StartPollKeeps DEF OnTicker, IInv, TypeOK
<1>4. CASE OnNudge
  BY <1>4, StartPollKeeps DEF OnNudge, IInv, TypeOK
<1>5. CASE PutOff
  <2> DEFINE d == NudgeInterval - since
  <2>1. d \in 0..NudgeInterval /\ timers[d] \in Nat
    BY <1>5 DEF IInv, TypeOK
  <2>2. timers' = [timers EXCEPT ![d] = timers[d] + 1]
    BY <1>5 DEF PutOff
  <2> HIDE DEF d
  <2>3. /\ timers' \in [0..NudgeInterval -> Nat]
        /\ timers'[d] > 0
        /\ \A n \in 0..NudgeInterval : n # d => timers'[n] = timers[n]
    BY <2>1, <2>2 DEF IInv, TypeOK
  <2>4. TypeOK' /\ Remembered'
    BY <1>5, <2>1, <2>3 DEF PutOff, IInv, TypeOK, Remembered, Pending
  <2>5. Windowed'
    BY <1>5, <2>3 DEF PutOff, IInv, TypeOK, Windowed, d
  <2>6. Aged'
    BY <1>5 DEF PutOff, IInv, Aged
  <2>7. QED BY <2>4, <2>5, <2>6 DEF IInv
<1>6. CASE TimerFires
  <2>1. /\ timers' \in [0..NudgeInterval -> Nat]
        /\ \A n \in 0..NudgeInterval : timers'[n] > 0 => timers[n] > 0
    BY <1>6 DEF TimerFires, IInv, TypeOK
  <2>2. QED
    BY <1>6, <2>1 DEF TimerFires, IInv, TypeOK, Remembered, Windowed, Aged
<1>7. CASE Tick
  BY <1>7, TickKeeps
<1>8. CASE UNCHANGED vars
  BY <1>8 DEF vars, IInv, TypeOK, Remembered, Windowed, Aged, Pending
<1>9. QED BY <1>1, <1>2, <1>3, <1>4, <1>5, <1>6, <1>7, <1>8 DEF Next, Select

(* The invariant holds in every reachable state. *)
THEOREM Invariance == SafeSpec => []IInv
BY InitIInv, NextKeepsIInv, PTL DEF SafeSpec

(* Every variable has its type: no counter runs past its window, and a     *)
(* timer is always armed for a moment of the window it belongs to.         *)
THEOREM Typing == SafeSpec => []TypeOK
<1>1. IInv => TypeOK
  BY DEF IInv
<1>2. QED BY <1>1, Invariance, PTL

(* A poke that was made, dropped or put off is never forgotten before a    *)
(* poll has started after it.                                              *)
THEOREM NoPokeLost == SafeSpec => []Remembered
<1>1. IInv => Remembered
  BY DEF IInv
<1>2. QED BY <1>1, Invariance, PTL

(* A poke waits for at most the poll under way and one debounce window.    *)
THEOREM PokesServedInTime == SafeSpec => []ServedInTime
<1>1. IInv => ServedInTime
  BY Bounds DEF IInv, TypeOK, Aged, ServedInTime
<1>2. QED BY <1>1, Invariance, PTL
=============================================================================
