------------------------- MODULE GuestSamplesProofs -------------------------
(***************************************************************************)
(* No rate of GuestSamples is invented, for any number of boots and any    *)
(* counter: the invariant relates every reading that is still held to what *)
(* the guest has done since it was taken.                                  *)
(***************************************************************************)
EXTENDS GuestSamples, TLAPS

(* Reading q is later than p.  Within one boot the counter moved by what   *)
(* was done; across a boot at least what the later counter says was done.  *)
After(p, q) ==
  p.known =>
    /\ p.boot <= q.boot
    /\ p.boot = q.boot => p.n <= q.n /\ q.done - p.done = q.n - p.n
    /\ p.boot < q.boot => q.done - p.done >= q.n

(* Every reading held is of the past, and the processor time an inspection *)
(* has read is later than the sample it will replace.                      *)
Chronology ==
  /\ \A m \in Meters : After(sample[m], Reading(count))
  /\ After(read, Reading(count))
  /\ read.known => After(sample["cpu"], read)

IInv == TypeOK /\ Chronology /\ RatesTrue

-----------------------------------------------------------------------------
(* The constants leave room for -1 beyond every count, and a reading of    *)
(* the counter has the type of one.                                        *)
LEMMA ReadingTyped ==
  ASSUME NEW n \in 0 .. Width - 1, boot \in 0 .. MaxBoots, done \in Nat
  PROVE  Reading(n) \in Readings
BY SamplesAssumption DEF Reading, Readings

LEMMA NothingTyped == NoReading \in Readings /\ NoRate \in Rates
BY SamplesAssumption DEF NoReading, Readings, NoRate, Rates

(* What the difference of two readings in order shows is true. *)
LEMMA DifferenceTrue ==
  ASSUME NEW p \in Readings, NEW q \in Readings, After(p, q)
  PROVE  /\ Difference(p, q) \in Rates
         /\ Difference(p, q).known =>
              /\ Difference(p, q).shown <= Difference(p, q).real
              /\ Difference(p, q).oneBoot => Difference(p, q).shown = Difference(p, q).real
<1>1. CASE ~p.known \/ q.n < p.n
  BY <1>1, NothingTyped DEF Difference, NoRate
<1>2. CASE p.known /\ ~(q.n < p.n)
  <2>1. /\ p.n \in 0 .. Width - 1 /\ q.n \in 0 .. Width - 1 /\ Width \in Nat
        /\ p.boot \in Nat /\ q.boot \in Nat /\ p.done \in Nat /\ q.done \in Nat
    BY SamplesAssumption DEF Readings
  <2>2. Minus(q.n, p.n) = q.n - p.n /\ q.n - p.n \in 0 .. Width - 1
    BY <1>2, <2>1 DEF Minus
  <2>3. Difference(p, q) = [known |-> TRUE, shown |-> q.n - p.n, real |-> q.done - p.done,
                            oneBoot |-> p.boot = q.boot]
    BY <1>2, <2>2 DEF Difference
  <2>4. q.n - p.n <= q.done - p.done
    BY <1>2, <2>1 DEF After
  <2>5. p.boot = q.boot => q.n - p.n = q.done - p.done
    BY <1>2, <2>1 DEF After
  <2>6. Difference(p, q) \in Rates
    BY <2>1, <2>2, <2>3 DEF Rates
  <2>7. /\ Difference(p, q).shown = q.n - p.n /\ Difference(p, q).real = q.done - p.done
        /\ Difference(p, q).oneBoot = (p.boot = q.boot)
    BY <2>3
  <2>. QED
    BY <2>4, <2>5, <2>6, <2>7
<1>. QED
  BY <1>1, <1>2

(* A reading stays in the past when the guest is started or works. *)
LEMMA PastKept ==
  ASSUME NEW p \in Readings, TypeOK, After(p, Reading(count)), PowerOn \/ Works
  PROVE  After(p, Reading(count)')
<1>1. /\ p.n \in Nat /\ p.boot \in Nat /\ p.done \in Nat
      /\ boot \in Nat /\ count \in Nat /\ done \in Nat
  BY SamplesAssumption DEF Readings, TypeOK
<1>2. CASE PowerOn
  BY <1>1, <1>2 DEF PowerOn, After, Reading
<1>3. CASE Works
  BY <1>1, <1>3 DEF Works, After, Reading
<1>. QED
  BY <1>2, <1>3

-----------------------------------------------------------------------------
(* A step of the guest leaves every reading where it was. *)
LEMMA GuestKeeps ==
  ASSUME IInv, PowerOn \/ PowerOff \/ PauseOrResume \/ Works
  PROVE  IInv'
<1>. USE DEF IInv
<1>1. /\ UNCHANGED <<at, read, sample, rate, marked, markedFor>>
  BY DEF PowerOn, PowerOff, PauseOrResume, Works, figures, marker
<1>2. TypeOK'
  <2>1. /\ power' \in {"off", "running", "paused"} /\ timer' \in BOOLEAN
    BY DEF TypeOK, PowerOn, PowerOff, PauseOrResume, Works
  <2>2. boot' \in 0 .. MaxBoots
    BY SamplesAssumption DEF TypeOK, PowerOn, PowerOff, PauseOrResume, Works
  <2>3. count' \in 0 .. MaxCount /\ done' \in Nat
    BY SamplesAssumption DEF TypeOK, PowerOn, PowerOff, PauseOrResume, Works
  <2>. QED
    BY <1>1, <2>1, <2>2, <2>3 DEF TypeOK
<1>3. Chronology'
  <2>1. /\ read \in Readings /\ \A m \in Meters : sample[m] \in Readings
    BY DEF TypeOK
  <2>2. CASE PowerOn \/ Works
    BY <1>1, <2>1, <2>2, PastKept DEF Chronology
  <2>3. CASE PowerOff \/ PauseOrResume
    BY <1>1, <2>3 DEF Chronology, PowerOff, PauseOrResume, Reading, After
  <2>. QED
    BY <2>2, <2>3
<1>4. RatesTrue'
  BY <1>1 DEF RatesTrue
<1>. QED
  BY <1>2, <1>3, <1>4

(* A failing call, and the call for the timer, change no figure but to     *)
(* show less.                                                              *)
LEMMA CallsKeep ==
  ASSUME IInv,
         InfoFails \/ DescribeFails \/ Enable \/ EnableFails \/ MeasureFails
  PROVE  IInv'
<1>. USE DEF IInv
<1>1. /\ UNCHANGED <<power, boot, count, done, sample>>
      /\ read' \in {read, NoReading}
      /\ rate' \in {rate, [m \in Meters |-> NoRate]}
  BY DEF InfoFails, DescribeFails, Enable, EnableFails, MeasureFails, guest, figures, marker, NewRow
<1>2. TypeOK'
  <2>1. read' \in Readings /\ rate' \in [Meters -> Rates]
    BY <1>1, NothingTyped DEF TypeOK
  <2>2. at' \in {"idle", "describe", "enable", "measure"} /\ timer' \in BOOLEAN
        /\ marked' \in BOOLEAN /\ markedFor' \in 0 .. MaxBoots
    BY DEF TypeOK, InfoFails, DescribeFails, Enable, EnableFails, MeasureFails, guest, marker
  <2>. QED
    BY <1>1, <2>1, <2>2 DEF TypeOK
<1>3. Chronology'
  BY <1>1 DEF Chronology, After, Reading, NoReading
<1>4. RatesTrue'
  BY <1>1 DEF RatesTrue, NoRate
<1>. QED
  BY <1>2, <1>3, <1>4

(* DomainGetInfo reads the present. *)
LEMMA InfoKeeps == ASSUME IInv, Info PROVE IInv'
<1>. USE DEF IInv
<1>1. /\ UNCHANGED <<power, boot, count, timer, done, sample, marked, markedFor>>
      /\ at' = "describe" /\ rate' = [m \in Meters |-> NoRate]
      /\ read' \in {Reading(count), NoReading}
  BY DEF Info, NewRow, guest, marker
<1>2. TypeOK'
  <2>1. Reading(count) \in Readings
    BY ReadingTyped, SamplesAssumption DEF TypeOK
  <2>. QED
    BY <1>1, <2>1, NothingTyped DEF TypeOK
<1>3. Chronology'
  <2>1. After(Reading(count), Reading(count)')
    BY <1>1, SamplesAssumption DEF After, Reading, TypeOK
  <2>2. After(NoReading, Reading(count)')
    BY DEF After, NoReading
  <2>3. Reading(count)' = Reading(count)
    BY <1>1 DEF Reading
  <2>4. read'.known => read' = Reading(count)
    BY <1>1 DEF NoReading
  <2>5. After(sample["cpu"], Reading(count))
    BY DEF Chronology, Meters
  <2>. QED
    BY <1>1, <2>1, <2>2, <2>3, <2>4, <2>5 DEF Chronology
<1>4. RatesTrue'
  BY <1>1 DEF RatesTrue, NoRate
<1>. QED
  BY <1>2, <1>3, <1>4

(* DomainGetXMLDesc: the processor's sample moves on, or all is forgotten. *)
LEMMA DescribeKeeps == ASSUME IInv, Describe PROVE IInv'
<1>. USE DEF IInv
<1>1. /\ UNCHANGED <<power, boot, count, timer, done>> /\ read' = NoReading
      /\ at' \in {"idle", "enable", "measure"}
      /\ marked' \in BOOLEAN /\ markedFor' \in 0 .. MaxBoots
  BY DEF Describe, Forget, guest, TypeOK
<1>2. CASE ~read.known
  <2>1. rate' = rate /\ sample' = [m \in Meters |-> NoReading]
    BY <1>2 DEF Describe, Forget
  <2>2. TypeOK'
    BY <1>1, <2>1, NothingTyped DEF TypeOK
  <2>3. Chronology'
    BY <1>1, <2>1 DEF Chronology, After, NoReading
  <2>4. RatesTrue'
    BY <2>1 DEF RatesTrue
  <2>. QED
    BY <2>2, <2>3, <2>4
<1>3. CASE read.known
  <2>. DEFINE d == Difference(sample["cpu"], read)
  <2>1. rate' = [rate EXCEPT !["cpu"] = d] /\ sample' = [sample EXCEPT !["cpu"] = read]
    BY <1>3 DEF Describe, MeasureProcessor
  <2>2. /\ d \in Rates
        /\ d.known => d.shown <= d.real /\ (d.oneBoot => d.shown = d.real)
    BY <1>3, DifferenceTrue DEF TypeOK, Chronology, Meters
  <2>. HIDE DEF d
  <2>3. TypeOK'
    BY <1>1, <2>1, <2>2, NothingTyped DEF TypeOK
  <2>4. Chronology'
    BY <1>1, <2>1 DEF Chronology, After, NoReading, Reading, TypeOK
  <2>5. RatesTrue'
    BY <2>1, <2>2 DEF RatesTrue, TypeOK
  <2>. QED
    BY <2>3, <2>4, <2>5
<1>. QED
  BY <1>2, <1>3

(* DomainBlockStats: the disk's sample moves on, or is deleted. *)
LEMMA MeasureKeeps == ASSUME IInv, Measure PROVE IInv'
<1>. USE DEF IInv
<1>1. /\ UNCHANGED <<power, boot, count, timer, done, read, marked, markedFor>> /\ at' = "idle"
  BY DEF Measure, guest, marker
<1>2. PICK n \in {count, Width - 1} : MeasureDisk(n)
  BY DEF Measure
<1>3. n \in 0 .. Width - 1
  BY <1>2, SamplesAssumption DEF TypeOK
<1>4. CASE Unfilled(n)
  <2>1. rate' = rate /\ sample' = [sample EXCEPT !["disk"] = NoReading]
    BY <1>2, <1>4 DEF MeasureDisk
  <2>2. TypeOK'
    BY <1>1, <2>1, NothingTyped DEF TypeOK
  <2>3. Chronology'
    BY <1>1, <2>1 DEF Chronology, After, NoReading, Reading, TypeOK, Meters
  <2>4. RatesTrue'
    BY <2>1 DEF RatesTrue
  <2>. QED
    BY <2>2, <2>3, <2>4
<1>5. CASE ~Unfilled(n)
  <2>. DEFINE r == Reading(count)
              d == Difference(sample["disk"], r)
  <2>1. n = count
    BY <1>2, <1>5 DEF Unfilled
  <2>2. rate' = [rate EXCEPT !["disk"] = d] /\ sample' = [sample EXCEPT !["disk"] = r]
    BY <1>2, <1>5, <2>1 DEF MeasureDisk
  <2>3. r \in Readings
    BY <1>3, <2>1, ReadingTyped DEF TypeOK
  <2>4. /\ d \in Rates
        /\ d.known => d.shown <= d.real /\ (d.oneBoot => d.shown = d.real)
    BY <2>3, DifferenceTrue DEF TypeOK, Chronology, Meters
  <2>5. After(r, r) /\ r' = r
    BY <1>1, SamplesAssumption DEF After, Reading, TypeOK
  <2>. HIDE DEF d
  <2>6. TypeOK'
    BY <1>1, <2>2, <2>3, <2>4 DEF TypeOK
  <2>7. Chronology'
    <3>1. \A m \in Meters : After(sample'[m], r)
      BY <2>2, <2>5 DEF Chronology, TypeOK
    <3>2. sample'["cpu"] = sample["cpu"]
      BY <2>2 DEF TypeOK, Meters
    <3>. QED
      BY <1>1, <2>5, <3>1, <3>2 DEF Chronology
  <2>8. RatesTrue'
    BY <2>2, <2>4 DEF RatesTrue, TypeOK
  <2>. QED
    BY <2>6, <2>7, <2>8
<1>. QED
  BY <1>4, <1>5

-----------------------------------------------------------------------------
(* The inductive invariant holds at every moment. *)
THEOREM Invariance == SafeSpec => []IInv
<1>1. Init => IInv
  <2>. SUFFICES ASSUME Init PROVE IInv
    OBVIOUS
  <2>1. TypeOK
    <3>1. read \in Readings /\ sample \in [Meters -> Readings] /\ rate \in [Meters -> Rates]
      BY NothingTyped DEF Init
    <3>2. 0 \in 0 .. MaxBoots /\ 0 \in 0 .. MaxCount
      BY SamplesAssumption
    <3>. QED
      BY <3>1, <3>2 DEF Init, TypeOK
  <2>2. Chronology /\ RatesTrue
    <3>1. /\ ~read.known /\ \A m \in Meters : ~sample[m].known /\ ~rate[m].known
      BY DEF Init, NoReading, NoRate
    <3>. QED
      BY <3>1 DEF Init, Chronology, RatesTrue, After, Meters
  <2>. QED
    BY <2>1, <2>2 DEF IInv
<1>2. ASSUME IInv, [Next]_vars PROVE IInv'
  <2>1. CASE Next
    BY <1>2, <2>1, GuestKeeps, CallsKeep, InfoKeeps, DescribeKeeps, MeasureKeeps DEF Next
  <2>2. CASE UNCHANGED vars
    BY <1>2, <2>2 DEF IInv, vars, guest, figures, marker, TypeOK, Chronology, RatesTrue,
                      After, Reading
  <2>. QED
    BY <1>2, <2>1, <2>2
<1>. QED
  BY <1>1, <1>2, PTL DEF SafeSpec

(* No rate is invented: a row's rate never counts more than the guest did  *)
(* between its two readings (fillDiskLive, cpuPercent).                    *)
THEOREM RatesHold == SafeSpec => []RatesTrue
<1>1. IInv => RatesTrue
  BY DEF IInv
<1>. QED
  BY <1>1, Invariance, PTL

(* The variables keep their types. *)
THEOREM Typed == SafeSpec => []TypeOK
<1>1. IInv => TypeOK
  BY DEF IInv
<1>. QED
  BY <1>1, Invariance, PTL
=============================================================================
