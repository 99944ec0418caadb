---------------------------- MODULE GuestSamples ----------------------------
(***************************************************************************)
(* What internal/libvirtsrc keeps of a running guest from one poll to the  *)
(* next: the counters it differences into rates (prevCPU, prevBlock) and   *)
(* the marker that QEMU's balloon timer was turned on (statsPeriodSet).    *)
(* All are forgotten by a poll that sees the guest not running; a restart  *)
(* between two polls, or between two calls of one, is never seen.          *)
(*                                                                         *)
(* One guest stands for all, and one disk for its disks and network cards  *)
(* (fillNicLive is fillDiskLive again).  Processor time and the disk's     *)
(* bytes are one count here: work the present QEMU process has done.       *)
(* Config.StatsPeriod is positive, and a poll meets no other: pollLoop is  *)
(* the one caller of Poll.                                                 *)
(***************************************************************************)
EXTENDS Integers

CONSTANTS
  MaxBoots,   \* bound: how often the guest is started
  MaxCount,   \* bound: what one QEMU process counts to
  Width       \* an unsigned counter holds 0..Width - 1

ASSUME SamplesAssumption ==
  /\ MaxBoots \in Nat /\ MaxCount \in Nat /\ Width \in Nat
  /\ MaxCount + 1 < Width

Meters == {"cpu", "disk"}

VARIABLES
  power,     \* the domain's state
  boot,      \* which QEMU process, counted from the first
  count,     \* libvirt's cumulative counter: of this process alone
  timer,     \* QEMU's balloon timer runs
  done,      \* history: what the guest has done over all its boots
  at,        \* where the inspection is
  read,      \* what its DomainGetInfo answered
  sample,    \* prevCPU, prevBlock: the last reading of each
  rate,      \* what the last row showed of each
  marked,    \* statsPeriodSet
  markedFor  \* history: the boot whose timer the marker speaks for

guest == <<power, boot, count, timer, done>>
marker == <<marked, markedFor>>
figures == <<sample, rate>>
vars == <<guest, at, read, figures, marker>>

(* A reading, with the moment in the guest's life it was taken. *)
Reading(n) == [known |-> TRUE, n |-> n, boot |-> boot, done |-> done]
NoReading == [known |-> FALSE, n |-> 0, boot |-> 0, done |-> 0]

(* A difference of two readings, beside what the guest did between them. *)
NoRate == [known |-> FALSE, shown |-> 0, real |-> 0, oneBoot |-> FALSE]

(* An unsigned subtraction. *)
Minus(a, b) == IF a >= b THEN a - b ELSE Width + a - b

(* Mutant: a counter that went backwards is not noticed. *)
DifferenceWraps(prev, now) ==
  IF ~prev.known THEN NoRate
  ELSE [known |-> TRUE, shown |-> Minus(now.n, prev.n), real |-> now.done - prev.done,
        oneBoot |-> prev.boot = now.boot]

(* bytesPerSecond, and the same rule in cpuPercent.  The time between the  *)
(* readings is positive; it only divides.                                  *)
Difference(prev, now) ==
  IF ~prev.known \/ now.n < prev.n
  THEN NoRate
  ELSE [known |-> TRUE, shown |-> Minus(now.n, prev.n), real |-> now.done - prev.done,
        oneBoot |-> prev.boot = now.boot]

Init ==
  /\ power = "off" /\ boot = 0 /\ count = 0 /\ timer = FALSE /\ done = 0
  /\ at = "idle" /\ read = NoReading
  /\ sample = [m \in Meters |-> NoReading]
  /\ rate = [m \in Meters |-> NoRate]
  /\ marked = FALSE /\ markedFor = 0

-----------------------------------------------------------------------------
(* The guest.  A fresh QEMU counts from zero and has its timer off.         *)

PowerOn ==
  /\ power = "off" /\ boot < MaxBoots
  /\ power' = "running" /\ boot' = boot + 1 /\ count' = 0 /\ timer' = FALSE
  /\ UNCHANGED <<done, at, read, figures, marker>>

PowerOff ==
  /\ power # "off"
  /\ power' = "off" /\ timer' = FALSE
  /\ UNCHANGED <<boot, count, done, at, read, figures, marker>>

PauseOrResume ==
  /\ power # "off"
  /\ power' = IF power = "running" THEN "paused" ELSE "running"
  /\ UNCHANGED <<boot, count, timer, done, at, read, figures, marker>>

Works ==
  /\ power = "running" /\ count < MaxCount
  /\ count' = count + 1 /\ done' = done + 1
  /\ UNCHANGED <<power, boot, timer, at, read, figures, marker>>

-----------------------------------------------------------------------------
(* The inspection.                                                         *)

(* Every row starts from nothing shown. *)
NewRow == rate' = [m \in Meters |-> NoRate]

(* DomainGetInfo: on an error the row is unknown, and nothing is forgotten. *)
InfoFails ==
  /\ at = "idle"
  /\ NewRow
  /\ UNCHANGED <<guest, at, read, sample, marker>>

(* DomainGetInfo of a guest that is not running gives only its state. *)
Info ==
  /\ at = "idle"
  /\ NewRow
  /\ read' = IF power = "running" THEN Reading(count) ELSE NoReading
  /\ at' = "describe"
  /\ UNCHANGED <<guest, sample, marker>>

(* DomainGetXMLDesc: an error ends the inspection, of a stopped guest too, *)
(* before anything of it is forgotten.                                     *)
DescribeFails ==
  /\ at = "describe"
  /\ at' = "idle" /\ read' = NoReading
  /\ UNCHANGED <<guest, figures, marker>>

(* forgetCPU, forgetDomainSamples, forgetStatsPeriod: for every state but  *)
(* running, a pause too.                                                   *)
Forget ==
  /\ sample' = [m \in Meters |-> NoReading]
  /\ marked' = FALSE
  /\ UNCHANGED <<markedFor, rate>>

(* cpuPercent, and enableStatsPeriod up to its call. *)
MeasureProcessor ==
  /\ rate' = [rate EXCEPT !["cpu"] = Difference(sample["cpu"], read)]
  /\ sample' = [sample EXCEPT !["cpu"] = read]

Describe ==
  /\ at = "describe"
  /\ read' = NoReading
  /\ IF read.known
     THEN /\ MeasureProcessor
          /\ marked' = TRUE
          /\ at' = IF marked THEN "measure" ELSE "enable"
          /\ markedFor' = IF marked THEN markedFor ELSE boot
     ELSE Forget /\ at' = "idle"
  /\ UNCHANGED guest

(* DomainSetMemoryStatsPeriod reaches whichever QEMU runs by then. *)
Enable ==
  /\ at = "enable" /\ power # "off"
  /\ timer' = TRUE /\ markedFor' = boot
  /\ at' = "measure"
  /\ UNCHANGED <<power, boot, count, done, read, figures, marked>>

(* Mutant: the marker stays after a failed call. *)
EnableFailsMarked ==
  /\ at = "enable"
  /\ at' = "measure"
  /\ UNCHANGED <<guest, read, figures, marker>>

(* An error, with the timer on or off: the next poll tries again. *)
EnableFails ==
  /\ at = "enable"
  /\ marked' = FALSE
  /\ at' = "measure"
  /\ \/ timer' = timer
     \/ power # "off" /\ timer' = TRUE
  /\ UNCHANGED <<power, boot, count, done, read, figures, markedFor>>

(* fillDiskLive with an error of DomainBlockStats: the sample stays. *)
MeasureFails ==
  /\ at = "measure"
  /\ at' = "idle"
  /\ UNCHANGED <<guest, read, figures, marker>>

(* A counter libvirt cannot fill is -1: stored as the largest number there *)
(* is, then deleted again.                                                 *)
Unfilled(n) == n = Width - 1

MeasureDisk(n) ==
  IF Unfilled(n)
  THEN /\ sample' = [sample EXCEPT !["disk"] = NoReading]
       /\ UNCHANGED rate
  ELSE /\ sample' = [sample EXCEPT !["disk"] = Reading(n)]
       /\ rate' = [rate EXCEPT !["disk"] = Difference(sample["disk"], Reading(n))]

Measure ==
  /\ at = "measure" /\ power # "off"
  /\ \E n \in {count, Width - 1} : MeasureDisk(n)
  /\ at' = "idle"
  /\ UNCHANGED <<guest, read, marker>>

-----------------------------------------------------------------------------
Next ==
  \/ PowerOn \/ PowerOff \/ PauseOrResume \/ Works
  \/ InfoFails \/ Info \/ DescribeFails \/ Describe
  \/ Enable \/ EnableFails \/ MeasureFails \/ Measure

SafeSpec == Init /\ [][Next]_vars

(* pollLoop polls for ever and every call returns.  Each call that may     *)
(* fail does not fail each time.                                           *)
Fairness ==
  /\ WF_vars(Info) /\ SF_vars(Describe) /\ SF_vars(Enable)
  /\ WF_vars(MeasureFails \/ Measure)

Spec == SafeSpec /\ Fairness

-----------------------------------------------------------------------------
Readings == [known : BOOLEAN, n : 0 .. Width - 1, boot : 0 .. MaxBoots, done : Nat]
Rates == [known : BOOLEAN, shown : 0 .. Width - 1, real : Int, oneBoot : BOOLEAN]

(* The types of the variables. *)
TypeOK ==
  /\ power \in {"off", "running", "paused"} /\ boot \in 0 .. MaxBoots
  /\ count \in 0 .. MaxCount /\ timer \in BOOLEAN /\ done \in Nat
  /\ at \in {"idle", "describe", "enable", "measure"}
  /\ read \in Readings
  /\ sample \in [Meters -> Readings]
  /\ rate \in [Meters -> Rates]
  /\ marked \in BOOLEAN /\ markedFor \in 0 .. MaxBoots

(* No rate is invented.  A row's rate never counts more than the guest did *)
(* between the two readings, through any restarts no poll has seen, errors *)
(* and counters libvirt could not fill; and when both readings are of one  *)
(* boot it counts exactly that.                                            *)
RatesTrue ==
  \A m \in Meters :
    rate[m].known =>
      /\ rate[m].shown <= rate[m].real
      /\ rate[m].oneBoot => rate[m].shown = rate[m].real

(* The balloon timer of a guest that keeps running is turned on in the     *)
(* end, whatever calls failed on the way: a marker that outlived a failed  *)
(* call would keep every later poll from trying.  Only a marker that is    *)
(* left over from an earlier boot excuses it.                              *)
TimerComesOn ==
  (power = "running" /\ ~timer)
    ~> (timer \/ power # "running" \/ (marked /\ markedFor # boot))

(* enableStatsPeriod, "starts QEMU's internal balloon stats polling for a  *)
(* running VM, once per boot of that VM" (source.go:853), and              *)
(* forgetStatsPeriod, "the next boot must re-apply it" (source.go:896):    *)
(* the timer of a guest that keeps running is turned on, whichever boot    *)
(* this is.                                                                *)
StatsPeriodPerBoot ==
  (power = "running" /\ ~timer) ~> (timer \/ power # "running")
=============================================================================
