------------------------ MODULE SnapshotServiceProofs ------------------------
(***************************************************************************)
(* Proofs about SnapshotService, for any guests, zvols and validators and  *)
(* any number of queued fetches and changes: a list marked as fetching has *)
(* a fetch, and a list without an error is a true one, from which what     *)
(* validators answer follows.                                              *)
(***************************************************************************)
EXTENDS SnapshotService, TLAPS

Spots == [place : {"free", "looked", "listing"}, domain : Domains \cup {""},
          found : BOOLEAN, left : SUBSET Zvols, list : SUBSET Zvols, broken : BOOLEAN,
          sweeps : BOOLEAN]

States == [list : SUBSET Zvols, broken : BOOLEAN, stale : BOOLEAN,
           fetching : BOOLEAN, fetched : BOOLEAN]

(* The types the argument needs. *)
Shape ==
  /\ there \subseteq Zvols
  /\ held \in [Domains -> States]
  /\ waiting \in [Domains -> Nat]
  /\ cur \in Spots
  /\ cur.place # "free" => cur.domain \in Domains
  /\ span \in Spans
  /\ basis \in [Domains -> Spans]

(* The fetch under way: what was there all along is there, listed or still *)
(* to be asked for, and what is listed was there at some time.             *)
FetchTrue ==
  cur.place # "free" =>
    /\ cur.place = "listing" => cur.found
    /\ cur.left \subseteq ZvolsOf[cur.domain]
    /\ span.all \subseteq there \cap ZvolsOf[cur.domain]
    /\ there \cap ZvolsOf[cur.domain] \subseteq span.some
    /\ cur.list \subseteq span.some
    /\ cur.found /\ ~cur.broken => span.all \subseteq cur.list \cup cur.left

(* A state that is gone is not being fetched. *)
GoneIdle == \A d \in Domains \ tracked : ~held[d].fetching

IInv == Shape /\ FetchTrue /\ GoneIdle /\ FetchingHasFetch /\ CleanListHeld

LEMMA InitIInv == Init => IInv
<1> SUFFICES ASSUME Init PROVE IInv
  OBVIOUS
<1>1. cur.place = "free" /\ cur \in Spots
  BY DEF Init, NoFetch, Spots
<1>2. \A d \in Domains : held[d] = Fresh /\ basis[d] = Unread
  BY DEF Init
<1>3. Shape
  BY <1>1, DomainsAssumption DEF Init, Shape, States, Spans, Fresh, Unread
<1>4. FetchTrue
  BY <1>1 DEF FetchTrue
<1>5. FetchingHasFetch
  BY <1>2 DEF FetchingHasFetch, Fresh
<1>6. CleanListHeld
  BY <1>2 DEF CleanListHeld, Fresh, Unread
<1>7. GoneIdle
  <2>1. Fresh.fetching = FALSE
    BY DEF Fresh
  <2> QED BY <1>2, <2>1 DEF GoneIdle
<1> QED BY <1>3, <1>4, <1>5, <1>6, <1>7 DEF IInv

(* A request, or a validator that starts to wait: a flag that goes up has  *)
(* its goroutine.                                                          *)
LEMMA FlagKeeps ==
  ASSUME IInv, NEW d \in Domains,
         UNCHANGED <<there, basis, toSweep, cur, span>>,
         tracked' = tracked \cup {d}, UNCHANGED <<held, waiting>> \/ StartFetch(d)
  PROVE  IInv'
<1>1. CASE UNCHANGED <<held, waiting>>
  BY <1>1 DEF IInv, Shape, FetchTrue, GoneIdle, FetchingHasFetch, CleanListHeld, Spans
<1>2. CASE StartFetch(d)
  <2>1. held' = [held EXCEPT ![d] = [@ EXCEPT !.fetching = TRUE]]
    BY <1>2 DEF StartFetch
  <2>2. \A e \in Domains : /\ held'[e].list = held[e].list
                           /\ held'[e].broken = held[e].broken
                           /\ e # d => held'[e] = held[e]
    BY <2>1 DEF IInv, Shape, States
  <2>3. waiting' \in [Domains -> Nat] /\ waiting'[d] > 0
        /\ \A e \in Domains : waiting'[e] >= waiting[e]
    BY <1>2 DEF StartFetch, IInv, Shape
  <2>4. held' \in [Domains -> States]
    BY <2>1 DEF IInv, Shape, States
  <2>5. Shape'
    BY <2>3, <2>4 DEF IInv, Shape, Spans
  <2>6. FetchTrue'
    BY DEF IInv, FetchTrue
  <2>7. FetchingHasFetch'
    BY <2>2, <2>3 DEF IInv, Shape, FetchingHasFetch
  <2>8. CleanListHeld'
    BY <2>2 DEF IInv, CleanListHeld
  <2>9. GoneIdle'
    BY <2>2 DEF IInv, GoneIdle
  <2> QED BY <2>5, <2>6, <2>7, <2>8, <2>9 DEF IInv
<1> QED BY <1>1, <1>2

(* Dropped states promise nothing; queued ones are in the sweep. *)
LEMMA RefreshKeeps ==
  ASSUME IInv, NEW guests \in SUBSET Domains, RefreshAll(guests)
  PROVE  IInv'
<1> DEFINE gone == tracked \ guests
<1>1. PICK queued \in SUBSET Domains :
        /\ held' = [d \in Domains |->
                      IF d \in gone THEN Fresh
                      ELSE IF d \in queued THEN [held[d] EXCEPT !.fetching = TRUE] ELSE held[d]]
        /\ basis' = [d \in Domains |-> IF d \in gone THEN Unread ELSE basis[d]]
        /\ toSweep' = toSweep \cup queued
        /\ tracked' = (tracked \ gone) \cup queued
  BY DEF RefreshAll
<1>2. UNCHANGED <<there, waiting, cur, span>>
  BY DEF RefreshAll, world, fetch
<1> HIDE DEF gone
<1>3. ASSUME NEW d \in Domains
      PROVE  \/ held'[d] = Fresh /\ basis'[d] = Unread
             \/ /\ \/ d \in queued /\ held'[d] = [held[d] EXCEPT !.fetching = TRUE]
                   \/ held'[d] = held[d]
                /\ basis'[d] = basis[d]
  BY <1>1
<1>4. held' \in [Domains -> States] /\ basis' \in [Domains -> Spans]
  <2>1. Fresh \in States /\ Unread \in Spans
    BY DEF Fresh, States, Unread, Spans
  <2>2. \A d \in Domains : held'[d] \in States /\ basis'[d] \in Spans
    BY <1>3, <2>1 DEF IInv, Shape, States
  <2> QED BY <1>1, <2>2
<1>5. Shape'
  BY <1>2, <1>4 DEF IInv, Shape, Spans
<1>6. FetchTrue'
  BY <1>2 DEF IInv, FetchTrue
<1>7. FetchingHasFetch'
  <2> SUFFICES ASSUME NEW d \in Domains, held'[d].fetching
               PROVE  waiting[d] > 0 \/ d \in toSweep' \/ (cur.place # "free" /\ cur.domain = d)
    BY <1>2 DEF FetchingHasFetch
  <2>1. held[d].fetching \/ d \in queued
    <3>1. CASE held'[d] = Fresh
      BY <3>1 DEF Fresh
    <3>2. CASE held'[d] = held[d]
      BY <3>2
    <3> QED BY <1>3, <3>1, <3>2
  <2> QED BY <2>1, <1>1 DEF IInv, FetchingHasFetch
<1>8. CleanListHeld'
  <2> SUFFICES ASSUME NEW d \in Domains, ~held'[d].broken
               PROVE  basis'[d].all \subseteq held'[d].list /\ held'[d].list \subseteq basis'[d].some
    BY DEF CleanListHeld
  <2>1. CASE held'[d] = Fresh /\ basis'[d] = Unread
    BY <2>1 DEF Fresh, Unread
  <2>2. CASE /\ \/ held'[d] = [held[d] EXCEPT !.fetching = TRUE]
                \/ held'[d] = held[d]
             /\ basis'[d] = basis[d]
    BY <2>2 DEF IInv, Shape, States, CleanListHeld
  <2> QED BY <1>3, <2>1, <2>2
<1>9. GoneIdle'
  BY <1>1, <1>3 DEF IInv, GoneIdle, Fresh, gone
<1> QED BY <1>5, <1>6, <1>7, <1>8, <1>9 DEF IInv

(* A fetch gets the slot: its flag, if it has one, is the running one's. *)
LEMMA BeginKeeps ==
  ASSUME IInv, NEW d \in Domains, TakeSlot(d) \/ SweepTakesSlot(d)
  PROVE  IInv'
<1>1. PICK found \in BOOLEAN, sweeps \in BOOLEAN :
        cur' = [NoFetch EXCEPT !.place = "looked", !.domain = d, !.found = found,
                               !.left = IF found THEN ZvolsOf[d] ELSE {}, !.sweeps = sweeps]
  BY DEF TakeSlot, SweepTakesSlot, Begins
<1>2. /\ span' = [all |-> there \cap ZvolsOf[d], some |-> there \cap ZvolsOf[d]]
      /\ UNCHANGED <<there, tracked, held, basis>>
  BY DEF TakeSlot, SweepTakesSlot, Begins, world, lists
<1>3. /\ cur'.place = "looked" /\ cur'.domain = d /\ cur'.list = {} /\ ~cur'.broken
      /\ cur'.left = IF cur'.found THEN ZvolsOf[d] ELSE {}
      /\ cur'.found \in BOOLEAN /\ cur' \in Spots
  BY <1>1, DomainsAssumption DEF NoFetch, Spots
<1>4. /\ waiting' \in [Domains -> Nat]
      /\ \A e \in Domains : e # d => waiting'[e] = waiting[e] /\ (e \in toSweep <=> e \in toSweep')
  <2>1. CASE TakeSlot(d)
    BY <2>1 DEF TakeSlot, IInv, Shape
  <2>2. CASE SweepTakesSlot(d)
    BY <2>2 DEF SweepTakesSlot, IInv, Shape
  <2> QED BY <2>1, <2>2
<1>5. Shape'
  BY <1>2, <1>3, <1>4, DomainsAssumption DEF IInv, Shape, Spans
<1>6. FetchTrue'
  BY <1>2, <1>3, DomainsAssumption DEF FetchTrue
<1>7. FetchingHasFetch'
  <2>1. cur.place = "free"
    BY DEF TakeSlot, SweepTakesSlot, Begins
  <2> QED BY <2>1, <1>2, <1>3, <1>4 DEF IInv, FetchingHasFetch
<1>8. CleanListHeld'
  BY <1>2 DEF IInv, CleanListHeld
<1>9. GoneIdle'
  BY <1>2 DEF IInv, GoneIdle
<1> QED BY <1>5, <1>6, <1>7, <1>8, <1>9 DEF IInv

(* The early return takes the flag down together with the state. *)
LEMMA CheckKeepsIInv ==
  ASSUME IInv, Check
  PROVE  IInv'
<1>0. UNCHANGED <<there, waiting, toSweep>> /\ cur.place = "looked" /\ cur.domain \in Domains
  BY DEF Check, world, sweep, IInv, Shape
<1>1. CASE cur.found /\ cur' = [cur EXCEPT !.place = "listing"] /\ UNCHANGED <<lists, span>>
  <2>1. /\ cur' \in Spots /\ cur'.place = "listing" /\ cur'.domain = cur.domain
        /\ cur'.left = cur.left /\ cur'.list = cur.list /\ cur'.broken = cur.broken
        /\ cur'.found = cur.found
    BY <1>1 DEF IInv, Shape, Spots
  <2>2. UNCHANGED <<tracked, held, basis, span>>
    BY <1>1 DEF lists
  <2>3. Shape'
    BY <1>0, <2>1, <2>2 DEF IInv, Shape
  <2>4. FetchTrue'
    BY <1>0, <1>1, <2>1, <2>2 DEF IInv, FetchTrue
  <2>5. GoneIdle' /\ FetchingHasFetch' /\ CleanListHeld'
    BY <1>0, <2>1, <2>2 DEF IInv, GoneIdle, FetchingHasFetch, CleanListHeld
  <2> QED BY <2>3, <2>4, <2>5 DEF IInv
<1>2. CASE cur' = NoFetch /\ span' = Unread /\ Drop({cur.domain})
  <2>1. cur' \in Spots /\ cur'.place = "free" /\ span' \in Spans
    BY <1>2 DEF NoFetch, Spots, Unread, Spans
  <2>2. /\ held' \in [Domains -> States] /\ basis' \in [Domains -> Spans]
        /\ \A d \in Domains : IF d = cur.domain THEN held'[d] = Fresh /\ basis'[d] = Unread
                                                ELSE held'[d] = held[d] /\ basis'[d] = basis[d]
    <3>1. Fresh \in States /\ Unread \in Spans
      BY DEF Fresh, States, Unread, Spans
    <3> QED BY <1>2, <3>1 DEF Drop, IInv, Shape
  <2>3. Shape'
    BY <1>0, <2>1, <2>2 DEF IInv, Shape
  <2>4. FetchTrue'
    BY <2>1 DEF FetchTrue
  <2>5. FetchingHasFetch'
    BY <1>0, <2>2 DEF IInv, FetchingHasFetch, Fresh
  <2>6. CleanListHeld'
    BY <2>2 DEF IInv, CleanListHeld, Fresh, Unread
  <2>7. GoneIdle'
    BY <1>2, <2>2 DEF IInv, GoneIdle, Fresh, Drop
  <2> QED BY <2>3, <2>4, <2>5, <2>6, <2>7 DEF IInv
<1> QED BY <1>1, <1>2 DEF Check

(* A query, or those not made: what is not asked for any more is listed, or *)
(* was not there all along, or the attempt is broken.                      *)
LEMMA ListKeeps ==
  ASSUME IInv, Cut \/ \E z \in Zvols : ListZvol(z)
  PROVE  IInv'
<1>0. UNCHANGED <<there, tracked, held, basis, waiting, toSweep, span>> /\ cur.place = "listing"
  BY DEF Cut, ListZvol, world, lists, sweep
<1> DEFINE Asked ==
      /\ cur' \in Spots /\ cur'.place = "listing" /\ cur'.domain = cur.domain
      /\ cur'.found = cur.found /\ cur'.left \subseteq cur.left
      /\ cur'.list \subseteq cur.list \cup (there \cap cur.left)
      /\ ~cur'.broken =>
           /\ ~cur.broken /\ cur.list \subseteq cur'.list
           /\ cur.left \cap there \subseteq cur'.left \cup cur'.list
<1>1. Asked
  <2>1. CASE Cut
    BY <2>1 DEF Cut, IInv, Shape, Spots
  <2>2. ASSUME NEW z \in Zvols, ListZvol(z)
        PROVE  Asked
    <3>1. CASE cur' = [cur EXCEPT !.left = @ \ {z}, !.list = @ \cup ({z} \cap there)]
      <4>1. /\ cur'.left = cur.left \ {z} /\ cur'.list = cur.list \cup ({z} \cap there)
            /\ cur'.place = cur.place /\ cur'.domain = cur.domain /\ cur'.found = cur.found
            /\ cur'.broken = cur.broken /\ cur' \in Spots
        BY <3>1 DEF IInv, Shape, Spots
      <4> QED BY <1>0, <2>2, <4>1 DEF ListZvol
    <3>2. CASE cur' = [cur EXCEPT !.left = @ \ {z}, !.broken = TRUE]
      <4>1. /\ cur'.left = cur.left \ {z} /\ cur'.list = cur.list
            /\ cur'.place = cur.place /\ cur'.domain = cur.domain /\ cur'.found = cur.found
            /\ cur'.broken = TRUE /\ cur' \in Spots
        BY <3>2 DEF IInv, Shape, Spots
      <4> QED BY <1>0, <2>2, <4>1 DEF ListZvol
    <3> QED BY <2>2, <3>1, <3>2 DEF ListZvol
  <2> QED BY <2>1, <2>2
<1>2. Shape'
  BY <1>0, <1>1 DEF IInv, Shape
<1>3. FetchTrue'
  BY <1>0, <1>1 DEF IInv, FetchTrue
<1>4. GoneIdle' /\ FetchingHasFetch' /\ CleanListHeld'
  BY <1>0, <1>1 DEF IInv, GoneIdle, FetchingHasFetch, CleanListHeld
<1> QED BY <1>2, <1>3, <1>4 DEF IInv

(* The list goes into the state the guest has, and the flag down. *)
LEMMA EndKeeps ==
  ASSUME IInv, End
  PROVE  IInv'
<1>0. /\ UNCHANGED <<there, tracked, waiting, toSweep>> /\ cur.place = "listing" /\ cur.left = {}
      /\ cur.domain \in Domains /\ cur' = NoFetch /\ span' = Unread
  BY DEF End, world, sweep, IInv, Shape
<1>1. cur' \in Spots /\ cur'.place = "free" /\ span' \in Spans
  BY <1>0 DEF NoFetch, Spots, Unread, Spans
<1>2. FetchTrue'
  BY <1>1 DEF FetchTrue
<1>3. CASE cur.domain \in tracked
  <2> DEFINE d == cur.domain
             what == IF cur.broken THEN NoWord(d) ELSE span
  <2>1. held' = [held EXCEPT ![d] = Filled(held[d])] /\ basis' = [basis EXCEPT ![d] = what]
    BY <1>3 DEF End
  <2>2. Filled(held[d]) \in States /\ ~Filled(held[d]).fetching
    BY <1>0 DEF Filled, IInv, Shape, States, Spots
  <2>3. what \in Spans
    BY <1>0, DomainsAssumption DEF NoWord, Spans, IInv, Shape
  <2>4. ~Filled(held[d]).broken =>
          /\ what.all \subseteq Filled(held[d]).list
          /\ Filled(held[d]).list \subseteq what.some
    <3> SUFFICES ASSUME ~cur.broken
                 PROVE  span.all \subseteq cur.list /\ cur.list \subseteq span.some
      BY DEF Filled
    <3> QED BY <1>0 DEF IInv, FetchTrue
  <2> HIDE DEF d, what
  <2>5. d \in Domains /\ cur.domain = d
    BY <1>0 DEF d
  <2>6. \A e \in Domains : IF e = d THEN held'[e] = Filled(held[d]) /\ basis'[e] = what
                                    ELSE held'[e] = held[e] /\ basis'[e] = basis[e]
    BY <2>1, <2>5 DEF IInv, Shape
  <2>7. Shape'
    BY <1>0, <1>1, <2>1, <2>2, <2>3, <2>5 DEF IInv, Shape
  <2>8. FetchingHasFetch'
    BY <1>0, <2>2, <2>5, <2>6 DEF IInv, FetchingHasFetch
  <2>9. CleanListHeld'
    BY <2>4, <2>6 DEF IInv, CleanListHeld
  <2>10. GoneIdle'
    BY <1>0, <1>3, <2>5, <2>6 DEF IInv, GoneIdle
  <2> QED BY <1>2, <2>7, <2>8, <2>9, <2>10 DEF IInv
<1>4. CASE cur.domain \notin tracked
  <2>1. UNCHANGED <<held, basis>>
    BY <1>4 DEF End
  <2>2. Shape'
    BY <1>0, <1>1, <2>1 DEF IInv, Shape
  <2>3. FetchingHasFetch'
    BY <1>0, <1>4, <2>1 DEF IInv, GoneIdle, FetchingHasFetch
  <2>4. GoneIdle' /\ CleanListHeld'
    BY <1>0, <2>1 DEF IInv, GoneIdle, CleanListHeld
  <2> QED BY <1>2, <2>2, <2>3, <2>4 DEF IInv
<1> QED BY <1>0, <1>3, <1>4

(* A snapshot comes or goes under the fetch, which is told by its span. *)
LEMMA ChangeKeeps ==
  ASSUME IInv, NEW z \in Zvols, SnapshotChanges(z)
  PROVE  IInv'
<1>0. UNCHANGED <<tracked, held, basis, waiting, toSweep, cur>>
  BY DEF SnapshotChanges, lists, sweep
<1>1. there' \subseteq there \cup {z} /\ there \ {z} \subseteq there'
  BY DEF SnapshotChanges
<1>2. GoneIdle' /\ FetchingHasFetch' /\ CleanListHeld'
  BY <1>0 DEF IInv, GoneIdle, FetchingHasFetch, CleanListHeld
<1>3. CASE cur.place # "free" /\ z \in ZvolsOf[cur.domain]
  <2>1. span' = [all |-> span.all \ {z}, some |-> span.some \cup {z}]
    BY <1>3 DEF SnapshotChanges
  <2>2. Shape'
    BY <1>0, <1>1, <2>1 DEF IInv, Shape, Spans
  <2>3. FetchTrue'
    BY <1>0, <1>1, <2>1 DEF IInv, FetchTrue
  <2> QED BY <1>2, <2>2, <2>3 DEF IInv
<1>4. CASE ~(cur.place # "free" /\ z \in ZvolsOf[cur.domain])
  <2>1. span' = span
    BY <1>4 DEF SnapshotChanges
  <2>2. Shape'
    BY <1>0, <1>1, <2>1 DEF IInv, Shape
  <2>3. FetchTrue'
    BY <1>0, <1>1, <1>4, <2>1 DEF IInv, FetchTrue
  <2> QED BY <1>2, <2>2, <2>3 DEF IInv
<1> QED BY <1>3, <1>4

LEMMA NextKeepsIInv == IInv /\ [Next]_vars => IInv'
<1> SUFFICES ASSUME IInv, [Next]_vars PROVE IInv'
  OBVIOUS
<1>1. ASSUME NEW d \in Domains, Request(d) PROVE IInv'
  BY <1>1, FlagKeeps DEF Request, world, sweep, fetch
<1>2. ASSUME NEW d \in Domains, TakeSlot(d) \/ SweepTakesSlot(d) PROVE IInv'
  BY <1>2, BeginKeeps
<1>3. ASSUME NEW guests \in SUBSET Domains, RefreshAll(guests) PROVE IInv'
  BY <1>3, RefreshKeeps
<1>4. ASSUME NEW c \in Validators, NEW q \in Questions, Validate(c, q) PROVE IInv'
  <2>1. q[1] \in Domains
    BY DomainsAssumption
  <2> QED BY <1>4, <2>1, FlagKeeps DEF Validate, world, sweep, fetch
<1>5. CASE /\ UNCHANGED <<there, tracked, held, basis, waiting, toSweep, cur, span>>
  BY <1>5 DEF IInv, Shape, FetchTrue, GoneIdle, FetchingHasFetch, CleanListHeld
<1>6. CASE Fetch
  BY <1>6, CheckKeepsIInv, ListKeeps, EndKeeps DEF Fetch
<1>7. ASSUME NEW z \in Zvols, SnapshotChanges(z) PROVE IInv'
  BY <1>7, ChangeKeeps
<1>8. CASE SweepEnds
  BY <1>8, <1>5 DEF SweepEnds, world, lists, fetch
<1>9. ASSUME NEW c \in Validators, Answered(c) \/ GiveUp(c) PROVE IInv'
  BY <1>9, <1>5 DEF Answered, GiveUp, world, lists, sweep, fetch
<1>10. CASE UNCHANGED vars
  BY <1>10, <1>5 DEF vars, world, lists, sweep, fetch
<1> QED BY <1>1, <1>2, <1>3, <1>4, <1>6, <1>7, <1>8, <1>9, <1>10 DEF Next

(* The inductive invariant of the service. *)
THEOREM Invariance == SafeSpec => []IInv
<1>1. Init => IInv
  BY InitIInv
<1>2. IInv /\ [Next]_vars => IInv'
  BY NextKeepsIInv
<1> QED BY <1>1, <1>2, PTL DEF SafeSpec

(* No list is marked as being fetched with no fetch queued, swept for or   *)
(* running: fetch always clears the flag it was started for.               *)
THEOREM FetchingHasFetchHolds == SafeSpec => []FetchingHasFetch
<1>1. IInv => FetchingHasFetch
  BY DEF IInv
<1> QED BY <1>1, Invariance, PTL

(* A list without an error has what was there all through its fetch and    *)
(* nothing that was there at no time of it.                                *)
THEOREM CleanListHolds == SafeSpec => []CleanListHeld
<1>1. IInv => CleanListHeld
  BY DEF IInv
<1> QED BY <1>1, Invariance, PTL

Waits == looking \in [Validators -> SUBSET Questions]

LEMMA WaitsAlways == SafeSpec => []Waits
<1>1. Init => Waits
  BY DEF Init, Waits
<1>2. ASSUME Waits, [Next]_vars PROVE Waits'
  <2>1. ASSUME NEW c \in Validators, NEW q \in Questions, Validate(c, q) PROVE Waits'
    BY <1>2, <2>1 DEF Validate, Waits
  <2>2. ASSUME NEW c \in Validators, Answered(c) \/ GiveUp(c) PROVE Waits'
    BY <1>2, <2>2 DEF Answered, GiveUp, Waits
  <2>3. CASE UNCHANGED looking
    BY <1>2, <2>3 DEF Waits
  <2>4. ASSUME NEW d \in Domains, Request(d) \/ TakeSlot(d) \/ SweepTakesSlot(d)
        PROVE  UNCHANGED looking
    BY <2>4 DEF Request, TakeSlot, SweepTakesSlot, Begins
  <2>5. Fetch => UNCHANGED looking
    BY DEF Fetch, Check, ListZvol, Cut, End
  <2>6. ASSUME NEW guests \in SUBSET Domains, RefreshAll(guests) PROVE UNCHANGED looking
    BY <2>6 DEF RefreshAll
  <2>7. SweepEnds \/ (\E z \in Zvols : SnapshotChanges(z)) \/ UNCHANGED vars
          => UNCHANGED looking
    BY DEF SweepEnds, SnapshotChanges, vars
  <2> QED BY <1>2, <2>1, <2>2, <2>3, <2>4, <2>5, <2>6, <2>7 DEF Next
<1> QED BY <1>1, <1>2, PTL DEF SafeSpec

(* What a restore's or a delete's check answers is what the last attempt    *)
(* to read the guest's snapshots can bear out.                             *)
THEOREM AnswersFollow == SafeSpec => []AnswersFollowLastFetch
<1>1. ASSUME CleanListHeld, Waits PROVE AnswersFollowLastFetch
  <2>1. ASSUME NEW q \in Domains \X Zvols, Vouches(q)
        PROVE  q[2] \in basis[q[1]].some
    BY <1>1, <2>1 DEF CleanListHeld, Vouches
  <2>2. ASSUME NEW c \in Validators, NEW q \in looking[c]
        PROVE  /\ Answer(q) = "known" => q[2] \in basis[q[1]].some
               /\ Answer(q) = "unknown" => q[2] \notin basis[q[1]].all
    <3>1. q[1] \in Domains
      BY <1>1, DomainsAssumption DEF Waits
    <3>2. CASE held[q[1]].fetching
      BY <3>2 DEF Answer
    <3>3. CASE ~held[q[1]].fetching /\ (q[1] \notin tracked \/ held[q[1]].broken)
      BY <3>3 DEF Answer
    <3>4. CASE ~held[q[1]].fetching /\ q[1] \in tracked /\ ~held[q[1]].broken
      <4>1. Answer(q) = IF q[2] \in held[q[1]].list THEN "known" ELSE "unknown"
        BY <3>4 DEF Answer
      <4> QED BY <1>1, <3>1, <3>4, <4>1 DEF CleanListHeld
    <3> QED BY <3>2, <3>3, <3>4
  <2> QED BY <2>1, <2>2 DEF AnswersFollowLastFetch
<1> QED BY <1>1, CleanListHolds, WaitsAlways, PTL

-----------------------------------------------------------------------------
(* The types the argument above does not need. *)

(* A guest without a state has nothing on record. *)
UntrackedFresh == \A d \in Domains \ tracked : held[d] = Fresh

Others ==
  /\ tracked \subseteq Domains /\ UntrackedFresh
  /\ changes \in 0..MaxChanges
  /\ sweeping \in BOOLEAN /\ toSweep \subseteq Domains
  /\ waiting \in [Domains -> 0..MaxWaiting]

LEMMA OthersInit == Init => Others
<1>. SUFFICES ASSUME Init PROVE Others
  OBVIOUS
<1>1. 0 \in 0..MaxChanges /\ 0 \in 0..MaxWaiting
  BY DomainsAssumption
<1>2. waiting \in [Domains -> 0..MaxWaiting]
  BY <1>1 DEF Init
<1>. QED
  BY <1>1, <1>2 DEF Init, Others, UntrackedFresh

LEMMA OthersKept ==
  ASSUME IInv, Others, [Next]_vars
  PROVE  Others'
<1>a. /\ tracked \subseteq Domains /\ UntrackedFresh /\ changes \in 0..MaxChanges
      /\ sweeping \in BOOLEAN /\ toSweep \subseteq Domains /\ waiting \in [Domains -> 0..MaxWaiting]
  BY DEF Others
<1>b. held \in [Domains -> States]
  BY DEF IInv, Shape
<1>c. MaxWaiting \in Nat /\ MaxChanges \in Nat
  BY DomainsAssumption
<1>. USE DEF world, lists, sweep, fetch
<1>1. ASSUME NEW d \in Domains, UNCHANGED <<changes, sweeping, toSweep>>,
             tracked' = tracked \cup {d}, UNCHANGED <<held, waiting>> \/ StartFetch(d)
      PROVE  Others'
  <2>1. \A e \in Domains \ {d} : held'[e] = held[e]
    BY <1>b, <1>1 DEF StartFetch
  <2>2. waiting' \in [Domains -> 0..MaxWaiting]
    <3>1. waiting[d] < MaxWaiting => waiting[d] + 1 \in 0..MaxWaiting
      <4>1. waiting[d] \in 0..MaxWaiting
        BY <1>a
      <4>. QED
        BY <1>c, <4>1
    <3>. QED
      BY <1>a, <1>1, <3>1 DEF StartFetch
  <2>3. UntrackedFresh'
    BY <1>a, <1>1, <2>1 DEF UntrackedFresh
  <2>. QED
    BY <1>a, <1>1, <2>2, <2>3 DEF Others
<1>2. ASSUME UNCHANGED <<tracked, held, changes, sweeping>>, waiting' \in [Domains -> 0..MaxWaiting],
             toSweep' \subseteq toSweep
      PROVE  Others'
  BY <1>a, <1>2 DEF Others, UntrackedFresh
<1>3. ASSUME NEW d \in Domains, TakeSlot(d) PROVE Others'
  <2>1. waiting[d] - 1 \in 0..MaxWaiting
    <3>1. waiting[d] \in 0..MaxWaiting /\ waiting[d] > 0
      BY <1>a, <1>3 DEF TakeSlot
    <3>. QED
      BY <1>c, <3>1
  <2>2. waiting' \in [Domains -> 0..MaxWaiting]
    BY <1>a, <1>3, <2>1 DEF TakeSlot
  <2>. QED
    BY <1>2, <1>3, <2>2 DEF TakeSlot, Begins
<1>4. ASSUME NEW d \in Domains, SweepTakesSlot(d) PROVE Others'
  BY <1>a, <1>2, <1>4 DEF SweepTakesSlot, Begins
<1>5. ASSUME NEW guests \in SUBSET Domains, RefreshAll(guests) PROVE Others'
  <2>1. PICK queued \in SUBSET guests :
          /\ tracked' = (tracked \ (tracked \ guests)) \cup queued
          /\ held' = [d \in Domains |->
                        IF d \in tracked \ guests THEN Fresh
                        ELSE IF d \in queued THEN [held[d] EXCEPT !.fetching = TRUE] ELSE held[d]]
          /\ toSweep' = toSweep \cup queued
          /\ sweeping' = (sweeping \/ queued # {})
    BY <1>5 DEF RefreshAll
  <2>2. UNCHANGED <<changes, waiting>>
    BY <1>5 DEF RefreshAll
  <2>3. UntrackedFresh'
    <3>. SUFFICES ASSUME NEW d \in Domains, d \notin tracked' PROVE held'[d] = Fresh
      BY DEF UntrackedFresh
    <3>1. d \notin queued
      BY <2>1
    <3>2. CASE d \in tracked \ guests
      BY <2>1, <3>2
    <3>3. CASE d \notin tracked
      BY <1>a, <2>1, <3>1, <3>3 DEF UntrackedFresh
    <3>. QED
      BY <2>1, <3>2, <3>3
  <2>. QED
    BY <1>a, <2>1, <2>2, <2>3 DEF Others
<1>6. CASE SweepEnds
  BY <1>a, <1>6 DEF SweepEnds, Others, UntrackedFresh
<1>7. ASSUME NEW c \in Validators, NEW q \in Questions, Validate(c, q) PROVE Others'
  <2>1. q[1] \in Domains
    BY DomainsAssumption
  <2>. QED
    BY <1>1, <1>7, <2>1 DEF Validate
<1>8. ASSUME NEW c \in Validators, Answered(c) \/ GiveUp(c) PROVE Others'
  BY <1>a, <1>2, <1>8 DEF Answered, GiveUp
<1>9. CASE Check
  <2>1. UNCHANGED <<changes, sweeping, toSweep, waiting>> /\ (UNCHANGED lists \/ Drop({cur.domain}))
    BY <1>9 DEF Check
  <2>2. CASE UNCHANGED lists
    BY <1>a, <1>2, <2>1, <2>2
  <2>3. CASE Drop({cur.domain})
    BY <1>a, <2>1, <2>3 DEF Drop, Others, UntrackedFresh
  <2>. QED
    BY <2>1, <2>2, <2>3
<1>10. ASSUME Cut \/ \E z \in Zvols : ListZvol(z) PROVE Others'
  BY <1>a, <1>2, <1>10 DEF Cut, ListZvol
<1>11. CASE End
  <2>1. UNCHANGED <<changes, tracked, sweeping, toSweep, waiting>>
    BY <1>11 DEF End
  <2>2. \A d \in Domains \ tracked : held'[d] = held[d]
    BY <1>b, <1>11 DEF End
  <2>. QED
    BY <1>a, <2>1, <2>2 DEF Others, UntrackedFresh
<1>12. ASSUME NEW z \in Zvols, SnapshotChanges(z) PROVE Others'
  <2>1. changes' \in 0..MaxChanges
    BY <1>a, <1>c, <1>12 DEF SnapshotChanges
  <2>. QED
    BY <1>a, <1>12, <2>1 DEF SnapshotChanges, Others, UntrackedFresh
<1>13. CASE UNCHANGED vars
  BY <1>a, <1>2, <1>13 DEF vars
<1>. QED
  BY <1>1, <1>3, <1>4, <1>5, <1>6, <1>7, <1>8, <1>9, <1>10, <1>11, <1>12, <1>13 DEF Next, Fetch, Request

(* Every variable has its type; a guest without a state has none of its    *)
(* fields either, whoever dropped it and whatever fetch still ends for it. *)
THEOREM Typing == SafeSpec => []TypeOK
<1>1. IInv /\ Others /\ Waits => TypeOK
  BY DEF IInv, Shape, Others, UntrackedFresh, Waits, TypeOK, States, Spots
<1>. QED
  BY <1>1, OthersInit, OthersKept, Invariance, WaitsAlways, PTL DEF SafeSpec
=============================================================================
