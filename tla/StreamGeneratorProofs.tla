------------------------- MODULE StreamGeneratorProofs -------------------------
(***************************************************************************)
(* Theorems about StreamGenerator: the loop keeps its pace and ends its      *)
(* drain, no event is lost between the walks over the pending list, and each *)
(* order goes through its life in order, for any interval, duration, lags,   *)
(* slow emits and faults.                                                    *)
(***************************************************************************)
EXTENDS StreamGenerator, FiniteSetTheorems, TLAPS

\* The clock and the counters are numbers.
ClockTyped ==
  /\ now \in Nat /\ nextBeat \in Nat /\ beats \in Nat
  /\ deadline \in Nat /\ slow \in Nat

\* The beats are due on a fixed grid, and the last one was not early.
OnTheGrid ==
  /\ nextBeat = beats * Interval
  /\ beats > 0 => nextBeat - Interval =< now

\* No heartbeat once the drain has begun.
NoBeatInDrain == phase \in {"loop", "beat"} => ~draining

\* A round of the drain begins before the deadline: what it loses, slow emits cost.
RoundsBeginInTime ==
  draining => /\ now =< deadline + slow
              /\ phase \in {"walk", "sleep"} => now < deadline + slow

TimeInv == ClockTyped /\ OnTheGrid /\ NoBeatInDrain /\ RoundsBeginInTime

-----------------------------------------------------------------------------
\* One more beat is one more interval.
LEMMA NextOnTheGrid ==
  ASSUME NEW n \in Nat, NEW i \in Nat
  PROVE  /\ (n + 1) * i = n * i + i
         /\ (n - 1) * i = n * i - i
  OBVIOUS

\* run_stream() starts at time zero with the first beat due.
LEMMA TimeHoldsInitially == Init => TimeInv
<1>1. 0 * Interval = 0
  BY ConstantsAssumption
<1> QED
  BY <1>1, ConstantsAssumption
  DEF Init, TimeInv, ClockTyped, OnTheGrid, NoBeatInDrain, RoundsBeginInTime, walk

\* Every step of the loop, and whatever delays or breaks it, keeps the time.
LEMMA TimeIsKept == TimeInv /\ [Next]_vars => TimeInv'
<1> SUFFICES ASSUME TimeInv, [Next]_vars PROVE TimeInv'
  OBVIOUS
<1> USE ConstantsAssumption DEF TimeInv, ClockTyped, OnTheGrid, NoBeatInDrain, RoundsBeginInTime, walk
<1>1. CASE Loop
  <2>1. CASE shutdown \/ now >= Duration
    BY <1>1, <2>1 DEF Loop, DrainSeconds
  <2>2. CASE ~(shutdown \/ now >= Duration)
    BY <1>1, <2>2 DEF Loop
  <2> QED
    BY <2>1, <2>2
<1>2. CASE Keep
  BY <1>2 DEF Keep, Walking
<1>3. CASE Pay
  BY <1>3 DEF Pay, Walking
<1>4. CASE Ship
  BY <1>4 DEF Ship, Walking
<1>5. CASE WalkEnds
  BY <1>5 DEF WalkEnds
<1>6. CASE Beat
  <2>1. /\ now >= nextBeat
        /\ beats' = beats + 1
        /\ nextBeat' = nextBeat + Interval
        /\ phase = "beat" /\ phase' = "sleep"
        /\ UNCHANGED <<now, draining, deadline, slow>>
    BY <1>6 DEF Beat, NextBeat
  <2>2. (beats + 1) * Interval = beats * Interval + Interval
    BY NextOnTheGrid
  <2>3. OnTheGrid'
    BY <2>1, <2>2
  <2> QED
    BY <2>1, <2>3
<1>7. CASE NoBeat
  BY <1>7 DEF NoBeat
<1>8. CASE Sleep
  BY <1>8 DEF Sleep, Poll
<1>9. CASE Drain
  BY <1>9 DEF Drain, DrainIsOver
<1>10. CASE RequestShutdown
  BY <1>10 DEF RequestShutdown
<1>11. CASE SlowEmit
  BY <1>11 DEF SlowEmit
<1>12. CASE EmitRaises
  BY <1>12 DEF EmitRaises
<1>13. CASE UNCHANGED vars
  BY <1>13 DEF vars
<1> QED
  BY <1>1, <1>2, <1>3, <1>4, <1>5, <1>6, <1>7, <1>8, <1>9, <1>10, <1>11, <1>12, <1>13
  DEF Next, Step

\* The grid and the rounds give what the loop promises about time.
LEMMA TimeSuffices == TimeInv => LoopKeepsTime
<1> SUFFICES ASSUME TimeInv PROVE LoopKeepsTime
  OBVIOUS
<1>1. NeverFasterThanThePace
  <2>1. (beats - 1) * Interval = beats * Interval - Interval
    BY NextOnTheGrid, ConstantsAssumption DEF TimeInv, ClockTyped
  <2> QED
    BY <2>1 DEF NeverFasterThanThePace, TimeInv, OnTheGrid
<1>2. DrainIsBounded
  BY DEF DrainIsBounded, TimeInv, RoundsBeginInTime
<1> QED
  BY <1>1, <1>2 DEF LoopKeepsTime

\* However often slow emits make run_stream() late, it creates no more orders than
\* the elapsed time allows, and its drain ends with the first round at the deadline.
THEOREM TimeIsAlwaysKept == Spec => []LoopKeepsTime
  BY TimeHoldsInitially, TimeIsKept, TimeSuffices, PTL DEF Spec
-----------------------------------------------------------------------------
(* The list of pending events while it is walked: kp is what the walk has    *)
(* kept, pd the list, ix the element it is at.                               *)

Event == [due : Nat, kind : {"order_paid", "orders_shipped"}, order : Nat]
Key(e) == <<e.kind, e.order>>

Left(kp, pd, ix) == {kp[k] : k \in DOMAIN kp} \cup {pd[k] : k \in ix..Len(pd)}

\* No two of the events left are about the same thing.
Apart(kp, pd, ix) ==
  /\ \A i, j \in DOMAIN kp : Key(kp[i]) = Key(kp[j]) => i = j
  /\ \A i, j \in ix..Len(pd) : Key(pd[i]) = Key(pd[j]) => i = j
  /\ \A i \in DOMAIN kp : \A j \in ix..Len(pd) : Key(kp[i]) # Key(pd[j])

Walked(kp, pd, ix) ==
  kp \in Seq(Event) /\ pd \in Seq(Event) /\ ix \in 1..(Len(pd) + 1) /\ Apart(kp, pd, ix)

\* Keeping the element the walk is at leaves the same events.
LEMMA KeepLeaves ==
  ASSUME NEW kp, NEW pd, NEW ix, Walked(kp, pd, ix), ix =< Len(pd)
  PROVE  /\ Walked(Append(kp, pd[ix]), pd, ix + 1)
         /\ Left(Append(kp, pd[ix]), pd, ix + 1) = Left(kp, pd, ix)
         /\ Len(Append(kp, pd[ix])) = Len(kp) + 1
<1> DEFINE new == Append(kp, pd[ix])
<1>1. /\ kp \in Seq(Event) /\ pd \in Seq(Event) /\ ix \in 1..Len(pd) /\ Len(pd) \in Nat
      /\ Len(kp) \in Nat /\ DOMAIN kp = 1..Len(kp) /\ pd[ix] \in Event
  BY DEF Walked
<1>2. /\ new \in Seq(Event) /\ Len(new) = Len(kp) + 1 /\ DOMAIN new = 1..(Len(kp) + 1)
      /\ \A k \in DOMAIN kp : new[k] = kp[k]
      /\ new[Len(kp) + 1] = pd[ix]
  BY <1>1
<1> HIDE DEF new
<1>3. Apart(new, pd, ix + 1)
  <2>1. \A k \in DOMAIN new : k \in DOMAIN kp \/ k = Len(kp) + 1
    BY <1>1, <1>2
  <2>2. \A i, j \in DOMAIN new : Key(new[i]) = Key(new[j]) => i = j
    BY <1>1, <1>2, <2>1 DEF Walked, Apart
  <2>3. \A j \in (ix + 1)..Len(pd) : j \in ix..Len(pd) /\ j # ix
    BY <1>1
  <2>4. \A i, j \in ix..Len(pd) : Key(pd[i]) = Key(pd[j]) => i = j
    BY DEF Walked, Apart
  <2>5. \A i \in DOMAIN kp : \A j \in ix..Len(pd) : Key(kp[i]) # Key(pd[j])
    BY DEF Walked, Apart
  <2>6. \A i \in DOMAIN new : \A j \in (ix + 1)..Len(pd) : Key(new[i]) # Key(pd[j])
    BY <1>1, <1>2, <2>1, <2>3, <2>4, <2>5
  <2>7. QED
    BY <2>2, <2>3, <2>4, <2>6 DEF Apart
<1>4. Left(new, pd, ix + 1) = Left(kp, pd, ix)
  <2>1. {new[k] : k \in DOMAIN new} = {kp[k] : k \in DOMAIN kp} \cup {pd[ix]}
    BY <1>1, <1>2
  <2>2. {pd[k] : k \in ix..Len(pd)} = {pd[ix]} \cup {pd[k] : k \in (ix + 1)..Len(pd)}
    BY <1>1
  <2>3. QED
    BY <2>1, <2>2 DEF Left
<1>5. QED
  BY <1>1, <1>2, <1>3, <1>4 DEF Walked, new

\* Passing the element the walk is at leaves the events about other things.
LEMMA TakeLeaves ==
  ASSUME NEW kp, NEW pd, NEW ix, Walked(kp, pd, ix), ix =< Len(pd)
  PROVE  /\ Walked(kp, pd, ix + 1)
         /\ Left(kp, pd, ix + 1) = {e \in Left(kp, pd, ix) : Key(e) # Key(pd[ix])}
<1>1. /\ kp \in Seq(Event) /\ pd \in Seq(Event) /\ ix \in 1..Len(pd) /\ Len(pd) \in Nat
      /\ \A j \in (ix + 1)..Len(pd) : j \in ix..Len(pd) /\ j # ix
      /\ \A j \in ix..Len(pd) : j = ix \/ j \in (ix + 1)..Len(pd)
  BY DEF Walked
<1>2. Walked(kp, pd, ix + 1)
  BY <1>1 DEF Walked, Apart
<1>3. \A k \in DOMAIN kp : Key(kp[k]) # Key(pd[ix])
  BY <1>1 DEF Walked, Apart
<1>4. \A k \in (ix + 1)..Len(pd) : Key(pd[k]) # Key(pd[ix])
  BY <1>1 DEF Walked, Apart
<1>5. ASSUME NEW e \in Left(kp, pd, ix + 1) PROVE e \in Left(kp, pd, ix) /\ Key(e) # Key(pd[ix])
  BY <1>1, <1>3, <1>4, <1>5 DEF Left
<1>6. ASSUME NEW e \in Left(kp, pd, ix), Key(e) # Key(pd[ix]) PROVE e \in Left(kp, pd, ix + 1)
  BY <1>1, <1>6 DEF Left
<1>7. QED
  BY <1>2, <1>5, <1>6

\* An event about something new joins the list at its end, where the walk meets it.
LEMMA GrowLeaves ==
  ASSUME NEW kp, NEW pd, NEW ix, Walked(kp, pd, ix), NEW e \in Event,
         \A f \in Left(kp, pd, ix) : Key(f) # Key(e)
  PROVE  /\ Walked(kp, Append(pd, e), ix)
         /\ Left(kp, Append(pd, e), ix) = Left(kp, pd, ix) \cup {e}
         /\ Len(Append(pd, e)) = Len(pd) + 1
<1> DEFINE new == Append(pd, e)
<1>1. kp \in Seq(Event) /\ pd \in Seq(Event) /\ ix \in 1..(Len(pd) + 1) /\ Len(pd) \in Nat
  BY DEF Walked
<1>2. /\ new \in Seq(Event) /\ Len(new) = Len(pd) + 1
      /\ \A k \in 1..Len(pd) : new[k] = pd[k]
      /\ new[Len(pd) + 1] = e
  BY <1>1
<1> HIDE DEF new
<1>3. \A k \in ix..Len(new) : k = Len(new) \/ k \in ix..Len(pd)
  BY <1>1, <1>2
<1>4. \A k \in ix..Len(pd) : k \in ix..Len(new) /\ new[k] = pd[k] /\ k # Len(new)
  BY <1>1, <1>2
<1>5. (\A k \in ix..Len(pd) : Key(pd[k]) # Key(e)) /\ \A k \in DOMAIN kp : Key(kp[k]) # Key(e)
  BY DEF Left
<1>6. Apart(kp, new, ix)
  <2>1. \A i, j \in ix..Len(new) : Key(new[i]) = Key(new[j]) => i = j
    BY <1>2, <1>3, <1>4, <1>5 DEF Walked, Apart
  <2>2. \A i \in DOMAIN kp : \A j \in ix..Len(new) : Key(kp[i]) # Key(new[j])
    BY <1>2, <1>3, <1>4, <1>5 DEF Walked, Apart
  <2>3. QED
    BY <2>1, <2>2 DEF Walked, Apart
<1>7. {new[k] : k \in ix..Len(new)} = {pd[k] : k \in ix..Len(pd)} \cup {e}
  <2>1. Len(new) \in ix..Len(new)
    BY <1>1, <1>2
  <2>2. QED
    BY <1>2, <1>3, <1>4, <2>1
<1>8. QED
  BY <1>1, <1>2, <1>6, <1>7 DEF Walked, Left, new

\* The list the walk has built is the next one to be walked.
LEMMA SwapLeaves ==
  ASSUME NEW kp, NEW pd, NEW ix, Walked(kp, pd, ix), ix > Len(pd)
  PROVE  /\ Walked(<<>>, kp, 1)
         /\ Left(<<>>, kp, 1) = Left(kp, pd, ix)
         /\ ix = Len(pd) + 1
<1>1. /\ kp \in Seq(Event) /\ pd \in Seq(Event) /\ Len(kp) \in Nat /\ Len(pd) \in Nat
      /\ DOMAIN kp = 1..Len(kp) /\ ix..Len(pd) = {}
      /\ ix = Len(pd) + 1
  BY DEF Walked
<1>2. <<>> \in Seq(Event) /\ DOMAIN <<>> = {} /\ 1 \in 1..(Len(kp) + 1)
  BY <1>1
<1>3. Walked(<<>>, kp, 1)
  BY <1>1, <1>2 DEF Walked, Apart
<1>4. Left(<<>>, kp, 1) = Left(kp, pd, ix)
  BY <1>1, <1>2 DEF Left
<1>5. QED
  BY <1>1, <1>3, <1>4

-----------------------------------------------------------------------------
(* No event is lost.                                                        *)

\* Outside a walk nothing is set aside.
NoWalk == phase \notin {"walk", "raised"} => index = 1 /\ kept = <<>>

\* What waits is what was promised, once each and about orders that exist; a
\* shipment is decided on only once the payment no longer waits.
Accounted ==
  /\ Walked(kept, pending, index)
  /\ IsFiniteSet(promised)
  /\ NothingIsForgotten
  /\ \A e \in Remaining : e.order \in 1..beats
  /\ \A o \in Nat : <<"order_paid", o>> \in promised => <<"orders_shipped", o>> \notin promised

QueueInv == NoWalk /\ Accounted /\ OnlyTheDeadlineDrops

\* What remains is what is left of the walk.
LEMMA RemainingIsLeft == Remaining = Left(kept, pending, index)
  BY DEF Remaining, Left

\* The delays are numbers, and no shorter than their floors.
LEMMA DelaysAreBounded ==
  /\ \A lag \in PaymentLags : PaymentDelay(lag) \in Nat /\ PaymentDelay(lag) >= 3
  /\ \A lag \in ShippingLags : ShippingDelay(lag) \in Nat /\ ShippingDelay(lag) >= 5
<1>1. \A lag \in PaymentLags : lag \in Nat /\ lag \div 6 \in Int
  BY ConstantsAssumption
<1>2. \A lag \in ShippingLags : lag \in Nat /\ lag \div 20 \in Int
  BY ConstantsAssumption
<1>3. QED
  BY <1>1, <1>2 DEF PaymentDelay, ShippingDelay, Compressed

\* Passing the element the walk is at settles exactly what that element promised.
LEMMA SettledIsLeft ==
  ASSUME Accounted, index =< Len(pending), NEW owed, owed = promised \ {Key(Current)}
  PROVE  /\ Current \in Remaining /\ Key(Current) \in promised
         /\ Walked(kept, pending, index + 1)
         /\ Left(kept, pending, index + 1) = {e \in Remaining : Key(e) # Key(Current)}
         /\ IsFiniteSet(owed)
         /\ owed = {Key(e) : e \in Left(kept, pending, index + 1)}
         /\ Cardinality(owed) = Len(kept) + Len(pending) + 1 - (index + 1)
<1>1. /\ Walked(kept, pending, index + 1)
      /\ Left(kept, pending, index + 1) = {e \in Remaining : Key(e) # Key(Current)}
  BY TakeLeaves, RemainingIsLeft DEF Accounted, Current
<1>2. /\ Current \in Remaining
      /\ index \in Nat /\ Len(kept) \in Nat /\ Len(pending) \in Nat
  BY DEF Current, Remaining, Accounted, Walked
<1>3. promised = {Key(e) : e \in Remaining} /\ Key(Current) \in promised
  BY <1>2 DEF Key, Accounted, NothingIsForgotten
<1>4. IsFiniteSet(owed) /\ Cardinality(owed) = Cardinality(promised) - 1
  BY <1>3, FS_RemoveElement DEF Accounted
<1>5. owed = {Key(e) : e \in Left(kept, pending, index + 1)}
  BY <1>1, <1>3
<1>6. Cardinality(owed) = Len(kept) + Len(pending) + 1 - (index + 1)
  BY <1>2, <1>4 DEF Accounted, NothingIsForgotten
<1>7. QED
  BY <1>1, <1>2, <1>3, <1>4, <1>5, <1>6

\* An element of the list that is due is emitted, and nothing comes of it.
LEMMA SettledIsAccounted ==
  ASSUME Accounted, index =< Len(pending),
         index' = index + 1, UNCHANGED <<kept, pending, beats>>,
         promised' = promised \ {Key(Current)}
  PROVE  Accounted' /\ Remaining' = {e \in Remaining : Key(e) # Key(Current)}
<1>1. PICK owed : owed = promised \ {Key(Current)}
  OBVIOUS
<1>2. /\ Walked(kept, pending, index + 1)
      /\ Left(kept, pending, index + 1) = {e \in Remaining : Key(e) # Key(Current)}
      /\ IsFiniteSet(owed)
      /\ owed = {Key(e) : e \in Left(kept, pending, index + 1)}
      /\ Cardinality(owed) = Len(kept) + Len(pending) + 1 - (index + 1)
  BY <1>1, SettledIsLeft
<1>3. Remaining' = Left(kept, pending, index + 1) /\ promised' = owed
  BY <1>1 DEF Remaining, Left
<1>4. NothingIsForgotten'
  BY <1>2, <1>3 DEF NothingIsForgotten, Key
<1>5. QED
  BY <1>1, <1>2, <1>3, <1>4 DEF Accounted

\* An event about something not owed yet is promised and joins the list.
LEMMA PromisedIsAccounted ==
  ASSUME NEW kp, NEW pd, NEW ix, NEW owed, NEW n \in Nat, NEW e \in Event,
         Walked(kp, pd, ix), IsFiniteSet(owed), n =< beats', beats' \in Nat,
         owed = {Key(f) : f \in Left(kp, pd, ix)},
         Cardinality(owed) = Len(kp) + Len(pd) + 1 - ix,
         \A f \in Left(kp, pd, ix) : f.order \in 1..n,
         \A o \in Nat : <<"order_paid", o>> \in owed => <<"orders_shipped", o>> \notin owed,
         e.order \in 1..beats',
         Key(e) \notin owed,
         <<"order_paid", e.order>> \notin owed, <<"orders_shipped", e.order>> \notin owed,
         kept' = kp, pending' = Append(pd, e), index' = ix, promised' = owed \cup {Key(e)}
  PROVE  Accounted' /\ Remaining' = Left(kp, pd, ix) \cup {e}
<1>1. /\ Walked(kp, pending', ix)
      /\ Left(kp, pending', ix) = Left(kp, pd, ix) \cup {e}
      /\ Len(pending') = Len(pd) + 1
  <2>1. \A f \in Left(kp, pd, ix) : Key(f) # Key(e)
    OBVIOUS
  <2>2. QED
    BY <2>1, GrowLeaves
<1>2. Walked(kept, pending, index)' /\ Remaining' = Left(kp, pd, ix) \cup {e}
  BY <1>1 DEF Remaining, Left
<1>3. IsFiniteSet(promised') /\ Cardinality(promised') = Cardinality(owed) + 1
  BY FS_AddElement
<1>4. promised' = {<<f.kind, f.order>> : f \in Remaining'}
  BY <1>2 DEF Key
<1>5. Cardinality(promised') = Len(kept') + Len(pending') + 1 - index'
  <2>1. Len(kp) \in Nat /\ Len(pd) \in Nat /\ ix \in Nat
    BY DEF Walked
  <2>2. QED
    BY <1>1, <1>3, <2>1
<1>6. \A f \in Remaining' : f.order \in 1..beats'
  <2>1. \A k \in 1..n : k \in 1..beats'
    OBVIOUS
  <2>2. QED
    BY <1>2, <2>1
<1>7. \A o \in Nat : <<"order_paid", o>> \in promised' => <<"orders_shipped", o>> \notin promised'
  BY DEF Key, Event
<1>8. QED
  BY <1>2, <1>3, <1>4, <1>5, <1>6, <1>7 DEF Accounted, NothingIsForgotten
\* The pending list is untouched.
LEMMA UntouchedIsAccounted ==
  ASSUME Accounted, UNCHANGED <<kept, pending, index, promised, beats>>
  PROVE  Accounted' /\ Remaining' = Remaining
  BY DEF Accounted, NothingIsForgotten, Remaining

\* The walk moves on, with or without an event set aside; the list is swapped.
LEMMA WalkIsAccounted ==
  ASSUME Accounted, Keep \/ WalkEnds
  PROVE  Accounted' /\ Remaining' = Remaining
<1>a. Len(kept) \in Nat /\ Len(pending) \in Nat /\ index \in Nat
  BY DEF Accounted, Walked
<1>1. ASSUME Walked(kept', pending', index'), Left(kept', pending', index') = Left(kept, pending, index),
             UNCHANGED <<promised, beats>>,
             Len(kept') + Len(pending') - index' = Len(kept) + Len(pending) - index,
             Len(kept') \in Nat, Len(pending') \in Nat, index' \in Nat
      PROVE  Accounted' /\ Remaining' = Remaining
  <2>1. Remaining' = Remaining /\ Walked(kept, pending, index)'
    BY <1>1 DEF Remaining, Left, Walked, Apart
  <2>2. Len(kept') + Len(pending') + 1 - index' = Len(kept) + Len(pending) + 1 - index
    BY <1>1, <1>a
  <2>3. QED
    BY <1>1, <2>1, <2>2 DEF Accounted, NothingIsForgotten
<1>2. CASE Keep
  <2>1. /\ index =< Len(pending) /\ kept' = Append(kept, pending[index]) /\ index' = index + 1
        /\ UNCHANGED <<pending, promised, beats>>
    BY <1>2 DEF Keep, Walking, Current
  <2>2. /\ Walked(Append(kept, pending[index]), pending, index + 1)
        /\ Left(Append(kept, pending[index]), pending, index + 1) = Left(kept, pending, index)
        /\ Len(Append(kept, pending[index])) = Len(kept) + 1
    BY <2>1, KeepLeaves DEF Accounted
  <2>3. Walked(kept', pending', index') /\ Left(kept', pending', index') = Left(kept, pending, index)
    BY <2>1, <2>2
  <2>4. Len(kept') = Len(kept) + 1
    BY <2>1, <2>2
  <2>5. QED
    BY <1>a, <1>1, <2>1, <2>3, <2>4
<1>3. CASE WalkEnds
  <2>1. /\ index > Len(pending) /\ pending' = kept /\ kept' = <<>> /\ index' = 1
        /\ UNCHANGED <<promised, beats>>
    BY <1>3 DEF WalkEnds
  <2>2. /\ Walked(<<>>, kept, 1) /\ Left(<<>>, kept, 1) = Left(kept, pending, index)
        /\ index = Len(pending) + 1
    BY <2>1, SwapLeaves DEF Accounted
  <2>3. Walked(kept', pending', index') /\ Left(kept', pending', index') = Left(kept, pending, index)
    BY <2>1, <2>2
  <2>4. Len(kept') = 0
    BY <2>1
  <2>5. QED
    BY <1>a, <1>1, <2>1, <2>2, <2>3, <2>4
<1>4. QED
  BY <1>2, <1>3

\* What a payment or a shipment that is due leaves: its own promise is met, and a
\* payment may promise the shipment of the same order.
Followup(e) == e \in Event /\ e.kind = "orders_shipped" /\ e.order = Current.order /\ e.due >= now + 5

\* A payment or a shipment settles what is due, and may promise what follows it.
LEMMA DueIsAccounted ==
  ASSUME TimeInv, Accounted, Pay \/ Ship
  PROVE  /\ Accounted'
         /\ \/ Remaining' = {e \in Remaining : Key(e) # Key(Current)}
            \/ /\ Pay
               /\ \E e : /\ Followup(e)
                         /\ Remaining' = {f \in Remaining : Key(f) # Key(Current)} \cup {e}
<1>a. /\ now \in Nat /\ beats \in Nat /\ index =< Len(pending)
      /\ index' = index + 1 /\ UNCHANGED <<kept, beats>>
      /\ Current.kind \in {"order_paid", "orders_shipped"}
  BY DEF TimeInv, ClockTyped, Pay, Ship, Walking
<1>1. PICK owed : owed = promised \ {Key(Current)}
  OBVIOUS
<1>2. /\ Current \in Remaining /\ Key(Current) \in promised
      /\ Walked(kept, pending, index + 1)
      /\ Left(kept, pending, index + 1) = {e \in Remaining : Key(e) # Key(Current)}
      /\ IsFiniteSet(owed)
      /\ owed = {Key(e) : e \in Left(kept, pending, index + 1)}
      /\ Cardinality(owed) = Len(kept) + Len(pending) + 1 - (index + 1)
  BY <1>a, <1>1, SettledIsLeft
<1>3. CASE UNCHANGED pending /\ promised' = promised \ {Key(Current)}
  BY <1>a, <1>3, SettledIsAccounted
<1>4. CASE Pay /\ ~(UNCHANGED pending /\ promised' = promised \ {Key(Current)})
  <2>1. PICK lag \in ShippingLags :
          /\ pending' = Append(pending, Later("orders_shipped", Current.order, ShippingDelay(lag)))
          /\ promised' = (promised \ {<<"order_paid", Current.order>>})
                           \cup {<<"orders_shipped", Current.order>>}
    BY <1>4 DEF Pay, Grown, Key
  <2>2. PICK e : e = Later("orders_shipped", Current.order, ShippingDelay(lag))
    OBVIOUS
  <2>3. Current.kind = "order_paid" /\ Key(Current) = <<"order_paid", Current.order>>
    BY <1>4 DEF Pay, Key
  <2>4. Current.order \in 1..beats
    BY <1>2 DEF Accounted
  <2>5. e = [due |-> now + ShippingDelay(lag), kind |-> "orders_shipped", order |-> Current.order]
    BY <2>2 DEF Later
  <2>6. /\ now + ShippingDelay(lag) \in Nat /\ now + ShippingDelay(lag) >= now + 5
        /\ Current.order \in Nat
    BY <1>a, <2>4, DelaysAreBounded
  <2>7. Followup(e)
    BY <2>5, <2>6 DEF Followup, Event
  <2>8. Key(e) = <<"orders_shipped", Current.order>> /\ e.order = Current.order
    BY <2>5 DEF Key
  <2>9. /\ <<"orders_shipped", Current.order>> \notin owed
        /\ <<"order_paid", Current.order>> \notin owed
    BY <1>1, <1>2, <2>3, <2>6 DEF Accounted
  <2>10. promised' = owed \cup {Key(e)} /\ pending' = Append(pending, e)
    BY <1>1, <2>1, <2>2, <2>3, <2>8
  <2>11. /\ \A f \in Left(kept, pending, index + 1) : f.order \in 1..beats
         /\ \A o \in Nat : <<"order_paid", o>> \in owed => <<"orders_shipped", o>> \notin owed
    BY <1>1, <1>2 DEF Accounted
  <2>12. Accounted' /\ Remaining' = Left(kept, pending, index + 1) \cup {e}
    <3>1. beats' \in Nat /\ beats =< beats' /\ e \in Event /\ e.order \in 1..beats'
      BY <1>a, <2>4, <2>7, <2>8 DEF Followup
    <3>2. /\ Key(e) \notin owed
          /\ <<"order_paid", e.order>> \notin owed /\ <<"orders_shipped", e.order>> \notin owed
      BY <2>8, <2>9
    <3>3. PICK ix : ix = index + 1
      OBVIOUS
    <3>4. /\ Walked(kept, pending, ix) /\ index' = ix /\ kept' = kept
          /\ owed = {Key(f) : f \in Left(kept, pending, ix)}
          /\ Cardinality(owed) = Len(kept) + Len(pending) + 1 - ix
          /\ \A f \in Left(kept, pending, ix) : f.order \in 1..beats
      BY <1>a, <1>2, <2>11, <3>3
    <3>5. IsFiniteSet(owed) /\ beats \in Nat
      BY <1>a, <1>2
    <3>6. \A o \in Nat : <<"order_paid", o>> \in owed => <<"orders_shipped", o>> \notin owed
      BY <2>11
    <3>7. Accounted' /\ Remaining' = Left(kept, pending, ix) \cup {e}
      BY <2>10, <3>1, <3>4, <3>2, <3>5, <3>6, PromisedIsAccounted
    <3>8. QED
      BY <3>3, <3>7
  <2>13. QED
    BY <1>2, <1>4, <2>7, <2>12
<1>5. QED
  BY <1>3, <1>4 DEF Pay, Ship, Key

\* What a heartbeat leaves: it may promise the payment of the order it created.
NewPayment(e) ==
  e \in Event /\ e.kind = "order_paid" /\ e.order = beats + 1 /\ e.due >= now + 3

\* A heartbeat settles nothing, and may promise the payment of its order.
LEMMA BeatIsAccounted ==
  ASSUME TimeInv, Accounted, Beat
  PROVE  /\ Accounted'
         /\ \/ Remaining' = Remaining
            \/ \E e : NewPayment(e) /\ Remaining' = Remaining \cup {e}
<1>a. /\ now \in Nat /\ beats \in Nat /\ beats' = beats + 1 /\ UNCHANGED <<kept, index>>
  BY DEF TimeInv, ClockTyped, Beat, walk
<1>b. \A k \in 1..beats : k \in 1..beats'
  BY <1>a
<1>1. CASE UNCHANGED <<pending, promised>>
  <2>1. Remaining' = Remaining
    BY <1>a, <1>1 DEF Remaining
  <2>2. QED
    BY <1>a, <1>b, <1>1, <2>1 DEF Accounted, NothingIsForgotten
<1>2. CASE ~UNCHANGED <<pending, promised>>
  <2>1. PICK lag \in PaymentLags :
          /\ pending' = Append(pending, Later("order_paid", beats', PaymentDelay(lag)))
          /\ promised' = promised \cup {<<"order_paid", beats'>>}
    BY <1>2 DEF Beat
  <2>2. PICK e : e = Later("order_paid", beats', PaymentDelay(lag))
    OBVIOUS
  <2>3. e = [due |-> now + PaymentDelay(lag), kind |-> "order_paid", order |-> beats + 1]
    BY <1>a, <2>2 DEF Later
  <2>4. now + PaymentDelay(lag) \in Nat /\ now + PaymentDelay(lag) >= now + 3 /\ beats + 1 \in Nat
    BY <1>a, DelaysAreBounded
  <2>5. NewPayment(e)
    BY <2>3, <2>4 DEF NewPayment, Event
  <2>6. Key(e) = <<"order_paid", beats + 1>> /\ e.order = beats + 1 /\ e.order \in 1..beats'
    BY <1>a, <2>3 DEF Key
  <2>7. promised' = promised \cup {Key(e)} /\ pending' = Append(pending, e)
    BY <1>a, <2>1, <2>2, <2>6
  <2>8. PICK owed : owed = promised
    OBVIOUS
  <2>9. /\ Walked(kept, pending, index) /\ IsFiniteSet(owed)
        /\ owed = {Key(f) : f \in Left(kept, pending, index)}
        /\ Cardinality(owed) = Len(kept) + Len(pending) + 1 - index
        /\ \A f \in Left(kept, pending, index) : f.order \in 1..beats
        /\ \A o \in Nat : <<"order_paid", o>> \in owed => <<"orders_shipped", o>> \notin owed
    BY <2>8, RemainingIsLeft DEF Accounted, NothingIsForgotten, Key
  <2>10. /\ <<"order_paid", beats + 1>> \notin owed /\ <<"orders_shipped", beats + 1>> \notin owed
    <3>1. \A f \in Left(kept, pending, index) : f.order # beats + 1
      BY <1>a, <2>9
    <3>2. QED
      BY <2>9, <3>1 DEF Key
  <2>11. Accounted' /\ Remaining' = Left(kept, pending, index) \cup {e}
    <3>1. beats' \in Nat /\ beats =< beats' /\ e \in Event
      BY <1>a, <2>5 DEF NewPayment
    <3>2. QED
      BY <1>a, <2>6, <2>7, <2>8, <2>9, <2>10, <3>1, PromisedIsAccounted
  <2>12. QED
    BY <2>5, <2>11, RemainingIsLeft
<1>3. QED
  BY <1>1, <1>2

\* Nothing waits before the first order.
LEMMA QueueInitially == Init => QueueInv
<1> SUFFICES ASSUME Init PROVE QueueInv
  OBVIOUS
<1>1. /\ pending = <<>> /\ kept = <<>> /\ index = 1 /\ promised = {} /\ phase = "loop"
  BY DEF Init
<1>2. Walked(kept, pending, index)
  BY <1>1 DEF Walked, Apart
<1>3. Remaining = {}
  BY <1>1 DEF Remaining
<1>4. IsFiniteSet({}) /\ Cardinality({}) = 0 /\ Len(<<>>) = 0
  BY FS_EmptySet
<1>5. QED
  BY <1>1, <1>2, <1>3, <1>4 DEF QueueInv, NoWalk, Accounted, NothingIsForgotten, OnlyTheDeadlineDrops

\* Every walk over the list, everything that joins it and the end of the drain
\* keep the account.
LEMMA QueueIsKept == TimeInv /\ QueueInv /\ [Next]_vars => QueueInv'
<1> SUFFICES ASSUME TimeInv, NoWalk, Accounted, OnlyTheDeadlineDrops, [Next]_vars PROVE QueueInv'
  BY DEF QueueInv
<1>1. ASSUME UNCHANGED <<kept, pending, index, promised, beats>>, phase' # "stopped",
             phase' \in {phase, "raised"} \/ phase \notin {"walk", "raised"}
      PROVE  QueueInv'
  BY <1>1, UntouchedIsAccounted DEF QueueInv, NoWalk, OnlyTheDeadlineDrops
<1>2. CASE Loop
  BY <1>1, <1>2 DEF Loop, NoWalk, walk
<1>3. CASE Keep
  BY <1>3, WalkIsAccounted DEF Keep, Walking, QueueInv, NoWalk, OnlyTheDeadlineDrops
<1>4. CASE Pay \/ Ship
  <2>1. phase' = "walk"
    BY <1>4 DEF Pay, Ship, Walking
  <2>2. QED
    BY <1>4, <2>1, DueIsAccounted DEF QueueInv, NoWalk, OnlyTheDeadlineDrops
<1>5. CASE WalkEnds
  <2>1. phase' \in {"beat", "drain", "sleep"} /\ kept' = <<>> /\ index' = 1
    BY <1>5 DEF WalkEnds
  <2>2. QED
    BY <1>5, <2>1, WalkIsAccounted DEF QueueInv, NoWalk, OnlyTheDeadlineDrops
<1>6. CASE Beat
  <2>1. phase = "beat" /\ phase' = "sleep" /\ UNCHANGED <<kept, index>>
    BY <1>6 DEF Beat, walk
  <2>2. QED
    BY <1>6, <2>1, BeatIsAccounted DEF QueueInv, NoWalk, OnlyTheDeadlineDrops
<1>7. CASE NoBeat
  BY <1>1, <1>7 DEF NoBeat, walk
<1>8. CASE Sleep
  BY <1>1, <1>8 DEF Sleep, walk
<1>9. CASE Drain
  <2>1. phase = "drain" /\ UNCHANGED <<kept, pending, index, promised, beats, now, deadline>>
    BY <1>9 DEF Drain, NoWalk, walk
  <2>2. CASE pending = <<>>
    <3>1. Remaining = {}
      BY <2>1, <2>2 DEF Remaining, NoWalk
    <3>2. promised = {}
      BY <3>1 DEF Accounted, NothingIsForgotten
    <3>3. QED
      BY <2>1, <3>2, UntouchedIsAccounted DEF QueueInv, NoWalk, OnlyTheDeadlineDrops
  <2>3. CASE pending # <<>>
    <3>1. (phase' = "stopped" /\ now >= deadline) \/ phase' = "walk"
      BY <1>9, <2>3 DEF Drain, DrainIsOver
    <3>2. QED
      BY <2>1, <3>1, UntouchedIsAccounted DEF QueueInv, NoWalk, OnlyTheDeadlineDrops
  <2>4. QED
    BY <2>2, <2>3
<1>10. CASE RequestShutdown
  BY <1>1, <1>10 DEF RequestShutdown, walk
<1>11. CASE SlowEmit
  BY <1>1, <1>11 DEF SlowEmit, walk
<1>12. CASE EmitRaises
  BY <1>1, <1>12 DEF EmitRaises, walk
<1>13. CASE UNCHANGED vars
  <2>1. UNCHANGED <<kept, pending, index, promised, beats, phase, now, deadline>>
    BY <1>13 DEF vars, walk
  <2>2. QED
    BY <2>1, UntouchedIsAccounted DEF QueueInv, NoWalk, OnlyTheDeadlineDrops
<1>14. QED
  BY <1>2, <1>3, <1>4, <1>5, <1>6, <1>7, <1>8, <1>9, <1>10, <1>11, <1>12, <1>13
  DEF Next, Step

\* Every event that was decided on is emitted, waits exactly once, or was cut off
\* by the drain's deadline.
THEOREM NothingIsLost == Spec => []NoEventIsLost
<1>1. TimeInv /\ QueueInv => NoEventIsLost
  BY DEF QueueInv, Accounted, NoEventIsLost
<1>2. QED
  BY <1>1, TimeHoldsInitially, TimeIsKept, QueueInitially, QueueIsKept, PTL DEF Spec
-----------------------------------------------------------------------------
(* Types.                                                                   *)

\* What TypeOK says beyond the clock and the events that remain.
ListTyped ==
  /\ phase \in {"loop", "walk", "beat", "sleep", "drain", "stopped", "raised"}
  /\ \A k \in DOMAIN pending : pending[k].order \in 1..beats
  /\ Len(kept) < index
  /\ beats =< MaxOrders /\ slow =< MaxSlow /\ faults \in 0..MaxFaults

\* A list with one more element, about an order there is.
LEMMA ListGrown ==
  ASSUME NEW pd \in Seq(Event), NEW e \in Event, NEW n \in Nat, NEW m \in Nat, n =< m,
         \A k \in DOMAIN pd : pd[k].order \in 1..n, e.order \in 1..m
  PROVE  \A k \in DOMAIN Append(pd, e) : Append(pd, e)[k].order \in 1..m
<1> SUFFICES ASSUME NEW k \in DOMAIN Append(pd, e) PROVE Append(pd, e)[k].order \in 1..m
  OBVIOUS
<1>1. k \in 1..(Len(pd) + 1) /\ Append(pd, e)[k] = IF k = Len(pd) + 1 THEN e ELSE pd[k]
  OBVIOUS
<1>2. CASE k = Len(pd) + 1
  BY <1>1, <1>2
<1>3. CASE k \in DOMAIN pd
  <2>1. pd[k].order \in 1..n /\ Append(pd, e)[k] = pd[k]
    BY <1>1, <1>3
  <2>2. QED
    BY <2>1
<1>4. QED
  BY <1>1, <1>2, <1>3

\* Whatever joins the list is about an order that was created.
LEMMA ListStaysTyped == TimeInv /\ QueueInv /\ ListTyped /\ [Next]_vars => ListTyped'
<1> SUFFICES ASSUME TimeInv, QueueInv, ListTyped, [Next]_vars PROVE ListTyped'
  OBVIOUS
<1>a. /\ now \in Nat /\ beats \in Nat /\ slow \in Nat
      /\ kept \in Seq(Event) /\ pending \in Seq(Event) /\ index \in 1..(Len(pending) + 1)
      /\ \A e \in Remaining : e.order \in 1..beats
  BY DEF TimeInv, ClockTyped, QueueInv, Accounted, Walked
<1>1. ASSUME UNCHANGED <<pending, beats, kept, index>>, slow' =< MaxSlow, faults' \in 0..MaxFaults,
             phase' \in {"loop", "walk", "beat", "sleep", "drain", "stopped", "raised"}
      PROVE  ListTyped'
  BY <1>1 DEF ListTyped
<1>2. CASE Loop \/ Drain
  <2>1. /\ UNCHANGED <<pending, beats, slow, faults>> /\ phase' \in {"walk", "drain", "stopped"}
        /\ UNCHANGED <<kept, index>> \/ (kept' = <<>> /\ index' = 1)
    BY <1>2 DEF Loop, Drain, walk
  <2>2. QED
    BY <2>1 DEF ListTyped
<1>3. CASE Keep
  <2>1. /\ kept' = Append(kept, Current) /\ index' = index + 1
        /\ UNCHANGED <<phase, pending, beats, slow, faults>>
    BY <1>3 DEF Keep
  <2>2. Len(kept') = Len(kept) + 1 /\ Len(kept) \in Nat /\ index \in Nat
    BY <1>a, <2>1
  <2>3. QED
    BY <2>1, <2>2 DEF ListTyped
<1>4. CASE Pay \/ Ship
  <2>1. /\ index =< Len(pending) /\ index' = index + 1
        /\ UNCHANGED <<phase, kept, beats, slow, faults>>
    BY <1>4 DEF Pay, Ship, Walking
  <2>2. Len(kept) < index' /\ index \in DOMAIN pending /\ Current \in Event /\ Current.order \in 1..beats
    BY <1>a, <2>1 DEF ListTyped, Current
  <2>3. \/ pending' = pending
        \/ \E lag \in ShippingLags :
             pending' = Append(pending, Later("orders_shipped", Current.order, ShippingDelay(lag)))
    BY <1>4 DEF Pay, Ship, Grown
  <2>4. \A k \in DOMAIN pending' : pending'[k].order \in 1..beats
    <3>1. CASE pending' = pending
      BY <3>1 DEF ListTyped
    <3>2. ASSUME NEW lag \in ShippingLags,
                 pending' = Append(pending, Later("orders_shipped", Current.order, ShippingDelay(lag)))
          PROVE  \A k \in DOMAIN pending' : pending'[k].order \in 1..beats
      <4>1. /\ Later("orders_shipped", Current.order, ShippingDelay(lag)) \in Event
            /\ Later("orders_shipped", Current.order, ShippingDelay(lag)).order \in 1..beats
        BY <1>a, <2>2, DelaysAreBounded DEF Later, Event
      <4>2. QED
        BY <1>a, <3>2, <4>1, ListGrown DEF ListTyped
    <3>3. QED
      BY <2>3, <3>1, <3>2
  <2>5. QED
    BY <2>1, <2>2, <2>4 DEF ListTyped
<1>5. CASE WalkEnds
  <2>1. /\ pending' = kept /\ kept' = <<>> /\ index' = 1 /\ phase' \in {"beat", "drain", "sleep"}
        /\ UNCHANGED <<beats, slow, faults>>
    BY <1>5 DEF WalkEnds
  <2>2. \A k \in DOMAIN kept : kept[k].order \in 1..beats
    BY <1>a DEF Remaining
  <2>3. QED
    BY <2>1, <2>2 DEF ListTyped
<1>6. CASE Beat
  <2>1. /\ beats' = beats + 1 /\ beats < MaxOrders /\ phase' = "sleep" /\ UNCHANGED <<kept, index, slow, faults>>
        /\ \/ pending' = pending
           \/ \E lag \in PaymentLags :
                pending' = Append(pending, Later("order_paid", beats + 1, PaymentDelay(lag)))
    BY <1>6 DEF Beat, walk
  <2>2. \A k \in DOMAIN pending' : pending'[k].order \in 1..(beats + 1)
    <3>1. CASE pending' = pending
      BY <1>a, <3>1 DEF ListTyped
    <3>2. ASSUME NEW lag \in PaymentLags,
                 pending' = Append(pending, Later("order_paid", beats + 1, PaymentDelay(lag)))
          PROVE  \A k \in DOMAIN pending' : pending'[k].order \in 1..(beats + 1)
      <4>1. /\ Later("order_paid", beats + 1, PaymentDelay(lag)) \in Event
            /\ Later("order_paid", beats + 1, PaymentDelay(lag)).order \in 1..(beats + 1)
        BY <1>a, DelaysAreBounded DEF Later, Event
      <4>2. beats + 1 \in Nat /\ beats =< beats + 1
        BY <1>a
      <4>3. QED
        BY <1>a, <3>2, <4>1, <4>2, ListGrown DEF ListTyped
    <3>3. QED
      BY <2>1, <3>1, <3>2
  <2>3. QED
    BY <1>a, <2>1, <2>2, ConstantsAssumption DEF ListTyped
<1>7. CASE NoBeat \/ Sleep \/ RequestShutdown
  BY <1>1, <1>7 DEF NoBeat, Sleep, RequestShutdown, ListTyped, walk
<1>8. CASE SlowEmit
  <2>1. slow' =< MaxSlow
    BY <1>a, <1>8, ConstantsAssumption DEF SlowEmit
  <2>2. QED
    BY <1>1, <1>8, <2>1 DEF SlowEmit, ListTyped, walk
<1>9. CASE EmitRaises
  <2>1. faults' \in 0..MaxFaults
    BY <1>9, ConstantsAssumption DEF EmitRaises, ListTyped
  <2>2. QED
    BY <1>1, <1>9, <2>1 DEF EmitRaises, ListTyped, walk
<1>10. CASE UNCHANGED vars
  BY <1>1, <1>10 DEF vars, walk, ListTyped
<1>11. QED
  BY <1>2, <1>3, <1>4, <1>5, <1>6, <1>7, <1>8, <1>9, <1>10 DEF Next, Step

\* Every variable of the generator stays in its type, whatever the lags and faults.
THEOREM GeneratorTyped == Spec => []TypeOK
<1>1. Init => ListTyped
  <2> SUFFICES ASSUME Init PROVE ListTyped
    OBVIOUS
  <2>1. pending = <<>> /\ kept = <<>> /\ Len(<<>>) = 0 /\ DOMAIN <<>> = {}
    BY DEF Init
  <2>2. QED
    BY <2>1, ConstantsAssumption DEF Init, ListTyped
<1>2. TimeInv /\ QueueInv /\ ListTyped => TypeOK
  <2> SUFFICES ASSUME TimeInv, QueueInv, ListTyped PROVE TypeOK
    OBVIOUS
  <2>1. /\ now \in Nat /\ beats \in Nat /\ slow \in Nat
        /\ pending \in Seq(Event) /\ index \in 1..(Len(pending) + 1)
    BY DEF TimeInv, ClockTyped, QueueInv, Accounted, Walked
  <2>2. \A k \in DOMAIN pending : pending[k] \in Event
    BY <2>1
  <2>3. \A k \in DOMAIN pending : pending[k].kind \in Kinds /\ pending[k].order \in 1..beats
    BY <2>2 DEF ListTyped, Event, Kinds
  <2>4. phase \in {"loop", "walk", "beat", "sleep", "drain", "stopped", "raised"} /\ Len(kept) < index
    BY DEF ListTyped
  <2>5. beats \in 0..MaxOrders /\ slow \in 0..MaxSlow /\ faults \in 0..MaxFaults
    BY <2>1, ConstantsAssumption DEF ListTyped
  <2>6. QED
    BY <2>1, <2>3, <2>4, <2>5 DEF TypeOK
<1>3. QED
  BY <1>1, <1>2, TimeHoldsInitially, TimeIsKept, QueueInitially, QueueIsKept, ListStaysTyped, PTL DEF Spec
-----------------------------------------------------------------------------
(* Every order goes through its life in order.                              *)

Entry == [kind : Kinds, order : Nat, ts : Nat]

\* What an event follows, and how soon at the earliest.
Cause(kind) == IF kind = "order_paid" THEN "order_created" ELSE "order_paid"
Gap(kind) == IF kind = "order_paid" THEN 3 ELSE 5

\* At time ts an event of this kind is not early: what it follows was emitted
\* before place n of the log, and long enough ago.
NotEarly(kind, order, ts, n) ==
  kind = "order_created" \/ \E j \in DOMAIN log : /\ j < n
                                                   /\ log[j].kind = Cause(kind) /\ log[j].order = order
                                                   /\ ts >= log[j].ts + Gap(kind)

Logged(kind, order) == \E k \in DOMAIN log : log[k].kind = kind /\ log[k].order = order

\* A waiting event may be emitted when it is due, and was not emitted before; a
\* payment that waits has no shipment yet.
Awaited(e) ==
  /\ NotEarly(e.kind, e.order, e.due, Len(log) + 1)
  /\ ~Logged(e.kind, e.order)
  /\ e.kind = "order_paid" => ~Logged("orders_shipped", e.order)

Told ==
  /\ log \in Seq(Entry)
  /\ \A k \in DOMAIN log : log[k].order \in 1..beats
  /\ \A j, k \in DOMAIN log : log[j].kind = log[k].kind /\ log[j].order = log[k].order => j = k
  /\ \A k \in DOMAIN log : NotEarly(log[k].kind, log[k].order, log[k].ts, k)

LogInv ==
  /\ cutoff \in Nat /\ (phase = "walk" => cutoff =< now)
  /\ Told
  /\ \A e \in Remaining : Awaited(e)

\* An entry of the log is one.
LEMMA LogTyped == Told => \A k \in DOMAIN log : log[k] \in Entry /\ k \in 1..Len(log)
<1>1. log \in Seq(Entry) => \A k \in DOMAIN log : log[k] \in Entry /\ k \in 1..Len(log)
  OBVIOUS
<1>2. QED
  BY <1>1 DEF Told

\* The log with one more entry.
LEMMA LogGrown ==
  ASSUME log \in Seq(Entry), NEW r \in Entry, log' = Append(log, r)
  PROVE  /\ log' \in Seq(Entry) /\ Len(log) \in Nat /\ Len(log') = Len(log) + 1
         /\ DOMAIN log = 1..Len(log) /\ DOMAIN log' = 1..(Len(log) + 1)
         /\ \A k \in DOMAIN log : k \in DOMAIN log' /\ log'[k] = log[k]
         /\ log'[Len(log) + 1] = r
         /\ \A k \in DOMAIN log' : k \in DOMAIN log \/ k = Len(log) + 1
  OBVIOUS

\* An event that is not early and was not emitted yet may be emitted, and takes
\* nothing from what others wait for.
LEMMA EmitTells ==
  ASSUME Told, NEW kind \in Kinds, NEW order \in 1..beats', beats \in Nat, now \in Nat,
         beats' \in {beats, beats + 1},
         Emit(kind, order), ~Logged(kind, order),
         NotEarly(kind, order, now, Len(log) + 1)
  PROVE  /\ Told'
         /\ Logged(kind, order)'
         /\ \E j \in DOMAIN log' : /\ log'[j].kind = kind /\ log'[j].order = order
                                   /\ log'[j].ts = now /\ j < Len(log') + 1
         /\ \A e \in Event :
              /\ Awaited(e)
              /\ e.kind # kind \/ e.order # order
              /\ ~(e.kind = "order_paid" /\ kind = "orders_shipped" /\ e.order = order)
              => Awaited(e)'
<1>a. PICK r : r = [kind |-> kind, order |-> order, ts |-> now]
  OBVIOUS
<1>b. r \in Entry /\ r.kind = kind /\ r.order = order /\ r.ts = now /\ log' = Append(log, r)
  BY <1>a DEF Emit, Entry
<1>1. /\ log' \in Seq(Entry) /\ Len(log) \in Nat /\ Len(log') = Len(log) + 1
      /\ DOMAIN log = 1..Len(log) /\ DOMAIN log' = 1..(Len(log) + 1)
      /\ \A k \in DOMAIN log : k \in DOMAIN log' /\ log'[k] = log[k]
      /\ log'[Len(log) + 1] = r
      /\ \A k \in DOMAIN log' : k \in DOMAIN log \/ k = Len(log) + 1
  <2>1. log \in Seq(Entry)
    BY DEF Told
  <2>2. QED
    BY <1>b, <2>1, LogGrown
<1>2. \A K, o, t, n : NotEarly(K, o, t, n) => NotEarly(K, o, t, n)'
  BY <1>1 DEF NotEarly
<1>3. \A K, o : Logged(K, o)' <=> Logged(K, o) \/ (K = kind /\ o = order)
  BY <1>b, <1>1 DEF Logged
<1>4. Told'
  <2>1. \A k \in DOMAIN log' : log'[k].order \in 1..beats'
    <3>1. \A n \in 1..beats : n \in 1..beats'
      OBVIOUS
    <3>2. QED
      BY <1>b, <1>1, <3>1 DEF Told
  <2>2. \A j, k \in DOMAIN log' : log'[j].kind = log'[k].kind /\ log'[j].order = log'[k].order => j = k
    BY <1>b, <1>1 DEF Told, Logged
  <2>3. ASSUME NEW k \in DOMAIN log' PROVE NotEarly(log[k].kind, log[k].order, log[k].ts, k)'
    <3>1. CASE k \in DOMAIN log
      <4>1. NotEarly(log[k].kind, log[k].order, log[k].ts, k) /\ log'[k] = log[k]
        BY <1>1, <3>1 DEF Told
      <4>2. QED
        BY <1>1, <4>1 DEF NotEarly
    <3>2. CASE k = Len(log) + 1
      BY <1>b, <1>1, <3>2 DEF NotEarly
    <3>3. QED
      BY <1>1, <3>1, <3>2
  <2>4. QED
    BY <1>1, <2>1, <2>2, <2>3 DEF Told
<1>5. ASSUME NEW e \in Event, Awaited(e), e.kind # kind \/ e.order # order,
             ~(e.kind = "order_paid" /\ kind = "orders_shipped" /\ e.order = order)
      PROVE  Awaited(e)'
  <2>1. NotEarly(e.kind, e.order, e.due, Len(log) + 1)'
    BY <1>1, <1>5 DEF NotEarly, Awaited
  <2>2. ~Logged(e.kind, e.order)' /\ (e.kind = "order_paid" => ~Logged("orders_shipped", e.order)')
    BY <1>3, <1>5 DEF Awaited
  <2>3. QED
    BY <2>1, <2>2 DEF Awaited
<1>6. /\ Logged(kind, order)'
      /\ \E j \in DOMAIN log' : /\ log'[j].kind = kind /\ log'[j].order = order
                                /\ log'[j].ts = now /\ j < Len(log') + 1
  <2>1. Len(log) + 1 \in DOMAIN log' /\ Len(log) + 1 < Len(log') + 1
    BY <1>1
  <2>2. QED
    BY <1>b, <1>1, <1>3, <2>1
<1>7. QED
  BY <1>4, <1>5, <1>6

\* What remains are events.
LEMMA RemainingAreEvents == Accounted => \A e \in Remaining : e \in Event
  BY DEF Accounted, Walked, Remaining

\* While nothing is emitted, the log tells what it told.
LEMMA Silence ==
  ASSUME Told, \A e \in Remaining : Awaited(e), UNCHANGED <<log, beats>>, Remaining' = Remaining
  PROVE  Told' /\ \A e \in Remaining' : Awaited(e)'
  BY DEF Told, Awaited, NotEarly, Logged

\* A payment or a shipment that is due follows what it waits for.
LEMMA DueTells ==
  ASSUME TimeInv, Accounted, LogInv, Pay \/ Ship
  PROVE  Told' /\ \A e \in Remaining' : Awaited(e)'
<1>a. /\ now \in Nat /\ beats \in Nat /\ beats' = beats /\ cutoff \in Nat /\ cutoff =< now
      /\ index =< Len(pending) /\ Current.due =< cutoff
      /\ Current.kind \in {"order_paid", "orders_shipped"}
      /\ Emit(Current.kind, Current.order)
  <2>1. now \in Nat /\ beats \in Nat /\ cutoff \in Nat
    BY DEF TimeInv, ClockTyped, LogInv
  <2>2. /\ beats' = beats /\ index =< Len(pending) /\ ~NotDue /\ phase = "walk"
        /\ Current.kind \in {"order_paid", "orders_shipped"}
        /\ Emit(Current.kind, Current.order)
    BY DEF Pay, Ship, Walking
  <2>3. Current.due \in Nat
    BY <2>2, SettledIsLeft, RemainingAreEvents DEF Event
  <2>4. QED
    BY <2>1, <2>2, <2>3 DEF NotDue, LogInv
<1>1. /\ Current \in Remaining /\ Current \in Event /\ Current.order \in 1..beats
      /\ Key(Current) \in promised /\ promised = {Key(e) : e \in Remaining}
  <2>1. Current \in Remaining /\ Key(Current) \in promised
    BY <1>a, SettledIsLeft
  <2>2. QED
    BY <2>1, RemainingAreEvents DEF Accounted, NothingIsForgotten, Key
<1>2. /\ NotEarly(Current.kind, Current.order, Current.due, Len(log) + 1)
      /\ ~Logged(Current.kind, Current.order)
      /\ Current.kind = "order_paid" => ~Logged("orders_shipped", Current.order)
  BY <1>1 DEF LogInv, Awaited
<1>3. NotEarly(Current.kind, Current.order, now, Len(log) + 1)
  <2>1. \A j \in DOMAIN log : log[j].ts \in Nat
    BY LogTyped DEF LogInv, Entry
  <2>2. Current.due \in Nat /\ now >= Current.due
    BY <1>a, <1>1 DEF Event
  <2>3. \A j \in DOMAIN log : Current.due >= log[j].ts + Gap(Current.kind) => now >= log[j].ts + Gap(Current.kind)
    BY <1>a, <2>1, <2>2 DEF Gap
  <2>4. QED
    BY <1>2, <2>3 DEF NotEarly
<1>4. PICK kind, order : kind = Current.kind /\ order = Current.order
  OBVIOUS
<1>5. /\ Told'
      /\ \E j \in DOMAIN log' : /\ log'[j].kind = kind /\ log'[j].order = order
                                /\ log'[j].ts = now /\ j < Len(log') + 1
      /\ \A e \in Event :
           /\ Awaited(e)
           /\ e.kind # kind \/ e.order # order
           /\ ~(e.kind = "order_paid" /\ kind = "orders_shipped" /\ e.order = order)
           => Awaited(e)'
      /\ \A o : Logged("orders_shipped", o)' => Logged("orders_shipped", o) \/ kind = "orders_shipped"
  <2>1. kind \in Kinds /\ order \in 1..beats' /\ Told
    BY <1>a, <1>1, <1>4 DEF Kinds, LogInv
  <2>2. Emit(kind, order) /\ ~Logged(kind, order) /\ NotEarly(kind, order, now, Len(log) + 1)
    BY <1>a, <1>2, <1>3, <1>4
  <2>3. \A o : Logged("orders_shipped", o)' => Logged("orders_shipped", o) \/ kind = "orders_shipped"
    <3>1. PICK r : r = [kind |-> kind, order |-> order, ts |-> now]
      OBVIOUS
    <3>2. r \in Entry /\ log' = Append(log, r) /\ log \in Seq(Entry) /\ r.kind = kind
      BY <1>a, <2>1, <2>2, <3>1 DEF Emit, Entry, Told
    <3>3. \A k \in DOMAIN log' : (k \in DOMAIN log /\ log'[k] = log[k]) \/ log'[k] = r
      BY <3>2, LogGrown
    <3>4. QED
      BY <3>2, <3>3 DEF Logged
  <2>4. beats' \in {beats, beats + 1}
    BY <1>a
  <2>5. QED
    BY <1>a, <2>1, <2>2, <2>3, <2>4, EmitTells
<1>6. ASSUME NEW e \in Remaining, Key(e) # Key(Current) PROVE Awaited(e)'
  <2>1. e \in Event /\ Awaited(e) /\ Key(e) \in promised
    BY <1>1, RemainingAreEvents DEF LogInv
  <2>2. e.kind # kind \/ e.order # order
    BY <1>4, <1>6 DEF Key
  <2>3. ~(e.kind = "order_paid" /\ kind = "orders_shipped" /\ e.order = order)
    BY <1>1, <1>4, <2>1 DEF Accounted, Key, Event
  <2>4. QED
    BY <1>5, <2>1, <2>2, <2>3
<1>7. ASSUME Pay, NEW e, Followup(e) PROVE Awaited(e)'
  <2>1. kind = "order_paid" /\ e.kind = "orders_shipped" /\ e.order = order /\ e.due >= now + 5
    BY <1>4, <1>7 DEF Pay, Followup
  <2>2. ~Logged("orders_shipped", order)'
    BY <1>2, <1>4, <1>5, <2>1
  <2>3. NotEarly(e.kind, e.order, e.due, Len(log) + 1)'
    BY <1>5, <2>1 DEF NotEarly, Cause, Gap
  <2>4. QED
    BY <2>1, <2>2, <2>3 DEF Awaited
<1>8. QED
  BY <1>5, <1>6, <1>7, DueIsAccounted

\* A heartbeat creates the next order, which nobody has heard of.
LEMMA BeatTells ==
  ASSUME TimeInv, Accounted, LogInv, Beat
  PROVE  Told' /\ \A e \in Remaining' : Awaited(e)'
<1>a. now \in Nat /\ beats \in Nat /\ beats' = beats + 1 /\ Emit("order_created", beats')
  BY DEF TimeInv, ClockTyped, Beat
<1>1. PICK order : order = beats + 1
  OBVIOUS
<1>2. \A K : ~Logged(K, order)
  BY <1>a, <1>1 DEF Logged, LogInv, Told
<1>3. /\ Told'
      /\ \E j \in DOMAIN log' : /\ log'[j].kind = "order_created" /\ log'[j].order = order
                                /\ log'[j].ts = now /\ j < Len(log') + 1
      /\ \A e \in Event :
           /\ Awaited(e)
           /\ e.kind # "order_created" \/ e.order # order
           /\ ~(e.kind = "order_paid" /\ "order_created" = "orders_shipped" /\ e.order = order)
           => Awaited(e)'
  <2>1. /\ "order_created" \in Kinds /\ order \in 1..beats' /\ Told /\ beats' \in {beats, beats + 1}
        /\ Emit("order_created", order) /\ ~Logged("order_created", order)
        /\ NotEarly("order_created", order, now, Len(log) + 1)
    BY <1>a, <1>1, <1>2 DEF Kinds, LogInv, NotEarly
  <2>2. QED
    BY <1>a, <2>1, EmitTells
<1>4. ASSUME NEW e \in Remaining PROVE Awaited(e)'
  <2>1. e \in Event /\ Awaited(e) /\ e.order \in 1..beats
    BY RemainingAreEvents DEF LogInv, Accounted
  <2>2. e.order # order
    BY <1>a, <1>1, <2>1
  <2>3. QED
    BY <1>3, <2>1, <2>2
<1>5. ASSUME NEW e, NewPayment(e) PROVE Awaited(e)'
  <2>1. e.kind = "order_paid" /\ e.order = order /\ e.due >= now + 3
    BY <1>1, <1>5 DEF NewPayment
  <2>2. NotEarly(e.kind, e.order, e.due, Len(log) + 1)'
    BY <1>3, <2>1 DEF NotEarly, Cause, Gap
  <2>3. ~Logged("order_paid", order)' /\ ~Logged("orders_shipped", order)'
    <3>1. PICK r : r = [kind |-> "order_created", order |-> order, ts |-> now]
      OBVIOUS
    <3>2. r \in Entry /\ log' = Append(log, r) /\ log \in Seq(Entry) /\ r.kind = "order_created"
      BY <1>a, <1>1, <3>1 DEF Emit, Entry, Kinds, LogInv, Told
    <3>3. \A k \in DOMAIN log' : (k \in DOMAIN log /\ log'[k] = log[k]) \/ log'[k] = r
      BY <3>2, LogGrown
    <3>4. QED
      BY <1>2, <3>2, <3>3 DEF Logged
  <2>4. QED
    BY <2>1, <2>2, <2>3 DEF Awaited
<1>6. QED
  BY <1>3, <1>4, <1>5, BeatIsAccounted

\* Every step keeps the log in order.
LEMMA LogIsKept == TimeInv /\ QueueInv /\ LogInv /\ [Next]_vars => LogInv'
<1> SUFFICES ASSUME TimeInv, NoWalk, Accounted, LogInv, [Next]_vars PROVE LogInv'
  BY DEF QueueInv
<1>a. now \in Nat /\ cutoff \in Nat
  BY DEF TimeInv, ClockTyped, LogInv
<1>1. ASSUME UNCHANGED <<log, beats>>, Remaining' = Remaining, now' \in Nat, cutoff' \in Nat,
             phase' = "walk" => cutoff' =< now'
      PROVE  LogInv'
  BY <1>1, Silence DEF LogInv
<1>2. CASE Loop
  <2>1. Remaining' = Remaining
    BY <1>2 DEF Loop, NoWalk, walk, Remaining
  <2>2. QED
    BY <1>1, <1>2, <1>a, <2>1 DEF Loop, walk
<1>3. CASE Keep \/ WalkEnds
  <2>1. /\ UNCHANGED <<log, beats, now, cutoff>> /\ phase = "walk"
    BY <1>3 DEF Keep, WalkEnds, Walking
  <2>2. QED
    BY <1>1, <1>3, <1>a, <2>1, WalkIsAccounted DEF LogInv
<1>4. CASE Pay \/ Ship
  <2>1. UNCHANGED <<now, cutoff>> /\ phase = "walk"
    BY <1>4 DEF Pay, Ship, Walking
  <2>2. QED
    BY <1>4, <1>a, <2>1, DueTells DEF LogInv
<1>5. CASE Beat
  <2>1. UNCHANGED <<now, cutoff>> /\ phase' = "sleep"
    BY <1>5 DEF Beat, walk
  <2>2. QED
    BY <1>5, <1>a, <2>1, BeatTells DEF LogInv
<1>6. CASE NoBeat \/ RequestShutdown \/ EmitRaises \/ Sleep \/ SlowEmit \/ UNCHANGED vars
  <2>1. UNCHANGED <<log, beats, cutoff, kept, pending, index>>
    BY <1>6 DEF NoBeat, RequestShutdown, EmitRaises, Sleep, SlowEmit, vars, walk
  <2>2. Remaining' = Remaining
    BY <2>1 DEF Remaining
  <2>3. now' \in {now, now + 1} /\ (phase' = "walk" => phase = "walk")
    BY <1>6 DEF NoBeat, RequestShutdown, EmitRaises, Sleep, SlowEmit, vars, Poll
  <2>4. QED
    BY <1>1, <1>a, <2>1, <2>2, <2>3 DEF LogInv
<1>7. CASE Drain
  <2>1. Remaining' = Remaining
    BY <1>7 DEF Drain, NoWalk, walk, Remaining
  <2>2. QED
    BY <1>1, <1>7, <1>a, <2>1 DEF Drain, walk
<1>8. QED
  BY <1>2, <1>3, <1>4, <1>5, <1>6, <1>7 DEF Next, Step

\* Entries that are unique and not early are a life in order.
LEMMA LogSuffices == Told => LifecycleInOrder
<1> SUFFICES ASSUME Told, NEW k \in DOMAIN log
             PROVE  LET e == log[k]
                        after == CASE e.kind = "order_paid" -> EmittedAt("order_created", e.order)
                                   [] e.kind = "orders_shipped" -> EmittedAt("order_paid", e.order)
                                   [] OTHER -> {0}
                        gap == CASE e.kind = "order_paid" -> 3
                                 [] e.kind = "orders_shipped" -> 5 [] OTHER -> 0
                    IN /\ Cardinality(EmittedAt(e.kind, e.order)) = 1
                       /\ \E j \in after : j < k /\ (j = 0 \/ e.ts >= log[j].ts + gap)
  BY DEF LifecycleInOrder
<1>1. log[k].kind \in Kinds /\ k \in 1..Len(log)
  BY LogTyped DEF Entry
<1>2. Cardinality(EmittedAt(log[k].kind, log[k].order)) = 1
  <2>1. EmittedAt(log[k].kind, log[k].order) = {k}
    BY DEF EmittedAt, Told
  <2>2. QED
    BY <2>1, FS_Singleton
<1>3. NotEarly(log[k].kind, log[k].order, log[k].ts, k)
  BY DEF Told
<1>4. CASE log[k].kind = "order_paid"
  BY <1>2, <1>3, <1>4 DEF NotEarly, Cause, Gap, EmittedAt
<1>5. CASE log[k].kind = "orders_shipped"
  BY <1>2, <1>3, <1>5 DEF NotEarly, Cause, Gap, EmittedAt
<1>6. CASE log[k].kind = "order_created"
  BY <1>1, <1>2, <1>6
<1>7. QED
  BY <1>1, <1>4, <1>5, <1>6 DEF Kinds

\* An order is paid once and after it was created, shipped once and after it was
\* paid, and no event is emitted before its delay has passed.
THEOREM LivesAreInOrder == Spec => []LifecycleInOrder
<1>1. Init => LogInv
  <2> SUFFICES ASSUME Init PROVE LogInv
    OBVIOUS
  <2>1. log = <<>> /\ Remaining = {} /\ cutoff = 0 /\ now = 0
    BY DEF Init, Remaining
  <2>2. Told
    BY <2>1 DEF Told
  <2>3. QED
    BY <2>1, <2>2 DEF LogInv
<1>2. LogInv => LifecycleInOrder
  BY LogSuffices DEF LogInv
<1>3. QED
  BY <1>1, <1>2, TimeHoldsInitially, TimeIsKept, QueueInitially, QueueIsKept, LogIsKept, PTL DEF Spec
===============================================================================
