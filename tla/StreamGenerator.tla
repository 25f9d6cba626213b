---------------------------- MODULE StreamGenerator ----------------------------
(***************************************************************************)
(* synthetic/stream_generator.py: run_stream() emits an order at a steady    *)
(* pace and chains its payment and its shipment, each after a compressed     *)
(* delay, through one list of pending events that is walked while it grows.  *)
(* Time is counted in seconds.  The standalone price and inventory events    *)
(* and the deliberately invalid copies are left out.                         *)
(***************************************************************************)
EXTENDS Integers, Sequences, FiniteSets

CONSTANTS
  MaxOrders,    \* bound: orders created
  PaymentLags,  \* payment lags drawn, in minutes
  ShippingLags, \* shipping lags drawn, in minutes
  Interval,     \* tick_interval
  Duration,     \* duration_seconds
  MaxSlow,      \* bound: seconds lost in slow emits
  MaxFaults     \* bound: emits that raise

ASSUME ConstantsAssumption ==
  /\ MaxOrders \in Nat /\ Interval \in Nat \ {0} /\ Duration \in Nat
  /\ PaymentLags \subseteq Nat /\ ShippingLags \subseteq Nat
  /\ MaxSlow \in Nat /\ MaxFaults \in Nat

VARIABLES
  now,       \* time.monotonic()
  phase,     \* where run_stream() is
  pending,   \* state.pending: the events that are due later
  index,     \* the element _process_pending() is at
  cutoff,    \* its now, read once
  kept,      \* its still_pending
  draining,  \* has the main loop ended?
  deadline,  \* drain_deadline
  nextBeat,  \* next_heartbeat_due
  beats,     \* heartbeats
  shutdown,  \* _SHUTDOWN_REQUESTED
  log,       \* history: the events emitted, with their event_ts
  promised,  \* history: the events decided on and not emitted yet
  slow, faults

walk == <<index, cutoff, kept>>
vars == <<now, phase, pending, walk, draining, deadline, nextBeat, beats, shutdown, log,
          promised, slow, faults>>

Poll == 1
DrainSeconds == 15
Kinds == {"order_created", "order_paid", "orders_shipped"}

TypeOK ==
  /\ now \in Nat /\ beats \in 0..MaxOrders
  /\ phase \in {"loop", "walk", "beat", "sleep", "drain", "stopped", "raised"}
  /\ \A e \in {pending[k] : k \in DOMAIN pending} : e.kind \in Kinds /\ e.order \in 1..beats
  /\ index \in 1..(Len(pending) + 1)
  /\ Len(kept) < index
  /\ slow \in 0..MaxSlow /\ faults \in 0..MaxFaults

Init ==
  /\ now = 0 /\ phase = "loop"
  /\ pending = <<>> /\ index = 1 /\ cutoff = 0 /\ kept = <<>>
  /\ draining = FALSE /\ deadline = 0
  /\ nextBeat = 0 /\ beats = 0 /\ shutdown = FALSE
  /\ log = <<>> /\ promised = {} /\ slow = 0 /\ faults = 0

-----------------------------------------------------------------------------
\* _compressed_seconds()
Compressed(lag, floor, ceil, divisor) ==
  LET s == lag \div divisor
  IN IF s < floor THEN floor ELSE IF s > ceil THEN ceil ELSE s
PaymentDelay(lag) == Compressed(lag, 3, 25, 6)
ShippingDelay(lag) == Compressed(lag, 5, 40, 20)

Later(kind, order, delay) == [due |-> now + delay, kind |-> kind, order |-> order]
Emit(kind, order) == log' = Append(log, [kind |-> kind, order |-> order, ts |-> now])

\* The top of the main loop.
Loop ==
  /\ phase = "loop"
  /\ IF shutdown \/ now >= Duration
     THEN /\ draining' = TRUE /\ deadline' = now + DrainSeconds
          /\ phase' = "drain" /\ UNCHANGED walk
     ELSE /\ phase' = "walk" /\ index' = 1 /\ cutoff' = now /\ kept' = <<>>
          /\ UNCHANGED <<draining, deadline>>
  /\ UNCHANGED <<now, pending, nextBeat, beats, shutdown, log, promised, slow, faults>>

-----------------------------------------------------------------------------
(* _process_pending()                                                       *)

Current == pending[index]
Walking == phase = "walk" /\ index =< Len(pending)

NotDueSwapped == Current.due < cutoff
NotDue == Current.due > cutoff

Keep ==
  /\ Walking /\ NotDue
  /\ kept' = Append(kept, Current) /\ index' = index + 1
  /\ UNCHANGED <<now, phase, pending, cutoff, draining, deadline, nextBeat, beats, shutdown,
                 log, promised, slow, faults>>

\* The shipment is appended to the list that is being walked, and will be met there;
\* a walk over a copy of the list would not meet it.
GrownBehindTheWalk(e) == <<e>> \o pending
Grown(e) == Append(pending, e)

Pay ==
  /\ Walking /\ ~NotDue /\ Current.kind = "order_paid"
  /\ Emit("order_paid", Current.order)
  /\ \/ /\ promised' = promised \ {<<"order_paid", Current.order>>}
        /\ UNCHANGED pending
     \/ \E lag \in ShippingLags :
          /\ pending' = Grown(Later("orders_shipped", Current.order, ShippingDelay(lag)))
          /\ promised' = (promised \ {<<"order_paid", Current.order>>})
                           \cup {<<"orders_shipped", Current.order>>}
  /\ index' = index + 1
  /\ UNCHANGED <<now, phase, cutoff, kept, draining, deadline, nextBeat, beats, shutdown, slow, faults>>

Ship ==
  /\ Walking /\ ~NotDue /\ Current.kind = "orders_shipped"
  /\ Emit("orders_shipped", Current.order)
  /\ promised' = promised \ {<<"orders_shipped", Current.order>>}
  /\ index' = index + 1
  /\ UNCHANGED <<now, phase, pending, cutoff, kept, draining, deadline, nextBeat, beats, shutdown,
                 slow, faults>>

WalkEnds ==
  /\ phase = "walk" /\ index > Len(pending)
  /\ pending' = kept /\ kept' = <<>> /\ index' = 1
  /\ phase' = IF ~draining THEN "beat" ELSE IF kept = <<>> THEN "drain" ELSE "sleep"
  /\ UNCHANGED <<now, cutoff, draining, deadline, nextBeat, beats, shutdown, log, promised, slow, faults>>

-----------------------------------------------------------------------------
(* _heartbeat() and the pace of the loop                                     *)

NextBeatFromNow == now
NextBeat == nextBeat + Interval

Beat ==
  /\ phase = "beat" /\ now >= nextBeat /\ beats < MaxOrders
  /\ beats' = beats + 1
  /\ Emit("order_created", beats')
  /\ \/ UNCHANGED <<pending, promised>>
     \/ \E lag \in PaymentLags :
          /\ pending' = Append(pending, Later("order_paid", beats', PaymentDelay(lag)))
          /\ promised' = promised \cup {<<"order_paid", beats'>>}
  /\ nextBeat' = NextBeat
  /\ phase' = "sleep"
  /\ UNCHANGED <<now, walk, draining, deadline, shutdown, slow, faults>>

NoBeat ==
  /\ phase = "beat"
  /\ now < nextBeat \/ beats = MaxOrders
  /\ phase' = "sleep"
  /\ UNCHANGED <<now, pending, walk, draining, deadline, nextBeat, beats, shutdown, log, promised,
                 slow, faults>>

Sleep ==
  /\ phase = "sleep"
  /\ now' = now + Poll
  /\ phase' = IF draining THEN "drain" ELSE "loop"
  /\ UNCHANGED <<pending, walk, draining, deadline, nextBeat, beats, shutdown, log, promised, slow, faults>>

DrainIsOver == now >= deadline

\* The drain after the loop.
Drain ==
  /\ phase = "drain"
  /\ IF pending = <<>> \/ DrainIsOver
     THEN phase' = "stopped" /\ UNCHANGED walk
     ELSE phase' = "walk" /\ index' = 1 /\ cutoff' = now /\ kept' = <<>>
  /\ UNCHANGED <<now, pending, draining, deadline, nextBeat, beats, shutdown, log, promised, slow, faults>>

-----------------------------------------------------------------------------
(* The environment: a signal, a slow emit, an emit that raises.              *)

RequestShutdown ==
  /\ ~shutdown /\ phase \notin {"stopped", "raised"}
  /\ shutdown' = TRUE
  /\ UNCHANGED <<now, phase, pending, walk, draining, deadline, nextBeat, beats, log, promised, slow, faults>>

SlowEmit ==
  /\ slow < MaxSlow /\ phase \in {"walk", "beat"}
  /\ slow' = slow + 1 /\ now' = now + 1
  /\ UNCHANGED <<phase, pending, walk, draining, deadline, nextBeat, beats, shutdown, log, promised, faults>>

EmitRaises ==
  /\ faults < MaxFaults
  /\ \/ Walking /\ ~NotDue
     \/ phase = "beat" /\ now >= nextBeat /\ beats < MaxOrders
  /\ faults' = faults + 1 /\ phase' = "raised"
  /\ UNCHANGED <<now, pending, walk, draining, deadline, nextBeat, beats, shutdown, log, promised, slow>>

Step == Loop \/ Keep \/ Pay \/ Ship \/ WalkEnds \/ Beat \/ NoBeat \/ Sleep \/ Drain
Next == Step \/ RequestShutdown \/ SlowEmit \/ EmitRaises

Spec == Init /\ [][Next]_vars

-----------------------------------------------------------------------------
(* Properties.                                                              *)

Remaining ==
  {kept[k] : k \in DOMAIN kept} \cup {pending[k] : k \in index..Len(pending)}

\* An event that was decided on is emitted or still waiting, although the list it
\* waits in is rebuilt by every walk and grows while it is walked: nothing is
\* dropped before the end, and nothing waits that was emitted.
NothingIsForgotten ==
  /\ promised = {<<e.kind, e.order>> : e \in Remaining}
  /\ Cardinality(promised) = Len(kept) + Len(pending) + 1 - index

\* What is left at a normal end was cut off by the drain's deadline, never earlier.
OnlyTheDeadlineDrops == phase = "stopped" /\ promised # {} => now >= deadline

\* An event that was decided on is emitted, is waiting, or was cut off by the deadline.
NoEventIsLost == NothingIsForgotten /\ OnlyTheDeadlineDrops

EmittedAt(kind, order) == {k \in DOMAIN log : log[k].kind = kind /\ log[k].order = order}

\* An order is paid at most once and after it was created, and shipped at most once
\* and after it was paid; no event is emitted before it is due.
LifecycleInOrder ==
  \A k \in DOMAIN log :
    LET e == log[k]
        after == CASE e.kind = "order_paid" -> EmittedAt("order_created", e.order)
                   [] e.kind = "orders_shipped" -> EmittedAt("order_paid", e.order)
                   [] OTHER -> {0}
        gap == CASE e.kind = "order_paid" -> 3 [] e.kind = "orders_shipped" -> 5 [] OTHER -> 0
    IN /\ Cardinality(EmittedAt(e.kind, e.order)) = 1
       /\ \E j \in after : j < k /\ (j = 0 \/ e.ts >= log[j].ts + gap)

\* The pace: however often slow emits made the loop late, no more orders were
\* created than the elapsed time allows.
NeverFasterThanThePace == beats > 0 => (beats - 1) * Interval =< now

\* "capped so a slow drain can't hang the process": the drain ends with the first
\* round at its deadline, late only by what slow emits cost.
DrainIsBounded == draining => now =< deadline + slow

\* The loop neither hurries after a slow emit nor outlives its drain.
LoopKeepsTime == NeverFasterThanThePace /\ DrainIsBounded
===============================================================================
