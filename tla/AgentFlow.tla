------------------------------- MODULE AgentFlow -------------------------------
(***************************************************************************)
(* orchestration/agent_flow.py: rounds in which five agents decide          *)
(* independently, conflicts over an entity are resolved by a fixed priority, *)
(* the winners act on the digital twin, and the run is persisted.  A live or *)
(* scenario run is one round; a tick run is several with the twin advanced   *)
(* between them.                                                             *)
(***************************************************************************)
EXTENDS AgentDecisions, SequencesExt

CONSTANTS
  Products, Retailers,  \* the entities of the twin, each in the twin's order
  ProductCases,         \* the states a product is loaded in
  RetailerCases,        \* the states a retailer is loaded in
  AnomalyCases,         \* the lists of open anomalies, newest first
  Rounds,               \* rounds of the run
  MaxSale,              \* bound: units one tick sells of a product
  MaxFailures           \* bound: calls that raise

ProductIds == ToSet(Products)
RetailerIds == ToSet(Retailers)

ProductStates ==
  [active : BOOLEAN, price : Nat, cost : Nat, stock : Nat, sold : Nat, band : STRING, risk : Int,
   forecast : Nat, rise : Int, trend : Int, segment : STRING]
RetailerStates == [active : BOOLEAN, profit : Int, health : Int, segment : STRING, growth : Int]

ASSUME ConstantsAssumption ==
  /\ Products \in Seq(ProductIds) /\ Retailers \in Seq(RetailerIds)
  /\ ProductIds \cap RetailerIds = {}
  /\ ProductCases \subseteq ProductStates /\ RetailerCases \subseteq RetailerStates
  /\ \A s \in AnomalyCases :
       /\ s \in Seq(ToSet(s))
       /\ \A a \in ToSet(s) : a.critical \in BOOLEAN /\ a.baseline \in Nat /\ a.deviation \in Int
  /\ Rounds \in Nat \ {0} /\ MaxActions \in Nat \ {0}
  /\ MaxSale \in Nat /\ MaxFailures \in Nat

VARIABLES
  product, retailer, anomalies,  \* the twin
  phase, round,
  asked,          \* agents whose decide() has returned
  proposals,      \* proposals of the round
  survivors,      \* resolved actions that are still to act
  applied,        \* all_applied
  rejected,       \* all_rejected
  conflicts,      \* all_conflicts, as pairs <<winner, loser>>
  rows,           \* autonomy.<agent>_actions
  conflictRows,   \* autonomy.conflicts
  runs,           \* elt_model_runs: the status recorded for each agent type
  unsaved,        \* agent types that _persist_round() has still to save
  proposed,       \* history: every proposal of the run
  failures

twin == <<product, retailer, anomalies>>
results == <<applied, rejected, conflicts>>
stored == <<rows, conflictRows, runs, unsaved>>
vars == <<twin, phase, round, asked, proposals, survivors, results, stored, proposed, failures>>

\* The order of _build_agents() and AGENT_TYPE_PRIORITY.
AgentTypes == <<"pricing", "inventory", "demand", "anomaly_response", "retailer_strategy">>
Priority == <<"anomaly_response", "inventory", "pricing", "retailer_strategy", "demand">>
Rank(agent) == CHOOSE k \in DOMAIN Priority : Priority[k] = agent
Agents == ToSet(AgentTypes)

Phases == {"collect", "resolve", "act", "persist", "done", "dead"}

TypeOK ==
  /\ phase \in Phases /\ round \in 1..Rounds /\ asked \in 0..Len(AgentTypes)
  /\ \A p \in ProductIds : product[p].price \in Nat /\ product[p].stock \in Nat
  /\ \A a \in ToSet(proposals) \cup ToSet(survivors) : a.status = "proposed" /\ a.round = round
  /\ \A a \in ToSet(applied) : a.status \in {"applied", "proposed"}
  /\ \A a \in ToSet(rejected) : a.status = "rejected"
  /\ runs \in [Agents -> {"none", "success", "failed"}]
  /\ unsaved \in SUBSET Agents
  /\ failures \in 0..MaxFailures

Init ==
  /\ product \in [ProductIds -> ProductCases]
  /\ retailer \in [RetailerIds -> RetailerCases]
  /\ anomalies \in AnomalyCases
  /\ phase = "collect" /\ round = 1 /\ asked = 0
  /\ proposals = <<>> /\ survivors = <<>>
  /\ applied = <<>> /\ rejected = <<>> /\ conflicts = <<>>
  /\ rows = {} /\ conflictRows = <<>> /\ unsaved = {}
  /\ runs = [a \in Agents |-> "none"]
  /\ proposed = {}
  /\ failures = 0

-----------------------------------------------------------------------------
(* _collect_proposals()                                                     *)

PriceAnomaly(p) ==
  LET found == {k \in DOMAIN anomalies : anomalies[k].type = "price_anomaly" /\ anomalies[k].entity = p}
  IN IF found = {} THEN <<>> ELSE <<anomalies[CHOOSE k \in found : \A j \in found : k =< j]>>
Degraded(r) == \E a \in ToSet(anomalies) : a.type = "retailer_health_degradation" /\ a.entity = r

Pricing(p) == PricingCandidates(p, product[p], PriceAnomaly(p))
Strategy(r) == StrategyCandidates(r, retailer[r], Degraded(r))
Candidates(agent) ==
  CASE agent = "pricing" -> Joined([k \in DOMAIN Products |-> Pricing(Products[k])])
    [] agent = "inventory" ->
         Joined([k \in DOMAIN Products |-> InventoryCandidates(Products[k], product[Products[k]])])
    [] agent = "demand" ->
         Joined([k \in DOMAIN Products |-> TrendingCandidates(Products[k], product[Products[k]])])
         \o Joined([k \in DOMAIN Retailers |-> TargetRetailer(Retailers[k], retailer[Retailers[k]])])
         \o Joined([k \in DOMAIN Products |-> SegmentCandidates(Products[k], product[Products[k]])])
    [] agent = "anomaly_response" ->
         Joined([k \in DOMAIN anomalies |-> ResponseCandidates(anomalies[k], product)])
    [] agent = "retailer_strategy" -> Joined([k \in DOMAIN Retailers |-> Strategy(Retailers[k])])

\* The kth action that agent proposes in this round, made of the candidate c.
Action(agent, k, c) ==
  [agent |-> agent, id |-> k, round |-> round, status |-> "proposed",
   type |-> c.type, entity |-> c.entity, confidence |-> c.confidence,
   from |-> c.from, price |-> c.price, delta |-> c.delta, base |-> c.base]
Decisions(agent) ==
  LET chosen == Selected(Candidates(agent)) IN [k \in DOMAIN chosen |-> Action(agent, k, chosen[k])]

\* One decide(), isolated: an agent that raises proposes nothing.
Decide ==
  /\ phase = "collect" /\ asked < Len(AgentTypes)
  /\ \/ /\ proposals' = proposals \o Decisions(AgentTypes[asked + 1])
        /\ UNCHANGED failures
     \/ /\ failures < MaxFailures
        /\ failures' = failures + 1
        /\ UNCHANGED proposals
  /\ asked' = asked + 1
  /\ phase' = IF asked' = Len(AgentTypes) THEN "resolve" ELSE "collect"
  /\ UNCHANGED <<twin, round, survivors, results, stored, proposed>>

-----------------------------------------------------------------------------
(* _resolve_and_apply(), the resolution                                     *)

OrderedByConfidence(s) == SortedBy(s, [k \in DOMAIN s |-> -s[k].confidence])
\* By priority of the agent type, then by confidence (in hundredths).
Precedence(a) == 1000 * Rank(a.agent) - a.confidence
Ordered(s) == SortedBy(s, [k \in DOMAIN s |-> Precedence(s[k])])

\* enforce_constraints(), the numeric limits.
CappedDelta(a) ==
  IF a.base # 0 /\ a.delta > 3 * a.base THEN [a EXCEPT !.delta = 3 * a.base] ELSE a
WithinLimitsFloorOnly(a) ==
  IF a.price # 0 /\ a.from > 0
  THEN CappedDelta([a EXCEPT !.price = Greatest(a.price, MinUnitPrice)]) ELSE CappedDelta(a)
WithinLimits(a) ==
  IF a.price # 0 /\ a.from > 0
  THEN CappedDelta([a EXCEPT !.price =
         Greatest(Between(a.from - Percent(a.from, 25), a.price, a.from + Percent(a.from, 25)), MinUnitPrice)])
  ELSE CappedDelta(a)

Reject(a) == [a EXCEPT !.status = "rejected"]

\* One proposal of the ordered list claims its entity, or it loses to the action
\* that has claimed it.
Claimants(resolution, a) == {k \in DOMAIN resolution.kept : resolution.kept[k].entity = a.entity}
Winner(resolution, a) == resolution.kept[CHOOSE k \in Claimants(resolution, a) : TRUE]
Claim(resolution, a) ==
  IF Claimants(resolution, a) = {}
  THEN [resolution EXCEPT !.kept = Append(@, WithinLimits(a))]
  ELSE [resolution EXCEPT !.lost = Append(@, Reject(a)),
                          !.conflicts = Append(@, <<Winner(resolution, a), Reject(a)>>)]

Resolution(s) ==
  LET upTo[k \in 0..Len(s)] == IF k = 0 THEN [kept |-> <<>>, lost |-> <<>>, conflicts |-> <<>>]
                               ELSE Claim(upTo[k - 1], s[k])
  IN upTo[Len(s)]

Resolve ==
  /\ phase = "resolve"
  /\ LET r == Resolution(Ordered(proposals)) IN
     /\ survivors' = r.kept
     /\ rejected' = rejected \o r.lost
     /\ conflicts' = conflicts \o r.conflicts
  /\ proposed' = proposed \cup ToSet(proposals)
  /\ proposals' = <<>>
  /\ phase' = "act"
  /\ UNCHANGED <<twin, round, asked, applied, stored, failures>>

-----------------------------------------------------------------------------
(* act(), for one action after another in priority order                    *)

StrategyChanges == {"adjust_inventory_strategy", "adjust_fulfillment_strategy",
                    "adjust_pricing_strategy", "adjust_promotion_strategy"}
Triggers == {"trigger_simulation_scenario", "trigger_counterfactual_analysis"}

\* advance_twin(): orders lower stocks; a proactive strategy restocks low ones.
Ticked(proactive) ==
  {[p \in ProductIds |->
      LET q == Least(sale[p], product[p].stock)
          left == product[p].stock - q
          restocked == IF proactive /\ q > 0 /\ left =< 7 THEN left + 50 ELSE left
      IN [product[p] EXCEPT !.stock = restocked, !.sold = @ + q]] :
   sale \in [ProductIds -> {0, MaxSale}]}

Acted(status) ==
  /\ applied' = Append(applied, [Head(survivors) EXCEPT !.status = status])
  /\ survivors' = Tail(survivors)

Acting(types) == phase = "act" /\ survivors # <<>> /\ Head(survivors).type \in types
ActFrame == UNCHANGED <<retailer, anomalies, phase, round, asked, proposals, rejected,
                        conflicts, stored, proposed>>

\* _apply_one() of the framework: prices, inventory, and advisory types.  A change
\* of a product that the twin does not know is applied to nothing.
Changed(p, a) ==
  IF p # a.entity THEN product[p]
  ELSE IF a.price # 0 THEN [product[p] EXCEPT !.price = a.price]
  ELSE [product[p] EXCEPT !.stock = Greatest(0, @ + a.delta)]
\* adjust_promotions sets the price again of a product whose price is 0.
Effective(a) == a.price # 0 \/ a.delta # 0 \/ a.type = "adjust_promotions"
ActOnProduct ==
  /\ phase = "act" /\ survivors # <<>>
  /\ LET a == Head(survivors) IN
     /\ a.type \notin StrategyChanges \cup Triggers \cup {"trigger_stockout_alert"}
     /\ IF Effective(a)
        THEN product' = [p \in ProductIds |-> Changed(p, a)] /\ Acted("applied")
        ELSE Acted("proposed") /\ UNCHANGED product
  /\ ActFrame /\ UNCHANGED failures

\* A retailer strategy is applied by advancing the twin one tick under it.
ActOnStrategy ==
  /\ Acting(StrategyChanges)
  /\ product' \in Ticked(Head(survivors).type = "adjust_inventory_strategy")
  /\ Acted("applied")
  /\ ActFrame /\ UNCHANGED failures

ActOutside ==
  /\ Acting(Triggers \cup {"trigger_stockout_alert"})
  /\ Acted("applied")
  /\ ActFrame /\ UNCHANGED <<product, failures>>

\* A failure inside a strategy or a trigger is caught, the action stays proposed.
ActFails ==
  /\ Acting(Triggers \cup StrategyChanges) /\ failures < MaxFailures
  /\ failures' = failures + 1
  /\ Acted("proposed")
  /\ ActFrame /\ UNCHANGED product

\* The alert's configuration does not load: nothing catches it, the run is over.
ActRaises ==
  /\ Acting({"trigger_stockout_alert"}) /\ failures < MaxFailures
  /\ failures' = failures + 1
  /\ phase' = "dead"
  /\ UNCHANGED <<twin, round, asked, proposals, survivors, results, stored, proposed>>

-----------------------------------------------------------------------------
(* run_agent_flow(): the next round, or the end of the run                   *)

NextRound ==
  /\ phase = "act" /\ survivors = <<>> /\ round < Rounds
  /\ product' \in Ticked(FALSE)
  /\ round' = round + 1 /\ asked' = 0 /\ phase' = "collect"
  /\ UNCHANGED <<retailer, anomalies, proposals, survivors, results, stored, proposed, failures>>

RowsToSave == applied \o rejected
RowsOf(agent) == {k \in DOMAIN RowsToSave : RowsToSave[k].agent = agent}

LastRound ==
  /\ phase = "act" /\ survivors = <<>> /\ round = Rounds
  /\ phase' = "persist"
  /\ unsaved' = {a.agent : a \in ToSet(RowsToSave)}
  /\ UNCHANGED <<twin, round, asked, proposals, survivors, results, rows, conflictRows, runs,
                 proposed, failures>>

StatusAssumed(last, agent) == "success"
\* The status that is recorded when the agent's rows up to last were inserted.
StatusOf(last, agent) == IF RowsOf(agent) \subseteq 1..last THEN "success" ELSE "failed"

\* _persist_round() for one agent type: rows are inserted one by one, and the
\* record of the run may fail on its own.
PersistAgent(agent) ==
  /\ phase = "persist" /\ agent \in unsaved
  /\ \E last \in 0..Len(RowsToSave), recorded \in BOOLEAN :
       LET all == RowsOf(agent) \subseteq 1..last
           faults == (IF all THEN 0 ELSE 1) + (IF recorded THEN 0 ELSE 1)
       IN /\ failures + faults =< MaxFailures
          /\ failures' = failures + faults
          /\ rows' = rows \cup {RowsToSave[k] : k \in RowsOf(agent) \cap (1..last)}
          /\ runs' = IF recorded THEN [runs EXCEPT ![agent] = StatusOf(last, agent)] ELSE runs
  /\ unsaved' = unsaved \ {agent}
  /\ UNCHANGED <<twin, phase, round, asked, proposals, survivors, results, conflictRows, proposed>>

\* _persist_conflicts(), best effort and row by row as well.
PersistConflicts ==
  /\ phase = "persist" /\ unsaved = {}
  /\ phase' = "done"
  /\ \/ conflictRows' = conflicts /\ UNCHANGED failures
     \/ /\ failures < MaxFailures /\ failures' = failures + 1
        /\ \E count \in 0..Len(conflicts) : conflictRows' = SubSeq(conflicts, 1, count)
  /\ UNCHANGED <<twin, round, asked, proposals, survivors, results, rows, runs, unsaved, proposed>>

Next ==
  \/ Decide \/ Resolve
  \/ ActOnProduct \/ ActOnStrategy \/ ActOutside \/ ActFails \/ ActRaises
  \/ NextRound \/ LastRound
  \/ \E a \in Agents : PersistAgent(a)
  \/ PersistConflicts

Spec == Init /\ [][Next]_vars

-----------------------------------------------------------------------------
(* Properties.                                                              *)

Taken == ToSet(applied) \cup ToSet(survivors)
SameEntity(a, b) == a.round = b.round /\ a.entity = b.entity
SameProposal(a, b) == a.agent = b.agent /\ a.id = b.id /\ a.round = b.round

\* Two agents never act on the same entity in one round.
OneActionPerEntity == \A a, b \in Taken : SameEntity(a, b) => SameProposal(a, b)

\* Whatever was rejected lost to an action of an agent type of higher priority,
\* or of its own type and with at least its confidence: anomaly_response, then
\* inventory, pricing, retailer_strategy and demand.
PriorityDecides ==
  \A l \in ToSet(rejected) : \E w \in Taken :
    /\ SameEntity(w, l)
    /\ \/ Rank(w.agent) < Rank(l.agent)
       \/ w.agent = l.agent /\ w.confidence >= l.confidence

\* Every rejection has one conflict record, which names the action that was taken
\* instead of it, on the same entity.
ConflictsNameTheWinner ==
  \A l \in ToSet(rejected) :
    /\ Cardinality({k \in DOMAIN conflicts : conflicts[k][2] = l}) = 1
    /\ \A c \in ToSet(conflicts) : c[2] = l =>
         SameEntity(c[1], l) /\ \E w \in Taken : SameProposal(w, c[1])

\* Of the proposals for one entity one is taken, the right one, and the record of
\* each of the others says which.
ConflictsAreSettled == OneActionPerEntity /\ PriorityDecides /\ ConflictsNameTheWinner

\* An agent type whose run is recorded as a success has every one of its proposals
\* in its table, applied or rejected, exactly once.
SuccessfulRunsAreComplete ==
  \A agent \in Agents : runs[agent] = "success" =>
    \A q \in {q \in proposed : q.agent = agent} :
      Cardinality({x \in rows : SameProposal(x, q)}) = 1

WithinAQuarter(old, new) == Magnitude(new - old) =< Percent(old, 25)

\* No step moves a price by more than a quarter of what it is at that moment, or
\* below the minimum, however long ago the price was decided on; only a price
\* that was below the minimum may move further, to the minimum, and a price of 0,
\* of which there is no quarter, to any price above it.
PricesMoveWithinLimits ==
  [][\A p \in ProductIds : product'[p].price # product[p].price =>
       /\ product'[p].price >= MinUnitPrice
       /\ \/ WithinAQuarter(product[p].price, product'[p].price)
          \/ product'[p].price = MinUnitPrice
          \/ product[p].price = 0]_vars

\* A stockout of high risk warrants "a page to a human, and a concrete restock
\* ... one isn't a substitute for the other" (inventory_agent.py).
StockoutPagesAndRestocks ==
  \A a \in proposed :
    LET taken == {w \in Taken : SameEntity(w, a)} IN
    a.type = "trigger_stockout_alert" /\ (\A w \in taken : w.agent = "inventory")
      => {"trigger_stockout_alert", "reorder_inventory"} \subseteq {w.type : w \in taken}
===============================================================================
