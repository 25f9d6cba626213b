------------------------------- MODULE Simulation -------------------------------
(***************************************************************************)
(* Simulation runs over the warehouse: orchestration/simulation_flow.py,    *)
(* the run endpoints of api/simulation_api.py, run_scenario() and           *)
(* run_counterfactual() with what they read and write.                      *)
(*                                                                          *)
(* A job is a batch (the flow: a list of scenarios, then counterfactuals,   *)
(* each isolated from the others) or an endpoint call (one of them).  Every *)
(* read is a connection of its own, so a rebuild of the warehouse falls     *)
(* between any two of them; a connection the lock keeps out too long        *)
(* raises, which some of the readers turn into an empty result.             *)
(***************************************************************************)
EXTENDS Counterfactuals

CONSTANTS
  Jobs,         \* kind, tenant, ticks, overrides, specs
  Warehouses,   \* what a build of the warehouse may leave: orders, dims, ...
  MaxRebuilds,  \* bound: rebuilds while the job runs
  MaxFaults     \* bound: connections that are never granted, or a kill

ScenarioTypes == {"price_change", "inventory_change", "demand_shock", "supply_chain_delay",
                  "retailer_outage", "product_launch", "promotion_event",
                  "competitor_entry", "competitor_exit"}
CounterfactualTypes == {"remove_retailer_orders", "remove_product_orders", "modify_price",
                        "remove_anomaly_window"}

\* Prices and stocks are not negative (contracts/product.schema.json); a demand curve
\* has no value for a new price that is not positive.
IsSpec(spec) ==
  CASE spec.type = "price_change" -> spec.price \in Nat \ {0}
    [] spec.type = "inventory_change" -> spec.delta \in Int
    [] spec.type = "demand_shock" -> spec.multiplier \in Int
    [] spec.type \in {"supply_chain_delay", "retailer_outage"} -> spec.ticks \in Int
    [] spec.type = "promotion_event" -> spec.ticks \in Int /\ spec.discount \in Int
    [] spec.type = "product_launch" ->
         spec.price \in Nat /\ spec.stock \in Nat /\ spec.category \in ToSet(Categories)
    [] spec.type \in {"competitor_entry", "competitor_exit"} -> spec.pressure \in Int
    [] spec.type = "modify_price" -> spec.ticks \in Int /\ spec.percent \in Int
    [] OTHER -> spec.ticks \in Int

IsOrder(order) == order.gross \in Int /\ order.discount \in Int /\ order.quantity \in Int
IsProduct(product) ==
  /\ product.price \in Nat \cup {None} /\ product.stock \in Nat \cup {None}
  /\ product.velocity \in Int \cup {None} /\ product.category \in ToSet(Categories)

ASSUME SimulationAssumption ==
  /\ MaxRebuilds \in Nat /\ MaxFaults \in Nat
  /\ None \notin Jobs /\ None \notin {"ok", "failed"}
  /\ \A j \in Jobs :
       /\ j.specs \in Seq(ToSet(j.specs))
       /\ \A i \in DOMAIN j.specs : j.specs[i].type \in ScenarioTypes \cup CounterfactualTypes
       /\ j.kind = "batch" => j.overrides = NoOverrides
       /\ j.kind # "batch" => Len(j.specs) = 1
       /\ j.ticks \in Nat /\ \A i \in DOMAIN j.specs : IsSpec(j.specs[i])
       /\ \A r \in DOMAIN j.overrides.sellers : j.overrides.sellers[r] \in Strategies
       /\ \A p \in DOMAIN j.overrides.curves : j.overrides.curves[p] \in Demands
  /\ \A w \in Warehouses :
       /\ IsFiniteSet(w.orders) /\ IsFiniteSet(w.tenant) /\ \A o \in w.orders \cup w.tenant : IsOrder(o)
       /\ IsFiniteSet(DOMAIN w.dims.retailers) /\ IsFiniteSet(DOMAIN w.dims.products)
       /\ \A p \in DOMAIN w.dims.products : IsProduct(w.dims.products[p])
       /\ \A p \in DOMAIN w.forecasts : w.forecasts[p] \in Int

VARIABLES
  warehouse,
  job,        \* what is asked for
  at,         \* the statement the job is at
  next,       \* the spec it is at, by its place in job.specs
  twin,       \* the twin loaded in the beginning
  projection, \* the baseline projection, with the assortments it read
  saw,        \* what the spec has read so far
  result,     \* what it has computed
  rows,       \* scenario_results and counterfactual_results, by spec
  edges,      \* their lineage edges
  log,        \* the rows of elt_model_runs: status by spec
  alerts,     \* simulation_*_failure alerts, by spec
  answer,     \* of the job: "ok" or "failed"
  rebuilds, faults

reads == <<twin, projection>>
writes == <<rows, edges, log, alerts>>
bounds == <<rebuilds, faults>>
vars == <<warehouse, job, at, next, reads, saw, result, writes, answer, bounds>>

Current == job.specs[next]
NoResult == <<>>
IsBatch == job.kind = "batch"
Put(f, k, v) == [x \in DOMAIN f \cup {k} |-> IF x = k THEN v ELSE f[x]]
NoPairs == [r \in {} |-> <<>>]
NoDims == [retailers |-> [r \in {} |-> None], products |-> [p \in {} |-> None]]

TypeOK ==
  /\ warehouse \in Warehouses /\ job \in Jobs \cup {None}
  /\ next \in Nat
  /\ DOMAIN rows \subseteq Nat /\ edges \subseteq DOMAIN rows
  /\ \A i \in DOMAIN log : log[i] \in {"success", "failed"}
  /\ answer \in {None, "ok", "failed"}
  /\ rebuilds \in 0..MaxRebuilds /\ faults \in 0..MaxFaults

Init ==
  /\ warehouse \in Warehouses
  /\ job = None /\ at = "idle" /\ next = 1
  /\ twin = None /\ projection = None /\ saw = None /\ result = NoResult
  /\ rows = [i \in {} |-> None] /\ edges = {} /\ log = [i \in {} |-> None] /\ alerts = {}
  /\ answer = None /\ rebuilds = 0 /\ faults = 0

UnderWay == at \notin {"idle", "done"}

-----------------------------------------------------------------------------
(* The machine and the warehouse.                                           *)

\* load_duckdb.py swaps the tables the twin, the pairs and the orders come from.
Rebuild ==
  /\ rebuilds < MaxRebuilds /\ UnderWay
  /\ rebuilds' = rebuilds + 1
  /\ warehouse' \in Warehouses \ {warehouse}
  /\ UNCHANGED <<job, at, next, reads, saw, result, writes, answer, faults>>

Granted == UNCHANGED bounds
Refused == faults < MaxFaults /\ faults' = faults + 1 /\ UNCHANGED rebuilds

\* A read whose caller takes an exception for an empty result.
Reads(value, found, empty) == (value = found /\ Granted) \/ (value = empty /\ Refused)
Here(place) == at = place
Goto(place) == at' = place

-----------------------------------------------------------------------------
(* The head of a job.                                                       *)

Opening(i) ==
  IF i > Len(job.specs) THEN "done"
  ELSE IF job.specs[i].type \in ScenarioTypes THEN "baseline_pairs" ELSE "orders"

Receive ==
  /\ Here("idle")
  /\ job' \in Jobs
  /\ Goto(IF job'.kind = "batch" \/ job'.specs[1].type \in ScenarioTypes THEN "load" ELSE "orders")
  /\ UNCHANGED <<warehouse, next, reads, saw, result, writes, answer, bounds>>

\* load_digital_twin(); nobody catches what it raises.
LoadTwin ==
  /\ Here("load")
  /\ \/ /\ twin' = IF job.tenant THEN TenantTwin(warehouse) ELSE ClassicTwin(warehouse)
        /\ Goto(IF IsBatch THEN "project" ELSE "baseline_pairs")
        /\ Granted /\ UNCHANGED answer
     \/ Refused /\ Goto("done") /\ answer' = "failed" /\ UNCHANGED twin
  /\ UNCHANGED <<warehouse, job, next, projection, saw, result, writes>>

Pairs == Assortments(IF job.tenant THEN warehouse.tenant ELSE warehouse.orders)

\* run_baseline_projection()
Project ==
  /\ Here("project")
  /\ \E pairs \in {Pairs, NoPairs} :
       /\ Reads(pairs, Pairs, NoPairs)
       /\ projection' = [pairs |-> pairs, end |-> Projection(twin, pairs, NoOverrides, job.ticks)]
  /\ Goto(Opening(1))
  /\ answer' = IF job.specs = <<>> THEN "ok" ELSE answer
  /\ UNCHANGED <<warehouse, job, next, twin, saw, result, writes>>

Raise ==
  /\ IF IsBatch
     THEN Goto("failed") /\ UNCHANGED answer
     ELSE Goto("done") /\ answer' = "failed"
  /\ result' = NoResult /\ UNCHANGED <<rows, edges>>

Alert ==
  /\ Here("failed")
  /\ \/ alerts' = alerts \cup {next} /\ Granted
     \/ UNCHANGED alerts /\ Refused
  /\ Goto("record")
  /\ UNCHANGED <<warehouse, job, next, reads, saw, result, rows, edges, log, answer>>

-----------------------------------------------------------------------------
(* A scenario (run_scenario).                                               *)

ReadBaselinePairs ==
  /\ Here("baseline_pairs")
  /\ \E pairs \in {Pairs, NoPairs} : Reads(pairs, Pairs, NoPairs) /\ saw' = [baseline |-> pairs]
  /\ Goto("scenario_pairs")
  /\ UNCHANGED <<warehouse, job, next, reads, result, writes, answer>>

\* The other branch's agents, the setup, both runs and their comparison.
RunInPlace ==
  /\ Here("scenario_pairs")
  /\ \E pairs \in {Pairs, NoPairs} :
       /\ Reads(pairs, Pairs, NoPairs)
       /\ IF Unknown(Current, twin) THEN Raise /\ UNCHANGED twin
          ELSE /\ twin' = ScenarioBranch(twin, pairs, job.overrides, Current, job.ticks)
               /\ result' = [baseline |-> saw.baseline, scenario |-> pairs,
                    ends |-> <<BaselineBranch(twin, saw.baseline, job.overrides, Current, job.ticks), twin'>>]
               /\ Goto("row") /\ UNCHANGED <<rows, edges, answer>>
  /\ UNCHANGED <<warehouse, job, next, projection, saw, log, alerts>>

RunScenario ==
  /\ Here("scenario_pairs")
  /\ \E pairs \in {Pairs, NoPairs} :
       /\ Reads(pairs, Pairs, NoPairs)
       /\ IF Unknown(Current, twin) THEN Raise
          ELSE /\ result' = [baseline |-> saw.baseline, scenario |-> pairs,
                    ends |-> <<BaselineBranch(twin, saw.baseline, job.overrides, Current, job.ticks),
                               ScenarioBranch(twin, pairs, job.overrides, Current, job.ticks)>>]
               /\ Goto("row") /\ UNCHANGED <<rows, edges, answer>>
  /\ UNCHANGED <<warehouse, job, next, reads, saw, log, alerts>>

-----------------------------------------------------------------------------
(* A counterfactual (run_counterfactual).                                   *)

\* _load_actual_order_rows()
ReadOrders ==
  /\ Here("orders")
  /\ \E orders \in {Loaded(warehouse.orders, Current.scope), {}} :
       Reads(orders, Loaded(warehouse.orders, Current.scope), {}) /\ saw' = [orders |-> orders, anomaly |-> None]
  /\ Goto(IF Current.type = "remove_anomaly_window" THEN "anomaly" ELSE "actual_dims")
  /\ UNCHANGED <<warehouse, job, next, reads, result, writes, answer>>

\* _lookup_anomaly_window(): an anomaly that is not found is an error.
FindAnomaly ==
  /\ Here("anomaly")
  /\ \E found \in {{a \in warehouse.anomalies : a.id = Current.anomaly}, {}} :
       /\ Reads(found, {a \in warehouse.anomalies : a.id = Current.anomaly}, {})
       /\ IF found = {} THEN Raise /\ UNCHANGED saw
          ELSE /\ saw' = [saw EXCEPT !.anomaly = CHOOSE a \in found : TRUE]
               /\ Goto("actual_dims") /\ UNCHANGED <<result, rows, edges, answer>>
  /\ UNCHANGED <<warehouse, job, next, reads, log, alerts>>

\* _build_twin_from_aggregates(), once for each history; the dimensions of the one
\* first built.
ReadActualDims ==
  /\ Here("actual_dims")
  /\ \E dims \in {warehouse.dims, NoDims} :
       Reads(dims, warehouse.dims, NoDims)
       /\ saw' = [orders |-> saw.orders, anomaly |-> saw.anomaly, dims |-> dims]
  /\ Goto("other_dims")
  /\ UNCHANGED <<warehouse, job, next, reads, result, writes, answer>>

Compared(dims, pairs, otherPairs) ==
  LET other == CounterfactualOrders(Current, saw.anomaly, saw.orders) IN
  [actual |-> saw.orders, other |-> other,
   affected |-> Affected(Current, saw.anomaly, saw.orders),
   retailers |-> RetailerDiffs(RetailerTotals(saw.orders), RetailerTotals(other)),
   products |-> ProductDiffs(ProductTotals(saw.orders), ProductTotals(other)),
   dims |-> <<saw.dims, dims>>,
   same |-> dims = saw.dims /\ pairs = otherPairs,
   ends |-> <<Replayed(saw.orders, saw.dims, pairs, Current.ticks),
              Replayed(other, dims, otherPairs, Current.ticks)>>]

\* The agents are built only when ticks are to be replayed.
ReadOtherDims ==
  /\ Here("other_dims")
  /\ \E dims \in {warehouse.dims, NoDims} :
       /\ Reads(dims, warehouse.dims, NoDims)
       /\ IF Current.ticks > 0
          THEN /\ saw' = [orders |-> saw.orders, anomaly |-> saw.anomaly, dims |-> saw.dims, other |-> dims]
               /\ Goto("actual_pairs") /\ UNCHANGED result
          ELSE result' = Compared(dims, NoPairs, NoPairs) /\ Goto("row") /\ UNCHANGED saw
  /\ UNCHANGED <<warehouse, job, next, reads, writes, answer>>

AllPairs == Assortments(warehouse.orders)

ReadActualPairs ==
  /\ Here("actual_pairs")
  /\ \E pairs \in {AllPairs, NoPairs} :
       Reads(pairs, AllPairs, NoPairs)
       /\ saw' = [orders |-> saw.orders, anomaly |-> saw.anomaly, dims |-> saw.dims,
                  other |-> saw.other, pairs |-> pairs]
  /\ Goto("other_pairs")
  /\ UNCHANGED <<warehouse, job, next, reads, result, writes, answer>>

ReplayBoth ==
  /\ Here("other_pairs")
  /\ \E pairs \in {AllPairs, NoPairs} :
       Reads(pairs, AllPairs, NoPairs) /\ result' = Compared(saw.other, saw.pairs, pairs)
  /\ Goto("row")
  /\ UNCHANGED <<warehouse, job, next, reads, saw, writes, answer>>

-----------------------------------------------------------------------------
(* Persisting the result, and recording the run.                            *)

WriteRow ==
  /\ Here("row")
  /\ \/ /\ Granted
        /\ rows' = Put(rows, next, result)
        /\ Goto("edge") /\ UNCHANGED <<result, edges, answer>>
     \/ Refused /\ Raise
  /\ UNCHANGED <<warehouse, job, next, reads, saw, log, alerts>>

\* A second connection; what it raises fails a run whose row is there.
EdgeIsOptional ==
  /\ Here("edge")
  /\ (edges' = edges \cup {next} /\ Granted) \/ (UNCHANGED edges /\ Refused)
  /\ IF IsBatch THEN Goto("record") /\ UNCHANGED answer ELSE Goto("done") /\ answer' = "ok"
  /\ UNCHANGED <<warehouse, job, next, reads, saw, result, rows, log, alerts>>

WriteEdge ==
  /\ Here("edge")
  /\ \/ /\ Granted
        /\ edges' = edges \cup {next}
        /\ IF IsBatch THEN Goto("record") /\ UNCHANGED answer ELSE Goto("done") /\ answer' = "ok"
        /\ UNCHANGED <<result, rows>>
     \/ Refused /\ Raise
  /\ UNCHANGED <<warehouse, job, next, reads, saw, log, alerts>>

\* _append_simulation_run() with the status, which may be lost; the next spec.
RecordRun ==
  /\ Here("record")
  /\ \/ log' = Put(log, next, IF result = NoResult THEN "failed" ELSE "success") /\ Granted
     \/ UNCHANGED log /\ Refused
  /\ next' = next + 1 /\ Goto(Opening(next'))
  /\ answer' = IF next' > Len(job.specs) THEN "ok" ELSE answer
  /\ result' = NoResult /\ saw' = None
  /\ UNCHANGED <<warehouse, job, reads, rows, edges, alerts>>

Kill ==
  /\ UnderWay /\ Refused
  /\ Goto("done") /\ answer' = "failed"
  /\ UNCHANGED <<warehouse, job, next, reads, saw, result, writes>>

Proceed ==
  \/ LoadTwin \/ Project \/ ReadBaselinePairs \/ RunScenario
  \/ ReadOrders \/ FindAnomaly \/ ReadActualDims \/ ReadOtherDims \/ ReadActualPairs \/ ReplayBoth
  \/ WriteRow \/ WriteEdge \/ Alert \/ RecordRun

Next == Receive \/ Proceed \/ Rebuild \/ Kill

Spec == Init /\ [][Next]_vars

-----------------------------------------------------------------------------
(* What the results and the rows can be trusted for.                        *)

ScenarioRows == {i \in DOMAIN rows : job.specs[i].type \in ScenarioTypes}
PastRows == DOMAIN rows \ ScenarioRows

\* A run recorded as a success has its row and its edge; one recorded as failed
\* has no edge, and a row only if the edge was what failed; a spec that raises
\* stops none of its batch: with a sound warehouse every spec has its run
\* (simulation_flow.py:207-240, scenario_engine.py:638-667).
RunRowsTellTheOutcome ==
  /\ \A i \in DOMAIN log : log[i] = "success" <=> i \in edges
  /\ \A i \in DOMAIN log : log[i] = "failed" /\ i \in DOMAIN rows => faults > 0
  /\ \A i \in alerts : i \notin edges
  /\ answer = "ok" => IsBatch \/ 1 \in edges
  /\ at = "done" /\ IsBatch /\ faults = 0 => DOMAIN log = DOMAIN job.specs

\* All runs of a batch start from the twin it loaded: where they read the
\* assortments the projection read, their baselines are the projection, whichever
\* scenarios ran before (simulation_flow.py:305-318, scenario_engine.py:575-608).
BaselinesAreTheProjection ==
  \A i \in ScenarioRows :
    IsBatch /\ rows[i].baseline = projection.pairs => rows[i].ends[1] = projection.end

\* A scenario that sets what is already so.
Neutral(spec, start) ==
  CASE spec.type = "price_change" -> start.products[spec.product].price = spec.price
    [] spec.type = "inventory_change" -> spec.delta = 0 /\ start.products[spec.product].stock # None
    [] spec.type = "supply_chain_delay" -> spec.ticks = 0
    [] spec.type = "demand_shock" -> spec.multiplier = 100
    [] spec.type \in {"competitor_entry", "competitor_exit"} -> spec.pressure = 0
    [] spec.type = "promotion_event" -> spec.discount = 0 /\ spec.retailer \notin DOMAIN job.overrides.sellers
    [] OTHER -> FALSE

\* The two branches differ by the scenario alone: if it sets what is already so
\* and both read the same assortments, nothing is predicted to change
\* (scenario_engine.py:12-19).
NeutralScenariosChangeNothing ==
  \A i \in ScenarioRows :
    rows[i].baseline = rows[i].scenario /\ Neutral(job.specs[i], twin) =>
      /\ rows[i].ends[1] = rows[i].ends[2]
      /\ PredictedAnomalies(rows[i].ends[1], rows[i].ends[2]) = {}

\* Whatever happens in a run, no piece is sold that was not in stock: what is left
\* of a product is what there was and came in, less what was sold
\* (digital_twin.py:175-209, retailer_agent.py:136-168).
StockIsAccountedFor ==
  \A i \in DOMAIN rows : \A b \in {1, 2} :
    LET end == rows[i].ends[b]
        start == IF i \in PastRows THEN rows[i].dims[b] ELSE twin
    IN \A p \in DOMAIN end.products :
         end.products[p].stock # None =>
           LET before == IF p \in DOMAIN start.products THEN Held(start.products[p]) ELSE 0
           IN /\ end.products[p].stock >= 0
              /\ end.products[p].stock = before + end.products[p].moved - end.products[p].since

Sum(diffs) == MapThenSumSet(LAMBDA x : diffs[x].revenue, DOMAIN diffs)

\* A counterfactual's differences by retailer and by product both add up to its
\* GMV delta, entities it emptied included; if it touches no order nothing
\* differs, and if both histories met the same warehouse so do their replays
\* (counterfactuals.py:323-367, 566-612).
DiffsAddUp ==
  \A i \in PastRows :
    LET delta == MapThenSumSet(Net, rows[i].other) - MapThenSumSet(Net, rows[i].actual) IN
    /\ Sum(rows[i].retailers) = delta /\ Sum(rows[i].products) = delta
    /\ rows[i].affected = {} => /\ \A r \in DOMAIN rows[i].retailers : rows[i].retailers[r].orders = 0
                                /\ rows[i].same => rows[i].ends[1] = rows[i].ends[2]

\* The ticks a retailer was out of a run.
TicksOut(i) ==
  {n \in 0..job.ticks - 1 :
     ~Operating(ScenarioBranch(twin, rows[i].scenario, job.overrides, job.specs[i], n), job.specs[i].retailer)}

\* "an outage ... that only lasts `duration_ticks`" (scenario_engine.py:177-179).
\* The code ends it after the tick whose number has reached the duration, so that
\* one of d ticks takes d + 1.
OutageLastsItsDuration ==
  \A i \in ScenarioRows :
    job.specs[i].type = "retailer_outage" => Cardinality(TicksOut(i)) <= job.specs[i].ticks

\* "overriding a strategy is ... not part of the scenario's setup mutation itself"
\* (scenario_engine.py:566-573): the baseline is that of the overrides as given.  A
\* promotion writes to the strategy object both branches share.
OverridesAreStanding ==
  \A i \in ScenarioRows :
    rows[i].ends[1] = Projection(twin, rows[i].baseline, job.overrides, job.ticks)
================================================================================
