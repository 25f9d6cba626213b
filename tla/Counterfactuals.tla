---------------------------- MODULE Counterfactuals ----------------------------
(***************************************************************************)
(* What a counterfactual makes of the past: the order set without or with   *)
(* other orders, its aggregates, the differences, and the twin the replay   *)
(* starts from (simulation/counterfactuals.py), as operators.               *)
(*                                                                          *)
(* An order is [id, retailer, product, day, quantity, gross, discount,      *)
(* cost]; its net amount is gross - discount and its profit what that       *)
(* leaves over its cost.  A day may be None.                                *)
(***************************************************************************)
EXTENDS TwinAgents

Net(order) == order.gross - order.discount
Profit(order) == Net(order) - order.cost

-----------------------------------------------------------------------------
(* The counterfactual order set.                                            *)

\* _matches_date_window()
InWindow(day, window) ==
  /\ day # None
  /\ window.from = None \/ window.from <= day
  /\ window.to = None \/ day <= window.to

\* _load_actual_order_rows() has no clause for a bound that is not given.
Loaded(orders, window) ==
  IF window.from = None /\ window.to = None THEN orders ELSE {o \in orders : InWindow(o.day, window)}

AnyDay == [from |-> None, to |-> None]
Around(anomaly, days) == [from |-> anomaly.day - days, to |-> anomaly.day + days]

Matches(spec, anomaly, order) ==
  CASE spec.type = "remove_retailer_orders" -> order.retailer = spec.retailer /\ InWindow(order.day, spec.window)
    [] spec.type \in {"remove_product_orders", "modify_price"} ->
         order.product = spec.product /\ InWindow(order.day, spec.window)
    [] spec.type = "remove_anomaly_window" ->
         /\ \/ anomaly.kind = "retailer" /\ order.retailer = anomaly.entity
            \/ anomaly.kind = "product" /\ order.product = anomaly.entity
         /\ InWindow(order.day, Around(anomaly, spec.days))

Affected(spec, anomaly, orders) == {o \in orders : Matches(spec, anomaly, o)}
Repriced(order, percent) == [order EXCEPT !.gross = Times(@, percent)]

\* _apply_counterfactual_filter()
CounterfactualOrders(spec, anomaly, orders) ==
  LET affected == Affected(spec, anomaly, orders) IN
  IF spec.type = "modify_price"
  THEN (orders \ affected) \cup {Repriced(o, spec.percent) : o \in affected}
  ELSE orders \ affected

-----------------------------------------------------------------------------
(* Aggregates and differences.                                              *)

LatestDay(orders) ==
  LET days == {o.day : o \in orders} \ {None} IN IF days = {} THEN None ELSE Max(days)

\* _aggregate_retailers()
RetailerTotals(orders) ==
  [r \in {o.retailer : o \in orders} |->
     LET own == {o \in orders : o.retailer = r} IN
     [orders |-> Cardinality(own), revenue |-> MapThenSumSet(Net, own), profit |-> MapThenSumSet(Profit, own),
      last |-> LatestDay(own),
      health |-> HealthScore(Cardinality(own), MapThenSumSet(Net, own), MapThenSumSet(Profit, own))]]

\* _aggregate_products()
ProductTotals(orders) ==
  [p \in {o.product : o \in orders} |->
     LET own == {o \in orders : o.product = p} IN
     [sold |-> MapThenSumSet(LAMBDA o : o.quantity, own), revenue |-> MapThenSumSet(Net, own), last |-> LatestDay(own)]]

At(totals, x, empty) == IF x \in DOMAIN totals THEN totals[x] ELSE empty

RetailerDiffsOfRemaining(actual, other) ==
  [r \in DOMAIN other |->
     LET a == At(actual, r, [orders |-> 0, revenue |-> 0, health |-> 0]) IN
     [orders |-> other[r].orders - a.orders, revenue |-> other[r].revenue - a.revenue,
      health |-> other[r].health - a.health]]

\* _diff_retailer_aggregates()
RetailerDiffs(actual, other) ==
  LET empty == [orders |-> 0, revenue |-> 0, health |-> 0] IN
  [r \in DOMAIN actual \cup DOMAIN other |->
     LET a == At(actual, r, empty)
         c == At(other, r, empty)
     IN [orders |-> c.orders - a.orders, revenue |-> c.revenue - a.revenue, health |-> c.health - a.health]]

\* _diff_product_aggregates()
ProductDiffs(actual, other) ==
  LET empty == [sold |-> 0, revenue |-> 0] IN
  [p \in DOMAIN actual \cup DOMAIN other |->
     LET a == At(actual, p, empty)
         c == At(other, p, empty)
     IN [sold |-> c.sold - a.sold, revenue |-> c.revenue - a.revenue]]

-----------------------------------------------------------------------------
(* The twins of the warehouse and of an order set.                          *)

\* _load_retailer_product_pairs()
Assortments(orders) ==
  [r \in {o.retailer : o \in orders} |-> SetToSeq({o.product : o \in {x \in orders : x.retailer = r}})]

\* _load_classic_twin() with _load_anomalies() and _load_ml_predictions(): the
\* dimensions joined with what was computed from the orders.
ClassicTwin(warehouse) ==
  LET sellers == RetailerTotals(warehouse.orders)
      goods == ProductTotals(warehouse.orders)
      dims == warehouse.dims
  IN [tick |-> 0, suspects |-> {a.entity : a \in warehouse.anomalies}, forecasts |-> warehouse.forecasts,
      retailers |-> [r \in DOMAIN dims.retailers |->
        LET t == At(sellers, r, [orders |-> 0, revenue |-> 0]) IN
        [status |-> dims.retailers[r], orders |-> t.orders, revenue |-> t.revenue]],
      products |-> [p \in DOMAIN dims.products |->
        [price |-> dims.products[p].price, stock |-> dims.products[p].stock,
         category |-> dims.products[p].category, velocity |-> dims.products[p].velocity,
         sold |-> At(goods, p, [sold |-> 0]).sold, since |-> 0, moved |-> 0]]]

\* _load_tenant_twin(): the tenant's orders only; no status, no price.
TenantTwin(warehouse) ==
  LET sellers == RetailerTotals(warehouse.tenant)
      goods == ProductTotals(warehouse.tenant)
  IN [tick |-> 0, suspects |-> {a.entity : a \in warehouse.anomalies}, forecasts |-> warehouse.forecasts,
      retailers |-> [r \in DOMAIN sellers |->
        [status |-> None, orders |-> sellers[r].orders, revenue |-> sellers[r].revenue]],
      products |-> [p \in DOMAIN goods |->
        [price |-> None, stock |-> None, category |-> "uncategorized", velocity |-> None,
         sold |-> goods[p].sold, since |-> 0, moved |-> 0]]]

\* _build_twin_from_aggregates(): today's dimensions with the totals of then; an
\* entity the dimensions do not have is there all the same, without a price.
TwinFromTotals(retailers, products, dims) ==
  [tick |-> 0, suspects |-> {}, forecasts |-> [p \in {} |-> 0],
   retailers |-> [r \in DOMAIN dims.retailers \cup DOMAIN retailers |->
     LET t == At(retailers, r, [orders |-> 0, revenue |-> 0]) IN
     [status |-> At(dims.retailers, r, "active"), orders |-> t.orders, revenue |-> t.revenue]],
   products |-> [p \in DOMAIN dims.products \cup DOMAIN products |->
     LET d == At(dims.products, p, [price |-> None, stock |-> None, category |-> "uncategorized"]) IN
     [price |-> d.price, stock |-> d.stock, category |-> d.category, velocity |-> None,
      sold |-> At(products, p, [sold |-> 0]).sold, since |-> 0, moved |-> 0]]]

\* The replay: the agents of an order set's twin, if any tick is to be replayed.
Replayed(orders, dims, pairs, ticks) ==
  LET twin == TwinFromTotals(RetailerTotals(orders), ProductTotals(orders), dims) IN
  IF ticks > 0 THEN Projection(twin, pairs, NoOverrides, ticks) ELSE twin
================================================================================
