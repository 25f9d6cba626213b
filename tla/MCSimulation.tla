------------------------------ MODULE MCSimulation ------------------------------
(***************************************************************************)
(* Simulation for TLC.  Two retailers share two products, one of them       *)
(* almost out of stock; a rebuild changes what the second retailer carries, *)
(* a price and a stock.  The jobs are batches that run every scenario and   *)
(* counterfactual type, with unknown ids and scenarios that set what is     *)
(* already so among them, and endpoint calls with strategies of their own.  *)
(***************************************************************************)
EXTENDS Simulation

SeedDraws == [n \in 1..41 |-> (37 * n + 74) % 100]
SevenDays == <<100, 112, 115, 106, 94, 85, 88>>
Shelf == <<"garden", "kitchen", "toys", "uncategorized">>

Order(id, r, p, day, quantity, gross) ==
  [id |-> id, retailer |-> r, product |-> p, day |-> day, quantity |-> quantity,
   gross |-> gross, discount |-> 1, cost |-> 5]
Orders1 == {Order(1, "ra", "mug", 1, 2, 20), Order(2, "ra", "pot", 2, 1, 30),
            Order(3, "rb", "mug", 3, 4, 40), Order(4, "rb", "mug", None, 1, 10)}
Orders2 == Orders1 \cup {Order(5, "rb", "pot", 4, 1, 30)}

Good(price, stock, category, velocity) ==
  [price |-> price, stock |-> stock, category |-> category, velocity |-> velocity]
Dims(pot) ==
  [retailers |-> [r \in {"ra", "rb"} |-> "active"],
   products |-> [p \in {"mug", "pot"} |->
     IF p = "mug" THEN Good(10, 3, "kitchen", None) ELSE Good(pot, 6, "garden", 20)]]
Snapshot(orders, dims) ==
  [orders |-> orders, dims |-> dims, tenant |-> {Order(9, "tr", "tp", 1, 1, 10)},
   anomalies |-> {[id |-> "a1", kind |-> "retailer", entity |-> "rb", day |-> 3]},
   forecasts |-> [p \in {"pot"} |-> 90]]
AllWarehouses == {Snapshot(Orders1, Dims(30)), Snapshot(Orders2, Dims(33))}

Always == [from |-> None, to |-> None]
Price(p, n) == [type |-> "price_change", product |-> p, price |-> n]
Stock(p, n) == [type |-> "inventory_change", product |-> p, delta |-> n]
ShockOf(n) == [type |-> "demand_shock", multiplier |-> n]
Delay(p, n) == [type |-> "supply_chain_delay", product |-> p, ticks |-> n]
Outage(r, n) == [type |-> "retailer_outage", retailer |-> r, ticks |-> n]
Launch(p, c) == [type |-> "product_launch", product |-> p, price |-> 12, stock |-> 4,
                 category |-> c, sellers |-> {"rb"}]
Promotion(r, n, d) == [type |-> "promotion_event", retailer |-> r, ticks |-> n, discount |-> d]
Entry(n) == [type |-> "competitor_entry", pressure |-> n]
Exit(n) == [type |-> "competitor_exit", pressure |-> n]
NoOrdersOf(r, window) == [type |-> "remove_retailer_orders", retailer |-> r, window |-> window,
                          scope |-> Always, ticks |-> 3]
NoSalesOf(p, window) == [type |-> "remove_product_orders", product |-> p, window |-> window,
                         scope |-> [from |-> 1, to |-> 2], ticks |-> 0]
Reprice(p, n) == [type |-> "modify_price", product |-> p, percent |-> n, window |-> Always,
                  scope |-> Always, ticks |-> 3]
NoAnomaly(a) == [type |-> "remove_anomaly_window", anomaly |-> a, days |-> 1, scope |-> Always, ticks |-> 2]

Batch(specs) == [kind |-> "batch", tenant |-> FALSE, ticks |-> 4, overrides |-> NoOverrides, specs |-> specs]
Call(spec, tenant, overrides) ==
  [kind |-> "endpoint", tenant |-> tenant, ticks |-> 4, overrides |-> overrides, specs |-> <<spec>>]
Override(r, strategy) == [NoOverrides EXCEPT !.sellers = [x \in {r} |-> strategy]]
Careful == [NewStrategy EXCEPT !.inventory = "proactive", !.fulfillment = "constrained",
                               !.cap = 1, !.threshold = 1, !.reorder = 2, !.ml = TRUE]
Wary == [NewStrategy EXCEPT !.promotion = "anomaly_triggered", !.response = "throttle"]
Perishing == [NoOverrides EXCEPT !.curves = [p \in {"mug"} |-> [NewDemand EXCEPT !.decay = 30]]]

AllJobs ==
  {Batch(<<ShockOf(160), Price("pot", 30), NoOrdersOf("ra", Always)>>),
   Batch(<<Price("cup", 9), Outage("ra", 2), NoAnomaly("a1")>>),
   Batch(<<Stock("mug", 5), Stock("mug", 0), NoAnomaly("a2")>>),
   Batch(<<Promotion("rb", 2, 20), Entry(20), Reprice("pot", 90)>>),
   Batch(<<Launch("jar", "toys"), Delay("mug", 2), NoSalesOf("pot", [from |-> 3, to |-> None])>>),
   Batch(<<Exit(0), Launch("pot", "toys"), ShockOf(100)>>),
   Batch(<<>>),
   Call(ShockOf(300), FALSE, Override("rb", Careful)),
   Call(Price("mug", 5), FALSE, Override("rb", Wary)),
   Call(Promotion("rb", 2, 20), FALSE, NoOverrides),
   Call(Delay("mug", 0), FALSE, Perishing),
   Call(ShockOf(150), TRUE, NoOverrides),
   Call(Outage("rx", 2), FALSE, NoOverrides),
   Call(NoOrdersOf("rc", Always), FALSE, NoOverrides),
   Call(NoAnomaly("a2"), FALSE, NoOverrides)}

\* One more call: a promotion of a retailer whose strategy the caller chose.
SharedStrategyJobs == {Call(Promotion("rb", 2, 20), FALSE, Override("rb", Careful))}
================================================================================
