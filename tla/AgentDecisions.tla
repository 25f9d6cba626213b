---------------------------- MODULE AgentDecisions ----------------------------
(***************************************************************************)
(* autonomy/*_agent.py: what each of the five agents proposes, as functions *)
(* of the digital twin.  Money is counted in cents, and confidences, risks  *)
(* and priorities in hundredths.  A baseline, forecast, cost, trend, growth *)
(* or rise of 0 is one that is absent.                                      *)
(***************************************************************************)
EXTENDS Integers, Sequences, FiniteSets

CONSTANT MaxActions  \* max_actions_per_agent_per_run

MinUnitPrice == 100
MinBaseReorder == 10

Least(a, b) == IF a =< b THEN a ELSE b
Greatest(a, b) == IF a >= b THEN a ELSE b
Between(low, x, high) == Greatest(low, Least(high, x))
Magnitude(x) == IF x < 0 THEN -x ELSE x
Percent(x, n) == (x * n + 50) \div 100     \* n% of x, rounded
Optional(c, a) == IF c THEN <<a>> ELSE <<>>

\* One proposal; price 0 and delta 0 stand for params without new_price and
\* inventory_delta, from for current_price and base for base_reorder_quantity.
Proposal(type, entity, confidence, priority) ==
  [type |-> type, entity |-> entity, confidence |-> confidence, priority |-> priority,
   from |-> 0, price |-> 0, delta |-> 0, base |-> 0]
Reprice(proposal, from, price) == [proposal EXCEPT !.from = from, !.price = price]
Restock(proposal, base, delta) == [proposal EXCEPT !.base = base, !.delta = delta]

\* The elements of s by increasing key, stable: key[i] is the key of s[i], and
\* Place(key, i) where sorted() puts it.
Before(key, i, j) == key[i] < key[j] \/ (key[i] = key[j] /\ i =< j)
Place(key, j) == Cardinality({i \in DOMAIN key : Before(key, i, j)})
SortedBy(s, key) == [k \in 1..Len(s) |-> s[CHOOSE j \in DOMAIN s : Place(key, j) = k]]

\* Every decide(): the highest priorities, up to the cap of one call.
Selected(candidates) ==
  LET byPriority == SortedBy(candidates, [k \in DOMAIN candidates |-> -candidates[k].priority])
  IN SubSeq(byPriority, 1, Least(Len(candidates), MaxActions))

\* What a loop over a list appends, list[k] in its kth turn.
Joined(lists) ==
  LET upTo[k \in 0..Len(lists)] == IF k = 0 THEN <<>> ELSE upTo[k - 1] \o lists[k]
  IN upTo[Len(lists)]

-----------------------------------------------------------------------------
(* Signals of one product p (a record), named id.                           *)

Risk(p) == Between(0, p.risk, 100)
BaseReorder(p) == Greatest(MinBaseReorder, p.sold)
PriceFloor(p) == IF p.cost = 0 THEN MinUnitPrice ELSE Greatest(MinUnitPrice, Percent(p.cost, 105))

\* pricing: a price anomaly, then inventory risk, then the forecast.
RevertPrice(id, p, anomaly) ==
  LET new == Greatest(anomaly.baseline, PriceFloor(p))
      deviation == Magnitude(anomaly.deviation)
  IN Optional(new # p.price,
       Reprice(Proposal("revert_price", id, Between(55, deviation \div 3, 95), 300 + deviation),
               p.price, new))

RunPromotion(id, p) ==
  LET discount == Between(10, Percent(Risk(p), 40), 40)
      new == Greatest(Percent(p.price, 100 - discount), PriceFloor(p))
  IN Optional(new < p.price,
       Reprice(Proposal("run_promotion", id, Between(40, Risk(p), 90), 200 + Risk(p)), p.price, new))

FollowForecast(id, p) ==
  LET drift == ((p.forecast - p.price) * 100) \div p.price
      new == Greatest(p.forecast, PriceFloor(p))
      type == IF new > p.price THEN "increase_price" ELSE "decrease_price"
  IN IF Magnitude(p.forecast - p.price) * 100 < 3 * p.price
     THEN <<Proposal("freeze_price", id, 35, 10)>>
     ELSE Optional(new # p.price,
            Reprice(Proposal(type, id, Between(30, 3 * Magnitude(drift), 85), 100 + Magnitude(drift)),
                    p.price, new))

\* anomaly: the newest price_anomaly on this product, if there is one.
PricingCandidates(id, p, anomaly) ==
  IF ~p.active THEN <<>>
  ELSE IF anomaly # <<>> /\ anomaly[1].baseline # 0 THEN RevertPrice(id, p, anomaly[1])
  ELSE IF p.band = "high" THEN RunPromotion(id, p)
  ELSE IF p.forecast # 0 /\ p.price # 0 THEN FollowForecast(id, p)
  ELSE <<>>

\* inventory: restock when the risk is high, and page as well on a stockout.
HighRisk(id, p) ==
  LET stockout == p.stock =< 0
      reorder == Proposal("reorder_inventory", id, Between(50, Risk(p), 95),
                          (IF stockout THEN 390 ELSE 300) + Risk(p))
  IN Optional(stockout, Proposal("trigger_stockout_alert", id, 95, 400))
     \o <<Restock(reorder, BaseReorder(p), Percent(BaseReorder(p), 100 + Risk(p)))>>

InventoryCandidates(id, p) ==
  IF ~p.active THEN <<>>
  ELSE IF p.band = "high" THEN HighRisk(id, p)
  ELSE IF p.band = "medium"
       THEN IF p.rise >= 15
            THEN <<Proposal("increase_reorder_quantity", id, Between(35, 2 * p.rise, 85), 200 + Risk(p))>>
            ELSE <<Proposal("mark_at_risk", id, 45, 150 + Risk(p))>>
  ELSE Optional(p.stock >= 20 /\ p.sold * 100 =< 5 * p.stock,
                Proposal("reduce_reorder_quantity", id, 40, 200 - Risk(p)))

\* demand: a trending product, and the segments of products and of retailers.
TrendingCandidates(id, p) ==
  LET new == Percent(p.price, 90)
      promoted == p.band # "high" /\ new >= PriceFloor(p) /\ new < p.price
  IN IF ~p.active \/ p.trend < 20 THEN <<>>
     ELSE IF promoted
     THEN <<Reprice(Proposal("launch_promotion", id, Between(40, p.trend, 85), 200 + p.trend), p.price, new)>>
     ELSE <<Proposal("boost_trending", id, Between(30, Percent(p.trend, 70), 70), 100 + p.trend)>>

SegmentCandidates(id, p) ==
  IF ~p.active THEN <<>>
  ELSE IF p.segment = "fast_movers" THEN <<Proposal("target_product_cluster", id, 55, 80)>>
  ELSE Optional(p.segment = "low_margin" /\ p.sold >= 5, Proposal("suppress_low_margin", id, 50, 70))

TargetRetailer(id, r) ==
  LET growing == r.segment = "high_gmv"
  IN Optional(r.active /\ (growing \/ r.growth # 0),
       Proposal("target_retailer_segment", id,
                50 + (IF growing THEN 20 ELSE 0) + (IF r.growth # 0 THEN 20 ELSE 0),
                100 + (IF growing THEN 50 ELSE 0) + (IF r.growth # 0 THEN 50 ELSE 0)))

\* retailer_strategy: one operational change, and an independent recommendation.
Operational(id, r, degraded) ==
  IF degraded THEN <<Proposal("adjust_inventory_strategy", id, 75, 300)>>
  ELSE IF r.profit < 0 THEN <<Proposal("adjust_fulfillment_strategy", id, 60, 250)>>
  ELSE IF r.health < 40
       THEN <<Proposal("adjust_pricing_strategy", id, Between(30, 70 - r.health, 80), 200)>>
  ELSE Optional(r.segment = "low_gmv", Proposal("adjust_promotion_strategy", id, 50, 150))

StrategyCandidates(id, r, degraded) ==
  IF ~r.active THEN <<>>
  ELSE Operational(id, r, degraded)
       \o Optional(r.segment = "anomaly_prone", Proposal("recommend_long_term_change", id, 50, 50))

\* anomaly_response: a response to each open anomaly a of a type it knows, where p
\* is the product it is about, or sold what that product has sold; the twin may not
\* know it.
NotifyOnly == {"order_velocity_change", "event_lag_spike", "ingestion_volume_anomaly",
               "quarantine_rate_anomaly"}
Severity(a) == IF a.critical THEN 300 ELSE 200
Certainty(a) == IF a.critical THEN 90 ELSE 60

PriceResponse(a, p) ==
  LET halfway == p.price - Percent(p.price - a.baseline, 50)
      corrected == Greatest(halfway, PriceFloor(p))
      lower == Percent(p.price, 85)
      promoted == IF lower >= p.price \/ lower < MinUnitPrice THEN p.price ELSE lower
  IN IF a.baseline = 0 THEN <<>>
     ELSE IF p.price > a.baseline
     THEN Optional(corrected # p.price,
            Reprice(Proposal("adjust_pricing", a.entity, Certainty(a), Severity(a) + 50), p.price, corrected))
     ELSE <<Reprice(Proposal("adjust_promotions", a.entity, Certainty(a), Severity(a) + 40), p.price, promoted)>>

StockoutResponse(a, sold) ==
  LET quantity == Greatest(5, Percent(sold, 50))
  IN <<Restock(Proposal("adjust_inventory", a.entity, Certainty(a), Severity(a) + 50), quantity, quantity)>>

ResponseCandidates(a, products) ==
  LET known == a.entity \in DOMAIN products IN
  IF a.type = "price_anomaly" THEN IF known THEN PriceResponse(a, products[a.entity]) ELSE <<>>
  ELSE IF a.type = "inventory_stockout"
       THEN StockoutResponse(a, IF known THEN products[a.entity].sold ELSE 0)
  ELSE IF a.type = "retailer_health_degradation"
       THEN <<Proposal("trigger_simulation_scenario", a.entity, Certainty(a), Severity(a) + 40)>>
  ELSE IF a.type \in {"gmv_spike", "gmv_drop"}
       THEN <<Proposal("trigger_counterfactual_analysis", a.entity, Certainty(a), Severity(a) + 30)>>
  ELSE Optional(a.type \in NotifyOnly,
                Proposal("notify_tenant_admins", a.entity, Certainty(a), Severity(a)))
===============================================================================
