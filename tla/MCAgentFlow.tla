----------------------------- MODULE MCAgentFlow -----------------------------
(* Instances of AgentFlow.  The cases make every rung of every agent's ladder *)
(* propose something, and the agents collide on products and on retailers.   *)
EXTENDS AgentFlow

CONSTANTS p1, p2, r1, system, unknown

Calm == [active |-> TRUE, price |-> 1000, cost |-> 0, stock |-> 10, sold |-> 6, band |-> "low",
         risk |-> 20, forecast |-> 0, rise |-> 0, trend |-> 0, segment |-> "none"]
SoldOut == [Calm EXCEPT !.stock = 0, !.band = "high", !.risk = 84]
Doomed == [Calm EXCEPT !.stock = 3, !.band = "high", !.risk = 100, !.trend = 50]
Trending == [Calm EXCEPT !.trend = 60, !.forecast = 1600, !.segment = "fast_movers", !.cost = 800]
Watched == [Calm EXCEPT !.band = "medium", !.risk = 50, !.forecast = 1010, !.segment = "low_margin"]
Rising == [Watched EXCEPT !.rise = 30, !.forecast = 700]
Excess == [Calm EXCEPT !.stock = 200, !.price = 1100]
Free == [Calm EXCEPT !.price = 0]
Retired == [SoldOut EXCEPT !.active = FALSE]

Thriving == [active |-> TRUE, profit |-> 10, health |-> 90, segment |-> "high_gmv", growth |-> 5]
Stalled == [Thriving EXCEPT !.segment = "low_gmv", !.growth = 0]
Losing == [Thriving EXCEPT !.profit = -10, !.segment = "anomaly_prone"]
Weak == [Thriving EXCEPT !.health = 30]
Closed == [Thriving EXCEPT !.active = FALSE]

Open(type, entity, critical, baseline) ==
  [type |-> type, entity |-> entity, critical |-> critical, baseline |-> baseline, deviation |-> 120]
Quiet == <<>>
PriceHigh == <<Open("price_anomaly", p1, TRUE, 400)>>
Low == <<Open("price_anomaly", p1, FALSE, 1500), Open("gmv_drop", system, TRUE, 0),
         Open("event_lag_spike", system, FALSE, 0)>>
Troubled == <<Open("retailer_health_degradation", r1, TRUE, 0), Open("inventory_stockout", p1, TRUE, 0)>>

Strange == <<Open("inventory_stockout", unknown, FALSE, 0), Open("price_anomaly", unknown, TRUE, 400),
             Open("unheard_of", system, TRUE, 0)>>

OneProduct == <<p1>>
OneRetailer == <<r1>>
AllProducts == {SoldOut, Doomed, Trending, Watched, Rising, Excess, Free, Retired}
AllRetailers == {Thriving, Stalled, Losing, Weak, Closed}
AllAnomalies == {Quiet, PriceHigh, Low, Troubled, Strange}
Stockouts == {SoldOut}
Thrivers == {Thriving}
Silence == {Quiet}
===============================================================================
