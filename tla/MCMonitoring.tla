----------------------------- MODULE MCMonitoring -----------------------------
(* Instances of Monitoring: a quarantine file, which refreshes write again or *)
(* which is one of Mongo's, one retailer, two products, and refreshes that    *)
(* leave a calm warehouse or one in which every detector has something to say.*)
EXTENDS Monitoring

CONSTANTS f1, r1, p1, p2, orders, created

FileErrors == [f \in {f1} |-> {"required", "pattern", "minimum"}]

Move(p, percent) == [product |-> p, percent |-> percent]
Calm ==
  [gmv |-> <<5, 5, 5, 9>>, orders |-> <<3, 3>>, hours |-> <<>>,
   stock |-> [p \in {p1, p2} |-> 4], prices |-> <<>>,
   lags |-> [t \in {created} |-> <<1, 1>>],
   runs |-> [e \in {orders} |-> [valid |-> 4, invalid |-> 1]],
   health |-> [r \in {r1} |-> 1]]
Alarming ==
  [gmv |-> <<4, 6, 4, 6, 1>>, orders |-> <<4, 6, 4, 6, 20>>, hours |-> <<1, 2, 1, 2, 9>>,
   stock |-> [p \in {p1, p2} |-> IF p = p1 THEN 0 ELSE 7],
   prices |-> <<Move(p1, -60), Move(p2, 5), Move(p1, 1), Move(p2, 2), Move(p1, 3)>>,
   lags |-> [t \in {created} |-> <<9, 9, 1, 2, 1, 2, 1>>],
   runs |-> [e \in {orders} |-> [valid |-> 1, invalid |-> 1]],
   health |-> [r \in {r1} |-> 0]]
Refreshes == [calm |-> Calm, alarming |-> Alarming]

\* The operators against their definitions, for small inputs.
Samples == UNION {[1..n -> 0..3] : n \in 1..4}

\* A percentile lies between the values around its rank, and grows with the rank.
ASSUME PercentileIsAQuantile == \A s \in Samples : \A pct \in {0, 10, 50, 95, 100} :
  LET v == Percentile(s, pct)
      Least == \E i \in DOMAIN s : 100 * s[i] =< v
      Most == \E i \in DOMAIN s : 100 * s[i] >= v
      Below == Cardinality({i \in DOMAIN s : 100 * s[i] =< v})
  IN /\ Least /\ Most
     /\ 100 * Below >= (Len(s) - 1) * pct
     /\ v =< Percentile(s, 100)

\* The lowest shelf is always reported, however full it is, and every empty one.
ASSUME LowestShelfIsReported == \A stock \in [{p1, p2} -> 0..3] :
  LET stockouts == InventoryStockouts(stock)
      reported == {a.entity : a \in stockouts}
  IN /\ {p \in {p1, p2} : \A q \in {p1, p2} : stock[p] =< stock[q]} \subseteq reported
     /\ \A p \in {p1, p2} : stock[p] = 0 <=> Anomaly("inventory_stockout", "critical", p) \in stockouts

\* A flat history never raises an alarm, and no value at its mean does.
ASSUME FlatHistoryIsSilent == \A h \in [1..3 -> 0..3], v \in 0..9 :
  LET alarms == GmvAnomalies(Append(h, v))
  IN /\ (\A i \in DOMAIN h : h[i] = h[1]) => alarms = {}
     /\ 3 * v = SumOf(h) => alarms = {}
===============================================================================
