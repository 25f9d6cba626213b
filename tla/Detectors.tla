------------------------------- MODULE Detectors -------------------------------
(***************************************************************************)
(* anomalies/detector.py: what the eight detectors report about one        *)
(* snapshot of the warehouse.  Each is a function of the rows it selects;  *)
(* only retailer health also needs the baseline of earlier passes.         *)
(*                                                                         *)
(* Values are integers.  Comparisons of quotients are cross-multiplied,    *)
(* so no detector rounds; a percentile is given in hundredths.             *)
(***************************************************************************)
EXTENDS Integers, Sequences, SequencesExt

CONSTANTS
  Products,   \* the active products of dim_product
  Entities,   \* the entities of ingestion_runs
  EventTypes, \* the event types of fact_orders_events
  RecentN,    \* recent_n of the lag detector
  Nothing     \* a baseline that does not exist yet

ASSUME DetectorsAssumption == RecentN \in Nat \ {0} /\ Nothing \notin Int

Anomaly(type, severity, entity) == [type |-> type, severity |-> severity, entity |-> entity]

-----------------------------------------------------------------------------
(* The statistics.                                                          *)

SumOf(s) == FoldLeft(+, 0, s)
Squares(s) == [j \in DOMAIN s |-> s[j] * s[j]]
Square(x) == x * x

\* n^2 times the population variance of s, n its length: rolling_mean_std().
Spread(s) == Len(s) * SumOf(Squares(s)) - Square(SumOf(s))

\* abs(zscore()) >= w/2 for the quotient value/parts against the baseline; a
\* baseline without variance has no z-score.
Deviates(value, parts, baseline, w) ==
  /\ Spread(baseline) > 0
  /\ 4 * Square(Len(baseline) * value - parts * SumOf(baseline)) >= Square(w * parts) * Spread(baseline)

Above(value, parts, baseline) == Len(baseline) * value > parts * SumOf(baseline)

ZWarn == 4
ZCrit == 7

\* _severity_from_magnitude() of a value known to deviate.
ZSeverity(value, parts, baseline) ==
  IF Deviates(value, parts, baseline, ZCrit) THEN "critical" ELSE "warning"

Ordered(s) == SortSeq(s, <)

\* percentile(), times 100: between the two nearest ranks.
Percentile(s, pct) ==
  LET o == Ordered(s)
      rank == (Len(s) - 1) * pct
      low == rank \div 100
      high == IF low + 1 =< Len(s) - 1 THEN low + 1 ELSE Len(s) - 1
  IN IF s = <<>> THEN 0
     ELSE 100 * o[low + 1] + (o[high + 1] - o[low + 1]) * (rank % 100)

\* ewma_update() with alpha = 0.3, on scores in thousandths.
EwmaUpdate(previous, value) ==
  IF previous = Nothing THEN value ELSE (3 * value + 7 * previous) \div 10

-----------------------------------------------------------------------------
(* The detectors.                                                           *)

Newest(s, n) == IF Len(s) =< n THEN s ELSE SubSeq(s, Len(s) - n + 1, Len(s))

\* One total per day or hour, the last one under test, the baseline at most
\* `lookback` before it; with fewer than four rows nothing is said.
SeriesAnomalies(rows, lookback, spike, drop, entity) ==
  LET history == Newest(Front(rows), lookback)
      current == Last(rows)
  IN IF Len(rows) < 4 \/ ~Deviates(current, 1, history, ZWarn) THEN {}
     ELSE {Anomaly(IF Above(current, 1, history) THEN spike ELSE drop,
                   ZSeverity(current, 1, history), entity)}

GmvAnomalies(days) == SeriesAnomalies(days, 14, "gmv_spike", "gmv_drop", "marketplace")

OrderVelocityAnomalies(days) ==
  SeriesAnomalies(days, 14, "order_velocity_change", "order_velocity_change", "marketplace")

IngestionVolumeAnomalies(hours) ==
  SeriesAnomalies(hours, 24, "ingestion_volume_anomaly", "ingestion_volume_anomaly", "ingestion")

\* stock[p]: inventory_count.  An empty shelf is critical, the lowest decile a warning.
InventoryStockouts(stock) ==
  LET counts == [j \in 1..Cardinality(Products) |-> stock[SetToSeq(Products)[j]]]
      low == Percentile(counts, 10)
  IN {Anomaly("inventory_stockout", IF stock[p] =< 0 THEN "critical" ELSE "warning", p)
        : p \in {q \in Products : stock[q] =< 0 \/ 100 * stock[q] =< low}}

\* Price changes are percentages of the old price, one per price_changed event.
PriceAnomalies(changes) ==
  LET size(c) == IF c.percent < 0 THEN -c.percent ELSE c.percent
      usual == Percentile([j \in DOMAIN changes |-> size(changes[j])], 95)
      threshold == IF usual < 3000 THEN 3000 ELSE usual
      Severity(c) == IF 100 * size(c) >= 2 * threshold THEN "critical" ELSE "warning"
  IN IF Len(changes) < 5 THEN {}
     ELSE {Anomaly("price_anomaly", Severity(changes[j]), changes[j].product)
             : j \in {i \in DOMAIN changes : 100 * size(changes[i]) >= threshold}}

\* lags[t]: seconds between event and load, newest first; only a rise counts.
EventLagSpikes(lags) ==
  LET recent(t) == SumOf(SubSeq(lags[t], 1, RecentN))
      baseline(t) == SubSeq(lags[t], RecentN + 1, Len(lags[t]))
      Spiking(t) == /\ Len(lags[t]) >= RecentN + 5
                    /\ Above(recent(t), RecentN, baseline(t))
                    /\ Deviates(recent(t), RecentN, baseline(t), ZWarn)
  IN {Anomaly("event_lag_spike", ZSeverity(recent(t), RecentN, baseline(t)), t)
        : t \in {u \in EventTypes : Spiking(u)}}

\* runs[e]: the documents of entity e accepted and quarantined so far.
QuarantineRateAnomalies(runs) ==
  LET total(e) == runs[e].valid + runs[e].invalid
      AtLeast(e, percent) == total(e) > 0 /\ 100 * runs[e].invalid >= percent * total(e)
  IN {Anomaly("quarantine_rate_anomaly", IF AtLeast(e, 50) THEN "critical" ELSE "warning", e)
        : e \in {d \in Entities : AtLeast(d, 25)}}

\* The score has fallen by at least `percent` of the baseline.
Dropped(previous, score, percent) ==
  previous # Nothing /\ previous > 0 /\ 100 * (previous - score) >= percent * previous

HealthAnomalies(scores, baseline) ==
  {Anomaly("retailer_health_degradation",
           IF Dropped(baseline[r], scores[r], 35) THEN "critical" ELSE "warning", r)
     : r \in {q \in DOMAIN scores : Dropped(baseline[q], scores[q], 15)}}

\* What the stateless detectors find in a snapshot of the warehouse.
SnapshotAnomalies(snapshot) ==
  UNION {GmvAnomalies(snapshot.gmv), OrderVelocityAnomalies(snapshot.orders),
         InventoryStockouts(snapshot.stock), PriceAnomalies(snapshot.prices),
         EventLagSpikes(snapshot.lags), IngestionVolumeAnomalies(snapshot.hours),
         QuarantineRateAnomalies(snapshot.runs)}
===============================================================================
