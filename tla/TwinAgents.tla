------------------------------- MODULE TwinAgents -------------------------------
(***************************************************************************)
(* The digital twin and the agents that move it: the in-memory part of      *)
(* simulation/digital_twin.py, simulation/agents/*.py and                   *)
(* simulation/scenario_engine.py, as operators.                             *)
(*                                                                          *)
(* A world is a twin with the agents built for it:                          *)
(*   twin.tick, twin.retailers, twin.products, twin.suspects (the entities  *)
(*     of the recent anomalies), twin.forecasts (of ml.forecasts)           *)
(*   market    the marketplace agent: conditions, pressure and how many     *)
(*             numbers its generator has given                              *)
(*   sellers   retailer agents: strategy and the products they carry        *)
(*   curves    product agents: reference price and velocity, and the demand *)
(*             they have not given out yet                                  *)
(* Fractions are whole numbers of hundredths.  The elasticity of a product  *)
(* is -1.                                                                   *)
(***************************************************************************)
EXTENDS Integers, Sequences, FiniteSetsExt, SequencesExt

CONSTANTS
  None,
  Draw,        \* the numbers of random.Random(seed) until they repeat, in hundredths
  Season,      \* the seasonal multipliers of the ticks of a period
  Categories   \* every category, in the order a set of them is iterated in

ASSUME TwinAgentsAssumption ==
  /\ None \notin Int
  /\ Draw \in Seq(0..99) /\ Draw # <<>>
  /\ Season \in Seq(Int) /\ Season # <<>>
  /\ Categories \in Seq(ToSet(Categories)) /\ Len(Categories) = Cardinality(ToSet(Categories))
  /\ "uncategorized" \in ToSet(Categories)

Times(a, b) == (a * b) \div 100
AtLeast0(n) == IF n < 0 THEN 0 ELSE n
Lesser(m, n) == IF m < n THEN m ELSE n
Clip(lo, n, hi) == AtLeast0(Lesser(n, hi) - lo) + lo
Rounded(n, d) == (2 * n + d) \div (2 * d)
Cycle(s, n) == s[1 + (n % Len(s))]

-----------------------------------------------------------------------------
(* The twin (digital_twin.py).                                              *)

\* demand_curve_point(): the warehouse's velocity, or sold per piece in stock.
Curve(product) ==
  IF product.velocity # None THEN product.velocity
  ELSE IF product.stock \in {None, 0} THEN 0
  ELSE (100 * product.sold) \div product.stock

\* apply_order(); sold is counted from zero in "since", the stock it took with it.
Sold(product, quantity) ==
  [product EXCEPT !.sold = @ + quantity, !.since = @ + quantity,
                  !.stock = IF @ = None THEN None ELSE AtLeast0(@ - quantity)]
ApplyOrder(twin, r, p, quantity, amount) ==
  [twin EXCEPT !.retailers[r].orders = @ + 1, !.retailers[r].revenue = @ + amount,
               !.products[p] = Sold(@, quantity)]

ApplyPrice(twin, p, price) == [twin EXCEPT !.products[p].price = price]

\* apply_inventory_delta(); what it really moved is kept in "moved".
Held(product) == IF product.stock = None THEN 0 ELSE product.stock
Stocked(product, delta) ==
  LET left == AtLeast0(Held(product) + delta)
  IN [product EXCEPT !.stock = left, !.moved = @ + left - Held(product)]
ApplyStock(twin, p, delta) == [twin EXCEPT !.products[p] = Stocked(@, delta)]

ApplyStatus(twin, r, status) == [twin EXCEPT !.retailers[r].status = status]

Gmv(twin) == MapThenSumSet(LAMBDA r : twin.retailers[r].revenue, DOMAIN twin.retailers)
UnitsSold(twin) == MapThenSumSet(LAMBDA p : twin.products[p].sold, DOMAIN twin.products)
AverageVelocity(twin) ==
  IF DOMAIN twin.products = {} THEN None
  ELSE MapThenSumSet(LAMBDA p : Curve(twin.products[p]), DOMAIN twin.products)
         \div Cardinality(DOMAIN twin.products)

-----------------------------------------------------------------------------
(* The marketplace agent (marketplace_agent.py).                            *)

Shock == [chance |-> 5, low |-> 50, high |-> 180]
TrendDrift == 2
NewMarket == [multiplier |-> 100, season |-> 100, trend |-> [c \in ToSet(Categories) |-> 100],
              pressure |-> 0, baseline |-> 0, drawn |-> 0]

CategoriesOf(twin) == {twin.products[p].category : p \in DOMAIN twin.products}
Place(c, S) == Cardinality({i \in DOMAIN Categories :
  Categories[i] \in S /\ \E j \in DOMAIN Categories : i < j /\ Categories[j] = c})

\* step(): a shock or the decay of the last one, then every category's walk; each
\* takes the generator's next number.  The trend of a category not seen yet is 100.
MarketStep(market, twin) ==
  LET shocked == Cycle(Draw, market.drawn) < Shock.chance
      next == market.drawn + (IF shocked THEN 2 ELSE 1)
      cats == CategoriesOf(twin)
  IN [market EXCEPT
        !.season = Cycle(Season, twin.tick),
        !.multiplier = IF shocked
                       THEN Shock.low + Times(Shock.high - Shock.low, Cycle(Draw, market.drawn + 1))
                       ELSE @ + ((100 - @) * 3) \div 10,
        !.trend = [c \in DOMAIN @ |->
                     IF c \notin cats THEN @[c]
                     ELSE Times(@[c], 100 - TrendDrift + Times(2 * TrendDrift, Cycle(Draw, next + Place(c, cats))))],
        !.drawn = next + Cardinality(cats),
        !.pressure = market.baseline]

-----------------------------------------------------------------------------
(* Product agents (product_agent.py).                                       *)

\* Every value an agent's strategy may have.
Demands == [base : Int, sensitivity : Int, decay : Int]
NewDemand == [base |-> 100, sensitivity |-> 1, decay |-> 0]
NewCurve(strategy, product, velocity) ==
  [strategy |-> strategy, price |-> product.price, velocity |-> velocity, owed |-> 0]

ExpectedDemand(curve, product, market) ==
  IF product.price = None \/ curve.price \in {None, 0} THEN 0
  ELSE LET momentum == AtLeast0(100 + curve.strategy.sensitivity * (Curve(product) - curve.velocity))
           wanted == Times(Times(curve.strategy.base, (100 * curve.price) \div product.price), momentum)
           mood == Times(Times(market.multiplier, market.season), market.trend[product.category])
       IN AtLeast0(Times(Times(wanted, mood), AtLeast0(100 - market.pressure)))

\* step(): whole pieces of the demand owed so far, then the decay of the stock.
Ask(world, p) == world.curves[p].owed + ExpectedDemand(world.curves[p], world.twin.products[p], world.market)
Quantity(world, p) == Ask(world, p) \div 100
CurveStep(world, p) ==
  LET stock == world.twin.products[p].stock
      decayed == IF stock = None THEN 0 ELSE Rounded(stock * world.curves[p].strategy.decay, 100)
  IN [world EXCEPT !.curves[p].owed = Ask(world, p) % 100,
                   !.twin = IF decayed > 0 THEN ApplyStock(@, p, -decayed) ELSE @]

-----------------------------------------------------------------------------
(* Retailer agents (retailer_agent.py).                                     *)

Strategies ==
  [inventory : {"reactive", "proactive"}, promotion : {"none", "periodic", "anomaly_triggered"},
   fulfillment : {"standard", "constrained"}, response : {"passive", "throttle"}, ml : BOOLEAN,
   discount : Int, every : Int, threshold : Int, reorder : Int, cap : Int]
NewStrategy ==
  [inventory |-> "reactive", promotion |-> "none", fulfillment |-> "standard",
   response |-> "passive", ml |-> FALSE, discount |-> 15, every |-> 7,
   threshold |-> 10, reorder |-> 50, cap |-> 25]

Operating(twin, r) == twin.retailers[r].status \in {None, "active"}
Throttled(world, r) == world.sellers[r].strategy.response = "throttle" /\ r \in world.twin.suspects
Promoting(world, r) ==
  LET strategy == world.sellers[r].strategy
      tick == world.twin.tick
  IN \/ strategy.promotion = "periodic" /\ strategy.every > 0 /\ tick > 0 /\ tick % strategy.every = 0
     \/ strategy.promotion = "anomaly_triggered" /\ r \in world.twin.suspects

\* _ml_price_adjustment(): at most five hundredths towards the forecast.
Nudge(world, r, p) ==
  LET pace == Curve(world.twin.products[p]) IN
  IF world.sellers[r].strategy.ml /\ p \in DOMAIN world.twin.forecasts /\ pace > 0
  THEN 100 + Clip(-5, Times(2, (100 * world.twin.forecasts[p]) \div pace - 100), 5)
  ELSE 100

PriceFor(world, r, p) ==
  LET list == world.twin.products[p].price
      asked == IF Promoting(world, r) THEN Times(list, 100 - world.sellers[r].strategy.discount) ELSE list
  IN Times(asked, Nudge(world, r, p))

\* What is ordered of the quantity: what is in stock, and what can be shipped.
UncappedByStock(world, r, p, quantity) ==
  IF world.sellers[r].strategy.fulfillment = "constrained"
  THEN AtLeast0(Lesser(quantity, world.sellers[r].strategy.cap)) ELSE quantity
Orderable(world, r, p, quantity) ==
  LET stock == world.twin.products[p].stock
      held == IF stock = None THEN quantity ELSE Lesser(quantity, stock)
  IN IF world.sellers[r].strategy.fulfillment = "constrained"
     THEN AtLeast0(Lesser(held, world.sellers[r].strategy.cap)) ELSE held

Restock(world, r, p) ==
  LET strategy == world.sellers[r].strategy
      stock == world.twin.products[p].stock
  IN IF strategy.inventory = "proactive" /\ stock # None /\ stock <= strategy.threshold
     THEN [world EXCEPT !.twin = ApplyStock(@, p, strategy.reorder)] ELSE world

Sell(world, r, p) ==
  IF p \notin DOMAIN world.twin.products \/ world.twin.products[p].price = None THEN world
  ELSE LET asked == Quantity(world, p)
           stepped == CurveStep(world, p)
           quantity == Orderable(stepped, r, p, asked)
       IN IF asked <= 0 \/ quantity <= 0 THEN stepped
          ELSE Restock([stepped EXCEPT
                 !.twin = ApplyOrder(@, r, p, quantity, PriceFor(stepped, r, p) * quantity)], r, p)

Serve(world, r) ==
  LET carries == world.sellers[r].carries
      after[n \in 0..Len(carries)] == IF n = 0 THEN world ELSE Sell(after[n - 1], r, carries[n])
  IN after[Len(carries)]
SellerStep(world, r) ==
  IF ~Operating(world.twin, r) \/ Throttled(world, r) THEN world ELSE Serve(world, r)

-----------------------------------------------------------------------------
(* Scenarios (scenario_engine.py).                                          *)

\* The strategies a caller sets for single retailers and products.
NoOverrides == [sellers |-> [r \in {} |-> NewStrategy], curves |-> [p \in {} |-> NewDemand]]
Chosen(overrides, x, default) == IF x \in DOMAIN overrides THEN overrides[x] ELSE default

\* The members of a list that are in S.
Among(s, S) ==
  LET upTo[n \in 0..Len(s)] ==
        IF n = 0 THEN <<>> ELSE IF s[n] \in S THEN Append(upTo[n - 1], s[n]) ELSE upTo[n - 1]
  IN upTo[Len(s)]

\* build_agents(): a retailer without a history carries every product.
BuildWorld(twin, pairs, overrides) ==
  LET all == SetToSeq(DOMAIN twin.products) IN
  [twin |-> twin, market |-> NewMarket,
   curves |-> [p \in DOMAIN twin.products |->
     NewCurve(Chosen(overrides.curves, p, NewDemand), twin.products[p], Curve(twin.products[p]))],
   sellers |-> [r \in DOMAIN twin.retailers |->
     [strategy |-> Chosen(overrides.sellers, r, NewStrategy),
      carries |-> Among(IF r \in DOMAIN pairs THEN pairs[r] ELSE all, DOMAIN twin.products)]]]

\* What is to be undone, and at which tick.
Nothing == [outage |-> None, promotion |-> None]

\* The conditions _apply_scenario_setup() refuses.
Unknown(spec, twin) ==
  \/ spec.type \in {"price_change", "inventory_change", "supply_chain_delay"} /\ spec.product \notin DOMAIN twin.products
  \/ spec.type \in {"retailer_outage", "promotion_event"} /\ spec.retailer \notin DOMAIN twin.retailers
  \/ spec.type = "product_launch" /\ spec.product \in DOMAIN twin.products

Launched(spec) ==
  [price |-> spec.price, stock |-> spec.stock, sold |-> 0, velocity |-> None,
   category |-> spec.category, since |-> 0, moved |-> spec.stock]

Promoted(strategy, spec) == [strategy EXCEPT !.promotion = "periodic", !.discount = spec.discount, !.every = 1]

\* _apply_scenario_setup(): the world it leaves and what is to be undone.
Setup(world, spec) ==
  LET twin == world.twin
      keep == [world |-> world, undo |-> Nothing]
      lost(p) == LET owed == Rounded(world.curves[p].strategy.base * spec.ticks, 100)
                     stock == twin.products[p].stock
                 IN IF stock = None THEN 0 ELSE Lesser(owed, stock)
  IN CASE spec.type = "price_change" ->
            [keep EXCEPT !.world.twin = ApplyPrice(twin, spec.product, spec.price)]
       [] spec.type = "inventory_change" ->
            [keep EXCEPT !.world.twin = ApplyStock(twin, spec.product, spec.delta)]
       [] spec.type = "demand_shock" ->
            [keep EXCEPT !.world.market.multiplier = spec.multiplier]
       [] spec.type = "supply_chain_delay" ->
            IF lost(spec.product) > 0
            THEN [keep EXCEPT !.world.twin = ApplyStock(twin, spec.product, -lost(spec.product))] ELSE keep
       [] spec.type = "retailer_outage" ->
            [keep EXCEPT !.world.twin = ApplyStatus(twin, spec.retailer, "outage"),
                         !.undo.outage = [retailer |-> spec.retailer, tick |-> spec.ticks]]
       [] spec.type = "product_launch" ->
            LET product == Launched(spec)
                there == [x \in DOMAIN twin.products \cup {spec.product} |->
                            IF x = spec.product THEN product ELSE twin.products[x]]
                carried == [r \in DOMAIN world.sellers |->
                              IF spec.sellers = {} \/ r \in spec.sellers
                              THEN [world.sellers[r] EXCEPT !.carries = Append(@, spec.product)]
                              ELSE world.sellers[r]]
            IN [keep EXCEPT
                  !.world.twin.products = there,
                  !.world.curves = [x \in DOMAIN there |->
                     IF x = spec.product THEN NewCurve(NewDemand, product, 0) ELSE world.curves[x]],
                  !.world.sellers = carried]
       [] spec.type = "promotion_event" ->
            [keep EXCEPT !.world.sellers[spec.retailer].strategy = Promoted(@, spec),
                         !.undo.promotion = [retailer |-> spec.retailer, tick |-> spec.ticks,
                                             strategy |-> world.sellers[spec.retailer].strategy]]
       [] spec.type = "competitor_entry" ->
            [keep EXCEPT !.world.market.baseline = Lesser(100, @ + spec.pressure)]
       [] spec.type = "competitor_exit" ->
            [keep EXCEPT !.world.market.baseline = AtLeast0(@ - spec.pressure)]

\* _apply_scenario_tick_hook(), at the end of a tick.
Due(task, twin) == task # None /\ twin.tick >= task.tick
Hook(run) ==
  LET twin == run.world.twin
      back == run.undo.outage
      over == run.undo.promotion
      opened == IF Due(back, twin)
                THEN [run EXCEPT !.world.twin = ApplyStatus(@, back.retailer, "active"), !.undo.outage = None]
                ELSE run
  IN IF Due(over, twin)
     THEN [opened EXCEPT !.world.sellers[over.retailer].strategy =
                           [@ EXCEPT !.promotion = over.strategy.promotion,
                                     !.discount = over.strategy.discount,
                                     !.every = over.strategy.every],
                         !.undo.promotion = None]
     ELSE opened

\* _run_ticks()
Trade(world) ==
  LET order == SetToSeq(DOMAIN world.twin.retailers)
      after[n \in 0..Len(order)] ==
        IF n = 0 THEN [world EXCEPT !.market = MarketStep(@, world.twin)]
        ELSE SellerStep(after[n - 1], order[n])
  IN after[Len(order)]
Tick(run) == [Hook([run EXCEPT !.world = Trade(@)]) EXCEPT !.world.twin.tick = @ + 1]

RunTicks(run, ticks) ==
  LET after[n \in 0..ticks] == IF n = 0 THEN run ELSE Tick(after[n - 1])
  IN after[ticks].world.twin

\* run_baseline_projection(), and a baseline branch.
Projection(twin, pairs, overrides, ticks) ==
  RunTicks([world |-> BuildWorld(twin, pairs, overrides), undo |-> Nothing], ticks)

\* The overrides after a setup: a promotion writes to the strategy it was given.
OverridesAfter(overrides, spec) ==
  IF spec.type = "promotion_event" /\ spec.retailer \in DOMAIN overrides.sellers
  THEN [overrides EXCEPT !.sellers[spec.retailer] = Promoted(@, spec)] ELSE overrides

\* run_scenario(): both branches, each with the assortments it read.
ScenarioBranchOnUsedDraws(twin, pairs, overrides, spec, ticks) ==
  RunTicks(Setup([BuildWorld(twin, pairs, overrides) EXCEPT !.market.drawn = 1], spec), ticks)
ScenarioBranch(twin, pairs, overrides, spec, ticks) ==
  RunTicks(Setup(BuildWorld(twin, pairs, overrides), spec), ticks)
BaselineBranch(twin, pairs, overrides, spec, ticks) ==
  Projection(twin, pairs, OverridesAfter(overrides, spec), ticks)

-----------------------------------------------------------------------------
(* What a run predicts (scenario_engine.py).                                *)

HealthScore(orders, revenue, profit) ==
  orders * 10 + revenue \div 50 + (IF profit = None THEN 0 ELSE profit \div 25)

Both(before, after) == DOMAIN before.retailers \cap DOMAIN after.retailers
Moved(before, after) ==
  [r \in Both(before, after) |->
     <<after.retailers[r].orders - before.retailers[r].orders,
       after.retailers[r].revenue - before.retailers[r].revenue>>]

\* _predicted_anomalies(): at least one and a half deviations from the mean delta.
PredictedAnomalies(before, after) ==
  LET S == Both(before, after)
      delta(r) == Moved(before, after)[r][2]
      n == Cardinality(S)
      sum == MapThenSumSet(delta, S)
      spread == n * MapThenSumSet(LAMBDA r : delta(r) * delta(r), S) - sum * sum
  IN IF n < 2 \/ spread = 0 THEN {}
     ELSE {r \in S : 4 * (n * delta(r) - sum) * (n * delta(r) - sum) >= 9 * spread}

TopProducts == 5
Recommended(twin) ==
  {p \in DOMAIN twin.products :
     Cardinality({q \in DOMAIN twin.products : Curve(twin.products[q]) > Curve(twin.products[p])}) < TopProducts}
================================================================================
