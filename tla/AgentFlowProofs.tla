--------------------------- MODULE AgentFlowProofs ---------------------------
(***************************************************************************)
(* Proofs about the rounds of the agents, for any twin, any anomalies, any   *)
(* number of rounds and of failures.                                        *)
(***************************************************************************)
EXTENDS AgentFlow, FiniteSetTheorems, WellFoundedInduction, TLAPS

-----------------------------------------------------------------------------
(* Numbers and loops.                                                       *)

\* Every nonempty set of natural numbers has a least one.
LEMMA LeastNumber ==
  ASSUME NEW T, T \subseteq Nat, T # {}
  PROVE  \E n \in T : \A m \in T : n =< m
<1>1. \E n \in T : \A m \in T : ~(<<m, n>> \in OpToRel(<, Nat))
  BY WFMin, NatLessThanWellFounded, Zenon
<1>2. \A m, n \in Nat : m < n => <<m, n>> \in OpToRel(<, Nat)
  BY Zenon DEF OpToRel
<1>3. \E n \in T : \A m \in T : ~(m < n)
  BY <1>1, <1>2, Zenon
<1>4. QED
  BY <1>3

\* A percentage of a whole number is one.
LEMMA PercentType ==
  ASSUME NEW x \in Int, NEW n \in Int
  PROVE  Percent(x, n) \in Int /\ (x >= 0 /\ n >= 0 => Percent(x, n) >= 0)
<1>1. x * n \in Int /\ (x >= 0 /\ n >= 0 => x * n >= 0)
  OBVIOUS
<1>2. QED
  BY <1>1 DEF Percent

\* A value kept between two bounds is between them.
LEMMA BetweenBounds ==
  ASSUME NEW low \in Int, NEW high \in Int, low =< high, NEW x \in Int
  PROVE  Between(low, x, high) \in low..high
BY DEF Between, Greatest, Least

-----------------------------------------------------------------------------
(* sorted()                                                                 *)

\* The places of a sort are a permutation of the positions, whatever the keys.
LEMMA PlacesArePermuted ==
  ASSUME NEW n \in Nat, NEW key \in [1..n -> Int]
  PROVE  /\ \A j \in 1..n : Place(key, j) \in 1..n
         /\ \A k \in 1..n : \E j \in 1..n : Place(key, j) = k
         /\ \A i, j \in 1..n : Place(key, i) < Place(key, j) => key[i] =< key[j]
         /\ \A i, j \in 1..n : Place(key, i) = Place(key, j) => i = j
<1> DEFINE Upto(j) == {i \in 1..n : Before(key, i, j)}
<1>1. \A j \in 1..n : Place(key, j) = Cardinality(Upto(j))
  BY DEF Place
<1>2. IsFiniteSet(1..n) /\ Cardinality(1..n) = n
  BY FS_Interval
<1>3. \A j \in 1..n : /\ IsFiniteSet(Upto(j)) /\ Cardinality(Upto(j)) \in Nat
                      /\ Cardinality(Upto(j)) =< n /\ j \in Upto(j)
  <2> TAKE j \in 1..n
  <2>1. Upto(j) \subseteq 1..n
    OBVIOUS
  <2>2. IsFiniteSet(Upto(j)) /\ Cardinality(Upto(j)) =< Cardinality(1..n)
    BY <1>2, <2>1, FS_Subset
  <2>3. j \in Upto(j)
    BY DEF Before
  <2>4. QED
    BY <1>2, <2>2, <2>3, FS_CardinalityType
<1>4. \A j \in 1..n : Place(key, j) \in 1..n
  <2> TAKE j \in 1..n
  <2> HIDE DEF Upto
  <2>1. Upto(j) # {} /\ Cardinality(Upto(j)) # 0
    BY <1>3, FS_EmptySet
  <2>2. QED
    BY <1>1, <1>3, <2>1
<1>5. \A i, j \in 1..n : Before(key, i, j) /\ i # j => Place(key, i) < Place(key, j)
  <2> SUFFICES ASSUME NEW i \in 1..n, NEW j \in 1..n, Before(key, i, j), i # j
               PROVE  Cardinality(Upto(i)) < Cardinality(Upto(j))
    BY <1>1
  <2>1. Upto(i) \subseteq Upto(j)
    BY DEF Before
  <2>2. j \notin Upto(i)
    BY DEF Before
  <2>3. /\ Cardinality(Upto(i)) =< Cardinality(Upto(j))
        /\ Cardinality(Upto(j)) = Cardinality(Upto(i)) => Upto(j) = Upto(i)
    <3> HIDE DEF Upto
    <3> QED
      BY <1>3, <2>1, FS_Subset
  <2> HIDE DEF Upto
  <2>4. QED
    BY <1>3, <2>2, <2>3
<1>6. \A i, j \in 1..n : i = j \/ Before(key, i, j) \/ Before(key, j, i)
  BY DEF Before
<1>7. \A i, j \in 1..n : Place(key, i) = Place(key, j) => i = j
  BY <1>4, <1>5, <1>6
<1>8. \A i, j \in 1..n : Place(key, i) < Place(key, j) => key[i] =< key[j]
  <2> SUFFICES ASSUME NEW i \in 1..n, NEW j \in 1..n, Place(key, i) < Place(key, j)
               PROVE  key[i] =< key[j]
    OBVIOUS
  <2>1. ~(Before(key, j, i) /\ j # i)
    BY <1>4, <1>5
  <2>2. QED
    BY <2>1 DEF Before
<1>9. \A k \in 1..n : \E j \in 1..n : Place(key, j) = k
  <2> DEFINE f == [j \in 1..n |-> Place(key, j)]
  <2>1. f \in Injection(1..n, 1..n)
    BY <1>4, <1>7 DEF Injection, IsInjective
  <2>2. f \in Surjection(1..n, 1..n)
    <3> HIDE DEF f
    <3> QED
      BY <1>2, <2>1, FS_Injection
  <2>3. QED
    BY <2>2 DEF Surjection
<1>10. QED
  BY <1>4, <1>7, <1>8, <1>9

\* A sorted list is a permutation of the list, and in the order of the keys.
LEMMA SortedIsPermuted ==
  ASSUME NEW S, NEW s \in Seq(S), NEW key \in [DOMAIN s -> Int]
  PROVE  \E at \in [1..Len(s) -> 1..Len(s)] :
           /\ SortedBy(s, key) = [k \in 1..Len(s) |-> s[at[k]]]
           /\ \A j \in 1..Len(s) : \E k \in 1..Len(s) : at[k] = j
           /\ \A i, k \in 1..Len(s) : at[i] = at[k] => i = k
           /\ \A i, k \in 1..Len(s) : i < k => key[at[i]] =< key[at[k]]
<1> DEFINE n == Len(s)
           at == [k \in 1..n |-> CHOOSE j \in 1..n : Place(key, j) = k]
<1>1. n \in Nat /\ DOMAIN s = 1..n
  OBVIOUS
<1>2. /\ \A j \in 1..n : Place(key, j) \in 1..n
      /\ \A k \in 1..n : \E j \in 1..n : Place(key, j) = k
      /\ \A i, j \in 1..n : Place(key, i) < Place(key, j) => key[i] =< key[j]
      /\ \A i, j \in 1..n : Place(key, i) = Place(key, j) => i = j
  BY <1>1, PlacesArePermuted
<1>3. \A k \in 1..n : at[k] \in 1..n /\ Place(key, at[k]) = k
  BY <1>2
<1>4. at \in [1..n -> 1..n] /\ SortedBy(s, key) = [k \in 1..n |-> s[at[k]]]
  BY <1>1, <1>3 DEF SortedBy
<1> HIDE DEF at
<1>5. \A j \in 1..n : \E k \in 1..n : at[k] = j
  <2> TAKE j \in 1..n
  <2>1. Place(key, j) \in 1..n /\ at[Place(key, j)] \in 1..n /\ Place(key, at[Place(key, j)]) = Place(key, j)
    BY <1>2, <1>3
  <2>2. at[Place(key, j)] = j
    BY <1>2, <2>1
  <2>3. QED
    BY <2>1, <2>2
<1>6. \A i, k \in 1..n : at[i] = at[k] => i = k
  BY <1>3
<1>7. \A i, k \in 1..n : i < k => key[at[i]] =< key[at[k]]
  BY <1>2, <1>3
<1>8. QED
  BY <1>4, <1>5, <1>6, <1>7

-----------------------------------------------------------------------------
(* Loops that append.                                                       *)

\* A loop that appends to a list exists as a function of its turns.
LEMMA JoinedSteps ==
  ASSUME NEW S, NEW lists \in Seq(Seq(S))
  PROVE  \E upTo : /\ upTo = [k \in 0..Len(lists) |-> IF k = 0 THEN <<>> ELSE upTo[k - 1] \o lists[k]]
                   /\ Joined(lists) = upTo[Len(lists)]
<1> DEFINE G(g, m) == g = [k \in 0..m |-> IF k = 0 THEN <<>> ELSE g[k - 1] \o lists[k]]
           T == {m \in Nat : ~\E g : G(g, m)}
<1>1. ASSUME T # {} PROVE FALSE
  <2>1. PICK m \in T : \A i \in T : m =< i
    <3> HIDE DEF G
    <3> QED
      BY <1>1, LeastNumber
  <2>2. m # 0
    <3>1. G([k \in 0..0 |-> <<>>], 0)
      OBVIOUS
    <3>2. QED
      BY <3>1, <2>1
  <2>3. m \in Nat /\ m - 1 \in Nat /\ ~(m =< m - 1)
    BY <2>1, <2>2
  <2>4. PICK g : G(g, m - 1)
    <3> HIDE DEF G
    <3> QED
      BY <2>1, <2>3
  <2> DEFINE h == [k \in 0..m |-> IF k = m THEN g[m - 1] \o lists[m] ELSE g[k]]
  <2>5. ASSUME NEW k \in 0..m PROVE h[k] = IF k = 0 THEN <<>> ELSE h[k - 1] \o lists[k]
    <3>1. CASE k = m
      BY <2>2, <2>3, <3>1
    <3>2. CASE k # m
      <4>1. k \in 0..(m - 1) /\ h[k] = g[k] /\ (k # 0 => k - 1 \in 0..m /\ k - 1 # m)
        BY <2>3, <3>2
      <4>2. g[k] = IF k = 0 THEN <<>> ELSE g[k - 1] \o lists[k]
        BY <2>4, <4>1
      <4>3. k # 0 => h[k - 1] = g[k - 1]
        BY <4>1
      <4>4. QED
        BY <4>1, <4>2, <4>3
    <3>3. QED
      BY <3>1, <3>2
  <2>6. G(h, m)
    BY <2>5
  <2>7. QED
    BY <2>1, <2>6
<1>2. PICK g : G(g, Len(lists))
  <2>1. Len(lists) \in Nat
    OBVIOUS
  <2> HIDE DEF G
  <2>2. QED
    BY <1>1, <2>1
<1> DEFINE upTo[k \in 0..Len(lists)] == IF k = 0 THEN <<>> ELSE upTo[k - 1] \o lists[k]
<1>3. G(upTo, Len(lists))
  BY <1>2, Zenon
<1>4. Joined(lists) = upTo[Len(lists)]
  BY Zenon DEF Joined
<1>5. QED
  BY <1>3, <1>4, Zenon

\* What a loop appends are the elements of what its turns append.
LEMMA JoinedType ==
  ASSUME NEW S, NEW lists \in Seq(Seq(S))
  PROVE  Joined(lists) \in Seq(S)
<1>1. PICK upTo : /\ upTo = [k \in 0..Len(lists) |-> IF k = 0 THEN <<>> ELSE upTo[k - 1] \o lists[k]]
                  /\ Joined(lists) = upTo[Len(lists)]
  BY JoinedSteps
<1> DEFINE T == {k \in 0..Len(lists) : upTo[k] \notin Seq(S)}
<1>2. SUFFICES ASSUME T # {} PROVE FALSE
  <2>1. Len(lists) \in 0..Len(lists)
    OBVIOUS
  <2>2. QED
    BY <1>1, <2>1
<1>3. PICK k \in T : \A i \in T : k =< i
  <2>1. T \subseteq Nat
    OBVIOUS
  <2> HIDE DEF T
  <2>2. QED
    BY <1>2, <2>1, LeastNumber
<1>4. k \in 0..Len(lists) /\ k # 0
  BY <1>1, <1>3
<1>5. k - 1 \in 0..Len(lists) /\ upTo[k - 1] \in Seq(S)
  BY <1>3, <1>4
<1>6. upTo[k] = upTo[k - 1] \o lists[k]
  BY <1>1, <1>4
<1>7. lists[k] \in Seq(S) /\ upTo[k] \notin Seq(S)
  BY <1>3, <1>4
<1>8. QED
  BY <1>5, <1>6, <1>7

-----------------------------------------------------------------------------
(* What the agents propose.                                                 *)

Entities == ProductIds \cup RetailerIds \cup UNION {{s[k].entity : k \in DOMAIN s} : s \in AnomalyCases}
ActionTypes ==
  {"revert_price", "run_promotion", "increase_price", "decrease_price", "freeze_price",
   "trigger_stockout_alert", "reorder_inventory", "increase_reorder_quantity", "mark_at_risk",
   "reduce_reorder_quantity",
   "launch_promotion", "boost_trending", "target_product_cluster", "suppress_low_margin",
   "target_retailer_segment",
   "adjust_inventory_strategy", "adjust_fulfillment_strategy", "adjust_pricing_strategy",
   "adjust_promotion_strategy", "recommend_long_term_change",
   "adjust_pricing", "adjust_promotions", "adjust_inventory", "trigger_simulation_scenario",
   "trigger_counterfactual_analysis", "notify_tenant_admins"}
CandidateStates ==
  [type : ActionTypes, entity : Entities, confidence : 0..100, priority : Int,
   from : Nat, price : Nat, delta : Int, base : Int]

\* A new price is one of a product, and was decided on the price the product has.
Priced(c) ==
  c.price # 0 =>
    /\ c.entity \in ProductIds /\ c.from = product[c.entity].price
    /\ c.from = 0 => c.price >= MinUnitPrice
SoundCandidates == {c \in CandidateStates : Priced(c)}

\* A proposal without parameters is sound.
LEMMA Proposed ==
  ASSUME NEW type \in ActionTypes, NEW id \in Entities, NEW confidence \in 0..100, NEW priority \in Int
  PROVE  Proposal(type, id, confidence, priority) \in SoundCandidates
BY DEF Proposal, SoundCandidates, CandidateStates, Priced

\* So is one of a quantity.
LEMMA Restocked ==
  ASSUME NEW type \in ActionTypes, NEW id \in Entities, NEW confidence \in 0..100, NEW priority \in Int,
         NEW base \in Int, NEW delta \in Int
  PROVE  Restock(Proposal(type, id, confidence, priority), base, delta) \in SoundCandidates
BY DEF Restock, Proposal, SoundCandidates, CandidateStates, Priced

\* So is one of a price, unless the product is to get a price below the minimum that
\* has none.
LEMMA Repriced ==
  ASSUME NEW type \in ActionTypes, NEW id \in ProductIds, NEW confidence \in 0..100, NEW priority \in Int,
         product[id].price \in Nat, NEW price \in Nat, price = 0 \/ product[id].price > 0 \/ price >= MinUnitPrice
  PROVE  Reprice(Proposal(type, id, confidence, priority), product[id].price, price) \in SoundCandidates
<1>1. id \in Entities
  BY DEF Entities
<1> DEFINE proposal == Proposal(type, id, confidence, priority)
           c == Reprice(proposal, product[id].price, price)
<1>2. proposal \in CandidateStates /\ proposal.entity = id
  BY <1>1 DEF Proposal, CandidateStates
<1>3. /\ c \in CandidateStates
      /\ c.entity = id /\ c.from = product[id].price /\ c.price = price
  <2> HIDE DEF proposal
  <2>1. QED
    BY <1>2 DEF Reprice, CandidateStates
<1>4. QED
  BY <1>3 DEF SoundCandidates, Priced, MinUnitPrice

\* One proposal or none.
LEMMA OptionalType ==
  ASSUME NEW S, NEW c \in BOOLEAN, NEW a, c => a \in S
  PROVE  Optional(c, a) \in Seq(S)
BY DEF Optional

\* A product's price floor is at least the minimum.
LEMMA FloorType ==
  ASSUME NEW p \in ProductStates
  PROVE  PriceFloor(p) \in Nat /\ PriceFloor(p) >= MinUnitPrice
<1>1. p.cost \in Nat /\ Percent(p.cost, 105) \in Int
  BY PercentType DEF ProductStates
<1>2. QED
  BY <1>1 DEF PriceFloor, Greatest, MinUnitPrice

\* Risks are between 0 and 100.
LEMMA RiskType ==
  ASSUME NEW p, p.risk \in Int
  PROVE  Risk(p) \in 0..100
BY DEF Risk, Between, Greatest, Least

\* The first rung of the pricing agent.
LEMMA RevertType ==
  ASSUME NEW id \in ProductIds, product[id] \in ProductStates,
         NEW a, a.baseline \in Nat, a.deviation \in Int
  PROVE  RevertPrice(id, product[id], a) \in Seq(SoundCandidates)
<1> DEFINE p == product[id]
           new == Greatest(a.baseline, PriceFloor(p))
           deviation == Magnitude(a.deviation)
           confidence == Between(55, deviation \div 3, 95)
           priority == 300 + deviation
<1>1. p.price \in Nat /\ new \in Nat /\ new >= MinUnitPrice
  <2>1. PriceFloor(p) \in Nat /\ PriceFloor(p) >= MinUnitPrice
    BY FloorType
  <2>2. p.price \in Nat
    BY DEF ProductStates
  <2> HIDE DEF p
  <2>3. QED
    BY <2>1, <2>2 DEF Greatest, MinUnitPrice
<1>2. deviation \in Int
  BY DEF Magnitude
<1>3. confidence \in 0..100 /\ priority \in Int
  <2> HIDE DEF deviation
  <2> QED
    BY <1>2 DEF Between, Greatest, Least
<1>4. "revert_price" \in ActionTypes
  BY DEF ActionTypes
<1> HIDE DEF new, confidence, priority
<1>5. Reprice(Proposal("revert_price", id, confidence, priority), p.price, new) \in SoundCandidates
  BY <1>1, <1>3, <1>4, Repriced, Zenon
<1>6. Optional(new # p.price, Reprice(Proposal("revert_price", id, confidence, priority), p.price, new)) \in Seq(SoundCandidates)
  BY <1>5 DEF Optional
<1>7. QED
  BY <1>6, Zenon DEF RevertPrice, new, confidence, priority

\* The second rung of the pricing agent.
LEMMA PromotionType ==
  ASSUME NEW id \in ProductIds, product[id] \in ProductStates
  PROVE  RunPromotion(id, product[id]) \in Seq(SoundCandidates)
<1> DEFINE p == product[id]
           discount == Between(10, Percent(Risk(p), 40), 40)
           lower == Percent(p.price, 100 - discount)
           new == Greatest(lower, PriceFloor(p))
           confidence == Between(40, Risk(p), 90)
           priority == 200 + Risk(p)
<1>1. p.price \in Nat /\ p.risk \in Int
  BY DEF ProductStates
<1>2. Risk(p) \in 0..100 /\ PriceFloor(p) \in Nat /\ PriceFloor(p) >= MinUnitPrice
  BY <1>1, RiskType, FloorType
<1> HIDE DEF p
<1>3. discount \in Int /\ confidence \in 0..100 /\ priority \in Int
  BY <1>2 DEF Between, Greatest, Least, Percent
<1>4. lower \in Int
  <2> HIDE DEF discount
  <2> QED
    BY <1>1, <1>3 DEF Percent
<1>5. new \in Nat /\ new >= MinUnitPrice
  <2> HIDE DEF lower
  <2> QED
    BY <1>2, <1>4 DEF Greatest, MinUnitPrice
<1>6. "run_promotion" \in ActionTypes
  BY DEF ActionTypes
<1> HIDE DEF new, confidence, priority
<1>7. Reprice(Proposal("run_promotion", id, confidence, priority), p.price, new) \in SoundCandidates
  BY <1>1, <1>3, <1>5, <1>6, Repriced, Zenon DEF p
<1>8. Optional(new < p.price, Reprice(Proposal("run_promotion", id, confidence, priority), p.price, new)) \in Seq(SoundCandidates)
  BY <1>7 DEF Optional
<1>9. QED
  BY <1>8, Zenon DEF RunPromotion, p, new, lower, discount, confidence, priority

\* The third rung of the pricing agent.
LEMMA ForecastType ==
  ASSUME NEW id \in ProductIds, product[id] \in ProductStates, product[id].price # 0
  PROVE  FollowForecast(id, product[id]) \in Seq(SoundCandidates)
<1> DEFINE p == product[id]
           drift == ((p.forecast - p.price) * 100) \div p.price
           new == Greatest(p.forecast, PriceFloor(p))
           type == IF new > p.price THEN "increase_price" ELSE "decrease_price"
           confidence == Between(30, 3 * Magnitude(drift), 85)
           priority == 100 + Magnitude(drift)
<1>1. p.price \in Nat /\ p.price > 0 /\ p.forecast \in Nat
  BY DEF ProductStates
<1>2. PriceFloor(p) \in Nat /\ PriceFloor(p) >= MinUnitPrice /\ id \in Entities
  BY FloorType DEF Entities
<1> HIDE DEF p
<1>3. drift \in Int
  BY <1>1
<1>4. confidence \in 0..100 /\ priority \in Int
  <2> HIDE DEF drift
  <2> QED
    BY <1>3 DEF Between, Greatest, Least, Magnitude
<1>5. new \in Nat /\ new >= MinUnitPrice /\ type \in ActionTypes
  BY <1>1, <1>2 DEF Greatest, MinUnitPrice, ActionTypes
<1> HIDE DEF new, confidence, type, priority
<1>6. Reprice(Proposal(type, id, confidence, priority), p.price, new) \in SoundCandidates
  BY <1>1, <1>4, <1>5, Repriced, Zenon DEF p
<1>7. Proposal("freeze_price", id, 35, 10) \in SoundCandidates
  <2>1. "freeze_price" \in ActionTypes /\ 35 \in 0..100 /\ 10 \in Int
    BY DEF ActionTypes
  <2>2. QED
    BY <1>2, <2>1, Proposed, Zenon
<1>8. /\ Optional(new # p.price, Reprice(Proposal(type, id, confidence, priority), p.price, new)) \in Seq(SoundCandidates)
      /\ <<Proposal("freeze_price", id, 35, 10)>> \in Seq(SoundCandidates)
  BY <1>6, <1>7 DEF Optional
<1>9. QED
  BY <1>8, Zenon DEF FollowForecast, p, new, confidence, type, priority, drift

\* The pricing agent, given the newest anomaly of the product, if there is one.
LEMMA PricingType ==
  ASSUME NEW id \in ProductIds, product[id] \in ProductStates,
         NEW anomaly, anomaly # <<>> => anomaly[1].baseline \in Nat /\ anomaly[1].deviation \in Int
  PROVE  PricingCandidates(id, product[id], anomaly) \in Seq(SoundCandidates)
<1>1. anomaly # <<>> => RevertPrice(id, product[id], anomaly[1]) \in Seq(SoundCandidates)
  BY RevertType
<1>2. RunPromotion(id, product[id]) \in Seq(SoundCandidates)
  BY PromotionType
<1>3. product[id].price # 0 => FollowForecast(id, product[id]) \in Seq(SoundCandidates)
  BY ForecastType
<1>4. <<>> \in Seq(SoundCandidates)
  OBVIOUS
<1>5. QED
  BY <1>1, <1>2, <1>3, <1>4, Zenon DEF PricingCandidates

\* The inventory agent.
LEMMA InventoryType ==
  ASSUME NEW id \in ProductIds, product[id] \in ProductStates
  PROVE  InventoryCandidates(id, product[id]) \in Seq(SoundCandidates)
<1> DEFINE p == product[id]
           urgent == Between(50, Risk(p), 95)
           rising == Between(35, 2 * p.rise, 85)
           base == BaseReorder(p)
           delta == Percent(base, 100 + Risk(p))
           first == (IF p.stock =< 0 THEN 390 ELSE 300) + Risk(p)
           increased == 200 + Risk(p)
           watched == 150 + Risk(p)
           reduced == 200 - Risk(p)
<1>1. id \in Entities /\ p.rise \in Int /\ p.stock \in Nat /\ p.sold \in Nat /\ p.risk \in Int
  BY DEF ProductStates, Entities
<1>2. Risk(p) \in 0..100
  BY <1>1, RiskType
<1> HIDE DEF p
<1>3. base \in Int
  BY <1>1 DEF BaseReorder, Greatest, MinBaseReorder
<1>4. delta \in Int
  <2> HIDE DEF base
  <2> QED
    BY <1>2, <1>3 DEF Percent
<1>5. /\ urgent \in 0..100 /\ rising \in 0..100
      /\ first \in Int /\ increased \in Int /\ watched \in Int /\ reduced \in Int
  BY <1>1, <1>2 DEF Between, Greatest, Least
<1>6. /\ "reorder_inventory" \in ActionTypes /\ "trigger_stockout_alert" \in ActionTypes
      /\ "increase_reorder_quantity" \in ActionTypes /\ "mark_at_risk" \in ActionTypes
      /\ "reduce_reorder_quantity" \in ActionTypes
      /\ 95 \in 0..100 /\ 45 \in 0..100 /\ 40 \in 0..100 /\ 400 \in Int
  BY DEF ActionTypes
<1> HIDE DEF urgent, rising, base, delta, first, increased, watched, reduced
<1>7. /\ Restock(Proposal("reorder_inventory", id, urgent, first), base, delta) \in SoundCandidates
      /\ Proposal("trigger_stockout_alert", id, 95, 400) \in SoundCandidates
      /\ Proposal("increase_reorder_quantity", id, rising, increased) \in SoundCandidates
      /\ Proposal("mark_at_risk", id, 45, watched) \in SoundCandidates
      /\ Proposal("reduce_reorder_quantity", id, 40, reduced) \in SoundCandidates
  <2>1. Restock(Proposal("reorder_inventory", id, urgent, first), base, delta) \in SoundCandidates
    BY <1>1, <1>3, <1>4, <1>5, <1>6, Restocked, Zenon
  <2>2. Proposal("trigger_stockout_alert", id, 95, 400) \in SoundCandidates
    BY <1>1, <1>6, Proposed, Zenon
  <2>3. Proposal("increase_reorder_quantity", id, rising, increased) \in SoundCandidates
    BY <1>1, <1>5, <1>6, Proposed, Zenon
  <2>4. Proposal("mark_at_risk", id, 45, watched) \in SoundCandidates
    BY <1>1, <1>5, <1>6, Proposed, Zenon
  <2>5. Proposal("reduce_reorder_quantity", id, 40, reduced) \in SoundCandidates
    BY <1>1, <1>5, <1>6, Proposed, Zenon
  <2>6. QED
    BY <2>1, <2>2, <2>3, <2>4, <2>5
<1> DEFINE page == Optional(p.stock =< 0, Proposal("trigger_stockout_alert", id, 95, 400))
           restock == <<Restock(Proposal("reorder_inventory", id, urgent, first), base, delta)>>
<1>8. page \in Seq(SoundCandidates) /\ restock \in Seq(SoundCandidates)
  BY <1>7 DEF Optional
<1>9. page \o restock \in Seq(SoundCandidates)
  <2> HIDE DEF page, restock
  <2> QED
    BY <1>8
<1>10. HighRisk(id, p) = page \o restock
  BY Zenon DEF HighRisk, urgent, first, base, delta
<1>11. /\ <<Proposal("increase_reorder_quantity", id, rising, increased)>> \in Seq(SoundCandidates)
       /\ <<Proposal("mark_at_risk", id, 45, watched)>> \in Seq(SoundCandidates)
       /\ Optional(p.stock >= 20 /\ p.sold * 100 =< 5 * p.stock, Proposal("reduce_reorder_quantity", id, 40, reduced))
             \in Seq(SoundCandidates)
       /\ <<>> \in Seq(SoundCandidates)
  BY <1>7 DEF Optional
<1>12. QED
  BY <1>9, <1>10, <1>11, Zenon DEF InventoryCandidates, p, rising, increased, watched, reduced

\* The demand agent, on a trending product.
LEMMA TrendingType ==
  ASSUME NEW id \in ProductIds, product[id] \in ProductStates
  PROVE  TrendingCandidates(id, product[id]) \in Seq(SoundCandidates)
<1> DEFINE p == product[id]
           new == Percent(p.price, 90)
           promoted == Between(40, p.trend, 85)
           boosted == Between(30, Percent(p.trend, 70), 70)
           launch == 200 + p.trend
           boost == 100 + p.trend
<1>1. id \in Entities /\ p.price \in Nat /\ p.trend \in Int
  BY DEF ProductStates, Entities
<1>2. PriceFloor(p) \in Nat /\ PriceFloor(p) >= MinUnitPrice
  BY FloorType
<1> HIDE DEF p
<1>3. new \in Nat /\ Percent(p.trend, 70) \in Int
  BY <1>1 DEF Percent
<1>4. promoted \in 0..100 /\ boosted \in 0..100 /\ launch \in Int /\ boost \in Int
  BY <1>1, <1>3 DEF Between, Greatest, Least
<1>5. "launch_promotion" \in ActionTypes /\ "boost_trending" \in ActionTypes
  BY DEF ActionTypes
<1> HIDE DEF new, promoted, boosted, launch, boost
<1>6. new >= PriceFloor(p) => new >= MinUnitPrice
  BY <1>2, <1>3 DEF MinUnitPrice
<1>7. new >= PriceFloor(p) =>
        Reprice(Proposal("launch_promotion", id, promoted, launch), p.price, new) \in SoundCandidates
  BY <1>1, <1>3, <1>4, <1>5, <1>6, Repriced, Zenon DEF p
<1>8. Proposal("boost_trending", id, boosted, boost) \in SoundCandidates
  BY <1>1, <1>4, <1>5, Proposed, Zenon
<1>9. /\ new >= PriceFloor(p) =>
           <<Reprice(Proposal("launch_promotion", id, promoted, launch), p.price, new)>> \in Seq(SoundCandidates)
      /\ <<Proposal("boost_trending", id, boosted, boost)>> \in Seq(SoundCandidates)
      /\ <<>> \in Seq(SoundCandidates)
  BY <1>7, <1>8
<1>10. QED
  BY <1>9, Zenon DEF TrendingCandidates, p, new, promoted, boosted, launch, boost

\* The demand agent, on a segment of products.
LEMMA SegmentType ==
  ASSUME NEW id \in ProductIds, product[id] \in ProductStates
  PROVE  SegmentCandidates(id, product[id]) \in Seq(SoundCandidates)
<1>1. id \in Entities
  BY DEF Entities
<1>2. /\ "target_product_cluster" \in ActionTypes /\ "suppress_low_margin" \in ActionTypes
      /\ 55 \in 0..100 /\ 50 \in 0..100 /\ 80 \in Int /\ 70 \in Int
  BY DEF ActionTypes
<1>3. /\ Proposal("target_product_cluster", id, 55, 80) \in SoundCandidates
      /\ Proposal("suppress_low_margin", id, 50, 70) \in SoundCandidates
  BY <1>1, <1>2, Proposed, Zenon
<1>4. QED
  BY <1>3 DEF SegmentCandidates, Optional

\* The demand agent, on a segment of retailers.
LEMMA TargetType ==
  ASSUME NEW id \in RetailerIds, NEW r
  PROVE  TargetRetailer(id, r) \in Seq(SoundCandidates)
<1> DEFINE growing == r.segment = "high_gmv"
           confidence == 50 + (IF growing THEN 20 ELSE 0) + (IF r.growth # 0 THEN 20 ELSE 0)
           priority == 100 + (IF growing THEN 50 ELSE 0) + (IF r.growth # 0 THEN 50 ELSE 0)
<1>1. id \in Entities /\ "target_retailer_segment" \in ActionTypes
  BY DEF Entities, ActionTypes
<1>2. confidence \in 0..100 /\ priority \in Int
  OBVIOUS
<1> HIDE DEF confidence, priority
<1>3. Proposal("target_retailer_segment", id, confidence, priority) \in SoundCandidates
  BY <1>1, <1>2, Proposed, Zenon
<1>4. Optional(r.active /\ (growing \/ r.growth # 0),
               Proposal("target_retailer_segment", id, confidence, priority)) \in Seq(SoundCandidates)
  BY <1>3 DEF Optional
<1>5. QED
  BY <1>4, Zenon DEF TargetRetailer, confidence, priority

\* The retailer strategy agent.
LEMMA StrategyType ==
  ASSUME NEW id \in RetailerIds, NEW r \in RetailerStates, NEW degraded
  PROVE  StrategyCandidates(id, r, degraded) \in Seq(SoundCandidates)
<1> DEFINE weak == Between(30, 70 - r.health, 80)
           operational == Operational(id, r, degraded)
           advice == Optional(r.segment = "anomaly_prone", Proposal("recommend_long_term_change", id, 50, 50))
<1>1. id \in Entities /\ r.health \in Int
  BY DEF Entities, RetailerStates
<1>2. weak \in 0..100
  BY <1>1 DEF Between, Greatest, Least
<1>3. /\ "adjust_inventory_strategy" \in ActionTypes /\ "adjust_fulfillment_strategy" \in ActionTypes
      /\ "adjust_pricing_strategy" \in ActionTypes /\ "adjust_promotion_strategy" \in ActionTypes
      /\ "recommend_long_term_change" \in ActionTypes
      /\ 75 \in 0..100 /\ 60 \in 0..100 /\ 50 \in 0..100
      /\ 300 \in Int /\ 250 \in Int /\ 200 \in Int /\ 150 \in Int /\ 50 \in Int
  BY DEF ActionTypes
<1> HIDE DEF weak
<1>4. /\ Proposal("adjust_inventory_strategy", id, 75, 300) \in SoundCandidates
      /\ Proposal("adjust_fulfillment_strategy", id, 60, 250) \in SoundCandidates
      /\ Proposal("adjust_pricing_strategy", id, weak, 200) \in SoundCandidates
      /\ Proposal("adjust_promotion_strategy", id, 50, 150) \in SoundCandidates
      /\ Proposal("recommend_long_term_change", id, 50, 50) \in SoundCandidates
  <2>1. Proposal("adjust_inventory_strategy", id, 75, 300) \in SoundCandidates
    BY <1>1, <1>3, Proposed, Zenon
  <2>2. Proposal("adjust_fulfillment_strategy", id, 60, 250) \in SoundCandidates
    BY <1>1, <1>3, Proposed, Zenon
  <2>3. Proposal("adjust_pricing_strategy", id, weak, 200) \in SoundCandidates
    BY <1>1, <1>2, <1>3, Proposed, Zenon
  <2>4. Proposal("adjust_promotion_strategy", id, 50, 150) \in SoundCandidates
    BY <1>1, <1>3, Proposed, Zenon
  <2>5. Proposal("recommend_long_term_change", id, 50, 50) \in SoundCandidates
    BY <1>1, <1>3, Proposed, Zenon
  <2>6. QED
    BY <2>1, <2>2, <2>3, <2>4, <2>5
<1>5. /\ <<Proposal("adjust_inventory_strategy", id, 75, 300)>> \in Seq(SoundCandidates)
      /\ <<Proposal("adjust_fulfillment_strategy", id, 60, 250)>> \in Seq(SoundCandidates)
      /\ <<Proposal("adjust_pricing_strategy", id, weak, 200)>> \in Seq(SoundCandidates)
      /\ Optional(r.segment = "low_gmv", Proposal("adjust_promotion_strategy", id, 50, 150)) \in Seq(SoundCandidates)
      /\ advice \in Seq(SoundCandidates)
      /\ <<>> \in Seq(SoundCandidates)
  BY <1>4 DEF Optional
<1>6. operational \in Seq(SoundCandidates)
  BY <1>5, Zenon DEF Operational, weak
<1>7. operational \o advice \in Seq(SoundCandidates)
  <2> HIDE DEF operational, advice
  <2> QED
    BY <1>5, <1>6
<1>8. QED
  BY <1>5, <1>7, Zenon DEF StrategyCandidates

\* The anomaly response agent, on a price.
LEMMA PriceResponseType ==
  ASSUME NEW a, a.entity \in ProductIds, a.baseline \in Nat, product[a.entity] \in ProductStates
  PROVE  PriceResponse(a, product[a.entity]) \in Seq(SoundCandidates)
<1> DEFINE p == product[a.entity]
           gap == p.price - a.baseline
           halfway == p.price - Percent(gap, 50)
           corrected == Greatest(halfway, PriceFloor(p))
           lower == Percent(p.price, 85)
           promoted == IF lower >= p.price \/ lower < MinUnitPrice THEN p.price ELSE lower
           certainty == Certainty(a)
           correction == Severity(a) + 50
           promotion == Severity(a) + 40
<1>1. a.entity \in Entities /\ p.price \in Nat
  BY DEF Entities, ProductStates
<1>2. PriceFloor(p) \in Nat /\ PriceFloor(p) >= MinUnitPrice
  BY FloorType
<1>3. certainty \in 0..100 /\ correction \in Int /\ promotion \in Int
  BY DEF Certainty, Severity
<1> HIDE DEF p, certainty, correction, promotion
<1>4. gap \in Int /\ lower \in Nat
  BY <1>1 DEF Percent
<1>5. halfway \in Int
  <2> HIDE DEF gap
  <2> QED
    BY <1>1, <1>4 DEF Percent
<1>6. corrected \in Nat /\ corrected >= MinUnitPrice
  <2> HIDE DEF halfway
  <2> QED
    BY <1>2, <1>5 DEF Greatest, MinUnitPrice
<1>7. promoted \in Nat /\ (promoted = 0 \/ p.price > 0 \/ promoted >= MinUnitPrice)
  <2> HIDE DEF lower
  <2> QED
    BY <1>1, <1>4 DEF MinUnitPrice
<1>8. "adjust_pricing" \in ActionTypes /\ "adjust_promotions" \in ActionTypes
  BY DEF ActionTypes
<1> HIDE DEF corrected, promoted
<1>9. /\ Reprice(Proposal("adjust_pricing", a.entity, certainty, correction), p.price, corrected) \in SoundCandidates
      /\ Reprice(Proposal("adjust_promotions", a.entity, certainty, promotion), p.price, promoted) \in SoundCandidates
  BY <1>1, <1>3, <1>6, <1>7, <1>8, Repriced, Zenon DEF p
<1>10. /\ Optional(corrected # p.price,
                   Reprice(Proposal("adjust_pricing", a.entity, certainty, correction), p.price, corrected))
             \in Seq(SoundCandidates)
       /\ <<Reprice(Proposal("adjust_promotions", a.entity, certainty, promotion), p.price, promoted)>>
             \in Seq(SoundCandidates)
       /\ <<>> \in Seq(SoundCandidates)
  BY <1>9 DEF Optional
<1>11. QED
  BY <1>10, Zenon DEF PriceResponse, p, gap, halfway, corrected, lower, promoted, certainty, correction, promotion

\* The anomaly response agent, on stock.
LEMMA StockoutResponseType ==
  ASSUME NEW a, a.entity \in Entities, NEW sold \in Int
  PROVE  StockoutResponse(a, sold) \in Seq(SoundCandidates)
<1> DEFINE half == Percent(sold, 50)
           quantity == Greatest(5, half)
           certainty == Certainty(a)
           priority == Severity(a) + 50
<1>1. "adjust_inventory" \in ActionTypes /\ certainty \in 0..100 /\ priority \in Int
  BY DEF ActionTypes, Certainty, Severity
<1>2. half \in Int
  BY PercentType
<1>3. quantity \in Int
  <2> HIDE DEF half
  <2> QED
    BY <1>2 DEF Greatest
<1> HIDE DEF quantity, certainty, priority
<1>4. Restock(Proposal("adjust_inventory", a.entity, certainty, priority), quantity, quantity) \in SoundCandidates
  BY <1>1, <1>3, Restocked, Zenon
<1>5. <<Restock(Proposal("adjust_inventory", a.entity, certainty, priority), quantity, quantity)>> \in Seq(SoundCandidates)
  BY <1>4
<1>6. QED
  BY <1>5, Zenon DEF StockoutResponse, half, quantity, certainty, priority

\* The anomaly response agent, on any anomaly, of a product the twin knows or not.
LEMMA ResponseType ==
  ASSUME NEW a, a.entity \in Entities, a.baseline \in Nat, product \in [ProductIds -> ProductStates]
  PROVE  ResponseCandidates(a, product) \in Seq(SoundCandidates)
<1> DEFINE known == a.entity \in DOMAIN product
           sold == IF known THEN product[a.entity].sold ELSE 0
           certainty == Certainty(a)
           scenario == Severity(a) + 40
           analysis == Severity(a) + 30
           notice == Severity(a)
<1>1. DOMAIN product = ProductIds /\ (known => product[a.entity] \in ProductStates)
  OBVIOUS
<1>2. sold \in Int
  <2>1. known => product[a.entity].sold \in Nat
    BY <1>1 DEF ProductStates
  <2>2. QED
    BY <2>1
<1>3. known => PriceResponse(a, product[a.entity]) \in Seq(SoundCandidates)
  BY <1>1, PriceResponseType
<1> HIDE DEF sold
<1>4. StockoutResponse(a, sold) \in Seq(SoundCandidates)
  BY <1>2, StockoutResponseType
<1>5. /\ "trigger_simulation_scenario" \in ActionTypes /\ "trigger_counterfactual_analysis" \in ActionTypes
      /\ "notify_tenant_admins" \in ActionTypes
      /\ certainty \in 0..100 /\ scenario \in Int /\ analysis \in Int /\ notice \in Int
  BY DEF ActionTypes, Certainty, Severity
<1> HIDE DEF certainty, scenario, analysis, notice
<1>6. /\ Proposal("trigger_simulation_scenario", a.entity, certainty, scenario) \in SoundCandidates
      /\ Proposal("trigger_counterfactual_analysis", a.entity, certainty, analysis) \in SoundCandidates
      /\ Proposal("notify_tenant_admins", a.entity, certainty, notice) \in SoundCandidates
  BY <1>5, Proposed, Zenon
<1>7. /\ <<Proposal("trigger_simulation_scenario", a.entity, certainty, scenario)>> \in Seq(SoundCandidates)
      /\ <<Proposal("trigger_counterfactual_analysis", a.entity, certainty, analysis)>> \in Seq(SoundCandidates)
      /\ <<Proposal("notify_tenant_admins", a.entity, certainty, notice)>> \in Seq(SoundCandidates)
      /\ <<>> \in Seq(SoundCandidates)
  BY <1>6
<1>8. Optional(a.type \in NotifyOnly, Proposal("notify_tenant_admins", a.entity, certainty, notice))
        \in Seq(SoundCandidates)
  BY <1>7, Zenon DEF Optional
<1>9. QED
  BY <1>3, <1>4, <1>7, <1>8, Zenon DEF ResponseCandidates, sold, certainty, scenario, analysis, notice

-----------------------------------------------------------------------------
(* What a round collects.                                                   *)

\* The twin as a run leaves it.
TwinOK ==
  /\ product \in [ProductIds -> ProductStates]
  /\ retailer \in [RetailerIds -> RetailerStates]
  /\ anomalies \in AnomalyCases

Actions ==
  [agent : Agents, id : Nat, round : 1..Rounds, status : {"proposed", "applied", "rejected"},
   type : ActionTypes, entity : Entities, confidence : 0..100,
   from : Nat, price : Nat, delta : Int, base : Int]

\* The open anomalies are what the cases say.
LEMMA AnomaliesType ==
  ASSUME ConstantsAssumption, TwinOK
  PROVE  /\ anomalies \in Seq(ToSet(anomalies))
         /\ \A k \in 1..Len(anomalies) :
              /\ anomalies[k].entity \in Entities
              /\ anomalies[k].baseline \in Nat /\ anomalies[k].deviation \in Int
<1>1. anomalies \in Seq(ToSet(anomalies)) /\ DOMAIN anomalies = 1..Len(anomalies)
  BY DEF ConstantsAssumption, TwinOK
<1>2. ASSUME NEW k \in 1..Len(anomalies)
      PROVE  /\ anomalies[k].entity \in Entities
             /\ anomalies[k].baseline \in Nat /\ anomalies[k].deviation \in Int
  <2>1. anomalies[k] \in ToSet(anomalies) /\ k \in DOMAIN anomalies
    BY <1>1 DEF ToSet
  <2>2. anomalies[k].entity \in {anomalies[j].entity : j \in DOMAIN anomalies}
    BY <2>1
  <2>3. {anomalies[j].entity : j \in DOMAIN anomalies} \in {{s[j].entity : j \in DOMAIN s} : s \in AnomalyCases}
    BY DEF TwinOK
  <2>4. anomalies[k].entity \in Entities
    BY <2>2, <2>3, Zenon DEF Entities
  <2>5. anomalies[k].baseline \in Nat /\ anomalies[k].deviation \in Int
    BY <2>1 DEF ConstantsAssumption, TwinOK
  <2>6. QED
    BY <2>4, <2>5
<1>3. QED
  BY <1>1, <1>2

\* The newest price anomaly of a product is one of the anomalies.
LEMMA PriceAnomalyType ==
  ASSUME ConstantsAssumption, TwinOK, NEW p
  PROVE  LET a == PriceAnomaly(p) IN a # <<>> => a[1].baseline \in Nat /\ a[1].deviation \in Int
<1> DEFINE found == {k \in DOMAIN anomalies : anomalies[k].type = "price_anomaly" /\ anomalies[k].entity = p}
           first == CHOOSE k \in found : \A j \in found : k =< j
<1>1. anomalies \in Seq(ToSet(anomalies))
  BY AnomaliesType
<1>2. found \subseteq 1..Len(anomalies) /\ found \subseteq Nat
  BY <1>1
<1> HIDE DEF found
<1>3. found # {} => first \in found
  <2>1. found # {} => \E k \in found : \A j \in found : k =< j
    BY <1>2, LeastNumber
  <2>2. QED
    BY <2>1
<1> HIDE DEF first
<1>4. found # {} => anomalies[first].baseline \in Nat /\ anomalies[first].deviation \in Int
  BY <1>2, <1>3, AnomaliesType
<1>5. PriceAnomaly(p) = IF found = {} THEN <<>> ELSE <<anomalies[first]>>
  BY Zenon DEF PriceAnomaly, found, first
<1>6. QED
  BY <1>4, <1>5

\* Every agent proposes sound candidates.
LEMMA CandidatesType ==
  ASSUME ConstantsAssumption, TwinOK, NEW agent \in Agents
  PROVE  Candidates(agent) \in Seq(SoundCandidates)
<1> DEFINE pricing == [k \in DOMAIN Products |-> Pricing(Products[k])]
           inventory == [k \in DOMAIN Products |-> InventoryCandidates(Products[k], product[Products[k]])]
           trending == [k \in DOMAIN Products |-> TrendingCandidates(Products[k], product[Products[k]])]
           targets == [k \in DOMAIN Retailers |-> TargetRetailer(Retailers[k], retailer[Retailers[k]])]
           segments == [k \in DOMAIN Products |-> SegmentCandidates(Products[k], product[Products[k]])]
           responses == [k \in DOMAIN anomalies |-> ResponseCandidates(anomalies[k], product)]
           strategies == [k \in DOMAIN Retailers |-> Strategy(Retailers[k])]
<1>1. /\ \A k \in DOMAIN Products : Products[k] \in ProductIds /\ product[Products[k]] \in ProductStates
      /\ DOMAIN Products = 1..Len(Products) /\ Len(Products) \in Nat
  BY DEF ConstantsAssumption, TwinOK
<1>2. /\ \A k \in DOMAIN Retailers : Retailers[k] \in RetailerIds /\ retailer[Retailers[k]] \in RetailerStates
      /\ DOMAIN Retailers = 1..Len(Retailers) /\ Len(Retailers) \in Nat
  BY DEF ConstantsAssumption, TwinOK
<1>3. DOMAIN anomalies = 1..Len(anomalies) /\ Len(anomalies) \in Nat
  BY AnomaliesType
<1>4. \A k \in DOMAIN Products :
        /\ Pricing(Products[k]) \in Seq(SoundCandidates)
        /\ InventoryCandidates(Products[k], product[Products[k]]) \in Seq(SoundCandidates)
        /\ TrendingCandidates(Products[k], product[Products[k]]) \in Seq(SoundCandidates)
        /\ SegmentCandidates(Products[k], product[Products[k]]) \in Seq(SoundCandidates)
  <2> TAKE k \in DOMAIN Products
  <2> DEFINE id == Products[k]
             anomaly == PriceAnomaly(id)
  <2>1. anomaly # <<>> => anomaly[1].baseline \in Nat /\ anomaly[1].deviation \in Int
    BY PriceAnomalyType
  <2>2. id \in ProductIds /\ product[id] \in ProductStates
    BY <1>1
  <2> HIDE DEF id, anomaly
  <2>3. PricingCandidates(id, product[id], anomaly) \in Seq(SoundCandidates)
    BY <2>1, <2>2, PricingType
  <2>4. /\ InventoryCandidates(id, product[id]) \in Seq(SoundCandidates)
        /\ TrendingCandidates(id, product[id]) \in Seq(SoundCandidates)
        /\ SegmentCandidates(id, product[id]) \in Seq(SoundCandidates)
    BY <2>2, InventoryType, TrendingType, SegmentType
  <2>5. QED
    BY <2>3, <2>4, Zenon DEF Pricing, id, anomaly
<1>5. \A k \in DOMAIN Retailers :
        /\ TargetRetailer(Retailers[k], retailer[Retailers[k]]) \in Seq(SoundCandidates)
        /\ Strategy(Retailers[k]) \in Seq(SoundCandidates)
  BY <1>2, TargetType, StrategyType, Zenon DEF Strategy
<1>6. \A k \in DOMAIN anomalies : ResponseCandidates(anomalies[k], product) \in Seq(SoundCandidates)
  <2> TAKE k \in DOMAIN anomalies
  <2>1. anomalies[k].entity \in Entities /\ anomalies[k].baseline \in Nat
    BY <1>3, AnomaliesType
  <2>2. QED
    BY <2>1, ResponseType DEF TwinOK
<1>7. /\ pricing \in Seq(Seq(SoundCandidates)) /\ inventory \in Seq(Seq(SoundCandidates))
      /\ trending \in Seq(Seq(SoundCandidates)) /\ segments \in Seq(Seq(SoundCandidates))
  BY <1>1, <1>4
<1>8. targets \in Seq(Seq(SoundCandidates)) /\ strategies \in Seq(Seq(SoundCandidates))
  BY <1>2, <1>5
<1>9. responses \in Seq(Seq(SoundCandidates))
  BY <1>3, <1>6
<1> HIDE DEF pricing, inventory, trending, targets, segments, responses, strategies
<1>10. /\ Joined(pricing) \in Seq(SoundCandidates) /\ Joined(inventory) \in Seq(SoundCandidates)
       /\ Joined(trending) \in Seq(SoundCandidates) /\ Joined(targets) \in Seq(SoundCandidates)
       /\ Joined(segments) \in Seq(SoundCandidates) /\ Joined(responses) \in Seq(SoundCandidates)
       /\ Joined(strategies) \in Seq(SoundCandidates)
  BY <1>7, <1>8, <1>9, JoinedType
<1>11. (Joined(trending) \o Joined(targets)) \o Joined(segments) \in Seq(SoundCandidates)
  BY <1>10
<1>12. CASE agent = "pricing"
  BY <1>10, <1>12 DEF Candidates, pricing
<1>13. CASE agent = "inventory"
  BY <1>10, <1>13 DEF Candidates, inventory
<1>14. CASE agent = "demand"
  BY <1>11, <1>14 DEF Candidates, trending, targets, segments
<1>15. CASE agent = "anomaly_response"
  BY <1>10, <1>15 DEF Candidates, responses
<1>16. CASE agent = "retailer_strategy"
  BY <1>10, <1>16 DEF Candidates, strategies
<1>17. agent \in {"pricing", "inventory", "demand", "anomaly_response", "retailer_strategy"}
  BY DEF Agents, AgentTypes, ToSet
<1>18. QED
  BY <1>12, <1>13, <1>14, <1>15, <1>16, <1>17

\* decide() selects among its candidates.
LEMMA SelectedType ==
  ASSUME ConstantsAssumption, NEW s \in Seq(SoundCandidates)
  PROVE  Selected(s) \in Seq(SoundCandidates)
<1> DEFINE key == [k \in DOMAIN s |-> -s[k].priority]
           sorted == SortedBy(s, key)
           n == Least(Len(s), MaxActions)
<1>1. key \in [DOMAIN s -> Int]
  <2>1. \A k \in DOMAIN s : s[k] \in SoundCandidates
    OBVIOUS
  <2>2. \A k \in DOMAIN s : s[k].priority \in Int
    BY <2>1 DEF SoundCandidates, CandidateStates
  <2>3. QED
    BY <2>2
<1> HIDE DEF key
<1>2. \E at \in [1..Len(s) -> 1..Len(s)] :
           /\ SortedBy(s, key) = [k \in 1..Len(s) |-> s[at[k]]]
           /\ \A j \in 1..Len(s) : \E k \in 1..Len(s) : at[k] = j
           /\ \A i, k \in 1..Len(s) : at[i] = at[k] => i = k
           /\ \A i, k \in 1..Len(s) : i < k => key[at[i]] =< key[at[k]]
  BY <1>1, SortedIsPermuted, Zenon
<1>3. sorted \in Seq(SoundCandidates) /\ Len(sorted) = Len(s)
  <2>1. PICK at \in [1..Len(s) -> 1..Len(s)] : sorted = [k \in 1..Len(s) |-> s[at[k]]]
    BY <1>2, Zenon
  <2>2. \A k \in 1..Len(s) : s[at[k]] \in SoundCandidates
    OBVIOUS
  <2> HIDE DEF sorted
  <2>3. QED
    BY <2>1, <2>2
<1>4. n \in Nat /\ n =< Len(s)
  BY DEF Least, ConstantsAssumption
<1> HIDE DEF sorted, n
<1>5. SubSeq(sorted, 1, n) \in Seq(SoundCandidates)
  BY <1>3, <1>4
<1>6. QED
  BY <1>5, Zenon DEF Selected, sorted, n, key

\* What one agent decides: sound actions of its own, numbered from 1.
LEMMA DecisionsType ==
  ASSUME ConstantsAssumption, TwinOK, round \in 1..Rounds, NEW agent \in Agents
  PROVE  /\ Decisions(agent) \in Seq(Actions)
         /\ \A k \in 1..Len(Decisions(agent)) :
              LET a == Decisions(agent)[k] IN
              /\ a.agent = agent /\ a.id = k /\ a.round = round /\ a.status = "proposed"
              /\ Priced(a)
<1> DEFINE chosen == Selected(Candidates(agent))
<1>1. chosen \in Seq(SoundCandidates)
  BY CandidatesType, SelectedType
<1> HIDE DEF chosen
<1>2. Len(chosen) \in Nat /\ DOMAIN chosen = 1..Len(chosen)
  BY <1>1
<1>3. ASSUME NEW k \in 1..Len(chosen)
      PROVE  LET a == Action(agent, k, chosen[k]) IN
             /\ a \in Actions
             /\ a.agent = agent /\ a.id = k /\ a.round = round /\ a.status = "proposed"
             /\ Priced(a)
  <2> DEFINE c == chosen[k]
  <2>1. c \in CandidateStates /\ Priced(c) /\ k \in Nat
    BY <1>1, <1>2 DEF SoundCandidates
  <2> HIDE DEF c
  <2>2. Action(agent, k, c) \in Actions
    BY <2>1 DEF Action, Actions, CandidateStates
  <2>3. Priced(Action(agent, k, c))
    BY <2>1 DEF Action, Priced
  <2>4. QED
    BY <2>2, <2>3 DEF Action, c
<1>4. Decisions(agent) = [k \in 1..Len(chosen) |-> Action(agent, k, chosen[k])]
  BY <1>2 DEF Decisions, chosen
<1>5. Decisions(agent) \in Seq(Actions) /\ Len(Decisions(agent)) = Len(chosen)
  BY <1>2, <1>3, <1>4
<1>6. QED
  BY <1>3, <1>4, <1>5

-----------------------------------------------------------------------------
(* The order of the proposals, and the limits.                              *)

\* The priorities of the agent types.
LEMMA RankType ==
  /\ \A a \in Agents : Rank(a) \in 1..5
  /\ \A a, b \in Agents : Rank(a) = Rank(b) => a = b
<1>1. DOMAIN Priority = 1..5
  BY DEF Priority
<1>2. \A a \in Agents : \E k \in DOMAIN Priority : Priority[k] = a
  <2> TAKE a \in Agents
  <2>1. a \in {"pricing", "inventory", "demand", "anomaly_response", "retailer_strategy"}
    BY DEF Agents, AgentTypes, ToSet
  <2>2. /\ Priority[1] = "anomaly_response" /\ Priority[2] = "inventory" /\ Priority[3] = "pricing"
        /\ Priority[4] = "retailer_strategy" /\ Priority[5] = "demand"
    BY DEF Priority
  <2>3. QED
    BY <1>1, <2>1, <2>2
<1>3. \A a \in Agents : Rank(a) \in 1..5 /\ Priority[Rank(a)] = a
  BY <1>1, <1>2 DEF Rank
<1>4. QED
  BY <1>3

\* The numeric limits keep an action what it is, and its price near what it was
\* decided on.
LEMMA LimitsType ==
  ASSUME NEW a \in Actions
  PROVE  LET b == WithinLimits(a) IN
         /\ b \in Actions
         /\ b.agent = a.agent /\ b.id = a.id /\ b.round = a.round /\ b.status = a.status
         /\ b.entity = a.entity /\ b.confidence = a.confidence /\ b.from = a.from
         /\ a.price = 0 => b.price = 0
         /\ a.from = 0 => b.price = a.price
         /\ a.price # 0 /\ a.from > 0 =>
              /\ b.price >= MinUnitPrice
              /\ WithinAQuarter(a.from, b.price) \/ b.price = MinUnitPrice
<1> DEFINE quarter == Percent(a.from, 25)
           near == Between(a.from - quarter, a.price, a.from + quarter)
           new == Greatest(near, MinUnitPrice)
<1>1. a.price \in Nat /\ a.from \in Nat /\ a.delta \in Int /\ a.base \in Int
  BY DEF Actions
<1>2. quarter \in Nat
  BY <1>1 DEF Percent
<1>3. near \in Int /\ a.from - quarter =< near /\ near =< a.from + quarter
  <2> HIDE DEF quarter
  <2> QED
    BY <1>1, <1>2 DEF Between, Greatest, Least
<1>4. /\ new \in Nat /\ new >= MinUnitPrice
      /\ Magnitude(new - a.from) =< quarter \/ new = MinUnitPrice
  <2> HIDE DEF quarter, near
  <2> QED
    BY <1>1, <1>2, <1>3 DEF Greatest, MinUnitPrice, Magnitude
<1> HIDE DEF new
<1>5. ASSUME NEW b \in Actions
      PROVE  LET c == CappedDelta(b) IN
             /\ c \in Actions
             /\ c.agent = b.agent /\ c.id = b.id /\ c.round = b.round /\ c.status = b.status
             /\ c.entity = b.entity /\ c.confidence = b.confidence /\ c.from = b.from /\ c.price = b.price
  BY <1>5 DEF CappedDelta, Actions
<1> DEFINE limited == [a EXCEPT !.price = new]
<1>6. /\ limited \in Actions
      /\ limited.agent = a.agent /\ limited.id = a.id /\ limited.round = a.round /\ limited.status = a.status
      /\ limited.entity = a.entity /\ limited.confidence = a.confidence /\ limited.from = a.from
      /\ limited.price = new
  BY <1>4 DEF Actions
<1> HIDE DEF limited
<1>7. WithinLimits(a) = IF a.price # 0 /\ a.from > 0 THEN CappedDelta(limited) ELSE CappedDelta(a)
  BY Zenon DEF WithinLimits, limited, new, near, quarter
<1>8. CASE a.price # 0 /\ a.from > 0
  BY <1>1, <1>4, <1>5, <1>6, <1>7, <1>8 DEF WithinAQuarter
<1>9. CASE ~(a.price # 0 /\ a.from > 0)
  BY <1>1, <1>5, <1>7, <1>9
<1>10. QED
  BY <1>8, <1>9

-----------------------------------------------------------------------------
(* The invariant.                                                           *)

\* What no step changes about an action: all but its status and its params.
Alike(a, b) ==
  SameProposal(a, b) /\ a.entity = b.entity /\ a.confidence = b.confidence

\* w has the higher priority, or that of l and no less confidence.
Precedes(w, l) ==
  Rank(w.agent) < Rank(l.agent) \/ (w.agent = l.agent /\ w.confidence >= l.confidence)

NoneTwice(s) == \A i, k \in 1..Len(s) : SameProposal(s[i], s[k]) => i = k
OnePerEntity(s) == \A i, k \in 1..Len(s) : SameEntity(s[i], s[k]) => i = k
Apart(s, t) == \A i \in 1..Len(s), k \in 1..Len(t) : ~SameProposal(s[i], t[k])

\* Of each entity one proposal was taken, and of each that was lost the record names
\* the one taken, which it had to yield to.
Settled(taken, lost, records) ==
  /\ NoneTwice(taken) /\ OnePerEntity(taken) /\ NoneTwice(lost) /\ Apart(taken, lost)
  /\ Len(records) = Len(lost)
  /\ \A k \in 1..Len(lost) :
       /\ records[k][2] = lost[k] /\ SameEntity(records[k][1], lost[k])
       /\ \E i \in 1..Len(taken) :
            /\ SameProposal(taken[i], records[k][1])
            /\ SameEntity(taken[i], lost[k]) /\ Precedes(taken[i], lost[k])

\* Every action of Q is among those taken or those lost.
Accounted(Q, taken, lost) ==
  \A q \in Q : \/ \E i \in 1..Len(taken) : SameProposal(taken[i], q)
               \/ \E i \in 1..Len(lost) : SameProposal(lost[i], q)

\* An action that is still to act moves a price within the limits.
Limited(a) ==
  a.price # 0 =>
    /\ a.entity \in ProductIds /\ a.from = product[a.entity].price
    /\ a.price >= MinUnitPrice
    /\ WithinAQuarter(a.from, a.price) \/ a.price = MinUnitPrice \/ a.from = 0

TakenInOrder == applied \o survivors

ListsOK ==
  /\ proposals \in Seq(Actions) /\ survivors \in Seq(Actions)
  /\ applied \in Seq(Actions) /\ rejected \in Seq(Actions)
  /\ conflicts \in Seq(Actions \X Actions)
  /\ proposed \subseteq Actions /\ rows \subseteq Actions
  /\ \A k \in 1..Len(proposals) : proposals[k].status = "proposed" /\ proposals[k].round = round
  /\ \A k \in 1..Len(survivors) : survivors[k].status = "proposed" /\ survivors[k].round = round
  /\ \A k \in 1..Len(applied) : applied[k].status \in {"applied", "proposed"}
  /\ \A k \in 1..Len(rejected) : rejected[k].status = "rejected"

CountersOK ==
  /\ phase \in Phases /\ round \in 1..Rounds /\ asked \in 0..Len(AgentTypes)
  /\ runs \in [Agents -> {"none", "success", "failed"}] /\ unsaved \in SUBSET Agents
  /\ failures \in 0..MaxFailures

\* The agents that have been asked proposed each action once, on the twin as it is.
CollectedOK ==
  /\ NoneTwice(proposals)
  /\ \A k \in 1..Len(proposals) :
       Priced(proposals[k]) /\ \E n \in 1..asked : AgentTypes[n] = proposals[k].agent

PhaseOK ==
  /\ phase \notin {"collect", "resolve"} => proposals = <<>>
  /\ phase \notin {"act", "dead"} => survivors = <<>>
  /\ phase \in {"collect", "resolve"} =>
       /\ \A k \in 1..Len(applied) : applied[k].round < round
       /\ \A k \in 1..Len(rejected) : rejected[k].round < round
  /\ \A k \in 1..Len(applied) : applied[k].round =< round
  /\ \A k \in 1..Len(rejected) : rejected[k].round =< round
  /\ phase \notin {"persist", "done"} =>
       rows = {} /\ \A a \in Agents : runs[a] = "none"

SettledOK ==
  Settled(TakenInOrder, rejected, conflicts) /\ Accounted(proposed, TakenInOrder, rejected)

LimitsOK == phase = "act" => \A k \in 1..Len(survivors) : Limited(survivors[k])

\* Rows are rows of the run, and an agent whose run was a success has all of its own.
SavedOK ==
  /\ rows \subseteq ToSet(RowsToSave)
  /\ \A a \in Agents : runs[a] = "success" => \A k \in RowsOf(a) : RowsToSave[k] \in rows

FlowInv ==
  /\ TwinOK /\ CountersOK /\ ListsOK /\ CollectedOK /\ PhaseOK /\ SettledOK /\ LimitsOK /\ SavedOK

-----------------------------------------------------------------------------
(* The resolution.                                                          *)

\* The key of the sort orders actions as the priorities do.
LEMMA PrecedenceType ==
  /\ \A a \in Actions : Precedence(a) \in Int
  /\ \A a, b \in Actions : Precedence(a) =< Precedence(b) => Precedes(a, b)
<1>1. \A a \in Actions : a.agent \in Agents /\ Rank(a.agent) \in 1..5 /\ a.confidence \in 0..100
  BY RankType DEF Actions
<1>2. \A a \in Actions : Precedence(a) \in Int
  BY <1>1 DEF Precedence
<1>3. ASSUME NEW a \in Actions, NEW b \in Actions, Precedence(a) =< Precedence(b)
      PROVE  Precedes(a, b)
  <2> DEFINE first == Rank(a.agent)
             second == Rank(b.agent)
             sure == a.confidence
             unsure == b.confidence
  <2>1. 1000 * first - sure =< 1000 * second - unsure
    BY <1>3 DEF Precedence
  <2>2. first \in 1..5 /\ second \in 1..5 /\ sure \in 0..100 /\ unsure \in 0..100
    BY <1>1
  <2>3. first = second => a.agent = b.agent
    BY <1>1, RankType
  <2> HIDE DEF first, second, sure, unsure
  <2>4. first < second \/ (first = second /\ sure >= unsure)
    BY <2>1, <2>2
  <2>5. QED
    BY <2>3, <2>4 DEF Precedes, first, second, sure, unsure
<1>4. QED
  BY <1>2, <1>3

\* The order in which proposals claim their entities is that of the priorities.
LEMMA OrderedType ==
  ASSUME NEW s \in Seq(Actions)
  PROVE  /\ Ordered(s) \in Seq(Actions) /\ Len(Ordered(s)) = Len(s)
         /\ \A i, k \in 1..Len(s) : i < k => Precedes(Ordered(s)[i], Ordered(s)[k])
         /\ \A k \in 1..Len(s) : \E j \in 1..Len(s) : Ordered(s)[k] = s[j]
         /\ \A j \in 1..Len(s) : \E k \in 1..Len(s) : Ordered(s)[k] = s[j]
         /\ NoneTwice(s) => NoneTwice(Ordered(s))
<1> DEFINE key == [k \in DOMAIN s |-> Precedence(s[k])]
<1>1. \A k \in 1..Len(s) : s[k] \in Actions
  OBVIOUS
<1>2. DOMAIN s = 1..Len(s)
  OBVIOUS
<1>3. key \in [DOMAIN s -> Int]
  BY <1>1, <1>2, PrecedenceType
<1>4. \A i, k \in 1..Len(s) : key[i] =< key[k] => Precedes(s[i], s[k])
  BY <1>1, <1>2, PrecedenceType
<1> HIDE DEF key
<1>5. \E at \in [1..Len(s) -> 1..Len(s)] :
           /\ SortedBy(s, key) = [k \in 1..Len(s) |-> s[at[k]]]
           /\ \A j \in 1..Len(s) : \E k \in 1..Len(s) : at[k] = j
           /\ \A i, k \in 1..Len(s) : at[i] = at[k] => i = k
           /\ \A i, k \in 1..Len(s) : i < k => key[at[i]] =< key[at[k]]
  BY <1>3, SortedIsPermuted, Zenon
<1>6. Ordered(s) = SortedBy(s, key)
  BY Zenon DEF Ordered, key
<1> DEFINE sorted == Ordered(s)
<1>7. PICK at \in [1..Len(s) -> 1..Len(s)] :
           /\ sorted = [k \in 1..Len(s) |-> s[at[k]]]
           /\ \A j \in 1..Len(s) : \E k \in 1..Len(s) : at[k] = j
           /\ \A i, k \in 1..Len(s) : at[i] = at[k] => i = k
           /\ \A i, k \in 1..Len(s) : i < k => key[at[i]] =< key[at[k]]
  BY <1>5, <1>6, Zenon
<1> HIDE DEF sorted
<1>8. \A k \in 1..Len(s) : at[k] \in 1..Len(s) /\ sorted[k] = s[at[k]]
  BY <1>7
<1>9. sorted \in Seq(Actions) /\ Len(sorted) = Len(s)
  BY <1>1, <1>7
<1>10. \A i, k \in 1..Len(s) : i < k => Precedes(sorted[i], sorted[k])
  <2> SUFFICES ASSUME NEW i \in 1..Len(s), NEW k \in 1..Len(s), i < k
               PROVE  Precedes(sorted[i], sorted[k])
    OBVIOUS
  <2>1. key[at[i]] =< key[at[k]] /\ at[i] \in 1..Len(s) /\ at[k] \in 1..Len(s)
    BY <1>7
  <2>2. Precedes(s[at[i]], s[at[k]])
    BY <1>4, <2>1
  <2>3. QED
    BY <1>8, <2>2
<1>11. \A j \in 1..Len(s) : \E k \in 1..Len(s) : sorted[k] = s[j]
  BY <1>7, <1>8
<1>12. NoneTwice(s) => NoneTwice(sorted)
  <2> SUFFICES ASSUME NoneTwice(s), NEW i \in 1..Len(s), NEW k \in 1..Len(s), SameProposal(sorted[i], sorted[k])
               PROVE  i = k
    BY <1>9 DEF NoneTwice
  <2>1. SameProposal(s[at[i]], s[at[k]]) /\ at[i] \in 1..Len(s) /\ at[k] \in 1..Len(s)
    BY <1>8
  <2>2. at[i] = at[k]
    BY <2>1 DEF NoneTwice
  <2>3. QED
    BY <1>7, <2>2
<1>13. QED
  BY <1>8, <1>9, <1>10, <1>11, <1>12 DEF sorted

\* The loop over the ordered proposals exists as a function of its turns.
LEMMA ResolutionSteps ==
  ASSUME NEW s \in Seq(Actions)
  PROVE  \E upTo :
           /\ upTo = [k \in 0..Len(s) |-> IF k = 0 THEN [kept |-> <<>>, lost |-> <<>>, conflicts |-> <<>>]
                                          ELSE Claim(upTo[k - 1], s[k])]
           /\ Resolution(s) = upTo[Len(s)]
<1> DEFINE none == [kept |-> <<>>, lost |-> <<>>, conflicts |-> <<>>]
           G(g, m) == g = [k \in 0..m |-> IF k = 0 THEN none ELSE Claim(g[k - 1], s[k])]
           T == {m \in Nat : ~\E g : G(g, m)}
<1>1. ASSUME T # {} PROVE FALSE
  <2>1. PICK m \in T : \A i \in T : m =< i
    <3> HIDE DEF G
    <3> QED
      BY <1>1, LeastNumber
  <2> HIDE DEF none
  <2>2. m # 0
    <3>1. G([k \in 0..0 |-> none], 0)
      OBVIOUS
    <3>2. QED
      BY <3>1, <2>1
  <2>3. m \in Nat /\ m - 1 \in Nat /\ ~(m =< m - 1)
    BY <2>1, <2>2
  <2>4. PICK g : G(g, m - 1)
    <3> HIDE DEF G
    <3> QED
      BY <2>1, <2>3
  <2> DEFINE h == [k \in 0..m |-> IF k = m THEN Claim(g[m - 1], s[m]) ELSE g[k]]
  <2>5. ASSUME NEW k \in 0..m PROVE h[k] = IF k = 0 THEN none ELSE Claim(h[k - 1], s[k])
    <3>1. CASE k = m
      BY <2>2, <2>3, <3>1
    <3>2. CASE k # m
      <4>1. k \in 0..(m - 1) /\ h[k] = g[k] /\ (k # 0 => k - 1 \in 0..m /\ k - 1 # m)
        BY <2>3, <3>2
      <4>2. g[k] = IF k = 0 THEN none ELSE Claim(g[k - 1], s[k])
        BY <2>4, <4>1
      <4>3. k # 0 => h[k - 1] = g[k - 1]
        BY <4>1
      <4>4. QED
        BY <4>1, <4>2, <4>3
    <3>3. QED
      BY <3>1, <3>2
  <2>6. G(h, m)
    BY <2>5
  <2>7. QED
    BY <2>1, <2>6
<1>2. PICK g : G(g, Len(s))
  <2>1. Len(s) \in Nat
    OBVIOUS
  <2> HIDE DEF G
  <2>2. QED
    BY <1>1, <2>1
<1> DEFINE upTo[k \in 0..Len(s)] == IF k = 0 THEN [kept |-> <<>>, lost |-> <<>>, conflicts |-> <<>>]
                                    ELSE Claim(upTo[k - 1], s[k])
<1>3. G(upTo, Len(s))
  BY <1>2, Zenon
<1>4. Resolution(s) = upTo[Len(s)]
  BY Zenon DEF Resolution
<1>5. QED
  BY <1>3, <1>4, Zenon

\* One more action taken, of an entity that none has.
LEMMA SettledTakes ==
  ASSUME NEW t \in Seq(Actions), NEW l \in Seq(Actions), NEW r \in Seq(Actions \X Actions), Settled(t, l, r),
         NEW x \in Actions,
         \A k \in 1..Len(t) : ~SameProposal(t[k], x) /\ ~SameEntity(t[k], x),
         \A k \in 1..Len(l) : ~SameProposal(l[k], x)
  PROVE  Settled(Append(t, x), l, r)
<1> DEFINE u == Append(t, x)
<1>1. /\ u \in Seq(Actions) /\ Len(u) = Len(t) + 1 /\ u[Len(t) + 1] = x
      /\ \A k \in 1..Len(t) : u[k] = t[k]
      /\ Len(t) \in Nat
  OBVIOUS
<1> HIDE DEF u
<1>2. \A k \in 1..Len(u) : k \in 1..Len(t) \/ k = Len(t) + 1
  BY <1>1
<1>3. NoneTwice(u)
  <2> SUFFICES ASSUME NEW i \in 1..Len(u), NEW k \in 1..Len(u), SameProposal(u[i], u[k])
               PROVE  i = k
    BY DEF NoneTwice
  <2>1. CASE i \in 1..Len(t) /\ k \in 1..Len(t)
    <3>1. SameProposal(t[i], t[k])
      BY <1>1, <2>1
    <3>2. QED
      BY <2>1, <3>1 DEF Settled, NoneTwice
  <2>2. CASE i \in 1..Len(t) /\ k = Len(t) + 1
    <3>1. SameProposal(t[i], x)
      BY <1>1, <2>2
    <3>2. QED
      BY <2>2, <3>1
  <2>3. CASE i = Len(t) + 1 /\ k \in 1..Len(t)
    <3>1. SameProposal(x, t[k])
      BY <1>1, <2>3
    <3>2. QED
      BY <2>3, <3>1 DEF SameProposal
  <2>4. QED
    BY <1>2, <2>1, <2>2, <2>3
<1>4. OnePerEntity(u)
  <2> SUFFICES ASSUME NEW i \in 1..Len(u), NEW k \in 1..Len(u), SameEntity(u[i], u[k])
               PROVE  i = k
    BY DEF OnePerEntity
  <2>1. CASE i \in 1..Len(t) /\ k \in 1..Len(t)
    <3>1. SameEntity(t[i], t[k])
      BY <1>1, <2>1
    <3>2. QED
      BY <2>1, <3>1 DEF Settled, OnePerEntity
  <2>2. CASE i \in 1..Len(t) /\ k = Len(t) + 1
    <3>1. SameEntity(t[i], x)
      BY <1>1, <2>2
    <3>2. QED
      BY <2>2, <3>1
  <2>3. CASE i = Len(t) + 1 /\ k \in 1..Len(t)
    <3>1. SameEntity(x, t[k])
      BY <1>1, <2>3
    <3>2. QED
      BY <2>3, <3>1 DEF SameEntity
  <2>4. QED
    BY <1>2, <2>1, <2>2, <2>3
<1>5. Apart(u, l)
  <2> SUFFICES ASSUME NEW i \in 1..Len(u), NEW k \in 1..Len(l), SameProposal(u[i], l[k])
               PROVE  FALSE
    BY DEF Apart
  <2>1. CASE i \in 1..Len(t)
    BY <1>1, <2>1 DEF Settled, Apart
  <2>2. CASE i = Len(t) + 1
    <3>1. SameProposal(x, l[k])
      BY <1>1, <2>2
    <3>2. QED
      BY <3>1 DEF SameProposal
  <2>3. QED
    BY <1>2, <2>1, <2>2
<1>6. \A k \in 1..Len(l) :
       /\ r[k][2] = l[k] /\ SameEntity(r[k][1], l[k])
       /\ \E i \in 1..Len(u) :
            /\ SameProposal(u[i], r[k][1])
            /\ SameEntity(u[i], l[k]) /\ Precedes(u[i], l[k])
  <2> TAKE k \in 1..Len(l)
  <2>1. PICK i \in 1..Len(t) :
            /\ SameProposal(t[i], r[k][1])
            /\ SameEntity(t[i], l[k]) /\ Precedes(t[i], l[k])
    BY DEF Settled
  <2>2. i \in 1..Len(u) /\ u[i] = t[i]
    BY <1>1
  <2>3. r[k][2] = l[k] /\ SameEntity(r[k][1], l[k])
    BY DEF Settled
  <2>4. QED
    BY <2>1, <2>2, <2>3
<1>7. NoneTwice(l) /\ Len(r) = Len(l)
  BY DEF Settled
<1>8. Settled(u, l, r)
  BY <1>3, <1>4, <1>5, <1>6, <1>7 DEF Settled
<1>9. QED
  BY <1>8 DEF u

\* One more action lost, to one that was taken.
LEMMA SettledLoses ==
  ASSUME NEW t \in Seq(Actions), NEW l \in Seq(Actions), NEW r \in Seq(Actions \X Actions), Settled(t, l, r),
         NEW x \in Actions, NEW i \in 1..Len(t), SameEntity(t[i], x), Precedes(t[i], x),
         \A k \in 1..Len(t) : ~SameProposal(t[k], x),
         \A k \in 1..Len(l) : ~SameProposal(l[k], x)
  PROVE  Settled(t, Append(l, x), Append(r, <<t[i], x>>))
<1> DEFINE m == Append(l, x)
           s == Append(r, <<t[i], x>>)
<1>1. /\ m \in Seq(Actions) /\ Len(m) = Len(l) + 1 /\ m[Len(l) + 1] = x
      /\ \A k \in 1..Len(l) : m[k] = l[k]
      /\ Len(l) \in Nat
  OBVIOUS
<1>2. Len(r) = Len(l)
  BY DEF Settled
<1>3. /\ Len(s) = Len(l) + 1 /\ s[Len(l) + 1] = <<t[i], x>>
      /\ \A k \in 1..Len(l) : s[k] = r[k]
  BY <1>2
<1> HIDE DEF m, s
<1>4. \A k \in 1..Len(m) : k \in 1..Len(l) \/ k = Len(l) + 1
  BY <1>1
<1>5. NoneTwice(m)
  <2> SUFFICES ASSUME NEW j \in 1..Len(m), NEW k \in 1..Len(m), SameProposal(m[j], m[k])
               PROVE  j = k
    BY DEF NoneTwice
  <2>1. CASE j \in 1..Len(l) /\ k \in 1..Len(l)
    <3>1. SameProposal(l[j], l[k])
      BY <1>1, <2>1
    <3>2. QED
      BY <2>1, <3>1 DEF Settled, NoneTwice
  <2>2. CASE j \in 1..Len(l) /\ k = Len(l) + 1
    <3>1. SameProposal(l[j], x)
      BY <1>1, <2>2
    <3>2. QED
      BY <2>2, <3>1
  <2>3. CASE j = Len(l) + 1 /\ k \in 1..Len(l)
    <3>1. SameProposal(x, l[k])
      BY <1>1, <2>3
    <3>2. QED
      BY <2>3, <3>1 DEF SameProposal
  <2>4. QED
    BY <1>4, <2>1, <2>2, <2>3
<1>6. Apart(t, m)
  <2> SUFFICES ASSUME NEW j \in 1..Len(t), NEW k \in 1..Len(m), SameProposal(t[j], m[k])
               PROVE  FALSE
    BY DEF Apart
  <2>1. CASE k \in 1..Len(l)
    BY <1>1, <2>1 DEF Settled, Apart
  <2>2. CASE k = Len(l) + 1
    BY <1>1, <2>2
  <2>3. QED
    BY <1>4, <2>1, <2>2
<1>7. \A k \in 1..Len(m) :
       /\ s[k][2] = m[k] /\ SameEntity(s[k][1], m[k])
       /\ \E j \in 1..Len(t) :
            /\ SameProposal(t[j], s[k][1])
            /\ SameEntity(t[j], m[k]) /\ Precedes(t[j], m[k])
  <2> TAKE k \in 1..Len(m)
  <2>1. CASE k \in 1..Len(l)
    <3>1. m[k] = l[k] /\ s[k] = r[k]
      BY <1>1, <1>3, <2>1
    <3>2. QED
      BY <2>1, <3>1 DEF Settled
  <2>2. CASE k = Len(l) + 1
    <3>1. m[k] = x /\ s[k][1] = t[i] /\ s[k][2] = x
      BY <1>1, <1>3, <2>2
    <3>2. SameProposal(t[i], t[i])
      BY DEF SameProposal
    <3>3. QED
      BY <3>1, <3>2
  <2>3. QED
    BY <1>4, <2>1, <2>2
<1>8. NoneTwice(t) /\ OnePerEntity(t) /\ Len(s) = Len(m)
  BY <1>1, <1>3 DEF Settled
<1>9. Settled(t, m, s)
  BY <1>5, <1>6, <1>7, <1>8 DEF Settled
<1>10. QED
  BY <1>9 DEF m, s

\* What holds of the resolution when n of the proposals have claimed their entity.
Resolved(res, s, n) ==
  /\ res \in [kept : Seq(Actions), lost : Seq(Actions), conflicts : Seq(Actions \X Actions)]
  /\ Settled(res.kept, res.lost, res.conflicts)
  /\ Accounted({s[i] : i \in 1..n}, res.kept, res.lost)
  /\ \A k \in 1..Len(res.kept) : \E i \in 1..n : res.kept[k] = WithinLimits(s[i])
  /\ \A k \in 1..Len(res.lost) : \E i \in 1..n : res.lost[k] = Reject(s[i])

\* It keeps holding when the next one does.
LEMMA ClaimStep ==
  ASSUME NEW s \in Seq(Actions), NoneTwice(s),
         \A i, k \in 1..Len(s) : i < k => Precedes(s[i], s[k]),
         \A i, k \in 1..Len(s) : s[i].round = s[k].round,
         NEW n \in 1..Len(s), NEW res, Resolved(res, s, n - 1)
  PROVE  Resolved(Claim(res, s[n]), s, n)
<1> DEFINE a == s[n]
           b == WithinLimits(a)
           l == Reject(a)
<1>1. /\ res \in [kept : Seq(Actions), lost : Seq(Actions), conflicts : Seq(Actions \X Actions)]
      /\ Settled(res.kept, res.lost, res.conflicts)
  BY DEF Resolved
<1>2. res.kept \in Seq(Actions) /\ res.lost \in Seq(Actions) /\ res.conflicts \in Seq(Actions \X Actions)
  BY <1>1
<1>3. /\ a \in Actions
      /\ b \in Actions /\ b.agent = a.agent /\ b.id = a.id /\ b.round = a.round
      /\ b.entity = a.entity /\ b.confidence = a.confidence
  <2>1. a \in Actions
    OBVIOUS
  <2>2. QED
    BY <2>1, LimitsType
<1>4. /\ l \in Actions /\ l.agent = a.agent /\ l.id = a.id /\ l.round = a.round
      /\ l.entity = a.entity /\ l.confidence = a.confidence
  <2>1. a \in Actions
    BY <1>3
  <2> HIDE DEF a
  <2>2. QED
    BY <2>1 DEF Reject, Actions
<1>5. \A i \in 1..(n - 1) :
        /\ i \in 1..Len(s) /\ s[i] \in Actions /\ ~SameProposal(s[i], a) /\ s[i].round = a.round
        /\ Precedes(s[i], a)
  <2> TAKE i \in 1..(n - 1)
  <2>1. i \in 1..Len(s) /\ i < n /\ Len(s) \in Nat
    OBVIOUS
  <2>2. s[i] \in Actions
    BY <2>1
  <2>3. QED
    BY <2>1, <2>2 DEF NoneTwice
<1>6. ASSUME NEW k \in 1..Len(res.kept)
      PROVE  /\ ~SameProposal(res.kept[k], a) /\ res.kept[k].round = a.round
             /\ Precedes(res.kept[k], a)
  <2>1. PICK i \in 1..(n - 1) : res.kept[k] = WithinLimits(s[i])
    BY DEF Resolved
  <2> DEFINE c == s[i]
             w == res.kept[k]
  <2>2. w.agent = c.agent /\ w.id = c.id /\ w.round = c.round /\ w.confidence = c.confidence
    BY <1>5, <2>1, LimitsType
  <2>3. ~SameProposal(c, a) /\ c.round = a.round /\ Precedes(c, a)
    BY <1>5
  <2> HIDE DEF a, c, w
  <2>4. ~SameProposal(w, a) /\ w.round = a.round /\ Precedes(w, a)
    BY <2>2, <2>3 DEF SameProposal, Precedes
  <2>5. QED
    BY <2>4 DEF w
<1>7. ASSUME NEW k \in 1..Len(res.lost)
      PROVE  ~SameProposal(res.lost[k], a)
  <2>1. PICK i \in 1..(n - 1) : res.lost[k] = Reject(s[i])
    BY DEF Resolved
  <2> DEFINE c == s[i]
             w == res.lost[k]
  <2>2. c \in Actions /\ ~SameProposal(c, a)
    BY <1>5
  <2>3. w = Reject(c)
    BY <2>1
  <2> HIDE DEF a, c, w
  <2>4. w.agent = c.agent /\ w.id = c.id /\ w.round = c.round
    BY <2>2, <2>3 DEF Reject, Actions
  <2>5. ~SameProposal(w, a)
    BY <2>2, <2>4 DEF SameProposal
  <2>6. QED
    BY <2>5 DEF w
<1>8. {s[i] : i \in 1..n} = {s[i] : i \in 1..(n - 1)} \cup {a}
  <2>1. 1..n = 1..(n - 1) \cup {n}
    OBVIOUS
  <2> QED
    BY <2>1
<1>9. 1..(n - 1) \subseteq 1..n /\ n \in 1..n
  OBVIOUS
<1> HIDE DEF a, b, l
<1>10. CASE Claimants(res, a) = {}
  <2> DEFINE kept == Append(res.kept, b)
  <2>1. Claim(res, a) = [res EXCEPT !.kept = kept]
    BY <1>1, <1>10 DEF Claim, b
  <2>2. \A k \in 1..Len(res.kept) : res.kept[k].entity # a.entity
    BY <1>2, <1>10 DEF Claimants
  <2>3. /\ \A k \in 1..Len(res.kept) : ~SameProposal(res.kept[k], b) /\ ~SameEntity(res.kept[k], b)
        /\ \A k \in 1..Len(res.lost) : ~SameProposal(res.lost[k], b)
    BY <1>3, <1>6, <1>7, <2>2 DEF SameProposal, SameEntity
  <2>4. Settled(kept, res.lost, res.conflicts)
    BY <1>1, <1>2, <1>3, <2>3, SettledTakes
  <2>5. /\ kept \in Seq(Actions) /\ Len(kept) = Len(res.kept) + 1 /\ kept[Len(res.kept) + 1] = b
        /\ \A k \in 1..Len(res.kept) : kept[k] = res.kept[k]
        /\ Len(res.kept) \in Nat
    BY <1>2, <1>3
  <2> HIDE DEF kept
  <2>6. Accounted({s[i] : i \in 1..n}, kept, res.lost)
    <3> SUFFICES ASSUME NEW q \in {s[i] : i \in 1..n}
                 PROVE  \/ \E i \in 1..Len(kept) : SameProposal(kept[i], q)
                        \/ \E i \in 1..Len(res.lost) : SameProposal(res.lost[i], q)
      BY DEF Accounted
    <3>1. CASE q \in {s[i] : i \in 1..(n - 1)}
      <4>1. \/ \E i \in 1..Len(res.kept) : SameProposal(res.kept[i], q)
            \/ \E i \in 1..Len(res.lost) : SameProposal(res.lost[i], q)
        BY <3>1, Zenon DEF Resolved, Accounted
      <4>2. \A i \in 1..Len(res.kept) : i \in 1..Len(kept) /\ kept[i] = res.kept[i]
        BY <2>5
      <4>3. QED
        BY <4>1, <4>2, Zenon
    <3>2. CASE q = a
      <4>1. SameProposal(b, a) /\ Len(res.kept) + 1 \in 1..Len(kept)
        BY <1>3, <2>5 DEF SameProposal
      <4>2. QED
        BY <2>5, <3>2, <4>1
    <3>3. QED
      BY <1>8, <3>1, <3>2
  <2>7. \A k \in 1..Len(kept) : \E i \in 1..n : kept[k] = WithinLimits(s[i])
    <3> TAKE k \in 1..Len(kept)
    <3>1. CASE k \in 1..Len(res.kept)
      BY <1>9, <2>5, <3>1 DEF Resolved
    <3>2. CASE k = Len(res.kept) + 1
      BY <1>9, <2>5, <3>2 DEF a, b
    <3>3. QED
      BY <2>5, <3>1, <3>2
  <2>8. \A k \in 1..Len(res.lost) : \E i \in 1..n : res.lost[k] = Reject(s[i])
    BY <1>9 DEF Resolved
  <2>9. /\ Claim(res, a) \in [kept : Seq(Actions), lost : Seq(Actions), conflicts : Seq(Actions \X Actions)]
        /\ Claim(res, a).kept = kept /\ Claim(res, a).lost = res.lost /\ Claim(res, a).conflicts = res.conflicts
    BY <1>1, <2>1, <2>5
  <2>10. Resolved(Claim(res, a), s, n)
    BY <2>4, <2>6, <2>7, <2>8, <2>9 DEF Resolved
  <2>11. QED
    BY <2>10 DEF a
<1>11. CASE Claimants(res, a) # {}
  <2> DEFINE j == CHOOSE k \in Claimants(res, a) : TRUE
             w == res.kept[j]
             lost == Append(res.lost, l)
             records == Append(res.conflicts, <<w, l>>)
  <2>1. Claim(res, a) = [res EXCEPT !.lost = lost, !.conflicts = records]
    BY <1>1, <1>11 DEF Claim, Winner, l
  <2>2. j \in Claimants(res, a)
    BY <1>11
  <2> HIDE DEF j
  <2>3. j \in 1..Len(res.kept) /\ w.entity = a.entity
    BY <1>2, <2>2 DEF Claimants
  <2>4. w \in Actions
    BY <1>2, <2>3
  <2>5. ~SameProposal(w, a) /\ w.round = a.round /\ Precedes(w, a)
    BY <1>6, <2>3
  <2>6. SameEntity(w, l) /\ Precedes(w, l)
    BY <1>4, <2>3, <2>5 DEF SameEntity, Precedes
  <2>7. /\ \A k \in 1..Len(res.kept) : ~SameProposal(res.kept[k], l)
        /\ \A k \in 1..Len(res.lost) : ~SameProposal(res.lost[k], l)
    BY <1>4, <1>6, <1>7 DEF SameProposal
  <2>8. Settled(res.kept, lost, records)
    BY <1>1, <1>2, <1>4, <2>3, <2>6, <2>7, SettledLoses
  <2>9. /\ lost \in Seq(Actions) /\ Len(lost) = Len(res.lost) + 1 /\ lost[Len(res.lost) + 1] = l
        /\ \A k \in 1..Len(res.lost) : lost[k] = res.lost[k]
        /\ Len(res.lost) \in Nat
    BY <1>2, <1>4
  <2>10. records \in Seq(Actions \X Actions)
    BY <1>2, <1>4, <2>4
  <2> HIDE DEF lost, records
  <2>11. Accounted({s[i] : i \in 1..n}, res.kept, lost)
    <3> SUFFICES ASSUME NEW q \in {s[i] : i \in 1..n}
                 PROVE  \/ \E i \in 1..Len(res.kept) : SameProposal(res.kept[i], q)
                        \/ \E i \in 1..Len(lost) : SameProposal(lost[i], q)
      BY DEF Accounted
    <3>1. CASE q \in {s[i] : i \in 1..(n - 1)}
      <4>1. \/ \E i \in 1..Len(res.kept) : SameProposal(res.kept[i], q)
            \/ \E i \in 1..Len(res.lost) : SameProposal(res.lost[i], q)
        BY <3>1, Zenon DEF Resolved, Accounted
      <4>2. \A i \in 1..Len(res.lost) : i \in 1..Len(lost) /\ lost[i] = res.lost[i]
        BY <2>9
      <4>3. QED
        BY <4>1, <4>2, Zenon
    <3>2. CASE q = a
      <4>1. SameProposal(l, a) /\ Len(res.lost) + 1 \in 1..Len(lost)
        BY <1>4, <2>9 DEF SameProposal
      <4>2. QED
        BY <2>9, <3>2, <4>1
    <3>3. QED
      BY <1>8, <3>1, <3>2
  <2>12. \A k \in 1..Len(lost) : \E i \in 1..n : lost[k] = Reject(s[i])
    <3> TAKE k \in 1..Len(lost)
    <3>1. CASE k \in 1..Len(res.lost)
      BY <1>9, <2>9, <3>1 DEF Resolved
    <3>2. CASE k = Len(res.lost) + 1
      BY <1>9, <2>9, <3>2 DEF a, l
    <3>3. QED
      BY <2>9, <3>1, <3>2
  <2>13. \A k \in 1..Len(res.kept) : \E i \in 1..n : res.kept[k] = WithinLimits(s[i])
    BY <1>9 DEF Resolved
  <2>14. /\ Claim(res, a) \in [kept : Seq(Actions), lost : Seq(Actions), conflicts : Seq(Actions \X Actions)]
         /\ Claim(res, a).kept = res.kept /\ Claim(res, a).lost = lost /\ Claim(res, a).conflicts = records
    BY <1>1, <2>1, <2>9, <2>10
  <2>15. Resolved(Claim(res, a), s, n)
    BY <2>8, <2>11, <2>12, <2>13, <2>14 DEF Resolved
  <2>16. QED
    BY <2>15 DEF a
<1>12. QED
  BY <1>10, <1>11

\* The resolution of a round: of each entity one proposal is taken, the one of the
\* highest precedence, and each of the others is recorded as lost to it.
LEMMA ResolutionSettles ==
  ASSUME NEW s \in Seq(Actions), NoneTwice(s),
         \A i, k \in 1..Len(s) : i < k => Precedes(s[i], s[k]),
         \A i, k \in 1..Len(s) : s[i].round = s[k].round
  PROVE  Resolved(Resolution(s), s, Len(s))
<1>1. PICK upTo :
           /\ upTo = [k \in 0..Len(s) |-> IF k = 0 THEN [kept |-> <<>>, lost |-> <<>>, conflicts |-> <<>>]
                                          ELSE Claim(upTo[k - 1], s[k])]
           /\ Resolution(s) = upTo[Len(s)]
  BY ResolutionSteps
<1> DEFINE T == {k \in 0..Len(s) : ~Resolved(upTo[k], s, k)}
<1>2. SUFFICES ASSUME T # {} PROVE FALSE
  <2>1. Len(s) \in 0..Len(s)
    OBVIOUS
  <2>2. QED
    BY <1>1, <2>1
<1>3. PICK k \in T : \A i \in T : k =< i
  <2>1. T \subseteq Nat
    OBVIOUS
  <2> HIDE DEF T
  <2>2. QED
    BY <1>2, <2>1, LeastNumber
<1>4. k \in 0..Len(s) /\ ~Resolved(upTo[k], s, k)
  BY <1>3
<1>5. k # 0
  <2> DEFINE none == [kept |-> <<>>, lost |-> <<>>, conflicts |-> <<>>]
  <2>1. upTo[0] = none
    BY <1>1
  <2>2. none \in [kept : Seq(Actions), lost : Seq(Actions), conflicts : Seq(Actions \X Actions)]
    OBVIOUS
  <2>3. none.kept = <<>> /\ none.lost = <<>> /\ none.conflicts = <<>>
    OBVIOUS
  <2>4. 1..0 = {} /\ Len(<<>>) = 0
    OBVIOUS
  <2> HIDE DEF none
  <2>5. Settled(none.kept, none.lost, none.conflicts)
    BY <2>3, <2>4 DEF Settled, NoneTwice, OnePerEntity, Apart
  <2>6. Accounted({s[i] : i \in 1..0}, none.kept, none.lost)
    BY <2>4 DEF Accounted
  <2>7. Resolved(none, s, 0)
    BY <2>2, <2>3, <2>4, <2>5, <2>6 DEF Resolved
  <2>8. QED
    BY <1>4, <2>1, <2>7
<1>6. k \in 1..Len(s) /\ k - 1 \in 0..Len(s) /\ ~(k =< k - 1)
  BY <1>4, <1>5
<1>7. Resolved(upTo[k - 1], s, k - 1)
  BY <1>3, <1>6
<1>8. upTo[k] = Claim(upTo[k - 1], s[k])
  BY <1>1, <1>4, <1>5
<1>9. Resolved(Claim(upTo[k - 1], s[k]), s, k)
  BY <1>6, <1>7, ClaimStep
<1>10. QED
  BY <1>4, <1>8, <1>9

-----------------------------------------------------------------------------
(* Lists that are settled stay so.                                          *)

\* One list after the other.
LEMMA Concatenated ==
  ASSUME NEW S, NEW s \in Seq(S), NEW t \in Seq(S)
  PROVE  /\ s \o t \in Seq(S) /\ Len(s \o t) = Len(s) + Len(t)
         /\ \A k \in 1..Len(s) : k \in 1..Len(s \o t) /\ (s \o t)[k] = s[k]
         /\ \A k \in 1..Len(t) : Len(s) + k \in 1..Len(s \o t) /\ (s \o t)[Len(s) + k] = t[k]
         /\ \A k \in 1..Len(s \o t) : k \in 1..Len(s) \/ \E j \in 1..Len(t) : k = Len(s) + j
<1>1. Len(s) \in Nat /\ Len(t) \in Nat
  OBVIOUS
<1>2. s \o t \in Seq(S) /\ Len(s \o t) = Len(s) + Len(t)
  OBVIOUS
<1>3. \A k \in 1..Len(s \o t) : k \in 1..Len(s) \/ \E j \in 1..Len(t) : k = Len(s) + j
  <2> TAKE k \in 1..Len(s \o t)
  <2>1. k \notin 1..Len(s) => k - Len(s) \in 1..Len(t) /\ k = Len(s) + (k - Len(s))
    BY <1>1, <1>2
  <2>2. QED
    BY <2>1
<1>4. QED
  BY <1>1, <1>2, <1>3

\* So are the actions of two lists.
LEMMA ActionsJoined ==
  ASSUME NEW s \in Seq(Actions), NEW t \in Seq(Actions)
  PROVE  /\ s \o t \in Seq(Actions) /\ Len(s \o t) = Len(s) + Len(t)
         /\ \A k \in 1..Len(s) : k \in 1..Len(s \o t) /\ (s \o t)[k] = s[k]
         /\ \A k \in 1..Len(t) : Len(s) + k \in 1..Len(s \o t) /\ (s \o t)[Len(s) + k] = t[k]
         /\ \A k \in 1..Len(s \o t) : k \in 1..Len(s) \/ \E j \in 1..Len(t) : k = Len(s) + j
BY Concatenated

\* Two lists without repetitions that have no proposal in common.
LEMMA NoneTwiceJoins ==
  ASSUME NEW s \in Seq(Actions), NEW t \in Seq(Actions), NoneTwice(s), NoneTwice(t), Apart(s, t)
  PROVE  NoneTwice(s \o t)
<1> DEFINE u == s \o t
<1>1. /\ u \in Seq(Actions)
      /\ \A k \in 1..Len(s) : u[k] = s[k]
      /\ \A k \in 1..Len(t) : u[Len(s) + k] = t[k]
      /\ \A k \in 1..Len(u) : k \in 1..Len(s) \/ \E j \in 1..Len(t) : k = Len(s) + j
  BY ActionsJoined
<1> HIDE DEF u
<1>2. SUFFICES ASSUME NEW i \in 1..Len(u), NEW k \in 1..Len(u), SameProposal(u[i], u[k])
               PROVE  i = k
  BY DEF NoneTwice, u
<1>3. CASE i \in 1..Len(s) /\ k \in 1..Len(s)
  BY <1>1, <1>2, <1>3 DEF NoneTwice
<1>4. ASSUME NEW j \in 1..Len(t), k = Len(s) + j, i \in 1..Len(s)
      PROVE  FALSE
  <2>1. SameProposal(s[i], t[j])
    BY <1>1, <1>2, <1>4
  <2>2. QED
    BY <1>4, <2>1 DEF Apart
<1>5. ASSUME NEW j \in 1..Len(t), i = Len(s) + j, k \in 1..Len(s)
      PROVE  FALSE
  <2>1. SameProposal(t[j], s[k])
    BY <1>1, <1>2, <1>5
  <2>2. SameProposal(s[k], t[j])
    BY <2>1 DEF SameProposal
  <2>3. QED
    BY <1>5, <2>2 DEF Apart
<1>6. ASSUME NEW j \in 1..Len(t), i = Len(s) + j, NEW h \in 1..Len(t), k = Len(s) + h
      PROVE  i = k
  <2>1. SameProposal(t[j], t[h])
    BY <1>1, <1>2, <1>6
  <2>2. j = h
    BY <2>1 DEF NoneTwice
  <2>3. QED
    BY <1>6, <2>2
<1>7. QED
  BY <1>1, <1>3, <1>4, <1>5, <1>6

\* The rounds before, and one round after them.
LEMMA SettledJoins ==
  ASSUME NEW t1 \in Seq(Actions), NEW l1 \in Seq(Actions), NEW r1 \in Seq(Actions \X Actions), Settled(t1, l1, r1),
         NEW t2 \in Seq(Actions), NEW l2 \in Seq(Actions), NEW r2 \in Seq(Actions \X Actions), Settled(t2, l2, r2),
         NEW now \in Nat,
         \A k \in 1..Len(t1) : t1[k].round < now, \A k \in 1..Len(l1) : l1[k].round < now,
         \A k \in 1..Len(t2) : t2[k].round = now, \A k \in 1..Len(l2) : l2[k].round = now
  PROVE  Settled(t1 \o t2, l1 \o l2, r1 \o r2)
<1> DEFINE t == t1 \o t2
           l == l1 \o l2
           r == r1 \o r2
<1>1. /\ t \in Seq(Actions)
      /\ \A k \in 1..Len(t1) : k \in 1..Len(t) /\ t[k] = t1[k]
      /\ \A k \in 1..Len(t2) : Len(t1) + k \in 1..Len(t) /\ t[Len(t1) + k] = t2[k]
      /\ \A k \in 1..Len(t) : k \in 1..Len(t1) \/ \E j \in 1..Len(t2) : k = Len(t1) + j
  BY ActionsJoined
<1>2. /\ l \in Seq(Actions) /\ Len(l) = Len(l1) + Len(l2)
      /\ \A k \in 1..Len(l1) : k \in 1..Len(l) /\ l[k] = l1[k]
      /\ \A k \in 1..Len(l2) : Len(l1) + k \in 1..Len(l) /\ l[Len(l1) + k] = l2[k]
      /\ \A k \in 1..Len(l) : k \in 1..Len(l1) \/ \E j \in 1..Len(l2) : k = Len(l1) + j
  BY ActionsJoined
<1>3. /\ Len(r) = Len(r1) + Len(r2)
      /\ \A k \in 1..Len(r1) : r[k] = r1[k]
      /\ \A k \in 1..Len(r2) : r[Len(r1) + k] = r2[k]
  BY Concatenated
<1>4. Len(r1) = Len(l1) /\ Len(r2) = Len(l2)
  BY DEF Settled
<1> HIDE DEF t, l, r
<1>5. ASSUME NEW a, NEW b, a.round < now, b.round = now
      PROVE  /\ ~SameProposal(a, b) /\ ~SameProposal(b, a)
             /\ ~SameEntity(a, b) /\ ~SameEntity(b, a)
  <2>1. a.round # b.round
    BY <1>5
  <2>2. QED
    BY <2>1 DEF SameProposal, SameEntity
<1>6. NoneTwice(t)
  <2>1. Apart(t1, t2)
    BY <1>5 DEF Apart
  <2>2. QED
    BY <2>1, NoneTwiceJoins DEF Settled, t
<1>7. NoneTwice(l)
  <2>1. Apart(l1, l2)
    BY <1>5 DEF Apart
  <2>2. QED
    BY <2>1, NoneTwiceJoins DEF Settled, l
<1>8. OnePerEntity(t)
  <2> SUFFICES ASSUME NEW i \in 1..Len(t), NEW k \in 1..Len(t), SameEntity(t[i], t[k])
               PROVE  i = k
    BY DEF OnePerEntity
  <2>1. CASE i \in 1..Len(t1) /\ k \in 1..Len(t1)
    BY <1>1, <2>1 DEF Settled, OnePerEntity
  <2>2. ASSUME NEW j \in 1..Len(t2), k = Len(t1) + j, i \in 1..Len(t1)
        PROVE  FALSE
    <3>1. SameEntity(t1[i], t2[j])
      BY <1>1, <2>2
    <3>2. QED
      BY <1>5, <2>2, <3>1
  <2>3. ASSUME NEW j \in 1..Len(t2), i = Len(t1) + j, k \in 1..Len(t1)
        PROVE  FALSE
    <3>1. SameEntity(t2[j], t1[k])
      BY <1>1, <2>3
    <3>2. QED
      BY <1>5, <2>3, <3>1
  <2>4. ASSUME NEW j \in 1..Len(t2), i = Len(t1) + j, NEW h \in 1..Len(t2), k = Len(t1) + h
        PROVE  i = k
    <3>1. SameEntity(t2[j], t2[h])
      BY <1>1, <2>4
    <3>2. j = h
      BY <3>1 DEF Settled, OnePerEntity
    <3>3. QED
      BY <2>4, <3>2
  <2>5. QED
    BY <1>1, <2>1, <2>2, <2>3, <2>4
<1>9. Apart(t, l)
  <2> SUFFICES ASSUME NEW i \in 1..Len(t), NEW k \in 1..Len(l), SameProposal(t[i], l[k])
               PROVE  FALSE
    BY DEF Apart
  <2>1. CASE i \in 1..Len(t1) /\ k \in 1..Len(l1)
    BY <1>1, <1>2, <2>1 DEF Settled, Apart
  <2>2. ASSUME NEW j \in 1..Len(l2), k = Len(l1) + j, i \in 1..Len(t1)
        PROVE  FALSE
    <3>1. SameProposal(t1[i], l2[j])
      BY <1>1, <1>2, <2>2
    <3>2. QED
      BY <1>5, <2>2, <3>1
  <2>3. ASSUME NEW j \in 1..Len(t2), i = Len(t1) + j, k \in 1..Len(l1)
        PROVE  FALSE
    <3>1. SameProposal(t2[j], l1[k])
      BY <1>1, <1>2, <2>3
    <3>2. QED
      BY <1>5, <2>3, <3>1
  <2>4. ASSUME NEW j \in 1..Len(t2), i = Len(t1) + j, NEW h \in 1..Len(l2), k = Len(l1) + h
        PROVE  FALSE
    <3>1. SameProposal(t2[j], l2[h])
      BY <1>1, <1>2, <2>4
    <3>2. QED
      BY <3>1 DEF Settled, Apart
  <2>5. QED
    BY <1>1, <1>2, <2>1, <2>2, <2>3, <2>4
<1>10. \A k \in 1..Len(l) :
       /\ r[k][2] = l[k] /\ SameEntity(r[k][1], l[k])
       /\ \E i \in 1..Len(t) :
            /\ SameProposal(t[i], r[k][1])
            /\ SameEntity(t[i], l[k]) /\ Precedes(t[i], l[k])
  <2> TAKE k \in 1..Len(l)
  <2>1. CASE k \in 1..Len(l1)
    <3>1. l[k] = l1[k] /\ r[k] = r1[k]
      BY <1>2, <1>3, <1>4, <2>1
    <3>2. /\ r1[k][2] = l1[k] /\ SameEntity(r1[k][1], l1[k])
          /\ \E i \in 1..Len(t1) :
               /\ SameProposal(t1[i], r1[k][1])
               /\ SameEntity(t1[i], l1[k]) /\ Precedes(t1[i], l1[k])
      BY <2>1 DEF Settled
    <3>3. QED
      BY <1>1, <3>1, <3>2
  <2>2. ASSUME NEW j \in 1..Len(l2), k = Len(l1) + j
        PROVE  /\ r[k][2] = l[k] /\ SameEntity(r[k][1], l[k])
               /\ \E i \in 1..Len(t) :
                    /\ SameProposal(t[i], r[k][1])
                    /\ SameEntity(t[i], l[k]) /\ Precedes(t[i], l[k])
    <3>1. l[k] = l2[j] /\ r[k] = r2[j]
      BY <1>2, <1>3, <1>4, <2>2
    <3>2. r2[j][2] = l2[j] /\ SameEntity(r2[j][1], l2[j])
      BY DEF Settled
    <3>3. PICK i \in 1..Len(t2) :
               /\ SameProposal(t2[i], r2[j][1])
               /\ SameEntity(t2[i], l2[j]) /\ Precedes(t2[i], l2[j])
      BY DEF Settled
    <3>4. Len(t1) + i \in 1..Len(t) /\ t[Len(t1) + i] = t2[i]
      BY <1>1
    <3>5. QED
      BY <3>1, <3>2, <3>3, <3>4
  <2>3. QED
    BY <1>2, <2>1, <2>2
<1>11. Len(r) = Len(l)
  BY <1>2, <1>3, <1>4
<1>12. Settled(t, l, r)
  BY <1>6, <1>7, <1>8, <1>9, <1>10, <1>11 DEF Settled
<1>13. QED
  BY <1>12 DEF t, l, r

\* Every proposal of the rounds before, and of the round after, has its place.
LEMMA AccountedJoins ==
  ASSUME NEW t1 \in Seq(Actions), NEW l1 \in Seq(Actions), NEW Q1, Accounted(Q1, t1, l1),
         NEW t2 \in Seq(Actions), NEW l2 \in Seq(Actions), NEW Q2, Accounted(Q2, t2, l2)
  PROVE  Accounted(Q1 \cup Q2, t1 \o t2, l1 \o l2)
<1> DEFINE t == t1 \o t2
           l == l1 \o l2
<1>1. /\ t \in Seq(Actions)
      /\ \A k \in 1..Len(t1) : k \in 1..Len(t) /\ t[k] = t1[k]
      /\ \A k \in 1..Len(t2) : Len(t1) + k \in 1..Len(t) /\ t[Len(t1) + k] = t2[k]
  BY ActionsJoined
<1>2. /\ l \in Seq(Actions)
      /\ \A k \in 1..Len(l1) : k \in 1..Len(l) /\ l[k] = l1[k]
      /\ \A k \in 1..Len(l2) : Len(l1) + k \in 1..Len(l) /\ l[Len(l1) + k] = l2[k]
  BY ActionsJoined
<1> HIDE DEF t, l
<1>3. ASSUME NEW q \in Q1
      PROVE  (\E i \in 1..Len(t) : SameProposal(t[i], q)) \/ (\E i \in 1..Len(l) : SameProposal(l[i], q))
  <2>1. (\E i \in 1..Len(t1) : SameProposal(t1[i], q)) \/ (\E i \in 1..Len(l1) : SameProposal(l1[i], q))
    BY DEF Accounted
  <2>2. QED
    BY <1>1, <1>2, <2>1
<1>4. ASSUME NEW q \in Q2
      PROVE  (\E i \in 1..Len(t) : SameProposal(t[i], q)) \/ (\E i \in 1..Len(l) : SameProposal(l[i], q))
  <2>1. (\E i \in 1..Len(t2) : SameProposal(t2[i], q)) \/ (\E i \in 1..Len(l2) : SameProposal(l2[i], q))
    BY DEF Accounted
  <2>2. QED
    BY <1>1, <1>2, <2>1
<1>5. Accounted(Q1 \cup Q2, t, l)
  BY <1>3, <1>4 DEF Accounted
<1>6. QED
  BY <1>5 DEF t, l

\* What acts changes nothing of what has been settled.
LEMMA SettledAlike ==
  ASSUME NEW t \in Seq(Actions), NEW l \in Seq(Actions), NEW r \in Seq(Actions \X Actions), NEW Q,
         Settled(t, l, r), Accounted(Q, t, l),
         NEW u, Len(u) = Len(t), \A k \in 1..Len(t) : Alike(u[k], t[k])
  PROVE  Settled(u, l, r) /\ Accounted(Q, u, l)
<1>1. NoneTwice(u)
  BY DEF Settled, NoneTwice, Alike, SameProposal
<1>2. OnePerEntity(u)
  BY DEF Settled, OnePerEntity, Alike, SameProposal, SameEntity
<1>3. Apart(u, l)
  <2> SUFFICES ASSUME NEW i \in 1..Len(u), NEW k \in 1..Len(l), SameProposal(u[i], l[k])
               PROVE  FALSE
    BY DEF Apart
  <2>1. Alike(u[i], t[i]) /\ i \in 1..Len(t)
    OBVIOUS
  <2>2. SameProposal(t[i], l[k])
    BY <2>1 DEF Alike, SameProposal
  <2>3. QED
    BY <2>1, <2>2 DEF Settled, Apart
<1>4. \A k \in 1..Len(l) :
       /\ r[k][2] = l[k] /\ SameEntity(r[k][1], l[k])
       /\ \E i \in 1..Len(u) :
            /\ SameProposal(u[i], r[k][1])
            /\ SameEntity(u[i], l[k]) /\ Precedes(u[i], l[k])
  <2> TAKE k \in 1..Len(l)
  <2>1. r[k][2] = l[k] /\ SameEntity(r[k][1], l[k])
    BY DEF Settled
  <2>2. PICK i \in 1..Len(t) :
            /\ SameProposal(t[i], r[k][1])
            /\ SameEntity(t[i], l[k]) /\ Precedes(t[i], l[k])
    BY DEF Settled
  <2>3. Alike(u[i], t[i]) /\ i \in 1..Len(u)
    OBVIOUS
  <2>4. SameProposal(u[i], r[k][1]) /\ SameEntity(u[i], l[k]) /\ Precedes(u[i], l[k])
    BY <2>2, <2>3 DEF Alike, SameProposal, SameEntity, Precedes
  <2>5. QED
    BY <2>1, <2>3, <2>4
<1>5. NoneTwice(l) /\ Len(r) = Len(l)
  BY DEF Settled
<1>6. Settled(u, l, r)
  BY <1>1, <1>2, <1>3, <1>4, <1>5 DEF Settled
<1>7. ASSUME NEW q \in Q
      PROVE  (\E i \in 1..Len(u) : SameProposal(u[i], q)) \/ (\E i \in 1..Len(l) : SameProposal(l[i], q))
  <2>1. (\E i \in 1..Len(t) : SameProposal(t[i], q)) \/ (\E i \in 1..Len(l) : SameProposal(l[i], q))
    BY DEF Accounted
  <2>2. \A i \in 1..Len(t) : i \in 1..Len(u) /\ (SameProposal(t[i], q) => SameProposal(u[i], q))
    BY DEF Alike, SameProposal
  <2>3. QED
    BY <2>1, <2>2
<1>8. QED
  BY <1>6, <1>7 DEF Accounted

-----------------------------------------------------------------------------
(* The invariant holds at first, and while proposals are collected.         *)

\* Nothing has been proposed when a run begins.
LEMMA InitOK ==
  ASSUME ConstantsAssumption, Init
  PROVE  FlowInv
<1>1. TwinOK
  BY DEF Init, TwinOK, ConstantsAssumption
<1>2. CountersOK
  BY DEF Init, CountersOK, Phases, AgentTypes, ConstantsAssumption
<1>3. /\ proposals = <<>> /\ survivors = <<>> /\ applied = <<>> /\ rejected = <<>> /\ conflicts = <<>>
      /\ rows = {} /\ proposed = {} /\ runs = [a \in Agents |-> "none"] /\ phase = "collect"
  BY DEF Init
<1>4. Len(<<>>) = 0 /\ 1..0 = {}
  OBVIOUS
<1>5. ListsOK
  BY <1>3, <1>4 DEF ListsOK
<1>6. CollectedOK
  BY <1>3, <1>4 DEF CollectedOK, NoneTwice
<1>7. PhaseOK
  BY <1>3, <1>4 DEF PhaseOK
<1>8. SettledOK
  <2>1. TakenInOrder = <<>>
    BY <1>3 DEF TakenInOrder
  <2>2. QED
    BY <1>3, <1>4, <2>1 DEF SettledOK, Settled, NoneTwice, OnePerEntity, Apart, Accounted
<1>9. LimitsOK
  BY <1>3 DEF LimitsOK
<1>10. SavedOK
  BY <1>3 DEF SavedOK
<1>11. QED
  BY <1>1, <1>2, <1>5, <1>6, <1>7, <1>8, <1>9, <1>10 DEF FlowInv

\* The five agents are five.
LEMMA AgentTypesType ==
  /\ Len(AgentTypes) = 5
  /\ \A n \in 1..5 : AgentTypes[n] \in Agents
  /\ \A m, n \in 1..5 : AgentTypes[m] = AgentTypes[n] => m = n
<1>1. Len(AgentTypes) = 5 /\ DOMAIN AgentTypes = 1..5
  BY DEF AgentTypes
<1>2. \A n \in 1..5 : AgentTypes[n] \in Agents
  BY <1>1 DEF Agents, ToSet
<1>3. /\ AgentTypes[1] = "pricing" /\ AgentTypes[2] = "inventory" /\ AgentTypes[3] = "demand"
      /\ AgentTypes[4] = "anomaly_response" /\ AgentTypes[5] = "retailer_strategy"
  BY DEF AgentTypes
<1>4. \A n \in 1..5 : n = 1 \/ n = 2 \/ n = 3 \/ n = 4 \/ n = 5
  OBVIOUS
<1>5. \A m, n \in 1..5 : AgentTypes[m] = AgentTypes[n] => m = n
  BY <1>3, <1>4
<1>6. QED
  BY <1>1, <1>2, <1>5

\* One agent more decides, or raises.
LEMMA DecideOK ==
  ASSUME ConstantsAssumption, FlowInv, Decide
  PROVE  FlowInv'
<1>1. /\ phase = "collect" /\ asked < 5 /\ asked' = asked + 1 /\ phase' \in {"collect", "resolve"}
      /\ UNCHANGED <<product, retailer, anomalies, round, survivors, applied, rejected, conflicts,
                     rows, conflictRows, runs, unsaved, proposed>>
      /\ failures' \in 0..MaxFailures
  BY AgentTypesType DEF Decide, twin, results, stored, FlowInv, CountersOK, ConstantsAssumption
<1>2. asked \in 0..5 /\ asked' \in 1..5 /\ round \in 1..Rounds
  BY <1>1, AgentTypesType DEF FlowInv, CountersOK
<1> DEFINE agent == AgentTypes[asked + 1]
<1>3. PICK decisions \in Seq(Actions) :
        /\ proposals' = proposals \o decisions
        /\ \A k \in 1..Len(decisions) :
             /\ decisions[k].agent = agent /\ decisions[k].id = k /\ decisions[k].round = round
             /\ decisions[k].status = "proposed"
             /\ Priced(decisions[k])
  <2>1. agent \in Agents
    BY <1>1, <1>2, AgentTypesType
  <2>2. CASE proposals' = proposals \o Decisions(agent)
    <3> HIDE DEF agent
    <3>1. TwinOK
      BY DEF FlowInv
    <3>2. /\ Decisions(agent) \in Seq(Actions)
          /\ \A k \in 1..Len(Decisions(agent)) :
               LET a == Decisions(agent)[k] IN
               /\ a.agent = agent /\ a.id = k /\ a.round = round /\ a.status = "proposed"
               /\ Priced(a)
      BY <1>2, <2>1, <3>1, DecisionsType, Zenon
    <3> DEFINE decisions == Decisions(agent)
    <3> HIDE DEF decisions
    <3>3. /\ decisions \in Seq(Actions)
          /\ \A k \in 1..Len(decisions) :
             /\ decisions[k].agent = agent /\ decisions[k].id = k /\ decisions[k].round = round
             /\ decisions[k].status = "proposed"
             /\ Priced(decisions[k])
      BY <3>2, Zenon DEF decisions
    <3>4. proposals' = proposals \o decisions
      BY <2>2, Zenon DEF decisions
    <3>5. QED
      BY <3>3, <3>4, Zenon
  <2>3. CASE UNCHANGED proposals
    <3>1. proposals \in Seq(Actions)
      BY DEF FlowInv, ListsOK
    <3>2. proposals' = proposals \o <<>> /\ <<>> \in Seq(Actions) /\ Len(<<>>) = 0 /\ 1..0 = {}
      BY <2>3, <3>1
    <3> HIDE DEF agent
    <3>3. QED
      BY <3>2
  <2>4. QED
    BY <2>2, <2>3 DEF Decide
<1>4. proposals \in Seq(Actions)
  BY DEF FlowInv, ListsOK
<1>5. /\ proposals' \in Seq(Actions)
      /\ \A k \in 1..Len(proposals) : proposals'[k] = proposals[k]
      /\ \A k \in 1..Len(decisions) : proposals'[Len(proposals) + k] = decisions[k]
      /\ \A k \in 1..Len(proposals') : k \in 1..Len(proposals) \/ \E j \in 1..Len(decisions) : k = Len(proposals) + j
  <2> DEFINE all == proposals \o decisions
  <2>1. /\ all \in Seq(Actions)
        /\ \A k \in 1..Len(proposals) : all[k] = proposals[k]
        /\ \A k \in 1..Len(decisions) : all[Len(proposals) + k] = decisions[k]
        /\ \A k \in 1..Len(all) : k \in 1..Len(proposals) \/ \E j \in 1..Len(decisions) : k = Len(proposals) + j
    BY <1>4, ActionsJoined
  <2>2. proposals' = all
    BY <1>3
  <2> HIDE DEF all
  <2>3. QED
    BY <2>1, <2>2
<1>6. ASSUME NEW k \in 1..Len(proposals')
      PROVE  /\ proposals'[k].status = "proposed" /\ proposals'[k].round = round
             /\ Priced(proposals'[k]) /\ \E n \in 1..(asked + 1) : AgentTypes[n] = proposals'[k].agent
  <2>1. CASE k \in 1..Len(proposals)
    <3>1. /\ proposals[k].status = "proposed" /\ proposals[k].round = round
          /\ Priced(proposals[k]) /\ \E n \in 1..asked : AgentTypes[n] = proposals[k].agent
      BY <2>1 DEF FlowInv, ListsOK, CollectedOK
    <3>2. 1..asked \subseteq 1..(asked + 1)
      BY <1>2
    <3>3. QED
      BY <1>5, <2>1, <3>1, <3>2
  <2>2. ASSUME NEW j \in 1..Len(decisions), k = Len(proposals) + j
        PROVE  /\ proposals'[k].status = "proposed" /\ proposals'[k].round = round
               /\ Priced(proposals'[k]) /\ \E n \in 1..(asked + 1) : AgentTypes[n] = proposals'[k].agent
    <3>1. asked + 1 \in 1..(asked + 1)
      BY <1>2
    <3>2. proposals'[k] = decisions[j]
      BY <1>5, <2>2
    <3>3. QED
      BY <1>3, <3>1, <3>2
  <2>3. QED
    BY <1>5, <2>1, <2>2
<1>7. NoneTwice(proposals')
  <2>1. NoneTwice(proposals)
    BY DEF FlowInv, CollectedOK
  <2>2. NoneTwice(decisions)
    <3> SUFFICES ASSUME NEW i \in 1..Len(decisions), NEW k \in 1..Len(decisions),
                        decisions[i].id = decisions[k].id
                 PROVE  i = k
      BY DEF NoneTwice, SameProposal
    <3>1. QED
      BY <1>3
  <2>3. Apart(proposals, decisions)
    <3> SUFFICES ASSUME NEW i \in 1..Len(proposals), NEW k \in 1..Len(decisions),
                        proposals[i].agent = decisions[k].agent
                 PROVE  FALSE
      BY DEF Apart, SameProposal
    <3>1. PICK n \in 1..asked : AgentTypes[n] = proposals[i].agent
      BY DEF FlowInv, CollectedOK
    <3>2. AgentTypes[n] = AgentTypes[asked + 1]
      BY <1>3, <3>1
    <3>3. n \in 1..5 /\ asked + 1 \in 1..5 /\ n # asked + 1
      BY <1>1, <1>2
    <3>4. QED
      BY <3>2, <3>3, AgentTypesType
  <2>4. QED
    BY <1>3, <1>4, <2>1, <2>2, <2>3, NoneTwiceJoins
<1>8. TwinOK'
  BY <1>1 DEF FlowInv, TwinOK
<1>9. CountersOK'
  BY <1>1, <1>2, AgentTypesType DEF FlowInv, CountersOK, Phases
<1>10. ListsOK'
  BY <1>1, <1>5, <1>6 DEF FlowInv, ListsOK
<1>11. CollectedOK'
  <2>1. \A k \in 1..Len(proposals') : (Priced(proposals[k]))'
    BY <1>1, <1>6 DEF Priced
  <2>2. QED
    BY <1>1, <1>6, <1>7, <2>1 DEF CollectedOK
<1>12. PhaseOK'
  BY <1>1 DEF FlowInv, PhaseOK
<1>13. SettledOK'
  BY <1>1 DEF FlowInv, SettledOK, TakenInOrder
<1>14. LimitsOK'
  BY <1>1 DEF LimitsOK
<1>15. SavedOK'
  BY <1>1 DEF FlowInv, SavedOK, RowsOf, RowsToSave
<1>16. QED
  BY <1>8, <1>9, <1>10, <1>11, <1>12, <1>13, <1>14, <1>15 DEF FlowInv

-----------------------------------------------------------------------------
(* The invariant holds when the proposals are resolved.                     *)

\* A price within the limits of what it was decided on is one within the limits of
\* the product, as long as the twin has not moved.
LEMMA LimitedWhenPriced ==
  ASSUME NEW a \in Actions, Priced(a)
  PROVE  Limited(WithinLimits(a))
<1> DEFINE b == WithinLimits(a)
<1>1. /\ b.entity = a.entity /\ b.from = a.from
      /\ a.price = 0 => b.price = 0
      /\ a.from = 0 => b.price = a.price
      /\ a.price # 0 /\ a.from > 0 =>
           b.price >= MinUnitPrice /\ (WithinAQuarter(a.from, b.price) \/ b.price = MinUnitPrice)
  BY LimitsType
<1>2. a.from \in Nat
  BY DEF Actions
<1> HIDE DEF b
<1>3. ASSUME b.price # 0
      PROVE  /\ b.entity \in ProductIds /\ b.from = product[b.entity].price
             /\ b.price >= MinUnitPrice
             /\ WithinAQuarter(b.from, b.price) \/ b.price = MinUnitPrice \/ b.from = 0
  <2>1. a.price # 0
    BY <1>1, <1>3
  <2>2. a.entity \in ProductIds /\ a.from = product[a.entity].price /\ (a.from = 0 => a.price >= MinUnitPrice)
    BY <2>1 DEF Priced
  <2>3. CASE a.from = 0
    BY <1>1, <2>2, <2>3
  <2>4. CASE a.from > 0
    BY <1>1, <2>1, <2>2, <2>4
  <2>5. QED
    BY <1>2, <2>3, <2>4
<1>4. Limited(b)
  BY <1>3 DEF Limited
<1>5. QED
  BY <1>4 DEF b

\* What the resolution of the round's proposals leaves.
LEMMA RoundResolved ==
  ASSUME FlowInv
  PROVE  LET r == Resolution(Ordered(proposals)) IN
         /\ r.kept \in Seq(Actions) /\ r.lost \in Seq(Actions) /\ r.conflicts \in Seq(Actions \X Actions)
         /\ Settled(r.kept, r.lost, r.conflicts)
         /\ Accounted(ToSet(proposals), r.kept, r.lost)
         /\ \A k \in 1..Len(r.kept) :
              r.kept[k].status = "proposed" /\ r.kept[k].round = round /\ Limited(r.kept[k])
         /\ \A k \in 1..Len(r.lost) : r.lost[k].status = "rejected" /\ r.lost[k].round = round
<1> DEFINE s == Ordered(proposals)
           r == Resolution(s)
<1>1. proposals \in Seq(Actions)
  BY DEF FlowInv, ListsOK
<1>2. /\ s \in Seq(Actions) /\ Len(s) = Len(proposals)
      /\ \A i, k \in 1..Len(s) : i < k => Precedes(s[i], s[k])
      /\ \A k \in 1..Len(s) : \E j \in 1..Len(proposals) : s[k] = proposals[j]
      /\ \A j \in 1..Len(proposals) : \E k \in 1..Len(s) : s[k] = proposals[j]
  BY <1>1, OrderedType
<1>3. NoneTwice(s)
  BY <1>1, OrderedType DEF FlowInv, CollectedOK
<1> HIDE DEF s
<1>4. \A k \in 1..Len(s) : /\ s[k] \in Actions /\ s[k].status = "proposed" /\ s[k].round = round
                           /\ Priced(s[k])
  <2> TAKE k \in 1..Len(s)
  <2>1. PICK j \in 1..Len(proposals) : s[k] = proposals[j]
    BY <1>2
  <2>2. proposals[j].status = "proposed" /\ proposals[j].round = round /\ Priced(proposals[j])
    BY DEF FlowInv, ListsOK, CollectedOK
  <2>3. s[k] \in Actions
    BY <1>2
  <2>4. QED
    BY <2>1, <2>2, <2>3
<1>5. Resolved(r, s, Len(s))
  BY <1>2, <1>3, <1>4, ResolutionSettles
<1> HIDE DEF r
<1>6. /\ r \in [kept : Seq(Actions), lost : Seq(Actions), conflicts : Seq(Actions \X Actions)]
      /\ Settled(r.kept, r.lost, r.conflicts)
      /\ Accounted({s[i] : i \in 1..Len(s)}, r.kept, r.lost)
  BY <1>5 DEF Resolved
<1>7. Accounted(ToSet(proposals), r.kept, r.lost)
  <2>1. ToSet(proposals) \subseteq {s[i] : i \in 1..Len(s)}
    <3> SUFFICES ASSUME NEW j \in 1..Len(proposals) PROVE proposals[j] \in {s[i] : i \in 1..Len(s)}
      BY <1>1 DEF ToSet
    <3>1. PICK k \in 1..Len(s) : s[k] = proposals[j]
      BY <1>2
    <3>2. QED
      BY <3>1
  <2>2. QED
    BY <1>6, <2>1 DEF Accounted
<1>8. ASSUME NEW k \in 1..Len(r.kept)
      PROVE  r.kept[k].status = "proposed" /\ r.kept[k].round = round /\ Limited(r.kept[k])
  <2>1. PICK i \in 1..Len(s) : r.kept[k] = WithinLimits(s[i])
    BY <1>5 DEF Resolved
  <2>2. s[i] \in Actions /\ s[i].status = "proposed" /\ s[i].round = round /\ Priced(s[i])
    BY <1>4
  <2>3. WithinLimits(s[i]).status = s[i].status /\ WithinLimits(s[i]).round = s[i].round
    BY <2>2, LimitsType
  <2>4. Limited(WithinLimits(s[i]))
    BY <2>2, LimitedWhenPriced
  <2>5. QED
    BY <2>1, <2>2, <2>3, <2>4
<1>9. ASSUME NEW k \in 1..Len(r.lost)
      PROVE  r.lost[k].status = "rejected" /\ r.lost[k].round = round
  <2>1. PICK i \in 1..Len(s) : r.lost[k] = Reject(s[i])
    BY <1>5 DEF Resolved
  <2> DEFINE a == s[i]
  <2>2. a \in Actions /\ a.round = round
    BY <1>4
  <2> HIDE DEF a
  <2>3. Reject(a).status = "rejected" /\ Reject(a).round = round
    BY <2>2 DEF Reject, Actions
  <2>4. QED
    BY <2>1, <2>3 DEF a
<1>10. r.kept \in Seq(Actions) /\ r.lost \in Seq(Actions) /\ r.conflicts \in Seq(Actions \X Actions)
  BY <1>6
<1>11. QED
  BY <1>6, <1>7, <1>8, <1>9, <1>10 DEF r, s

\* The round's proposals are resolved.
LEMMA ResolveOK ==
  ASSUME ConstantsAssumption, FlowInv, Resolve
  PROVE  FlowInv'
<1>1. /\ phase = "resolve" /\ phase' = "act" /\ proposals' = <<>>
      /\ UNCHANGED <<product, retailer, anomalies, round, asked, applied,
                     rows, conflictRows, runs, unsaved, failures>>
      /\ proposed' = proposed \cup ToSet(proposals)
  BY DEF Resolve, twin, stored
<1>2. PICK kept \in Seq(Actions), lost \in Seq(Actions), records \in Seq(Actions \X Actions) :
        /\ survivors' = kept /\ rejected' = rejected \o lost /\ conflicts' = conflicts \o records
        /\ Settled(kept, lost, records)
        /\ Accounted(ToSet(proposals), kept, lost)
        /\ \A k \in 1..Len(kept) : kept[k].status = "proposed" /\ kept[k].round = round /\ Limited(kept[k])
        /\ \A k \in 1..Len(lost) : lost[k].status = "rejected" /\ lost[k].round = round
  <2> DEFINE r == Resolution(Ordered(proposals))
  <2>1. /\ r.kept \in Seq(Actions) /\ r.lost \in Seq(Actions) /\ r.conflicts \in Seq(Actions \X Actions)
        /\ Settled(r.kept, r.lost, r.conflicts)
        /\ Accounted(ToSet(proposals), r.kept, r.lost)
        /\ \A k \in 1..Len(r.kept) :
             r.kept[k].status = "proposed" /\ r.kept[k].round = round /\ Limited(r.kept[k])
        /\ \A k \in 1..Len(r.lost) : r.lost[k].status = "rejected" /\ r.lost[k].round = round
    BY RoundResolved, Zenon
  <2>2. survivors' = r.kept /\ rejected' = rejected \o r.lost /\ conflicts' = conflicts \o r.conflicts
    BY DEF Resolve
  <2> HIDE DEF r
  <2>3. QED
    BY <2>1, <2>2, Zenon
<1>3. /\ applied \in Seq(Actions) /\ rejected \in Seq(Actions) /\ conflicts \in Seq(Actions \X Actions)
      /\ proposals \in Seq(Actions) /\ round \in Nat
  BY DEF FlowInv, ListsOK, CountersOK
<1>4. /\ survivors = <<>>
      /\ \A k \in 1..Len(applied) : applied[k].round < round
      /\ \A k \in 1..Len(rejected) : rejected[k].round < round
      /\ rows = {} /\ \A a \in Agents : runs[a] = "none"
  BY <1>1 DEF FlowInv, PhaseOK
<1>5. TakenInOrder = applied /\ TakenInOrder' = applied \o kept
  BY <1>1, <1>2, <1>3, <1>4 DEF TakenInOrder
<1>6. /\ rejected' \in Seq(Actions)
      /\ \A k \in 1..Len(rejected) : rejected'[k] = rejected[k]
      /\ \A k \in 1..Len(lost) : rejected'[Len(rejected) + k] = lost[k]
      /\ \A k \in 1..Len(rejected') : k \in 1..Len(rejected) \/ \E j \in 1..Len(lost) : k = Len(rejected) + j
  <2> DEFINE all == rejected \o lost
  <2>0. rejected \in Seq(Actions) /\ lost \in Seq(Actions)
    BY <1>3
  <2>1. /\ all \in Seq(Actions) /\ Len(all) = Len(rejected) + Len(lost)
        /\ \A k \in 1..Len(rejected) : k \in 1..Len(all) /\ all[k] = rejected[k]
        /\ \A k \in 1..Len(lost) : Len(rejected) + k \in 1..Len(all) /\ all[Len(rejected) + k] = lost[k]
        /\ \A k \in 1..Len(all) : k \in 1..Len(rejected) \/ \E j \in 1..Len(lost) : k = Len(rejected) + j
    BY <2>0, ActionsJoined
  <2>2. rejected' = all
    BY <1>2
  <2> HIDE DEF all
  <2>3. QED
    BY <2>1, <2>2
<1>7. \A k \in 1..Len(rejected') : rejected'[k].status = "rejected" /\ rejected'[k].round =< round
  <2> TAKE k \in 1..Len(rejected')
  <2>1. CASE k \in 1..Len(rejected)
    <3>1. rejected[k].status = "rejected" /\ rejected[k].round =< round
      BY <2>1 DEF FlowInv, ListsOK, PhaseOK
    <3>2. QED
      BY <1>6, <2>1, <3>1
  <2>2. ASSUME NEW j \in 1..Len(lost), k = Len(rejected) + j
        PROVE  rejected'[k].status = "rejected" /\ rejected'[k].round =< round
    BY <1>2, <1>3, <1>6, <2>2
  <2>3. QED
    BY <1>6, <2>1, <2>2
<1>8. TwinOK'
  BY <1>1 DEF FlowInv, TwinOK
<1>9. CountersOK'
  BY <1>1 DEF FlowInv, CountersOK, Phases
<1>10. ListsOK'
  <2>1. proposed' \subseteq Actions
    BY <1>1, <1>3 DEF FlowInv, ListsOK, ToSet
  <2>2. conflicts' \in Seq(Actions \X Actions)
    BY <1>2, <1>3
  <2>3. Len(<<>>) = 0 /\ 1..0 = {} /\ <<>> \in Seq(Actions)
    OBVIOUS
  <2>4. QED
    BY <1>1, <1>2, <1>6, <1>7, <2>1, <2>2, <2>3 DEF FlowInv, ListsOK
<1>11. CollectedOK'
  <2>1. Len(<<>>) = 0 /\ 1..0 = {}
    OBVIOUS
  <2>2. QED
    BY <1>1, <2>1 DEF CollectedOK, NoneTwice
<1>12. PhaseOK'
  BY <1>1, <1>4, <1>7 DEF FlowInv, PhaseOK
<1>13. SettledOK'
  <2>1. Settled(applied, rejected, conflicts) /\ Accounted(proposed, applied, rejected)
    BY <1>5 DEF FlowInv, SettledOK
  <2>2. Settled(applied \o kept, rejected \o lost, conflicts \o records)
    BY <1>2, <1>3, <1>4, <2>1, SettledJoins
  <2>3. Accounted(proposed \cup ToSet(proposals), applied \o kept, rejected \o lost)
    BY <1>2, <1>3, <2>1, AccountedJoins
  <2>4. QED
    BY <1>1, <1>2, <1>5, <2>2, <2>3 DEF SettledOK
<1>14. LimitsOK'
  <2>1. \A k \in 1..Len(kept) : (Limited(survivors[k]))'
    BY <1>1, <1>2 DEF Limited
  <2>2. QED
    BY <1>2, <2>1 DEF LimitsOK
<1>15. SavedOK'
  BY <1>1, <1>4 DEF SavedOK
<1>16. QED
  BY <1>8, <1>9, <1>10, <1>11, <1>12, <1>13, <1>14, <1>15 DEF FlowInv

-----------------------------------------------------------------------------
(* The invariant holds while the actions act.                               *)

\* The first of the actions that were to act has acted, with any status.
LEMMA ActedMoves ==
  ASSUME FlowInv, survivors # <<>>, NEW status \in {"applied", "proposed"}, Acted(status)
  PROVE  /\ survivors' \in Seq(Actions) /\ applied' \in Seq(Actions)
         /\ Len(applied') = Len(applied) + 1
         /\ \A k \in 1..Len(applied) : applied'[k] = applied[k]
         /\ applied'[Len(applied) + 1].status = status
         /\ applied'[Len(applied) + 1].round = round
         /\ \A k \in 1..Len(survivors') : k + 1 \in 1..Len(survivors) /\ survivors'[k] = survivors[k + 1]
         /\ Len((applied \o survivors)') = Len(applied \o survivors)
         /\ \A k \in 1..Len(applied \o survivors) : Alike((applied \o survivors)'[k], (applied \o survivors)[k])
<1> DEFINE a == Head(survivors)
           b == [a EXCEPT !.status = status]
<1>1. applied \in Seq(Actions) /\ survivors \in Seq(Actions) /\ Len(survivors) > 0 /\ 1 \in 1..Len(survivors)
  BY DEF FlowInv, ListsOK
<1>2. a \in Actions /\ a = survivors[1] /\ a.round = round
  BY <1>1 DEF FlowInv, ListsOK
<1> HIDE DEF a
<1>3. b \in Actions /\ b.status = status /\ b.round = round /\ Alike(b, a)
  BY <1>2 DEF Actions, Alike, SameProposal
<1>4. applied' = Append(applied, b) /\ survivors' = Tail(survivors)
  BY DEF Acted, a
<1> HIDE DEF b
<1>5. /\ applied' \in Seq(Actions) /\ Len(applied') = Len(applied) + 1
      /\ \A k \in 1..Len(applied) : applied'[k] = applied[k]
      /\ applied'[Len(applied) + 1] = b
  BY <1>1, <1>3, <1>4
<1>6. /\ survivors' \in Seq(Actions) /\ Len(survivors') = Len(survivors) - 1
      /\ \A k \in 1..Len(survivors') : k + 1 \in 1..Len(survivors) /\ survivors'[k] = survivors[k + 1]
  BY <1>1, <1>4
<1>7. Len(applied) \in Nat /\ Len(survivors) \in Nat
  BY <1>1
<1> DEFINE t == applied \o survivors
           u == applied' \o survivors'
<1>8. Len(t) = Len(applied) + Len(survivors) /\ Len(u) = Len(t)
  <2>1. Len(t) = Len(applied) + Len(survivors)
    BY <1>1
  <2>2. Len(u) = Len(applied') + Len(survivors')
    <3>1. applied' \in Seq(Actions) /\ survivors' \in Seq(Actions)
      BY <1>5, <1>6
    <3>2. QED
      BY <3>1
  <2> HIDE DEF t, u
  <2>3. QED
    BY <1>5, <1>6, <1>7, <2>1, <2>2
<1>9. ASSUME NEW k \in 1..Len(t)
      PROVE  Alike(u[k], t[k])
  <2>1. \A c \in Actions : Alike(c, c)
    BY DEF Alike, SameProposal
  <2>2. CASE k \in 1..Len(applied)
    <3>1. u[k] = applied[k] /\ t[k] = applied[k] /\ applied[k] \in Actions
      BY <1>1, <1>5, <1>6, <2>2
    <3>2. QED
      BY <2>1, <3>1
  <2>3. CASE k = Len(applied) + 1
    <3>1. u[k] = b /\ t[k] = a
      BY <1>1, <1>2, <1>5, <1>6, <2>3
    <3>2. QED
      BY <1>3, <3>1
  <2>4. CASE k > Len(applied) + 1
    <3> DEFINE j == k - Len(applied)
    <3>1. j \in 1..Len(survivors) /\ j - 1 \in 1..Len(survivors') /\ k = Len(applied) + j /\ k = Len(applied') + (j - 1)
      BY <1>5, <1>6, <1>7, <1>8, <2>4
    <3>2. t[k] = survivors[j]
      BY <1>1, <3>1
    <3>3. u[k] = survivors'[j - 1]
      BY <1>5, <1>6, <3>1
    <3>4. survivors'[j - 1] = survivors[j] /\ survivors[j] \in Actions
      BY <1>1, <1>6, <3>1
    <3>5. QED
      BY <2>1, <3>2, <3>3, <3>4
  <2>5. QED
    BY <1>7, <1>8, <2>2, <2>3, <2>4
<1>10. QED
  BY <1>3, <1>5, <1>6, <1>8, <1>9

\* An action that has acted leaves the invariant, if the others still may.
LEMMA ActedOK ==
  ASSUME ConstantsAssumption, FlowInv, phase = "act", survivors # <<>>,
         NEW status \in {"applied", "proposed"}, Acted(status), ActFrame,
         product' \in [ProductIds -> ProductStates], failures' \in 0..MaxFailures,
         \A k \in 1..Len(survivors') : Limited(survivors[k])'
  PROVE  FlowInv'
<1>1. UNCHANGED <<retailer, anomalies, phase, round, asked, proposals, rejected, conflicts,
                  rows, conflictRows, runs, unsaved, proposed>>
  BY DEF ActFrame, stored
<1>2. /\ survivors' \in Seq(Actions) /\ applied' \in Seq(Actions)
      /\ Len(applied') = Len(applied) + 1
      /\ \A k \in 1..Len(applied) : applied'[k] = applied[k]
      /\ applied'[Len(applied) + 1].status = status
      /\ applied'[Len(applied) + 1].round = round
      /\ \A k \in 1..Len(survivors') : k + 1 \in 1..Len(survivors) /\ survivors'[k] = survivors[k + 1]
      /\ Len((applied \o survivors)') = Len(applied \o survivors)
      /\ \A k \in 1..Len(applied \o survivors) : Alike((applied \o survivors)'[k], (applied \o survivors)[k])
  BY ActedMoves
<1>3. applied \in Seq(Actions) /\ survivors \in Seq(Actions) /\ round \in 1..Rounds
  BY DEF FlowInv, ListsOK, CountersOK
<1>4. ASSUME NEW k \in 1..Len(applied')
      PROVE  applied'[k].status \in {"applied", "proposed"} /\ applied'[k].round =< round
  <2>1. CASE k \in 1..Len(applied)
    <3>1. applied[k].status \in {"applied", "proposed"} /\ applied[k].round =< round
      BY <2>1 DEF FlowInv, ListsOK, PhaseOK
    <3>2. QED
      BY <1>2, <2>1, <3>1
  <2>2. CASE k = Len(applied) + 1
    BY <1>2, <1>3, <2>2, ConstantsAssumption DEF ConstantsAssumption
  <2>3. k \in 1..Len(applied) \/ k = Len(applied) + 1
    BY <1>2, <1>3
  <2>4. QED
    BY <2>1, <2>2, <2>3
<1>5. ASSUME NEW k \in 1..Len(survivors')
      PROVE  survivors'[k].status = "proposed" /\ survivors'[k].round = round
  <2>1. k + 1 \in 1..Len(survivors) /\ survivors'[k] = survivors[k + 1]
    BY <1>2
  <2>2. survivors[k + 1].status = "proposed" /\ survivors[k + 1].round = round
    BY <2>1, Zenon DEF FlowInv, ListsOK
  <2>3. QED
    BY <2>1, <2>2
<1>6. TwinOK'
  BY <1>1 DEF FlowInv, TwinOK
<1>7. CountersOK'
  BY <1>1 DEF FlowInv, CountersOK
<1>8. ListsOK'
  BY <1>1, <1>2, <1>4, <1>5 DEF FlowInv, ListsOK
<1>9. CollectedOK'
  <2>1. proposals = <<>>
    BY DEF FlowInv, PhaseOK
  <2>2. Len(<<>>) = 0 /\ 1..0 = {}
    OBVIOUS
  <2>3. QED
    BY <1>1, <2>1, <2>2 DEF CollectedOK, NoneTwice
<1>10. PhaseOK'
  BY <1>1, <1>4 DEF FlowInv, PhaseOK
<1>11. SettledOK'
  <2> DEFINE t == applied \o survivors
             u == applied' \o survivors'
  <2>1. t \in Seq(Actions)
    BY <1>3
  <2>2. Len(u) = Len(t) /\ \A k \in 1..Len(t) : Alike(u[k], t[k])
    BY <1>2
  <2>3. Settled(t, rejected, conflicts) /\ Accounted(proposed, t, rejected)
    BY DEF FlowInv, SettledOK, TakenInOrder
  <2>4. rejected \in Seq(Actions) /\ conflicts \in Seq(Actions \X Actions)
    BY DEF FlowInv, ListsOK
  <2> HIDE DEF t, u
  <2>5. Settled(u, rejected, conflicts) /\ Accounted(proposed, u, rejected)
    BY <2>1, <2>2, <2>3, <2>4, SettledAlike
  <2>6. TakenInOrder' = u
    BY DEF TakenInOrder, u
  <2>7. QED
    BY <1>1, <2>5, <2>6 DEF SettledOK
<1>12. LimitsOK'
  BY DEF LimitsOK
<1>13. SavedOK'
  <2>1. rows = {} /\ \A a \in Agents : runs[a] = "none"
    BY DEF FlowInv, PhaseOK
  <2>2. QED
    BY <1>1, <2>1 DEF SavedOK
<1>14. QED
  BY <1>6, <1>7, <1>8, <1>9, <1>10, <1>11, <1>12, <1>13 DEF FlowInv

\* The actions that are still to act may do so after a step that moves no price.
LEMMA LimitsStay ==
  ASSUME FlowInv, phase = "act", survivors # <<>>, NEW status \in {"applied", "proposed"}, Acted(status),
         product \in [ProductIds -> ProductStates],
         \A p \in ProductIds : product'[p].price = product[p].price
  PROVE  \A k \in 1..Len(survivors') : Limited(survivors[k])'
<1> TAKE k \in 1..Len(survivors')
<1>1. k + 1 \in 1..Len(survivors) /\ survivors'[k] = survivors[k + 1]
  BY ActedMoves
<1>2. Limited(survivors[k + 1])
  BY <1>1 DEF FlowInv, LimitsOK
<1> DEFINE a == survivors[k + 1]
<1>3. survivors'[k] = a /\ Limited(a)
  BY <1>1, <1>2
<1> HIDE DEF a
<1>4. QED
  BY <1>3 DEF Limited

\* A tick moves no price.
LEMMA TickedType ==
  ASSUME ConstantsAssumption, TwinOK, NEW proactive, NEW next \in Ticked(proactive)
  PROVE  /\ next \in [ProductIds -> ProductStates]
         /\ \A p \in ProductIds : next[p].price = product[p].price
<1>1. PICK sale \in [ProductIds -> {0, MaxSale}] :
        next = [p \in ProductIds |->
                  LET q == Least(sale[p], product[p].stock)
                      left == product[p].stock - q
                      restocked == IF proactive /\ q > 0 /\ left =< 7 THEN left + 50 ELSE left
                  IN [product[p] EXCEPT !.stock = restocked, !.sold = @ + q]]
  BY DEF Ticked
<1>2. ASSUME NEW p \in ProductIds
      PROVE  next[p] \in ProductStates /\ next[p].price = product[p].price
  <2> DEFINE s == product[p]
             q == Least(sale[p], s.stock)
             left == s.stock - q
             restocked == IF proactive /\ q > 0 /\ left =< 7 THEN left + 50 ELSE left
  <2>1. s \in ProductStates /\ sale[p] \in Nat
    BY ConstantsAssumption DEF TwinOK, ConstantsAssumption
  <2> HIDE DEF s
  <2>2. s.stock \in Nat /\ s.sold \in Nat
    BY <2>1 DEF ProductStates
  <2>3. q \in Nat /\ q =< s.stock
    BY <2>1, <2>2 DEF Least
  <2> HIDE DEF q
  <2>4. restocked \in Nat
    <3>1. left \in Nat
      BY <2>2, <2>3
    <3> HIDE DEF left
    <3>2. left + 50 \in Nat
      BY <3>1
    <3>3. QED
      BY <3>1, <3>2
  <2>5. next[p] = [s EXCEPT !.stock = restocked, !.sold = s.sold + q]
    BY <1>1 DEF s, q
  <2> HIDE DEF restocked
  <2>6. s.sold + q \in Nat
    BY <2>2, <2>3
  <2>7. next[p] \in ProductStates /\ next[p].price = s.price
    BY <2>1, <2>4, <2>5, <2>6 DEF ProductStates
  <2>8. QED
    BY <2>7 DEF s
<1>3. DOMAIN next = ProductIds /\ next = [p \in ProductIds |-> next[p]]
  BY <1>1
<1>4. QED
  BY <1>2, <1>3

\* The actions that are to act are about different entities.
LEMMA SurvivorsDiffer ==
  ASSUME FlowInv, NEW i \in 1..Len(survivors), NEW k \in 1..Len(survivors), i # k
  PROVE  survivors[i].entity # survivors[k].entity
<1> DEFINE t == applied \o survivors
<1>1. applied \in Seq(Actions) /\ survivors \in Seq(Actions)
  BY DEF FlowInv, ListsOK
<1>2. \A j \in 1..Len(survivors) : Len(applied) + j \in 1..Len(t) /\ t[Len(applied) + j] = survivors[j]
  BY <1>1, ActionsJoined
<1>3. OnePerEntity(t)
  BY DEF FlowInv, SettledOK, Settled, TakenInOrder
<1> HIDE DEF t
<1>4. survivors[i].round = survivors[k].round
  BY DEF FlowInv, ListsOK
<1>5. SUFFICES ASSUME survivors[i].entity = survivors[k].entity PROVE FALSE
  OBVIOUS
<1>6. SameEntity(t[Len(applied) + i], t[Len(applied) + k])
  BY <1>2, <1>4, <1>5 DEF SameEntity
<1>7. Len(applied) + i = Len(applied) + k
  BY <1>2, <1>3, <1>6 DEF OnePerEntity
<1>8. Len(applied) \in Nat
  BY <1>1
<1>9. QED
  BY <1>7, <1>8

\* The first of them, within the limits of the product it is about.
LEMMA NextToAct ==
  ASSUME FlowInv, phase = "act", survivors # <<>>
  PROVE  1 \in 1..Len(survivors) /\ Head(survivors) = survivors[1]
         /\ Head(survivors) \in Actions /\ Limited(Head(survivors))
<1>1. survivors \in Seq(Actions)
  BY DEF FlowInv, ListsOK
<1>2. 1 \in 1..Len(survivors) /\ Head(survivors) = survivors[1] /\ survivors[1] \in Actions
  BY <1>1
<1>3. Limited(survivors[1])
  BY <1>2 DEF FlowInv, LimitsOK
<1>4. QED
  BY <1>2, <1>3

\* What an action makes of a product.
LEMMA ChangedType ==
  ASSUME TwinOK, NEW a \in Actions, NEW p \in ProductIds
  PROVE  /\ Changed(p, a) \in ProductStates
         /\ p # a.entity => Changed(p, a) = product[p]
         /\ p = a.entity => Changed(p, a).price = IF a.price # 0 THEN a.price ELSE product[p].price
<1> DEFINE s == product[p]
           left == Greatest(0, s.stock + a.delta)
<1>1. s \in ProductStates /\ a.price \in Nat /\ a.delta \in Int
  BY DEF TwinOK, Actions
<1> HIDE DEF s
<1>2. s.stock \in Nat
  BY <1>1 DEF ProductStates
<1>3. left \in Nat
  BY <1>1, <1>2 DEF Greatest
<1> HIDE DEF left
<1>4. Changed(p, a) = IF p # a.entity THEN s
                      ELSE IF a.price # 0 THEN [s EXCEPT !.price = a.price] ELSE [s EXCEPT !.stock = left]
  BY DEF Changed, s, left
<1>5. [s EXCEPT !.price = a.price] \in ProductStates /\ [s EXCEPT !.price = a.price].price = a.price
  BY <1>1 DEF ProductStates
<1>6. [s EXCEPT !.stock = left] \in ProductStates /\ [s EXCEPT !.stock = left].price = s.price
  BY <1>1, <1>3 DEF ProductStates
<1>7. QED
  BY <1>1, <1>4, <1>5, <1>6 DEF s

\* An action acts on a product, and leaves the prices that others are about.
LEMMA ActOnProductOK ==
  ASSUME ConstantsAssumption, FlowInv, ActOnProduct
  PROVE  FlowInv'
<1> DEFINE a == Head(survivors)
<1>1. phase = "act" /\ survivors # <<>> /\ ActFrame /\ failures' = failures
  BY DEF ActOnProduct
<1>2. failures' \in 0..MaxFailures /\ product \in [ProductIds -> ProductStates] /\ TwinOK
  BY <1>1 DEF FlowInv, CountersOK, TwinOK
<1>3. CASE product' = [p \in ProductIds |-> Changed(p, a)] /\ Acted("applied")
  <2>1. 1 \in 1..Len(survivors) /\ a = survivors[1] /\ a \in Actions
    BY <1>1, NextToAct
  <2> HIDE DEF a
  <2>2. product' \in [ProductIds -> ProductStates]
    BY <1>2, <1>3, <2>1, ChangedType
  <2>3. ASSUME NEW k \in 1..Len(survivors')
        PROVE  Limited(survivors[k])'
    <3> DEFINE c == survivors[k + 1]
    <3>1. k + 1 \in 1..Len(survivors) /\ survivors'[k] = c
      BY <1>1, <1>3, ActedMoves
    <3>2. Limited(c)
      BY <1>1, <3>1 DEF FlowInv, LimitsOK
    <3>3. c.entity # a.entity
      <4>1. k + 1 # 1
        OBVIOUS
      <4>2. QED
        BY <2>1, <3>1, <4>1, SurvivorsDiffer
    <3> HIDE DEF c
    <3>4. c.entity \in ProductIds => product'[c.entity] = product[c.entity]
      BY <1>2, <1>3, <2>1, <3>3, ChangedType
    <3>5. QED
      BY <3>1, <3>2, <3>4 DEF Limited
  <2>4. "applied" \in {"applied", "proposed"}
    OBVIOUS
  <2>5. QED
    BY <1>1, <1>2, <1>3, <2>2, <2>3, <2>4, ActedOK
<1>4. CASE Acted("proposed") /\ UNCHANGED product
  <2>1. "proposed" \in {"applied", "proposed"}
    OBVIOUS
  <2>2. \A k \in 1..Len(survivors') : Limited(survivors[k])'
    BY <1>1, <1>2, <1>4, <2>1, LimitsStay
  <2>3. QED
    BY <1>1, <1>2, <1>4, <2>1, <2>2, ActedOK
<1>5. QED
  BY <1>3, <1>4 DEF ActOnProduct

\* So does one whose effect is a tick of the twin, is outside, or fails.
LEMMA ActElsewhereOK ==
  ASSUME ConstantsAssumption, FlowInv, ActOnStrategy \/ ActOutside \/ ActFails
  PROVE  FlowInv'
<1>1. phase = "act" /\ survivors # <<>> /\ ActFrame
  BY DEF ActOnStrategy, ActOutside, ActFails, Acting
<1>2. failures' \in 0..MaxFailures
  BY ConstantsAssumption DEF ActOnStrategy, ActOutside, ActFails, FlowInv, CountersOK, ConstantsAssumption
<1>3. product \in [ProductIds -> ProductStates] /\ TwinOK
  BY DEF FlowInv, TwinOK
<1>4. product' \in [ProductIds -> ProductStates] /\ \A p \in ProductIds : product'[p].price = product[p].price
  <2>1. CASE ActOnStrategy
    <3>1. product' \in Ticked(Head(survivors).type = "adjust_inventory_strategy")
      BY <2>1 DEF ActOnStrategy
    <3>2. QED
      BY <1>3, <3>1, TickedType
  <2>2. CASE ActOutside \/ ActFails
    BY <1>3, <2>2 DEF ActOutside, ActFails
  <2>3. QED
    BY <2>1, <2>2
<1>5. PICK status \in {"applied", "proposed"} : Acted(status)
  BY DEF ActOnStrategy, ActOutside, ActFails
<1>6. \A k \in 1..Len(survivors') : Limited(survivors[k])'
  BY <1>1, <1>3, <1>4, <1>5, LimitsStay
<1>7. QED
  BY <1>1, <1>2, <1>4, <1>5, <1>6, ActedOK

\* One that raises ends the run where it is.
LEMMA ActRaisesOK ==
  ASSUME ConstantsAssumption, FlowInv, ActRaises
  PROVE  FlowInv'
<1>1. /\ phase = "act" /\ phase' = "dead" /\ failures' \in 0..MaxFailures
      /\ UNCHANGED <<product, retailer, anomalies, round, asked, proposals, survivors, applied, rejected,
                     conflicts, rows, conflictRows, runs, unsaved, proposed>>
  BY ConstantsAssumption DEF ActRaises, Acting, twin, results, stored, FlowInv, CountersOK, ConstantsAssumption
<1>2. TwinOK'
  BY <1>1 DEF FlowInv, TwinOK
<1>3. CountersOK'
  BY <1>1 DEF FlowInv, CountersOK, Phases
<1>4. ListsOK'
  BY <1>1 DEF FlowInv, ListsOK
<1>5. CollectedOK'
  <2>1. proposals = <<>>
    BY <1>1 DEF FlowInv, PhaseOK
  <2>2. Len(<<>>) = 0 /\ 1..0 = {}
    OBVIOUS
  <2>3. QED
    BY <1>1, <2>1, <2>2 DEF CollectedOK, NoneTwice
<1>6. PhaseOK'
  BY <1>1 DEF FlowInv, PhaseOK
<1>7. SettledOK'
  BY <1>1 DEF FlowInv, SettledOK, TakenInOrder
<1>8. LimitsOK'
  BY <1>1 DEF LimitsOK
<1>9. SavedOK'
  BY <1>1 DEF FlowInv, SavedOK, RowsOf, RowsToSave
<1>10. QED
  BY <1>2, <1>3, <1>4, <1>5, <1>6, <1>7, <1>8, <1>9 DEF FlowInv

-----------------------------------------------------------------------------
(* The invariant holds at the end of a round and of the run.                *)

\* The next round begins with a tick.
LEMMA NextRoundOK ==
  ASSUME ConstantsAssumption, FlowInv, NextRound
  PROVE  FlowInv'
<1>1. /\ phase = "act" /\ phase' = "collect" /\ survivors = <<>> /\ round < Rounds /\ round' = round + 1
      /\ asked' = 0
      /\ UNCHANGED <<retailer, anomalies, proposals, survivors, applied, rejected,
                     conflicts, rows, conflictRows, runs, unsaved, proposed, failures>>
  BY DEF NextRound, results, stored
<1>2. round \in 1..Rounds /\ round' \in 1..Rounds
  BY <1>1, ConstantsAssumption DEF FlowInv, CountersOK, ConstantsAssumption
<1>3. proposals = <<>> /\ Len(<<>>) = 0 /\ 1..0 = {}
  BY <1>1 DEF FlowInv, PhaseOK
<1>4. TwinOK'
  <2>1. product' \in Ticked(FALSE) /\ TwinOK
    BY DEF NextRound, FlowInv
  <2>2. product' \in [ProductIds -> ProductStates]
    BY <2>1, TickedType
  <2>3. QED
    BY <1>1, <2>1, <2>2 DEF TwinOK
<1>5. CountersOK'
  BY <1>1, <1>2, AgentTypesType DEF FlowInv, CountersOK, Phases
<1>6. applied \in Seq(Actions) /\ rejected \in Seq(Actions)
  BY DEF FlowInv, ListsOK
<1>7. ListsOK'
  BY <1>1, <1>3 DEF FlowInv, ListsOK
<1>8. CollectedOK'
  BY <1>1, <1>3 DEF CollectedOK, NoneTwice
<1>9. PhaseOK'
  <2>1. ASSUME NEW a \in Actions, a.round =< round
        PROVE  a.round < round' /\ a.round =< round'
    <3>1. a.round \in 1..Rounds
      BY DEF Actions
    <3>2. QED
      BY <1>1, <1>2, <2>1, <3>1, ConstantsAssumption DEF ConstantsAssumption
  <2>2. \A k \in 1..Len(applied) : applied[k].round < round' /\ applied[k].round =< round'
    <3> TAKE k \in 1..Len(applied)
    <3>1. applied[k] \in Actions /\ applied[k].round =< round
      BY <1>6 DEF FlowInv, PhaseOK
    <3>2. QED
      BY <2>1, <3>1
  <2>3. \A k \in 1..Len(rejected) : rejected[k].round < round' /\ rejected[k].round =< round'
    <3> TAKE k \in 1..Len(rejected)
    <3>1. rejected[k] \in Actions /\ rejected[k].round =< round
      BY <1>6 DEF FlowInv, PhaseOK
    <3>2. QED
      BY <2>1, <3>1
  <2>4. QED
    BY <1>1, <1>3, <2>2, <2>3 DEF FlowInv, PhaseOK
<1>10. SettledOK'
  BY <1>1 DEF FlowInv, SettledOK, TakenInOrder
<1>11. LimitsOK'
  BY <1>1 DEF LimitsOK
<1>12. SavedOK'
  BY <1>1 DEF FlowInv, SavedOK, RowsOf, RowsToSave
<1>13. QED
  BY <1>4, <1>5, <1>7, <1>8, <1>9, <1>10, <1>11, <1>12 DEF FlowInv

\* A step that changes neither the twin, the lists nor the round.
LEMMA ListsStay ==
  ASSUME FlowInv, phase \notin {"collect", "resolve"}, phase' \in {"persist", "done"},
         survivors = <<>>,
         UNCHANGED <<product, retailer, anomalies, round, asked, proposals, survivors, applied, rejected,
                     conflicts, proposed>>,
         CountersOK', rows' \subseteq Actions, SavedOK'
  PROVE  FlowInv'
<1>1. TwinOK'
  BY DEF FlowInv, TwinOK
<1>2. ListsOK'
  BY DEF FlowInv, ListsOK
<1>3. proposals = <<>> /\ Len(<<>>) = 0 /\ 1..0 = {}
  BY DEF FlowInv, PhaseOK
<1>4. CollectedOK'
  BY <1>3 DEF CollectedOK, NoneTwice
<1>5. PhaseOK'
  BY <1>3 DEF FlowInv, PhaseOK
<1>6. SettledOK'
  BY DEF FlowInv, SettledOK, TakenInOrder
<1>7. LimitsOK'
  BY DEF LimitsOK
<1>8. QED
  BY <1>1, <1>2, <1>4, <1>5, <1>6, <1>7 DEF FlowInv

\* The rows of a run are its actions.
LEMMA RowsToSaveType ==
  ASSUME FlowInv
  PROVE  /\ RowsToSave \in Seq(Actions) /\ DOMAIN RowsToSave = 1..Len(RowsToSave)
         /\ \A k \in 1..Len(RowsToSave) : RowsToSave[k] \in Actions /\ RowsToSave[k].agent \in Agents
<1>1. applied \in Seq(Actions) /\ rejected \in Seq(Actions)
  BY DEF FlowInv, ListsOK
<1>2. RowsToSave \in Seq(Actions)
  BY <1>1 DEF RowsToSave
<1>3. \A k \in 1..Len(RowsToSave) : RowsToSave[k] \in Actions
  BY <1>2
<1>4. \A a \in Actions : a.agent \in Agents
  BY DEF Actions
<1>5. QED
  BY <1>2, <1>3, <1>4

\* The last round is over.
LEMMA LastRoundOK ==
  ASSUME ConstantsAssumption, FlowInv, LastRound
  PROVE  FlowInv'
<1>1. /\ phase = "act" /\ phase' = "persist" /\ survivors = <<>>
      /\ UNCHANGED <<product, retailer, anomalies, round, asked, proposals, survivors, applied, rejected,
                     conflicts, rows, conflictRows, runs, proposed, failures>>
      /\ unsaved' = {a.agent : a \in ToSet(RowsToSave)}
  BY DEF LastRound, twin, results
<1>2. unsaved' \in SUBSET Agents
  BY <1>1, RowsToSaveType DEF ToSet
<1>3. CountersOK'
  BY <1>1, <1>2 DEF FlowInv, CountersOK, Phases
<1>4. SavedOK' /\ rows' \subseteq Actions
  BY <1>1 DEF FlowInv, ListsOK, SavedOK, RowsOf, RowsToSave
<1>5. QED
  BY <1>1, <1>3, <1>4, ListsStay

\* The rows of an agent are saved, all or some of them, and the run is recorded or
\* not.
LEMMA PersistAgentOK ==
  ASSUME ConstantsAssumption, FlowInv, NEW agent \in Agents, PersistAgent(agent)
  PROVE  FlowInv'
<1>1. /\ phase = "persist" /\ phase' = "persist" /\ agent \in unsaved /\ unsaved' = unsaved \ {agent}
      /\ UNCHANGED <<product, retailer, anomalies, round, asked, proposals, survivors, applied, rejected,
                     conflicts, conflictRows, proposed>>
  BY DEF PersistAgent, twin, results
<1>2. PICK last \in 0..Len(RowsToSave), recorded \in BOOLEAN :
        LET all == RowsOf(agent) \subseteq 1..last
            faults == (IF all THEN 0 ELSE 1) + (IF recorded THEN 0 ELSE 1)
        IN /\ failures + faults =< MaxFailures
           /\ failures' = failures + faults
           /\ rows' = rows \cup {RowsToSave[k] : k \in RowsOf(agent) \cap (1..last)}
           /\ runs' = IF recorded THEN [runs EXCEPT ![agent] = StatusOf(last, agent)] ELSE runs
  BY DEF PersistAgent
<1> DEFINE saved == {RowsToSave[k] : k \in RowsOf(agent) \cap (1..last)}
           faults == (IF RowsOf(agent) \subseteq 1..last THEN 0 ELSE 1) + (IF recorded THEN 0 ELSE 1)
<1>3. /\ failures + faults =< MaxFailures /\ failures' = failures + faults /\ faults \in 0..2
      /\ rows' = rows \cup saved
      /\ runs' = IF recorded THEN [runs EXCEPT ![agent] = StatusOf(last, agent)] ELSE runs
  BY <1>2
<1> HIDE DEF faults
<1>4. RowsToSave' = RowsToSave /\ \A a \in Agents : RowsOf(a)' = RowsOf(a)
  BY <1>1 DEF RowsToSave, RowsOf
<1>5. StatusOf(last, agent) \in {"success", "failed"}
  BY DEF StatusOf
<1>6. runs \in [Agents -> {"none", "success", "failed"}] /\ failures \in 0..MaxFailures
  BY DEF FlowInv, CountersOK
<1>7. runs' \in [Agents -> {"none", "success", "failed"}]
  BY <1>3, <1>5, <1>6
<1>8. failures' \in 0..MaxFailures
  BY <1>3, <1>6, ConstantsAssumption DEF ConstantsAssumption
<1>9. CountersOK'
  BY <1>1, <1>7, <1>8 DEF FlowInv, CountersOK
<1>10. saved \subseteq Actions /\ saved \subseteq ToSet(RowsToSave)
  <2>1. RowsOf(agent) \subseteq 1..Len(RowsToSave)
    BY RowsToSaveType DEF RowsOf
  <2>2. \A k \in 1..Len(RowsToSave) : RowsToSave[k] \in Actions /\ RowsToSave[k] \in ToSet(RowsToSave)
    BY RowsToSaveType DEF ToSet
  <2>3. QED
    BY <2>1, <2>2
<1>11. SavedOK'
  <2>1. rows' \subseteq ToSet(RowsToSave)
    BY <1>3, <1>10 DEF FlowInv, SavedOK
  <2>2. ASSUME NEW a \in Agents, runs'[a] = "success", NEW k \in RowsOf(a)
        PROVE  RowsToSave[k] \in rows'
    <3>1. CASE a = agent /\ recorded
      <4>1. StatusOf(last, agent) = "success"
        BY <1>3, <1>6, <2>2, <3>1
      <4>2. RowsOf(agent) \subseteq 1..last
        BY <4>1 DEF StatusOf
      <4>3. RowsToSave[k] \in saved
        BY <2>2, <3>1, <4>2
      <4>4. QED
        BY <1>3, <4>3
    <3>2. CASE ~(a = agent /\ recorded)
      <4>1. runs[a] = "success"
        BY <1>3, <1>6, <2>2, <3>2
      <4>2. RowsToSave[k] \in rows
        BY <4>1 DEF FlowInv, SavedOK
      <4>3. QED
        BY <1>3, <4>2
    <3>3. QED
      BY <3>1, <3>2
  <2>3. QED
    BY <1>4, <2>1, <2>2 DEF SavedOK
<1>12. rows' \subseteq Actions
  BY <1>3, <1>10 DEF FlowInv, ListsOK
<1>13. survivors = <<>>
  BY <1>1 DEF FlowInv, PhaseOK
<1>14. QED
  BY <1>1, <1>9, <1>11, <1>12, <1>13, ListsStay

\* The conflicts are saved, all or some of them.
LEMMA PersistConflictsOK ==
  ASSUME ConstantsAssumption, FlowInv, PersistConflicts
  PROVE  FlowInv'
<1>1. /\ phase = "persist" /\ phase' = "done" /\ failures' \in 0..MaxFailures
      /\ UNCHANGED <<product, retailer, anomalies, round, asked, proposals, survivors, applied, rejected,
                     conflicts, rows, runs, unsaved, proposed>>
  BY ConstantsAssumption DEF PersistConflicts, twin, results, FlowInv, CountersOK, ConstantsAssumption
<1>2. CountersOK'
  BY <1>1 DEF FlowInv, CountersOK, Phases
<1>3. SavedOK' /\ rows' \subseteq Actions
  BY <1>1 DEF FlowInv, ListsOK, SavedOK, RowsOf, RowsToSave
<1>4. survivors = <<>>
  BY <1>1 DEF FlowInv, PhaseOK
<1>5. QED
  BY <1>1, <1>2, <1>3, <1>4, ListsStay

\* The invariant does not depend on a step that changes nothing.
LEMMA StutterOK ==
  ASSUME FlowInv, UNCHANGED vars
  PROVE  FlowInv'
<1>1. UNCHANGED <<product, retailer, anomalies, phase, round, asked, proposals, survivors, applied, rejected,
                  conflicts, rows, conflictRows, runs, unsaved, proposed, failures>>
  BY DEF vars, twin, results, stored
<1>2. TwinOK'
  BY <1>1 DEF FlowInv, TwinOK
<1>3. CountersOK' /\ ListsOK'
  BY <1>1 DEF FlowInv, CountersOK, ListsOK
<1>4. CollectedOK'
  BY <1>1 DEF FlowInv, CollectedOK, Priced
<1>5. PhaseOK'
  BY <1>1 DEF FlowInv, PhaseOK
<1>6. SettledOK'
  BY <1>1 DEF FlowInv, SettledOK, TakenInOrder
<1>7. LimitsOK'
  BY <1>1 DEF FlowInv, LimitsOK, Limited
<1>8. SavedOK'
  BY <1>1 DEF FlowInv, SavedOK, RowsOf, RowsToSave
<1>9. QED
  BY <1>2, <1>3, <1>4, <1>5, <1>6, <1>7, <1>8 DEF FlowInv

\* Every step keeps the invariant.
LEMMA NextOK ==
  ASSUME ConstantsAssumption, FlowInv, [Next]_vars
  PROVE  FlowInv'
<1>1. CASE Decide
  BY <1>1, DecideOK
<1>2. CASE Resolve
  BY <1>2, ResolveOK
<1>3. CASE ActOnProduct
  BY <1>3, ActOnProductOK
<1>4. CASE ActOnStrategy \/ ActOutside \/ ActFails
  BY <1>4, ActElsewhereOK
<1>5. CASE ActRaises
  BY <1>5, ActRaisesOK
<1>6. CASE NextRound
  BY <1>6, NextRoundOK
<1>7. CASE LastRound
  BY <1>7, LastRoundOK
<1>8. CASE \E a \in Agents : PersistAgent(a)
  BY <1>8, PersistAgentOK
<1>9. CASE PersistConflicts
  BY <1>9, PersistConflictsOK
<1>10. CASE UNCHANGED vars
  BY <1>10, StutterOK
<1>11. QED
  BY <1>1, <1>2, <1>3, <1>4, <1>5, <1>6, <1>7, <1>8, <1>9, <1>10 DEF Next

-----------------------------------------------------------------------------
(* The theorems.                                                            *)

\* The invariant holds throughout a run.
THEOREM FlowIsSettled == Spec => []FlowInv
<1>1. Init => FlowInv
  BY InitOK, ConstantsAssumption
<1>2. FlowInv /\ [Next]_vars => FlowInv'
  BY NextOK, ConstantsAssumption
<1>3. QED
  BY <1>1, <1>2, PTL DEF Spec

\* Every proposal, action, status and counter has its type: what still is to act is of
\* the round, and what lost is rejected (agent_flow.py).
THEOREM TypeCorrect == Spec => []TypeOK
<1>1. ASSUME FlowInv PROVE TypeOK
  <2>1. proposals \in Seq(Actions) /\ survivors \in Seq(Actions) /\ applied \in Seq(Actions) /\ rejected \in Seq(Actions)
    BY <1>1 DEF FlowInv, ListsOK
  <2>2. \A a \in ToSet(proposals) \cup ToSet(survivors) : a.status = "proposed" /\ a.round = round
    BY <1>1, <2>1 DEF FlowInv, ListsOK, ToSet
  <2>3. /\ \A a \in ToSet(applied) : a.status \in {"applied", "proposed"}
        /\ \A a \in ToSet(rejected) : a.status = "rejected"
    BY <1>1, <2>1 DEF FlowInv, ListsOK, ToSet
  <2>4. \A p \in ProductIds : product[p].price \in Nat /\ product[p].stock \in Nat
    BY <1>1 DEF FlowInv, TwinOK, ProductStates
  <2>5. QED
    BY <1>1, <2>2, <2>3, <2>4 DEF FlowInv, CountersOK, TypeOK
<1>2. QED
  BY <1>1, FlowIsSettled, PTL

\* What was taken is what is applied or still to act.
LEMMA TakenType ==
  ASSUME FlowInv
  PROVE  /\ \A i \in 1..Len(TakenInOrder) : TakenInOrder[i] \in Taken
         /\ \A a \in Taken : \E i \in 1..Len(TakenInOrder) : TakenInOrder[i] = a
<1> DEFINE t == applied \o survivors
<1>1. applied \in Seq(Actions) /\ survivors \in Seq(Actions)
  BY DEF FlowInv, ListsOK
<1>2. /\ \A k \in 1..Len(applied) : k \in 1..Len(t) /\ t[k] = applied[k]
      /\ \A k \in 1..Len(survivors) : Len(applied) + k \in 1..Len(t) /\ t[Len(applied) + k] = survivors[k]
      /\ \A k \in 1..Len(t) : k \in 1..Len(applied) \/ \E j \in 1..Len(survivors) : k = Len(applied) + j
  BY <1>1, ActionsJoined
<1> HIDE DEF t
<1>3. /\ ToSet(applied) = {applied[k] : k \in 1..Len(applied)}
      /\ ToSet(survivors) = {survivors[k] : k \in 1..Len(survivors)}
  BY <1>1 DEF ToSet
<1>4. \A i \in 1..Len(t) : t[i] \in Taken
  <2> TAKE i \in 1..Len(t)
  <2>1. CASE i \in 1..Len(applied)
    BY <1>2, <1>3, <2>1 DEF Taken
  <2>2. ASSUME NEW j \in 1..Len(survivors), i = Len(applied) + j
        PROVE  t[i] \in Taken
    BY <1>2, <1>3, <2>2 DEF Taken
  <2>3. QED
    BY <1>2, <2>1, <2>2
<1>5. \A a \in Taken : \E i \in 1..Len(t) : t[i] = a
  BY <1>2, <1>3 DEF Taken
<1>6. QED
  BY <1>4, <1>5 DEF TakenInOrder, t

\* Of the proposals for one entity one is taken, the one of the highest precedence, and
\* each of the others has one record that names the winner (_resolve_and_apply(), with
\* the resolution of autonomy_framework.py).
THEOREM ConflictsSettled == Spec => []ConflictsAreSettled
<1>1. ASSUME FlowInv PROVE ConflictsAreSettled
  <2> DEFINE t == TakenInOrder
  <2>1. /\ \A i \in 1..Len(t) : t[i] \in Taken
        /\ \A a \in Taken : \E i \in 1..Len(t) : t[i] = a
    BY <1>1, TakenType
  <2>2. Settled(t, rejected, conflicts)
    BY <1>1 DEF FlowInv, SettledOK
  <2>3. rejected \in Seq(Actions) /\ conflicts \in Seq(Actions \X Actions)
    BY <1>1 DEF FlowInv, ListsOK
  <2>4. DOMAIN conflicts = 1..Len(rejected) /\ \A l \in ToSet(rejected) : \E k \in 1..Len(rejected) : rejected[k] = l
    BY <2>2, <2>3 DEF Settled, ToSet
  <2> HIDE DEF t
  <2>5. \A k \in 1..Len(rejected) :
          /\ conflicts[k][2] = rejected[k] /\ SameEntity(conflicts[k][1], rejected[k])
          /\ \E w \in Taken : /\ SameProposal(w, conflicts[k][1])
                              /\ SameEntity(w, rejected[k]) /\ Precedes(w, rejected[k])
    <3> TAKE k \in 1..Len(rejected)
    <3>1. PICK i \in 1..Len(t) :
            /\ SameProposal(t[i], conflicts[k][1])
            /\ SameEntity(t[i], rejected[k]) /\ Precedes(t[i], rejected[k])
      BY <2>2 DEF Settled
    <3>2. conflicts[k][2] = rejected[k] /\ SameEntity(conflicts[k][1], rejected[k])
      BY <2>2 DEF Settled
    <3>3. QED
      BY <2>1, <3>1, <3>2
  <2>6. OneActionPerEntity
    <3> SUFFICES ASSUME NEW a \in Taken, NEW b \in Taken, SameEntity(a, b)
                 PROVE  SameProposal(a, b)
      BY DEF OneActionPerEntity
    <3>1. PICK i \in 1..Len(t), k \in 1..Len(t) : t[i] = a /\ t[k] = b
      BY <2>1
    <3>2. i = k
      BY <2>2, <3>1 DEF Settled, OnePerEntity
    <3>3. QED
      BY <3>1, <3>2 DEF SameProposal
  <2>7. PriorityDecides
    <3> SUFFICES ASSUME NEW l \in ToSet(rejected)
                 PROVE  \E w \in Taken : SameEntity(w, l) /\ Precedes(w, l)
      BY DEF PriorityDecides, Precedes
    <3>1. PICK k \in 1..Len(rejected) : rejected[k] = l
      BY <2>4
    <3>2. QED
      BY <2>5, <3>1
  <2>8. ConflictsNameTheWinner
    <3> SUFFICES ASSUME NEW l \in ToSet(rejected)
                 PROVE  /\ Cardinality({k \in DOMAIN conflicts : conflicts[k][2] = l}) = 1
                        /\ \A c \in ToSet(conflicts) : c[2] = l =>
                             SameEntity(c[1], l) /\ \E w \in Taken : SameProposal(w, c[1])
      BY DEF ConflictsNameTheWinner
    <3>1. PICK k \in 1..Len(rejected) : rejected[k] = l
      BY <2>4
    <3>2. \A j \in 1..Len(rejected) : conflicts[j][2] = l => j = k
      <4> TAKE j \in 1..Len(rejected)
      <4>1. conflicts[j][2] = l => rejected[j] = rejected[k]
        BY <2>5, <3>1
      <4>2. rejected[j] = rejected[k] => SameProposal(rejected[j], rejected[k])
        BY DEF SameProposal
      <4>3. SameProposal(rejected[j], rejected[k]) => j = k
        BY <2>2 DEF Settled, NoneTwice
      <4>4. QED
        BY <4>1, <4>2, <4>3
    <3>3. {j \in DOMAIN conflicts : conflicts[j][2] = l} = {k}
      BY <2>4, <2>5, <3>1, <3>2
    <3>4. Cardinality({k}) = 1
      BY FS_Singleton
    <3>5. ASSUME NEW c \in ToSet(conflicts), c[2] = l
          PROVE  SameEntity(c[1], l) /\ \E w \in Taken : SameProposal(w, c[1])
      <4>1. PICK j \in 1..Len(rejected) : conflicts[j] = c
        BY <2>4 DEF ToSet
      <4>2. rejected[j] = l
        BY <2>5, <3>5, <4>1
      <4>3. QED
        BY <2>5, <4>1, <4>2
    <3>6. QED
      BY <3>3, <3>4, <3>5
  <2>9. QED
    BY <2>6, <2>7, <2>8 DEF ConflictsAreSettled
<1>2. QED
  BY <1>1, FlowIsSettled, PTL

\* An agent type whose run is a success has each of its proposals in its table, once,
\* whatever failed in other agents' rows (_persist_round()).
THEOREM SuccessesAreComplete == Spec => []SuccessfulRunsAreComplete
<1>1. ASSUME FlowInv PROVE SuccessfulRunsAreComplete
  <2> SUFFICES ASSUME NEW agent \in Agents, runs[agent] = "success", NEW q \in proposed, q.agent = agent
               PROVE  Cardinality({x \in rows : SameProposal(x, q)}) = 1
    BY DEF SuccessfulRunsAreComplete
  <2>1. applied \in Seq(Actions) /\ rejected \in Seq(Actions)
    BY <1>1 DEF FlowInv, ListsOK
  <2>2. survivors = <<>>
    BY <1>1 DEF FlowInv, PhaseOK
  <2>3. TakenInOrder = applied
    BY <2>1, <2>2 DEF TakenInOrder
  <2>4. Settled(applied, rejected, conflicts) /\ Accounted(proposed, applied, rejected)
    BY <1>1, <2>3 DEF FlowInv, SettledOK
  <2> DEFINE s == applied \o rejected
  <2>5. /\ \A k \in 1..Len(applied) : k \in 1..Len(s) /\ s[k] = applied[k]
        /\ \A k \in 1..Len(rejected) : Len(applied) + k \in 1..Len(s) /\ s[Len(applied) + k] = rejected[k]
    BY <2>1, ActionsJoined
  <2>6. NoneTwice(s)
    BY <2>1, <2>4, NoneTwiceJoins DEF Settled
  <2>7. s = RowsToSave /\ DOMAIN s = 1..Len(s)
    BY <1>1, RowsToSaveType DEF RowsToSave
  <2> HIDE DEF s
  <2>8. PICK k \in 1..Len(s) : SameProposal(s[k], q)
    <3>1. (\E i \in 1..Len(applied) : SameProposal(applied[i], q)) \/ (\E i \in 1..Len(rejected) : SameProposal(rejected[i], q))
      BY <2>4 DEF Accounted
    <3>2. QED
      BY <2>5, <3>1
  <2>9. k \in RowsOf(agent)
    BY <2>7, <2>8 DEF RowsOf, SameProposal
  <2>10. s[k] \in rows
    BY <1>1, <2>7, <2>9 DEF FlowInv, SavedOK
  <2>11. ASSUME NEW x \in rows, SameProposal(x, q)
         PROVE  x = s[k]
    <3>1. PICK j \in 1..Len(s) : s[j] = x
      BY <1>1, <2>7 DEF FlowInv, SavedOK, ToSet
    <3>2. SameProposal(s[j], s[k])
      BY <2>8, <2>11, <3>1 DEF SameProposal
    <3>3. j = k
      BY <2>6, <3>2 DEF NoneTwice
    <3>4. QED
      BY <3>1, <3>3
  <2>12. {x \in rows : SameProposal(x, q)} = {s[k]}
    BY <2>8, <2>10, <2>11
  <2>13. QED
    BY <2>12, FS_Singleton
<1>2. QED
  BY <1>1, FlowIsSettled, PTL

\* No step moves a price by more than a quarter, or below the minimum, though the price
\* was decided on before other actions and ticks (enforce_constraints()).
THEOREM PricesWithinLimits == Spec => PricesMoveWithinLimits
<1> DEFINE Moves ==
      \A p \in ProductIds : product'[p].price # product[p].price =>
        /\ product'[p].price >= MinUnitPrice
        /\ \/ WithinAQuarter(product[p].price, product'[p].price)
           \/ product'[p].price = MinUnitPrice
           \/ product[p].price = 0
<1>1. ASSUME FlowInv, Next PROVE Moves
  <2>1. TwinOK
    BY <1>1 DEF FlowInv
  <2>2. CASE ActOnProduct /\ product' # product
    <3> DEFINE a == Head(survivors)
    <3>1. phase = "act" /\ survivors # <<>> /\ product' = [p \in ProductIds |-> Changed(p, a)]
      BY <2>2 DEF ActOnProduct
    <3>2. a \in Actions /\ Limited(a)
      BY <1>1, <3>1, NextToAct
    <3> HIDE DEF a
    <3>3. SUFFICES ASSUME NEW p \in ProductIds, product'[p].price # product[p].price
                   PROVE  /\ product'[p].price >= MinUnitPrice
                          /\ \/ WithinAQuarter(product[p].price, product'[p].price)
                             \/ product'[p].price = MinUnitPrice
                             \/ product[p].price = 0
      OBVIOUS
    <3>4. product'[p] = Changed(p, a)
      BY <3>1
    <3>5. p = a.entity /\ a.price # 0 /\ product'[p].price = a.price
      BY <2>1, <3>2, <3>3, <3>4, ChangedType
    <3>6. a.from = product[p].price
      BY <3>2, <3>5 DEF Limited
    <3>7. a.price >= MinUnitPrice /\ (WithinAQuarter(a.from, a.price) \/ a.price = MinUnitPrice \/ a.from = 0)
      BY <3>2, <3>5 DEF Limited
    <3>8. QED
      BY <3>5, <3>6, <3>7
  <2>3. CASE ActOnStrategy \/ NextRound
    <3>1. PICK proactive \in BOOLEAN : product' \in Ticked(proactive)
      BY <2>3 DEF ActOnStrategy, NextRound
    <3>2. \A p \in ProductIds : product'[p].price = product[p].price
      BY <2>1, <3>1, TickedType, ConstantsAssumption
    <3>3. QED
      BY <3>2
  <2>4. CASE product' = product
    BY <2>4
  <2>5. CASE \/ Decide \/ Resolve \/ ActOutside \/ ActFails \/ ActRaises \/ LastRound
             \/ PersistConflicts \/ \E agent \in Agents : PersistAgent(agent)
    <3>1. product' = product
      BY <2>5 DEF Decide, Resolve, ActOutside, ActFails, ActRaises, LastRound, PersistConflicts,
                  PersistAgent, twin
    <3>2. QED
      BY <3>1
  <2>6. QED
    BY <1>1, <2>2, <2>3, <2>4, <2>5 DEF Next
<1>2. ASSUME UNCHANGED vars PROVE Moves
  BY <1>2 DEF vars, twin
<1>3. FlowInv /\ [Next]_vars => [Moves]_vars
  BY <1>1
<1>4. QED
  BY <1>3, FlowIsSettled, PTL DEF Spec, PricesMoveWithinLimits
==============================================================================
