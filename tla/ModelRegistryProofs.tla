-------------------------- MODULE ModelRegistryProofs --------------------------
(***************************************************************************)
(* Proofs about ModelRegistry for any number of trainers, operators,       *)
(* versions and calls.                                                     *)
(***************************************************************************)
EXTENDS ModelRegistry, WellFoundedInduction, FiniteSetTheorems, TLAPS

-----------------------------------------------------------------------------
(* What the reads of the registry return.                                   *)

\* A set of versions has a highest one: order by version desc limit 1 finds it.
LEMMA LatestIsHighest ==
  ASSUME NEW S \in SUBSET Versions
  PROVE  /\ Latest(S) \in S \cup {0}
         /\ \A v \in S : v =< Latest(S)
<1> DEFINE T == S \cup {0}
           U == {MaxVersions - v : v \in T}
<1>1. T \subseteq 0..MaxVersions /\ MaxVersions \in Nat
  BY ConstantsAssumption DEF Versions
<1>2. U \subseteq Nat /\ U # {}
  BY <1>1
<1>3. PICK n \in U : \A m \in U : n =< m
  <2>1. PICK n \in U : \A m \in U : <<m, n>> \notin OpToRel(<, Nat)
    BY <1>2, WFMin, NatLessThanWellFounded
  <2>2. \A m \in U : m \in Nat /\ n \in Nat
    BY <1>2
  <2>3. \A m \in U : ~(m < n)
    BY <2>1, <2>2 DEF OpToRel
  <2>4. QED
    BY <2>2, <2>3
<1>4. PICK x \in T : n = MaxVersions - x
  BY <1>3
<1>5. \A y \in T : x >= y
  <2>1. ASSUME NEW y \in T PROVE x >= y
    <3>1. MaxVersions - x =< MaxVersions - y
      BY <1>3, <1>4
    <3>2. x \in Int /\ y \in Int
      BY <1>1
    <3>3. QED
      BY <1>1, <3>1, <3>2
  <2>2. QED
    BY <2>1
<1>6. Max(T) \in T /\ \A y \in T : Max(T) >= y
  BY <1>5 DEF Max
<1>7. \A y \in S : y =< Max(T)
  <2>1. Max(T) \in Int /\ \A y \in S : y \in Int /\ y \in T
    BY <1>1, <1>6
  <2>2. QED
    BY <1>6, <2>1
<1>8. QED
  BY <1>6, <1>7 DEF Latest

\* register_model() takes a number that no version has.
LEMMA NextVersionIsFresh ==
  ASSUME NextVersion =< MaxVersions
  PROVE  NextVersion \in Versions /\ NextVersion \notin Registered
<1> DEFINE n == Latest(Registered)
<1>1. Registered \in SUBSET Versions /\ Versions \subseteq Nat /\ 0 \in Nat
  BY DEF Registered, Versions
<1>2. n \in Registered \cup {0} /\ \A v \in Registered : v =< n
  BY <1>1, LatestIsHighest
<1>3. n \in Nat /\ NextVersion = n + 1
  BY <1>1, <1>2 DEF NextVersion
<1> HIDE DEF n
<1>4. NextVersion \notin Registered
  BY ONLY <1>1, <1>2, <1>3
<1>5. NextVersion \in Versions
  BY ONLY <1>3, NextVersion =< MaxVersions, ConstantsAssumption DEF Versions, ConstantsAssumption
<1>6. QED
  BY <1>4, <1>5

\* get_active_model() returns a version that is active, or None when there is none.
LEMMA ActiveVersionIsActive ==
  /\ ActiveVersion \in 0..MaxVersions
  /\ ActiveVersion # 0 => ActiveVersion \in WithStatus({"active"})
  /\ \A v : WithStatus({"active"}) = {v} => ActiveVersion = v
<1>1. WithStatus({"active"}) \in SUBSET Versions
  BY DEF WithStatus
<1>2. /\ ActiveVersion \in WithStatus({"active"}) \cup {0}
      /\ \A v \in WithStatus({"active"}) : v =< ActiveVersion
  BY <1>1, LatestIsHighest DEF ActiveVersion
<1>3. ASSUME NEW v, WithStatus({"active"}) = {v} PROVE ActiveVersion = v
  <2>1. v \in Versions /\ v =< ActiveVersion /\ (ActiveVersion = v \/ ActiveVersion = 0)
    BY <1>1, <1>2, <1>3
  <2>2. v # 0 /\ v \in Nat
    BY <2>1, ConstantsAssumption DEF Versions
  <2>3. QED
    BY <2>1, <2>2 DEF Versions
<1>4. QED
  BY <1>1, <1>2, <1>3, ConstantsAssumption DEF Versions

\* rollback_model() restores a version that was superseded or rolled back, and finds
\* one only when some version is active.
LEMMA PreviousIsRestorable ==
  ASSUME PreviousVersion # 0
  PROVE  /\ PreviousVersion \in Restorable /\ PreviousVersion \in Versions
         /\ ActiveVersion # 0 /\ ActiveVersion \in WithStatus({"active"})
<1> DEFINE S == {v \in Restorable : v < ActiveVersion}
<1>1. S \in SUBSET Versions
  BY DEF Restorable, WithStatus
<1>2. Latest(S) \in S \cup {0}
  BY <1>1, LatestIsHighest
<1>3. PreviousVersion \in S
  BY <1>2 DEF PreviousVersion
<1>4. PreviousVersion < ActiveVersion /\ PreviousVersion \in Versions
  BY <1>1, <1>3
<1>5. ActiveVersion # 0
  BY <1>4, ConstantsAssumption DEF Versions
<1>6. QED
  BY <1>3, <1>4, <1>5, ActiveVersionIsActive

-----------------------------------------------------------------------------
(* The status column and the history of activations.                        *)

RestoresLive == \A p \in Processes : at[p] = "restore" => mine[p] \in live
History == TypeOK /\ StatusTellsHistory /\ RestoresLive

\* The registry starts empty: nothing was ever active.
LEMMA HistoryHoldsInitially == Init => History
<1>1. 0 \in 0..MaxVersions
  BY ConstantsAssumption
<1>2. Init => torn \in BOOLEAN /\ direction \in Directions
  BY Zenon DEF Init
<1>3. QED
  BY <1>1, <1>2, ConstantsAssumption DEF Init, History, TypeOK, StatusTellsHistory, RestoresLive, Statuses, InTransaction

\* Every statement of the registry's three functions keeps the statuses true to the history.
LEMMA HistoryIsKept == History /\ [Next]_vars => History'
<1> SUFFICES ASSUME History, [Next]_vars PROVE History'
  OBVIOUS
<1> USE ConstantsAssumption
<1> USE DEF History, TypeOK, Goto, Idle, Processes, InTransaction
<1>1. ASSUME NEW t \in Trainers, GetActive(t) \/ SkipActive(t) PROVE History'
  BY <1>1, ActiveVersionIsActive DEF GetActive, SkipActive, StatusTellsHistory, RestoresLive
<1>2. ASSUME NEW t \in Trainers, Register(t) PROVE History'
  <2>1. NextVersion \in Versions /\ status[NextVersion] = "none" /\ NextVersion \in 0..MaxVersions
    BY <1>2, NextVersionIsFresh DEF Register, Registered, Versions
  <2>2. QED
    BY <1>2, <2>1 DEF Register, StatusTellsHistory, RestoresLive, Statuses
<1>3. ASSUME NEW t \in Trainers, Gate(t) \/ CheckPasses(t) \/ CheckFails(t) PROVE History'
  BY <1>3 DEF Gate, CheckPasses, CheckFails, StatusTellsHistory, RestoresLive
<1>4. ASSUME NEW o \in Operators, AskRollback(o) PROVE History'
  BY <1>4 DEF AskRollback, Call, StatusTellsHistory, RestoresLive
<1>5. ASSUME NEW o \in Operators, NEW v \in Versions, AskActivate(o, v) PROVE History'
  BY <1>5 DEF AskActivate, Call, StatusTellsHistory, RestoresLive, Versions
<1>6. ASSUME NEW o \in Operators, RegisterActive(o) PROVE History'
  <2>1. NextVersion \in Versions /\ status[NextVersion] = "none" /\ NextVersion \in 0..MaxVersions
    BY <1>6, NextVersionIsFresh DEF RegisterActive, Registered, Versions
  <2>2. QED
    BY <1>6, <2>1 DEF RegisterActive, Call, StatusTellsHistory, RestoresLive, Statuses
<1>7. ASSUME NEW p \in Processes, Promote(p) PROVE History'
  BY <1>7 DEF Promote, Registered, StatusTellsHistory, RestoresLive, Statuses
<1>8. ASSUME NEW p \in Processes, Demote(p) PROVE History'
  BY <1>8 DEF Demote, Demoted, ConnectionClosed, StatusTellsHistory, RestoresLive, Statuses
<1>9. ASSUME NEW p \in Processes, Rollback(p) PROVE History'
  <2>1. CASE PreviousVersion = 0
    BY <1>9, <2>1 DEF Rollback, StatusTellsHistory, RestoresLive
  <2>2. CASE PreviousVersion # 0
    <3>1. /\ PreviousVersion \in Versions /\ status[PreviousVersion] \in {"superseded", "rolled_back"}
          /\ ActiveVersion \in Versions /\ status[ActiveVersion] = "active"
      BY <2>2, PreviousIsRestorable DEF Restorable, WithStatus
    <3>2. PreviousVersion \in live /\ PreviousVersion \in 0..MaxVersions
      BY <3>1 DEF StatusTellsHistory, Versions
    <3>3. QED
      BY <1>9, <2>2, <3>1, <3>2 DEF Rollback, StatusTellsHistory, RestoresLive, Statuses
  <2>3. QED
    BY <2>1, <2>2
<1>10. ASSUME NEW p \in Processes, Restore(p) PROVE History'
  BY <1>10 DEF Restore, ConnectionClosed, StatusTellsHistory, RestoresLive, Statuses
<1>11. ASSUME NEW p \in Processes, Crash(p) PROVE History'
  BY <1>11 DEF Crash, StatusTellsHistory, RestoresLive
<1>12. CASE UNCHANGED vars
  BY <1>12 DEF vars, local, StatusTellsHistory, RestoresLive
<1>13. QED
  BY <1>1, <1>2, <1>3, <1>4, <1>5, <1>6, <1>7, <1>8, <1>9, <1>10, <1>11, <1>12
     DEF Next, Train, ByHand, Change

\* The status column tells which versions have been active, through any promotions,
\* rollbacks, calls by hand and crashes, and every variable stays in its type.
THEOREM StatusIsHistory == Spec => [](TypeOK /\ StatusTellsHistory)
<1>1. History => TypeOK /\ StatusTellsHistory
  BY DEF History
<1>2. QED
  BY <1>1, HistoryHoldsInitially, HistoryIsKept, PTL DEF Spec

-----------------------------------------------------------------------------
(* One active version.                                                      *)

\* A version that is to be activated exists, and one that is to take the place of
\* the others is active already.
KnownOnly ==
  /\ \A p \in Processes : at[p] \in {"gate", "promote", "demote"} => mine[p] \in Registered
  /\ \A p \in Processes : at[p] = "demote" => status[mine[p]] = "active"

\* Between calls there is one active version, unless there has never been one;
\* between the two updates of a rollback there is none.
OneActiveBetweenCalls ==
  ~torn =>
    /\ con = Nobody => \/ live = {} /\ WithStatus({"active"}) = {}
                       \/ \E v \in Versions : WithStatus({"active"}) = {v}
    /\ \A p \in Processes : at[p] = "restore" => WithStatus({"active"}) = {}

NoStrays == \A o \in Operators, v \in Versions : AskActivate(o, v) => v \in Registered

\* A demotion leaves the version it makes room for as the only active one.
LEMMA DemotionLeavesOne ==
  ASSUME TypeOK, KnownOnly, NEW p \in Processes, Demote(p)
  PROVE  mine[p] \in Versions /\ WithStatus({"active"})' = {mine[p]}
BY DEF TypeOK, KnownOnly, Demote, Demoted, WithStatus, Registered

\* Versions stay known: no call unregisters one, and none but a demotion or a
\* rollback takes "active" from one.
LEMMA KnownIsKept ==
  ASSUME NoStrays, History, KnownOnly, [Next]_vars
  PROVE  KnownOnly'
<1> USE DEF History, TypeOK, Goto, Idle, Processes, InTransaction, Registered
<1>1. ASSUME NEW t \in Trainers, GetActive(t) \/ SkipActive(t) PROVE KnownOnly'
  BY <1>1 DEF GetActive, SkipActive, KnownOnly
<1>2. ASSUME NEW t \in Trainers, Register(t) PROVE KnownOnly'
  <2>1. NextVersion \in Versions /\ status[NextVersion] = "none"
    BY <1>2, NextVersionIsFresh DEF Register
  <2>2. QED
    BY <1>2, <2>1 DEF Register, KnownOnly
<1>3. ASSUME NEW t \in Trainers, Gate(t) \/ CheckPasses(t) \/ CheckFails(t) PROVE KnownOnly'
  BY <1>3 DEF Gate, CheckPasses, CheckFails, KnownOnly
<1>4. ASSUME NEW o \in Operators, AskRollback(o) PROVE KnownOnly'
  BY <1>4 DEF AskRollback, Call, KnownOnly
<1>5. ASSUME NEW o \in Operators, NEW v \in Versions, AskActivate(o, v) PROVE KnownOnly'
  <2>1. status[v] # "none"
    BY <1>5 DEF NoStrays
  <2>2. QED
    BY <1>5, <2>1 DEF AskActivate, Call, KnownOnly
<1>6. ASSUME NEW o \in Operators, RegisterActive(o) PROVE KnownOnly'
  <2>1. NextVersion \in Versions /\ status[NextVersion] = "none"
    BY <1>6, NextVersionIsFresh DEF RegisterActive
  <2>2. QED
    BY <1>6, <2>1 DEF RegisterActive, Call, KnownOnly
<1>7. ASSUME NEW p \in Processes, Promote(p) PROVE KnownOnly'
  <2>1. mine[p] \in Registered
    BY <1>7 DEF Promote, KnownOnly
  <2>2. QED
    BY <1>7, <2>1 DEF Promote, KnownOnly
<1>8. ASSUME NEW p \in Processes, Demote(p) PROVE KnownOnly'
  BY <1>8 DEF Demote, Demoted, ConnectionClosed, KnownOnly
<1>9. ASSUME NEW p \in Processes, Rollback(p) PROVE KnownOnly'
  <2>1. CASE PreviousVersion = 0
    BY <1>9, <2>1 DEF Rollback, KnownOnly
  <2>2. CASE PreviousVersion # 0
    <3>1. ActiveVersion \in Versions
      BY <2>2, PreviousIsRestorable DEF WithStatus
    <3>2. \A q \in Processes : at[q] # "demote"
      BY <1>9, ConstantsAssumption DEF Rollback
    <3>3. QED
      BY <1>9, <2>2, <3>1, <3>2 DEF Rollback, KnownOnly
  <2>3. QED
    BY <2>1, <2>2
<1>10. ASSUME NEW p \in Processes, Restore(p) PROVE KnownOnly'
  <2>1. mine[p] \in Versions
    BY <1>10 DEF Restore, RestoresLive
  <2>2. QED
    BY <1>10, <2>1 DEF Restore, ConnectionClosed, KnownOnly
<1>11. ASSUME NEW p \in Processes, Crash(p) PROVE KnownOnly'
  BY <1>11 DEF Crash, KnownOnly
<1>12. CASE UNCHANGED vars
  BY <1>12 DEF vars, local, KnownOnly
<1>13. QED
  BY <1>1, <1>2, <1>3, <1>4, <1>5, <1>6, <1>7, <1>8, <1>9, <1>10, <1>11, <1>12
     DEF Next, Train, ByHand, Change

\* Each pair of statements of activate_model() and rollback_model() leaves one active version
\* behind, and an active version between the two only while the call is under way.
LEMMA OneActiveIsKept ==
  ASSUME History, KnownOnly, OneActiveBetweenCalls, [Next]_vars
  PROVE  OneActiveBetweenCalls'
<1> USE DEF History, TypeOK, Goto, Idle, Processes, InTransaction
<1> DEFINE Act == WithStatus({"active"})
<1>0. ASSUME UNCHANGED <<status, con, live, torn>>,
             \A q \in Processes : at'[q] = "restore" => at[q] = "restore"
      PROVE  OneActiveBetweenCalls'
  BY <1>0 DEF OneActiveBetweenCalls, WithStatus
<1>1. ASSUME NEW t \in Trainers, GetActive(t) \/ SkipActive(t) \/ Gate(t) \/ CheckPasses(t) \/ CheckFails(t)
      PROVE  OneActiveBetweenCalls'
  BY <1>0, <1>1 DEF GetActive, SkipActive, Gate, CheckPasses, CheckFails
<1>2. ASSUME NEW t \in Trainers, Register(t) PROVE OneActiveBetweenCalls'
  <2>1. NextVersion \in Versions /\ status[NextVersion] = "none"
    BY <1>2, NextVersionIsFresh DEF Register, Registered
  <2>2. Act' = Act
    BY <1>2, <2>1 DEF Register, WithStatus
  <2>3. UNCHANGED <<con, live, torn>> /\ \A q \in Processes : at'[q] = "restore" => at[q] = "restore"
    BY <1>2 DEF Register
  <2>4. QED
    BY <2>2, <2>3 DEF OneActiveBetweenCalls
<1>3. ASSUME NEW o \in Operators, AskRollback(o) \/ \E v \in Versions : AskActivate(o, v)
      PROVE  OneActiveBetweenCalls'
  BY <1>0, <1>3 DEF AskRollback, AskActivate, Call
<1>4. ASSUME NEW p \in Processes, con' = p, at' = [at EXCEPT ![p] = "demote"] PROVE OneActiveBetweenCalls'
  BY <1>4, HistoryIsKept, ConstantsAssumption DEF OneActiveBetweenCalls
<1>5. ASSUME NEW o \in Operators, RegisterActive(o) PROVE OneActiveBetweenCalls'
  BY <1>4, <1>5 DEF RegisterActive
<1>6. ASSUME NEW p \in Processes, Promote(p) PROVE OneActiveBetweenCalls'
  BY <1>4, <1>6 DEF Promote
<1>7. ASSUME NEW p \in Processes, Demote(p) PROVE OneActiveBetweenCalls'
  <2>1. mine[p] \in Versions /\ Act' = {mine[p]}
    BY <1>7, DemotionLeavesOne
  <2>2. \A q \in Processes : at'[q] # "restore"
    BY <1>7, ConstantsAssumption DEF Demote
  <2>3. QED
    BY <2>1, <2>2 DEF OneActiveBetweenCalls
<1>8. ASSUME NEW p \in Processes, Rollback(p) PROVE OneActiveBetweenCalls'
  <2>1. CASE PreviousVersion = 0
    BY <1>0, <1>8, <2>1 DEF Rollback
  <2>2. CASE PreviousVersion # 0
    <3>1. ActiveVersion \in Act
      BY <2>2, PreviousIsRestorable
    <3>2. ASSUME ~torn PROVE Act' = {}
      <4>1. PICK v \in Versions : Act = {v}
        BY <1>8, <3>1, <3>2 DEF Rollback, OneActiveBetweenCalls
      <4>2. ActiveVersion = v
        BY <3>1, <4>1
      <4>3. \A w \in Versions : status[w] = "active" => w = ActiveVersion
        BY <4>1, <4>2 DEF WithStatus
      <4>4. status' = [status EXCEPT ![ActiveVersion] = "rolled_back"]
        BY <1>8, <2>2 DEF Rollback
      <4>5. QED
        BY <4>3, <4>4 DEF WithStatus
    <3>3. con' = p /\ torn' = torn
      BY <1>8, <2>2 DEF Rollback
    <3>4. QED
      BY <3>2, <3>3, ConstantsAssumption DEF OneActiveBetweenCalls
  <2>3. QED
    BY <2>1, <2>2
<1>9. ASSUME NEW p \in Processes, Restore(p) PROVE OneActiveBetweenCalls'
  <2>1. mine[p] \in Versions /\ status' = [status EXCEPT ![mine[p]] = "active"]
    BY <1>9 DEF Restore, RestoresLive
  <2>2. ASSUME ~torn PROVE Act' = {mine[p]}
    <3>1. \A w \in Versions : status[w] # "active"
      BY <1>9, <2>2 DEF Restore, OneActiveBetweenCalls, WithStatus
    <3>2. QED
      BY <2>1, <3>1 DEF WithStatus
  <2>3. torn' = torn /\ \A q \in Processes : at'[q] # "restore"
    BY <1>9, ConstantsAssumption DEF Restore
  <2>4. QED
    BY <2>1, <2>2, <2>3 DEF OneActiveBetweenCalls
<1>10. ASSUME NEW p \in Processes, Crash(p) PROVE OneActiveBetweenCalls'
  <2>1. CASE con = p
    BY <1>10, <2>1 DEF Crash, OneActiveBetweenCalls
  <2>2. CASE con # p
    BY <1>0, <1>10, <2>2 DEF Crash
  <2>3. QED
    BY <2>1, <2>2
<1>11. CASE UNCHANGED vars
  BY <1>0, <1>11 DEF vars, local
<1>12. QED
  BY <1>1, <1>2, <1>3, <1>5, <1>6, <1>7, <1>8, <1>9, <1>10, <1>11
     DEF Next, Train, ByHand, Change

\* "Exactly one version per model_name is ever active at a time", for any number of
\* trainers and operators that promote, register and roll back at once, as long as no
\* process dies inside a call and versions that do not exist are not asked for.
THEOREM OneVersionIsActive ==
  ASSUME ~StrayRequests
  PROVE  Spec => []OneActiveUnlessCrashed
<1>1. Init => KnownOnly /\ OneActiveBetweenCalls
  BY DEF Init, KnownOnly, OneActiveBetweenCalls, WithStatus
<1>2. NoStrays
  BY DEF NoStrays, AskActivate
<1>3. History /\ KnownOnly /\ OneActiveBetweenCalls /\ [Next]_vars
        => KnownOnly' /\ OneActiveBetweenCalls'
  BY <1>2, KnownIsKept, OneActiveIsKept
<1>4. OneActiveBetweenCalls => OneActiveUnlessCrashed
  <2> SUFFICES ASSUME OneActiveBetweenCalls, ~torn, con = Nobody, live # {}
               PROVE  Cardinality(WithStatus({"active"})) = 1
    BY DEF OneActiveUnlessCrashed, OneActiveVersion
  <2>1. PICK v \in Versions : WithStatus({"active"}) = {v}
    BY DEF OneActiveBetweenCalls
  <2>2. QED
    BY <2>1, FS_Singleton
<1>5. QED
  BY <1>1, <1>3, <1>4, HistoryHoldsInitially, HistoryIsKept, PTL DEF Spec

-----------------------------------------------------------------------------
(* A trainer on its own.                                                    *)

LoneTrainer == \E t \in Trainers : Trainers = {t}

\* What a trainer read before it opened its later connections still holds while it
\* is the only one that changes the registry.
ReadsStillHold ==
  calls = 0 =>
    /\ \A o \in Operators : at[o] = "idle"
    /\ \A t \in Trainers :
         /\ direction # "always" /\ at[t] \in {"register", "gate", "promote"} => active[t] = ActiveVersion
         /\ at[t] = "promote" => IsImprovement(mine[t], active[t])
         /\ at[t] \in {"check", "rollback"} => WithStatus({"active"}) = {mine[t]}

\* While nobody calls by hand, what the one trainer read stays true until it acts on it.
LEMMA ReadsAreKept ==
  ASSUME LoneTrainer, History, KnownOnly, ReadsStillHold, [Next]_vars
  PROVE  ReadsStillHold'
<1> USE DEF History, TypeOK, Goto, Idle, Processes, InTransaction
<1>0. PICK t \in Trainers : Trainers = {t}
  BY DEF LoneTrainer
<1> DEFINE Passed == IsImprovement(mine[t], active[t])
<1> SUFFICES ASSUME calls' = 0
               PROVE  /\ \A o \in Operators : at'[o] = "idle"
                      /\ direction' # "always" /\ at'[t] \in {"register", "gate", "promote"}
                           => active'[t] = ActiveVersion'
                      /\ at'[t] = "promote" => Passed'
                      /\ at'[t] \in {"check", "rollback"} => WithStatus({"active"})' = {mine'[t]}
  BY <1>0 DEF ReadsStillHold
<1>a. t \notin Operators
  BY ConstantsAssumption
<1>b. ASSUME calls = 0
      PROVE  /\ \A o \in Operators : at[o] = "idle"
             /\ direction # "always" /\ at[t] \in {"register", "gate", "promote"} => active[t] = ActiveVersion
             /\ at[t] = "promote" => Passed
             /\ at[t] \in {"check", "rollback"} => WithStatus({"active"}) = {mine[t]}
  BY <1>b DEF ReadsStillHold
<1>c. UNCHANGED status => WithStatus({"active"})' = WithStatus({"active"}) /\ ActiveVersion' = ActiveVersion
  BY DEF WithStatus, ActiveVersion
<1> HIDE DEF Passed
<1>1. CASE GetActive(t) \/ SkipActive(t)
  BY <1>1, <1>a, <1>b, <1>c DEF GetActive, SkipActive
<1>2. CASE Register(t)
  <2>1. NextVersion \in Versions /\ status[NextVersion] = "none"
    BY <1>2, NextVersionIsFresh DEF Register, Registered
  <2>2. WithStatus({"active"})' = WithStatus({"active"})
    BY <1>2, <2>1 DEF Register, WithStatus
  <2>3. ActiveVersion' = ActiveVersion
    BY <2>2 DEF ActiveVersion
  <2>4. QED
    BY <1>2, <1>a, <1>b, <2>3 DEF Register
<1>3. CASE Gate(t)
  <2>1. UNCHANGED <<direction, status, score, calls>> /\ at[t] = "gate"
    BY <1>3 DEF Gate
  <2>2. \A o \in Operators : at'[o] = at[o]
    BY <1>3, <1>a DEF Gate
  <2>3. CASE IsImprovement(mine[t], active[t])
    <3>1. UNCHANGED <<mine, active>> /\ at'[t] = "promote"
      BY <1>3, <2>3 DEF Gate
    <3>2. Passed'
      BY <2>1, <2>3, <3>1 DEF Passed, IsImprovement, ClearlyBetter, Gain, Magnitude
    <3>3. QED
      BY <1>b, <1>c, <2>1, <2>2, <3>1, <3>2
  <2>4. CASE ~IsImprovement(mine[t], active[t])
    <3>1. at'[t] = "idle"
      BY <1>3, <2>4 DEF Gate
    <3>2. QED
      BY <1>b, <2>1, <2>2, <3>1
  <2>5. QED
    BY <2>3, <2>4
<1>4. CASE CheckPasses(t) \/ CheckFails(t)
  BY <1>4, <1>a, <1>b, <1>c DEF CheckPasses, CheckFails
<1>5. ASSUME NEW o \in Operators, ByHand(o) PROVE calls' # 0
  BY <1>5 DEF ByHand, AskRollback, AskActivate, RegisterActive, Call
<1>6. ASSUME NEW p \in Processes, Change(p) \/ Crash(p) PROVE p = t
  <2>1. calls = 0 /\ at[p] # "idle"
    BY <1>6 DEF Change, Promote, Demote, Rollback, Restore, Crash
  <2>2. QED
    BY <1>0, <1>b, <2>1
<1>7. CASE Promote(t) \/ Restore(t) \/ Crash(t)
  BY <1>7, <1>a, <1>b DEF Promote, Restore, Crash
<1>8. CASE Demote(t)
  <2>1. WithStatus({"active"})' = {mine[t]}
    BY <1>8, DemotionLeavesOne
  <2>2. at'[t] = "check" /\ UNCHANGED <<mine, calls>> /\ \A o \in Operators : at'[o] = at[o]
    BY <1>8, <1>a DEF Demote
  <2>3. QED
    BY <1>b, <2>1, <2>2
<1>9. CASE Rollback(t)
  <2>1. at'[t] \in {"idle", "restore"} /\ UNCHANGED calls /\ \A o \in Operators : at'[o] = at[o]
    BY <1>9, <1>a DEF Rollback
  <2>2. QED
    BY <1>b, <2>1
<1>10. CASE UNCHANGED vars
  <2>1. UNCHANGED <<direction, status, score, at, mine, active, calls>>
    BY <1>10 DEF vars, local
  <2>2. Passed' <=> Passed
    BY <2>1 DEF Passed, IsImprovement, ClearlyBetter, Gain, Magnitude
  <2>3. QED
    BY <1>b, <1>c, <2>1, <2>2
<1>11. (\E u \in Trainers : Train(u)) => GetActive(t) \/ SkipActive(t) \/ Register(t) \/ Gate(t) \/ CheckPasses(t) \/ CheckFails(t)
  BY <1>0 DEF Train
<1>12. (\E p \in Processes : Change(p) \/ Crash(p))
         => Promote(t) \/ Restore(t) \/ Crash(t) \/ Demote(t) \/ Rollback(t)
  BY <1>6 DEF Change
<1>13. QED
  BY <1>1, <1>2, <1>3, <1>4, <1>5, <1>7, <1>8, <1>9, <1>10, <1>11, <1>12 DEF Next

\* An improvement is not worse: the margin of the gate is never negative.
LEMMA ImprovementIsAsGood ==
  ASSUME TypeOK, NEW v \in Versions, NEW a \in Versions, direction # "always", IsImprovement(v, a)
  PROVE  AtLeastAsGood(v, a)
<1>1. a # 0 /\ score[v] # Unscored /\ score[v] \in Scores
  BY ConstantsAssumption DEF IsImprovement, Versions, TypeOK
<1>2. CASE score[a] = Unscored
  BY <1>1, <1>2 DEF AtLeastAsGood
<1>3. CASE score[a] # Unscored
  <2>1. score[a] \in Int /\ score[v] \in Int /\ MinPercent \in Nat
    BY <1>1, <1>3, ConstantsAssumption DEF TypeOK
  <2> DEFINE gain == Gain(v, a)
             margin == MinPercent * Magnitude(score[a])
  <2>2. gain * 100 >= margin
    BY <1>1, <1>3 DEF IsImprovement, ClearlyBetter
  <2>3. Magnitude(score[a]) \in Nat
    BY <2>1 DEF Magnitude
  <2>4. margin \in Nat
    <3>1. \A i, j \in Nat : i * j \in Nat
      OBVIOUS
    <3>2. QED
      BY <2>1, <2>3, <3>1
  <2>5. gain \in Int
    BY <2>1 DEF Gain
  <2>6. gain >= 0
    <3> HIDE DEF gain, margin
    <3>1. QED
      BY ONLY <2>2, <2>4, <2>5
  <2>7. QED
    BY <1>1, <2>6 DEF AtLeastAsGood
<1>4. QED
  BY <1>2, <1>3

Alone == History /\ KnownOnly /\ ReadsStillHold

\* The three parts hold together along every behaviour of one trainer.
LEMMA AloneHolds ==
  ASSUME ~StrayRequests, LoneTrainer
  PROVE  Spec => []Alone
<1>1. Init => KnownOnly /\ ReadsStillHold
  BY DEF Init, KnownOnly, ReadsStillHold, Processes
<1>2. NoStrays
  BY DEF NoStrays, AskActivate
<1>3. Alone /\ [Next]_vars => Alone'
  BY <1>2, HistoryIsKept, KnownIsKept, ReadsAreKept DEF Alone
<1>4. QED
  BY <1>1, <1>3, HistoryHoldsInitially, PTL DEF Spec, Alone

\* A trainer on its own never replaces the active version by one that was not measured
\* or is worse, for any scores, margin, direction and crashes.
THEOREM PromotionsImprove ==
  ASSUME ~StrayRequests, LoneTrainer
  PROVE  Spec => PromotionImproves
<1>1. ASSUME Alone, NEW t \in Trainers, direction # "always", calls = 0, Promote(t),
             ActiveVersion # 0
      PROVE  AtLeastAsGood(mine[t], ActiveVersion)
  <2>1. at[t] = "promote" /\ t \in Processes
    BY <1>1 DEF Promote, Processes
  <2>2. mine[t] \in Versions /\ active[t] = ActiveVersion /\ IsImprovement(mine[t], ActiveVersion)
    BY <1>1, <2>1 DEF Alone, KnownOnly, Registered, ReadsStillHold
  <2>3. ActiveVersion \in Versions
    BY <1>1, ActiveVersionIsActive DEF WithStatus
  <2>4. QED
    BY <1>1, <2>2, <2>3, ImprovementIsAsGood DEF Alone, History
<1>2. Alone /\ [Next]_vars =>
        [\A t \in Trainers : direction # "always" /\ calls = 0 /\ Promote(t) /\ ActiveVersion # 0
                               => AtLeastAsGood(mine[t], ActiveVersion)]_vars
  BY <1>1
<1>3. QED
  BY <1>2, AloneHolds, PTL DEF Spec, PromotionImproves

\* A rollback restores only a version that was active before; and a trainer on its own
\* takes back the version that failed its check, and no other.
THEOREM RollbacksAreSafe ==
  ASSUME ~StrayRequests, LoneTrainer
  PROVE  Spec => RollbackIsSafe
<1>1. Alone /\ [Next]_vars => [\A p \in Processes : Restore(p) => mine[p] \in live]_vars
  BY DEF Alone, History, RestoresLive, Restore
<1>2. ASSUME Alone, NEW t \in Trainers, calls = 0, Rollback(t), at'[t] = "restore"
      PROVE  status'[mine[t]] = "rolled_back"
  <2>1. at[t] = "rollback" /\ t \in Processes
    BY <1>2 DEF Rollback, Processes
  <2>2. WithStatus({"active"}) = {mine[t]}
    BY <1>2, <2>1 DEF Alone, ReadsStillHold
  <2>3. ActiveVersion = mine[t] /\ mine[t] \in Versions
    BY <2>2, ActiveVersionIsActive DEF WithStatus
  <2>4. PreviousVersion # 0
    BY <1>2, <2>1 DEF Rollback, Idle, Goto, Alone, History, TypeOK
  <2>5. QED
    BY <1>2, <2>3, <2>4 DEF Rollback, Alone, History, TypeOK
<1>3. Alone /\ [Next]_vars =>
        [\A t \in Trainers : calls = 0 /\ Rollback(t) /\ at'[t] = "restore"
                               => status'[mine[t]] = "rolled_back"]_vars
  BY <1>2
<1>4. QED
  BY <1>1, <1>3, AloneHolds, PTL
     DEF Spec, RollbackIsSafe, RollbackOnlyToLiveVersions, RollbackHitsOwnVersion
================================================================================
