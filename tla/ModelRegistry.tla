----------------------------- MODULE ModelRegistry -----------------------------
(***************************************************************************)
(* ml/registry.py and orchestration/ml_training_flow.py: the versions of   *)
(* one model_name, the promotion gate, the sanity check after activation   *)
(* and the rollback.  Each registry function opens its own connection to   *)
(* the single-writer warehouse, and every statement it executes commits on *)
(* its own.                                                                *)
(***************************************************************************)
EXTENDS Integers, FiniteSets, FiniteSetsExt

CONSTANTS
  Trainers,      \* processes of ml_training_flow.py
  Operators,     \* people and code that call the registry by hand
  Nobody,        \* no connection holds the warehouse
  MaxVersions,   \* bound: versions registered
  Scores,        \* values of the compared metric
  Unscored,      \* the metric could not be evaluated
  Directions,    \* those of PROMOTION_DIRECTIONS that are considered
  MinPercent,    \* min_relative_improvement, in percent
  StrayRequests, \* do operators name versions that do not exist?
  MaxCalls,      \* bound: calls by hand
  MaxCrashes     \* bound: processes that die

Versions == 1..MaxVersions
Processes == Trainers \cup Operators

ASSUME ConstantsAssumption ==
  /\ Trainers \cap Operators = {} /\ Nobody \notin Processes
  /\ MaxVersions \in Nat /\ MaxCalls \in Nat /\ MaxCrashes \in Nat /\ MinPercent \in Nat
  /\ Scores \subseteq Int /\ Unscored \notin Scores
  /\ Directions \subseteq {"higher_better", "lower_better", "always"} /\ StrayRequests \in BOOLEAN

VARIABLES
  direction, \* how PROMOTION_DIRECTIONS compares versions of this model_name
  status,  \* status[v]: "none" while version v is not registered
  score,   \* score[v]: the metric v was registered with
  con,     \* the process whose connection holds the warehouse
  at,      \* what each process is about to do
  mine,    \* mine[p]: the version p is promoting or restoring
  active,  \* active[p]: get_active_model() as p read it, 0 for None
  live,    \* history: versions that have been active
  calls,   \* history: calls by hand so far
  torn,    \* history: a process died inside a registry call
  crashes

local == <<at, mine, active>>
vars  == <<direction, status, score, con, local, live, calls, torn, crashes>>

Statuses == {"none", "inactive", "active", "superseded", "rolled_back"}
InTransaction == {"demote", "restore"}

TypeOK ==
  /\ direction \in Directions
  /\ status \in [Versions -> Statuses]
  /\ score \in [Versions -> Scores \cup {Unscored}]
  /\ con \in Processes \cup {Nobody}
  /\ at \in [Processes -> InTransaction \cup {"idle", "register", "gate", "promote", "check", "rollback"}]
  /\ \A p \in Processes : con = p <=> at[p] \in InTransaction
  /\ mine \in [Processes -> 0..MaxVersions]
  /\ active \in [Processes -> 0..MaxVersions]
  /\ live \in SUBSET Versions
  /\ calls \in 0..MaxCalls
  /\ torn \in BOOLEAN
  /\ crashes \in 0..MaxCrashes

Init ==
  /\ direction \in Directions
  /\ status = [v \in Versions |-> "none"]
  /\ score = [v \in Versions |-> Unscored]
  /\ con = Nobody
  /\ at = [p \in Processes |-> "idle"]
  /\ mine = [p \in Processes |-> 0]
  /\ active = [p \in Processes |-> 0]
  /\ live = {}
  /\ calls = 0
  /\ torn = FALSE
  /\ crashes = 0

-----------------------------------------------------------------------------
Registered == {v \in Versions : status[v] # "none"}
WithStatus(S) == {v \in Versions : status[v] \in S}
Latest(S) == Max(S \cup {0})
ActiveVersion == Latest(WithStatus({"active"}))
NextVersion == Latest(Registered) + 1

Goto(p, place) == at' = [at EXCEPT ![p] = place]
Idle(p) ==
  /\ Goto(p, "idle")
  /\ mine' = [mine EXCEPT ![p] = 0]
  /\ active' = [active EXCEPT ![p] = 0]

Magnitude(x) == IF x = 0 THEN 1 ELSE IF x < 0 THEN -x ELSE x

\* How much better v did than a.
Gain(v, a) == IF direction = "lower_better" THEN score[a] - score[v] ELSE score[v] - score[a]
ClearlyBetter(v, a) == Gain(v, a) * 100 >= MinPercent * Magnitude(score[a])

\* _is_improvement(): v against the version that was read as active, a.
ImprovesWhenUnscored(v, a) ==
  \/ direction = "always" \/ a = 0
  \/ score[v] = Unscored \/ score[a] = Unscored \/ ClearlyBetter(v, a)
IsImprovement(v, a) ==
  \/ direction = "always"
  \/ a = 0
  \/ score[v] # Unscored /\ (score[a] = Unscored \/ ClearlyBetter(v, a))

-----------------------------------------------------------------------------
(* One trainer: read the active version, register, gate, activate, check.  A *)
(* tenant's own model is trained in the same steps, without a margin and     *)
(* without a rollback.                                                       *)

GetActive(t) ==
  /\ at[t] = "idle" /\ con = Nobody
  /\ direction # "always"
  /\ active' = [active EXCEPT ![t] = ActiveVersion]
  /\ Goto(t, "register")
  /\ UNCHANGED <<direction, torn, status, score, con, mine, live, calls, crashes>>

\* The trainer of the recommendations has nothing to compare with.
SkipActive(t) ==
  /\ at[t] = "idle"
  /\ direction = "always"
  /\ Goto(t, "register")
  /\ UNCHANGED <<direction, torn, status, score, con, mine, active, live, calls, crashes>>

\* register_model(activate=False) with the metrics evaluated for this version.
Register(t) ==
  /\ at[t] = "register" /\ con = Nobody
  /\ NextVersion =< MaxVersions
  /\ status' = [status EXCEPT ![NextVersion] = "inactive"]
  /\ \E s \in Scores \cup {Unscored} : score' = [score EXCEPT ![NextVersion] = s]
  /\ mine' = [mine EXCEPT ![t] = NextVersion]
  /\ Goto(t, "gate")
  /\ UNCHANGED <<direction, torn, con, active, live, calls, crashes>>

GateWithoutReturn(t) ==
  /\ at[t] = "gate"
  /\ Goto(t, IF IsImprovement(mine[t], active[t]) THEN "promote" ELSE "check")
  /\ UNCHANGED <<direction, torn, status, score, con, mine, active, live, calls, crashes>>

\* The promotion gate: a version that does not pass it is left inactive.  There is none
\* before the recommendations are activated.
Gate(t) ==
  /\ at[t] = "gate"
  /\ IF IsImprovement(mine[t], active[t]) THEN Goto(t, "promote") /\ UNCHANGED <<mine, active>>
                                           ELSE Idle(t)
  /\ UNCHANGED <<direction, torn, status, score, con, live, calls, crashes>>

\* activate_model(), first statement; it touches no row for an unknown version.
Promote(p) ==
  /\ at[p] = "promote" /\ con = Nobody
  /\ con' = p
  /\ IF mine[p] \in Registered
     THEN /\ status' = [status EXCEPT ![mine[p]] = "active"]
          /\ live' = live \cup {mine[p]}
     ELSE UNCHANGED <<status, live>>
  /\ Goto(p, "demote")
  /\ UNCHANGED <<direction, torn, score, mine, active, calls, crashes>>

DemotedNobody(p) == status
Demoted(p) ==
  [v \in Versions |-> IF v # mine[p] /\ status[v] = "active" THEN "superseded" ELSE status[v]]

ConnectionClosed == Nobody

\* _deactivate_other_versions(), and the with block closes the connection.
Demote(p) ==
  /\ at[p] = "demote"
  /\ status' = Demoted(p)
  /\ con' = ConnectionClosed
  /\ IF p \in Trainers THEN Goto(p, "check") /\ UNCHANGED <<mine, active>> ELSE Idle(p)
  /\ UNCHANGED <<direction, torn, score, live, calls, crashes>>

CheckPasses(t) ==
  /\ at[t] = "check"
  /\ Idle(t)
  /\ UNCHANGED <<direction, torn, status, score, con, live, calls, crashes>>

CheckFails(t) ==
  /\ at[t] = "check"
  /\ Goto(t, "rollback")
  /\ UNCHANGED <<direction, torn, status, score, con, mine, active, live, calls, crashes>>

-----------------------------------------------------------------------------
(* rollback_model()                                                         *)

RestorableAny == Registered \ WithStatus({"active"})
Restorable == WithStatus({"superseded", "rolled_back"})
PreviousVersion == Latest({v \in Restorable : v < ActiveVersion})

\* Both selects and the first update; without a target nothing changes.
Rollback(p) ==
  /\ con = Nobody
  /\ at[p] = "rollback"
  /\ IF PreviousVersion = 0
     THEN Idle(p) /\ UNCHANGED <<status, con>>
     ELSE /\ status' = [status EXCEPT ![ActiveVersion] = "rolled_back"]
          /\ mine' = [mine EXCEPT ![p] = PreviousVersion]
          /\ con' = p
          /\ Goto(p, "restore")
          /\ UNCHANGED active
  /\ UNCHANGED <<direction, torn, score, live, calls, crashes>>

Restore(p) ==
  /\ at[p] = "restore"
  /\ status' = [status EXCEPT ![mine[p]] = "active"]
  /\ live' = live \cup {mine[p]}
  /\ con' = ConnectionClosed
  /\ Idle(p)
  /\ UNCHANGED <<direction, torn, score, calls, crashes>>

-----------------------------------------------------------------------------
(* Calls by hand, and crashes.                                              *)

Call == calls < MaxCalls /\ calls' = calls + 1

AskActivate(o, v) ==
  /\ at[o] = "idle" /\ Call
  /\ v \in Registered \/ StrayRequests
  /\ mine' = [mine EXCEPT ![o] = v]
  /\ Goto(o, "promote")
  /\ UNCHANGED <<direction, torn, status, score, con, active, live, crashes>>

AskRollback(o) ==
  /\ at[o] = "idle" /\ Call
  /\ Goto(o, "rollback")
  /\ UNCHANGED <<direction, torn, status, score, con, mine, active, live, crashes>>

\* register_model(activate=True): insert as active, then demote the others.
RegisterActive(o) ==
  /\ at[o] = "idle" /\ con = Nobody /\ Call
  /\ NextVersion =< MaxVersions
  /\ status' = [status EXCEPT ![NextVersion] = "active"]
  /\ \E s \in Scores \cup {Unscored} : score' = [score EXCEPT ![NextVersion] = s]
  /\ mine' = [mine EXCEPT ![o] = NextVersion]
  /\ live' = live \cup {NextVersion}
  /\ con' = o
  /\ Goto(o, "demote")
  /\ UNCHANGED <<direction, torn, active, crashes>>

\* A process dies; what its statements committed stays.
Crash(p) ==
  /\ crashes < MaxCrashes
  /\ crashes' = crashes + 1
  /\ at[p] # "idle"
  /\ con' = IF con = p THEN Nobody ELSE con
  /\ torn' = (torn \/ con = p)
  /\ Idle(p)
  /\ UNCHANGED <<direction, status, score, live, calls>>

-----------------------------------------------------------------------------
Train(t) ==
  GetActive(t) \/ SkipActive(t) \/ Register(t) \/ Gate(t) \/ CheckPasses(t) \/ CheckFails(t)
ByHand(o) ==
  AskRollback(o) \/ RegisterActive(o) \/ \E v \in Versions : AskActivate(o, v)
Change(p) == Promote(p) \/ Demote(p) \/ Rollback(p) \/ Restore(p)

Next ==
  \/ \E t \in Trainers : Train(t)
  \/ \E o \in Operators : ByHand(o)
  \/ \E p \in Processes : Change(p) \/ Crash(p)

Spec == Init /\ [][Next]_vars

-----------------------------------------------------------------------------
(* Properties.                                                              *)

\* "Exactly one version per model_name is ever active at a time": as soon as one
\* has been, exactly one is whenever no registry call is under way, although
\* calls consist of statements that commit one by one.
OneActiveVersion ==
  con = Nobody /\ live # {} => Cardinality(WithStatus({"active"})) = 1

\* The same until a process dies between the two statements of a call: a death anywhere
\* else, between the calls of a training run, leaves the registry sound.
OneActiveUnlessCrashed == ~torn => OneActiveVersion

\* The status column tells the versions that have been active from those that
\* were registered and never promoted: rollback_model() rests on it.
StatusTellsHistory ==
  \A v \in Versions : v \in live <=> status[v] \in {"active", "superseded", "rolled_back"}

\* A rollback never makes a version active that was never active before, which
\* "would be no safer than the version that just failed".
RollbackOnlyToLiveVersions ==
  [][\A p \in Processes : Restore(p) => mine[p] \in live]_vars

\* Not worse, and measured.
AtLeastAsGood(v, a) ==
  /\ score[v] # Unscored
  /\ score[a] # Unscored => Gain(v, a) >= 0

\* A lone trainer of a model whose versions are compared replaces an active version
\* only by one that was measured and is not worse, although several connections lie
\* between the read of the active version and the activation, and earlier versions were
\* rolled back or left half-activated by a crash.
PromotionImproves ==
  [][\A t \in Trainers :
       direction # "always" /\ calls = 0 /\ Promote(t) /\ ActiveVersion # 0
         => AtLeastAsGood(mine[t], ActiveVersion)]_vars

\* A lone trainer whose version failed its check rolls that version back, and not
\* another one that rollback_model() finds active.
RollbackHitsOwnVersion ==
  [][\A t \in Trainers :
       calls = 0 /\ Rollback(t) /\ at'[t] = "restore" => status'[mine[t]] = "rolled_back"]_vars

\* A rollback takes back what its caller meant, and puts nothing untried in its place.
RollbackIsSafe == RollbackOnlyToLiveVersions /\ RollbackHitsOwnVersion
===============================================================================
