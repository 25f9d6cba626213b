---------------------------- MODULE SimulationProofs ----------------------------
(***************************************************************************)
(* Proofs about Simulation, for any jobs, warehouses, rebuilds and faults.  *)
(***************************************************************************)
EXTENDS Simulation, FiniteSetTheorems, FunctionTheorems, NaturalsInduction, TLAPS

\* Where a job is at a spec of its list, by what the spec is.
ScenarioPlaces == {"baseline_pairs", "scenario_pairs"}
PastPlaces == {"orders", "anomaly", "actual_dims", "other_dims", "actual_pairs", "other_pairs"}
SpecPlaces == ScenarioPlaces \cup PastPlaces \cup {"row", "edge", "failed", "record"}

\* Where a job is tells which one it is and how far it has come.
JobInv ==
  /\ at \in {"idle", "load", "project", "done"} \cup SpecPlaces
  /\ next \in Nat \ {0} /\ faults \in 0..MaxFaults
  /\ at = "idle" => next = 1 /\ job = None
  /\ at # "idle" => job \in Jobs
  /\ at \in {"project", "failed", "record"} => IsBatch
  /\ at \in {"load", "project"} => next = 1
  /\ at \in SpecPlaces => next =< Len(job.specs)
  /\ at # "idle" /\ ~IsBatch => next = 1
  /\ at = "done" /\ IsBatch /\ faults = 0 => next = Len(job.specs) + 1
  /\ at \in ScenarioPlaces \/ (at = "load" /\ ~IsBatch) => Current.type \in ScenarioTypes
  /\ at \in PastPlaces => Current.type \in CounterfactualTypes

\* What has been written for the spec the job is at.
CurrentTold ==
  /\ at \in {"row", "edge"} => result # NoResult
  /\ at = "edge" => next \in DOMAIN rows
  /\ at = "failed" => result = NoResult
  /\ next \in edges => at \in {"record", "done"} /\ next \in DOMAIN rows
  /\ at = "record" => (result # NoResult <=> next \in edges)
  /\ next \in DOMAIN rows /\ next \notin edges => at = "edge" \/ (at \in {"failed", "record", "done"} /\ faults > 0)
  /\ next \in alerts => at \in {"record", "done"} /\ next \notin edges
  /\ next \notin DOMAIN log

\* What has been written for the specs before it, and nothing for those after it.
PastTold ==
  /\ \A i \in DOMAIN rows \cup DOMAIN log \cup edges \cup alerts : i \in 1..next
  /\ at \in {"idle", "load", "project"} => rows = [i \in {} |-> None] /\ edges = {}
  /\ \A i \in DOMAIN log : log[i] \in {"success", "failed"} /\ (log[i] = "success" <=> i \in edges)
  /\ \A i \in DOMAIN log : log[i] = "failed" /\ i \in DOMAIN rows => faults > 0
  /\ \A i \in alerts : i \notin edges
  /\ edges \subseteq DOMAIN rows
  /\ faults = 0 => \A i \in 1..(next - 1) : i \in DOMAIN log

AnswerTold == answer = "ok" => at = "done" /\ (IsBatch \/ 1 \in edges)

RunsInv == JobInv /\ CurrentTold /\ PastTold /\ AnswerTold

-----------------------------------------------------------------------------
\* The next spec of a list opens with the first read of a scenario or a counterfactual.
LEMMA Opens ==
  ASSUME job \in Jobs, NEW i \in Nat \ {0}
  PROVE  /\ i > Len(job.specs) => Opening(i) = "done"
         /\ i =< Len(job.specs) =>
              \/ Opening(i) = "baseline_pairs" /\ job.specs[i].type \in ScenarioTypes
              \/ Opening(i) = "orders" /\ job.specs[i].type \in CounterfactualTypes
<1>1. job.specs \in Seq(ToSet(job.specs))
  BY SimulationAssumption
<1>2. Len(job.specs) \in Nat /\ DOMAIN job.specs = 1..Len(job.specs)
  BY <1>1
<1>3. i =< Len(job.specs) => job.specs[i].type \in ScenarioTypes \cup CounterfactualTypes
  BY <1>2, SimulationAssumption
<1>4. QED
  BY <1>2, <1>3 DEF Opening

\* How many specs a job has: an endpoint call has one.
LEMMA SpecsAreFew ==
  ASSUME job \in Jobs
  PROVE  Len(job.specs) \in Nat /\ DOMAIN job.specs = 1..Len(job.specs) /\ (~IsBatch => Len(job.specs) = 1)
<1>1. job.specs \in Seq(ToSet(job.specs))
  BY SimulationAssumption
<1>2. QED
  BY <1>1, SimulationAssumption DEF IsBatch

\* Whether a read fails or not, it counts.
LEMMA ReadsCount ==
  ASSUME faults \in 0..MaxFaults, Granted \/ Refused
  PROVE  faults' \in 0..MaxFaults /\ faults' >= faults /\ (Refused => faults' > 0) /\ (Granted => faults' = faults)
BY SimulationAssumption DEF Granted, Refused, bounds

\* Before a job is received nothing is written.
LEMMA RunsInitially == Init => RunsInv
BY SimulationAssumption DEF Init, RunsInv, JobInv, CurrentTold, PastTold, AnswerTold, SpecPlaces, ScenarioPlaces,
   PastPlaces, NoResult

\* A step inside a spec that writes nothing.
Inside ==
  /\ at \in ScenarioPlaces \cup PastPlaces
  /\ \/ at \in ScenarioPlaces /\ at' \in ScenarioPlaces
     \/ at \in PastPlaces /\ at' \in PastPlaces
     \/ at' = "row" /\ result' # NoResult
  /\ UNCHANGED <<job, next, rows, edges, log, alerts, answer>>
  /\ faults' \in 0..MaxFaults /\ faults' >= faults

\* A spec that raises, before its row is written or after.
Fails ==
  /\ at \in SpecPlaces \ {"failed", "record"}
  /\ IF IsBatch THEN at' = "failed" /\ UNCHANGED answer ELSE at' = "done" /\ answer' = "failed"
  /\ result' = NoResult
  /\ UNCHANGED <<job, next, rows, edges, log, alerts>>
  /\ faults' \in 0..MaxFaults /\ faults' >= faults
  /\ at \in {"row", "edge"} => faults' > 0

\* A step inside a spec leaves what is written and recorded alone.
LEMMA InsideKeeps ==
  ASSUME RunsInv, Inside
  PROVE  RunsInv'
<1> USE DEF RunsInv, Inside, ScenarioPlaces, PastPlaces, SpecPlaces
<1>1. (IsBatch' <=> IsBatch) /\ Current' = Current
  BY DEF IsBatch, Current
<1>2. JobInv'
  BY <1>1 DEF JobInv
<1>3. CurrentTold'
  BY DEF CurrentTold
<1>4. PastTold'
  BY DEF PastTold, JobInv
<1>5. AnswerTold'
  BY <1>1 DEF AnswerTold
<1>6. QED
  BY <1>2, <1>3, <1>4, <1>5

\* A spec that raises ends its endpoint call, or goes on to the alert of its batch.
LEMMA FailsKeeps ==
  ASSUME RunsInv, Fails
  PROVE  RunsInv'
<1> USE DEF RunsInv, Fails, ScenarioPlaces, PastPlaces, SpecPlaces
<1>1. (IsBatch' <=> IsBatch) /\ Current' = Current
  BY DEF IsBatch, Current
<1>2. JobInv'
  BY <1>1 DEF JobInv
<1>3. CurrentTold'
  BY DEF CurrentTold, JobInv, NoResult
<1>4. PastTold'
  BY DEF PastTold, JobInv
<1>5. AnswerTold'
  BY <1>1, SimulationAssumption DEF AnswerTold
<1>6. QED
  BY <1>2, <1>3, <1>4, <1>5

\* The reads of a spec go on inside it or fail it.
LEMMA ReadsStayInside ==
  ASSUME RunsInv,
         \/ ReadBaselinePairs \/ RunScenario \/ ReadOrders \/ FindAnomaly
         \/ ReadActualDims \/ ReadOtherDims \/ ReadActualPairs \/ ReplayBoth
  PROVE  Inside \/ Fails
<1> USE DEF ScenarioPlaces, PastPlaces, SpecPlaces, Goto, Here, Reads, writes
<1>a. faults \in 0..MaxFaults
  BY DEF RunsInv, JobInv
<1>1. CASE ReadBaselinePairs
  BY <1>a, <1>1, ReadsCount DEF ReadBaselinePairs, Inside
<1>2. CASE RunScenario
  <2>1. PICK pairs \in {Pairs, NoPairs} :
          /\ Reads(pairs, Pairs, NoPairs)
          /\ IF Unknown(Current, twin) THEN Raise
             ELSE /\ result' = [baseline |-> saw.baseline, scenario |-> pairs,
                       ends |-> <<BaselineBranch(twin, saw.baseline, job.overrides, Current, job.ticks),
                                  ScenarioBranch(twin, pairs, job.overrides, Current, job.ticks)>>]
                  /\ Goto("row") /\ UNCHANGED <<rows, edges, answer>>
    BY <1>2 DEF RunScenario
  <2>2. CASE Unknown(Current, twin)
    BY <1>a, <1>2, <2>1, <2>2, ReadsCount DEF RunScenario, Raise, Fails
  <2>3. CASE ~Unknown(Current, twin)
    <3>1. DOMAIN result' = {"baseline", "scenario", "ends"}
      BY <2>1, <2>3
    <3>2. result' # NoResult
      BY <3>1 DEF NoResult
    <3>3. QED
      BY <1>a, <1>2, <2>1, <2>3, <3>2, ReadsCount DEF RunScenario, Inside
  <2>4. QED
    BY <2>2, <2>3
<1>3. CASE ReadOrders
  BY <1>a, <1>3, ReadsCount DEF ReadOrders, Inside
<1>4. CASE FindAnomaly
  BY <1>a, <1>4, ReadsCount DEF FindAnomaly, Inside, Raise, Fails
<1>5. CASE ReadActualDims
  BY <1>a, <1>5, ReadsCount DEF ReadActualDims, Inside
<1>6. ASSUME NEW dims, NEW pairs, NEW others, result' = Compared(dims, pairs, others)
      PROVE  result' # NoResult
  <2>1. DOMAIN result' = {"actual", "other", "affected", "retailers", "products", "dims", "same", "ends"}
    BY <1>6 DEF Compared
  <2>2. QED
    BY <2>1 DEF NoResult
<1>7. CASE ReadOtherDims
  BY <1>a, <1>6, <1>7, ReadsCount DEF ReadOtherDims, Inside
<1>8. CASE ReadActualPairs
  BY <1>a, <1>8, ReadsCount DEF ReadActualPairs, Inside
<1>9. CASE ReplayBoth
  BY <1>a, <1>6, <1>9, ReadsCount DEF ReplayBoth, Inside
<1>10. QED
  BY <1>1, <1>2, <1>3, <1>4, <1>5, <1>7, <1>8, <1>9

\* The head of a job: it starts with its first spec, with nothing written.
LEMMA HeadKeeps ==
  ASSUME RunsInv, Receive \/ LoadTwin \/ Project
  PROVE  RunsInv'
<1> USE DEF RunsInv, ScenarioPlaces, PastPlaces, SpecPlaces, Goto, Here, Reads, writes, reads
<1>a. faults \in 0..MaxFaults
  BY DEF JobInv
<1>1. CASE Receive
  <2>1. job' \in Jobs /\ next' = 1 /\ UNCHANGED <<rows, edges, log, alerts, answer, result, faults>>
    BY <1>1 DEF Receive, JobInv, bounds
  <2>2. job'.specs \in Seq(ToSet(job'.specs)) /\ (job'.kind # "batch" => Len(job'.specs) = 1)
    BY <2>1, SimulationAssumption
  <2>3. Len(job'.specs) \in Nat /\ DOMAIN job'.specs = 1..Len(job'.specs)
    BY <2>2
  <2>4. ~IsBatch' => job'.specs[1].type \in ScenarioTypes \cup CounterfactualTypes
    BY <2>1, <2>2, <2>3, SimulationAssumption DEF IsBatch
  <2>5. \/ at' = "load" /\ (IsBatch' \/ job'.specs[1].type \in ScenarioTypes)
        \/ at' = "orders" /\ ~IsBatch' /\ job'.specs[1].type \notin ScenarioTypes
    BY <1>1 DEF Receive, IsBatch
  <2>6. JobInv'
    BY <1>1, <2>1, <2>2, <2>3, <2>4, <2>5 DEF JobInv, IsBatch, Current
  <2>7. CurrentTold' /\ PastTold' /\ AnswerTold'
    BY <1>1, <2>1, <2>5 DEF Receive, CurrentTold, PastTold, AnswerTold, JobInv
  <2>8. QED
    BY <2>6, <2>7
<1>2. CASE LoadTwin
  <2>1. job \in Jobs /\ at = "load" /\ next = 1
    BY <1>2 DEF LoadTwin, JobInv
  <2>2. (IsBatch' <=> IsBatch) /\ Current' = Current /\ UNCHANGED <<job, next, rows, edges, log, alerts, result>>
    BY <1>2 DEF LoadTwin, IsBatch, Current
  <2>3. \/ at' = "project" /\ IsBatch /\ Granted /\ UNCHANGED answer
        \/ at' = "baseline_pairs" /\ ~IsBatch /\ Granted /\ UNCHANGED answer
        \/ at' = "done" /\ Refused /\ answer' = "failed"
    BY <1>2 DEF LoadTwin
  <2>4. JobInv'
    <3>1. Len(job.specs) \in Nat /\ (~IsBatch => Len(job.specs) = 1)
      BY <2>1, SpecsAreFew
    <3>2. faults' \in 0..MaxFaults /\ (at' = "done" => faults' > 0)
      BY <1>a, <2>3, ReadsCount
    <3>3. ~IsBatch => Current.type \in ScenarioTypes
      BY <2>1 DEF JobInv
    <3>4. CASE at' = "project"
      BY <2>1, <2>2, <2>3, <3>2, <3>4 DEF JobInv
    <3>5. CASE at' = "baseline_pairs"
      <4>1. ~IsBatch
        BY <2>3, <3>5
      <4>2. ~IsBatch'
        BY <2>2, <4>1
      <4>5. Current'.type \in ScenarioTypes
        BY <2>2, <3>3, <4>1
      <4>6. next' =< Len(job'.specs)
        BY <2>1, <2>2, <3>1, <4>1
      <4>3. job' \in Jobs /\ next' = 1
        BY <2>1, <2>2
      <4>4. QED
        BY <3>2, <3>5, <4>2, <4>3, <4>5, <4>6 DEF JobInv
    <3>6. CASE at' = "done"
      BY <2>1, <2>2, <2>3, <3>2, <3>6 DEF JobInv
    <3>7. QED
      BY <2>3, <3>4, <3>5, <3>6
  <2>5. CurrentTold' /\ PastTold'
    BY <1>a, <2>1, <2>2, <2>3, ReadsCount DEF CurrentTold, PastTold
  <2>6. AnswerTold'
    BY <2>1, <2>2, <2>3, SimulationAssumption DEF AnswerTold
  <2>7. QED
    BY <2>4, <2>5, <2>6
<1>3. CASE Project
  <2>1. job \in Jobs /\ at = "project" /\ next = 1 /\ IsBatch
    BY <1>3 DEF Project, JobInv
  <2>2. /\ (IsBatch' <=> IsBatch) /\ Current' = Current
        /\ UNCHANGED <<job, next, rows, edges, log, alerts, result>>
        /\ at' = Opening(1) /\ answer' = IF job.specs = <<>> THEN "ok" ELSE answer
        /\ faults' \in 0..MaxFaults /\ faults' >= faults
    BY <1>a, <1>3, ReadsCount DEF Project, IsBatch, Current
  <2>3. Len(job.specs) \in Nat /\ (job.specs = <<>> <=> 1 > Len(job.specs))
    <3>1. job.specs \in Seq(ToSet(job.specs))
      BY <2>1, SimulationAssumption
    <3>2. QED
      BY <3>1
  <2>4. \/ at' = "done" /\ 1 > Len(job.specs)
        \/ at' = "baseline_pairs" /\ 1 =< Len(job.specs) /\ Current.type \in ScenarioTypes
        \/ at' = "orders" /\ 1 =< Len(job.specs) /\ Current.type \in CounterfactualTypes
    BY <2>1, <2>2, <2>3, Opens DEF Current
  <2>5. JobInv'
    BY <2>1, <2>2, <2>3, <2>4 DEF JobInv
  <2>6. CurrentTold' /\ PastTold'
    BY <2>1, <2>2, <2>4 DEF CurrentTold, PastTold
  <2>7. AnswerTold'
    BY <2>1, <2>2, <2>3, <2>4 DEF AnswerTold
  <2>8. QED
    BY <2>5, <2>6, <2>7
<1>4. QED
  BY <1>1, <1>2, <1>3

\* The row is written before the edge; if either write raises, the spec fails.
LEMMA WritingKeeps ==
  ASSUME RunsInv, WriteRow \/ WriteEdge
  PROVE  RunsInv'
<1> USE DEF RunsInv, ScenarioPlaces, PastPlaces, SpecPlaces, Goto, Here, writes, reads
<1>a. faults \in 0..MaxFaults
  BY DEF JobInv
<1>1. CASE WriteRow /\ Granted
  <2>1. /\ at = "row" /\ at' = "edge" /\ rows' = Put(rows, next, result)
        /\ UNCHANGED <<job, next, edges, log, alerts, result, answer, faults>>
    BY <1>a, <1>1 DEF WriteRow, Granted, bounds, Refused
  <2>2. (IsBatch' <=> IsBatch) /\ Current' = Current /\ DOMAIN rows' = DOMAIN rows \cup {next}
    BY <2>1 DEF IsBatch, Current, Put
  <2>3. next \notin edges /\ next \notin DOMAIN log /\ next \notin alerts
    BY <2>1 DEF CurrentTold
  <2>4. JobInv'
    BY <2>1, <2>2 DEF JobInv
  <2>5. CurrentTold' /\ AnswerTold'
    BY <2>1, <2>2, <2>3 DEF CurrentTold, AnswerTold, JobInv
  <2>6. PastTold'
    BY <2>1, <2>2, <2>3 DEF PastTold, JobInv
  <2>7. QED
    BY <2>4, <2>5, <2>6
<1>2. CASE WriteEdge /\ Granted
  <2>1. /\ at = "edge" /\ edges' = edges \cup {next}
        /\ IF IsBatch THEN at' = "record" /\ UNCHANGED answer ELSE at' = "done" /\ answer' = "ok"
        /\ UNCHANGED <<job, next, rows, log, alerts, result, faults>>
    BY <1>a, <1>2 DEF WriteEdge, Granted, bounds, Refused
  <2>2. (IsBatch' <=> IsBatch) /\ Current' = Current
    BY <2>1 DEF IsBatch, Current
  <2>3. result # NoResult /\ next \notin DOMAIN log /\ next \notin alerts
    BY <2>1 DEF CurrentTold
  <2>4. JobInv'
    BY <2>1, <2>2 DEF JobInv
  <2>5. CurrentTold' /\ AnswerTold'
    BY <2>1, <2>2, <2>3 DEF CurrentTold, AnswerTold, JobInv
  <2>6. PastTold'
    BY <2>1, <2>2, <2>3 DEF PastTold, JobInv, CurrentTold
  <2>7. QED
    BY <2>4, <2>5, <2>6
<1>3. CASE (WriteRow \/ WriteEdge) /\ Refused
  BY <1>a, <1>3, ReadsCount, FailsKeeps DEF WriteRow, WriteEdge, Raise, Fails, Granted, Refused, bounds
<1>4. QED
  BY <1>1, <1>2, <1>3 DEF WriteRow, WriteEdge

\* Only a spec that failed is alerted about.
LEMMA AlertKeeps ==
  ASSUME RunsInv, Alert
  PROVE  RunsInv'
<1> USE DEF RunsInv, ScenarioPlaces, PastPlaces, SpecPlaces, Goto, Here
<1>1. /\ at = "failed" /\ at' = "record" /\ result = NoResult /\ alerts' \subseteq alerts \cup {next}
      /\ UNCHANGED <<job, next, rows, edges, log, answer, result>>
      /\ faults' \in 0..MaxFaults /\ faults' >= faults
  BY ReadsCount DEF Alert, CurrentTold, JobInv
<1>2. (IsBatch' <=> IsBatch) /\ Current' = Current /\ next \notin edges
  BY <1>1 DEF IsBatch, Current, CurrentTold
<1>3. JobInv'
  <2>1. job \in Jobs /\ next \in Nat \ {0} /\ next =< Len(job.specs) /\ IsBatch
    BY <1>1 DEF JobInv
  <2>2. job' \in Jobs /\ next' \in Nat \ {0} /\ next' =< Len(job'.specs) /\ IsBatch'
    BY <1>1, <1>2, <2>1
  <2>3. at' = "record" /\ faults' \in 0..MaxFaults
    BY <1>1
  <2>4. QED
    BY <2>2, <2>3 DEF JobInv
<1>4. CurrentTold'
  <2>1. next \notin DOMAIN log /\ (next \in DOMAIN rows => faults > 0)
    BY <1>1, <1>2 DEF CurrentTold
  <2>2. next \in DOMAIN rows => faults' > 0
    BY <1>1, <2>1 DEF JobInv
  <2>3. /\ at' = "record" /\ result' = NoResult' /\ next' \notin edges' /\ next' \notin DOMAIN log'
        /\ (next' \in DOMAIN rows' => faults' > 0)
    BY <1>1, <1>2, <2>1, <2>2 DEF NoResult
  <2>4. QED
    BY <2>3 DEF CurrentTold
<1>5. PastTold' /\ AnswerTold'
  BY <1>1, <1>2 DEF PastTold, JobInv, AnswerTold
<1>6. QED
  BY <1>3, <1>4, <1>5

\* A run's row tells whether its edge was written, and the batch goes on to the next spec.
LEMMA RecordKeeps ==
  ASSUME RunsInv, RecordRun
  PROVE  RunsInv'
<1> USE DEF RunsInv, ScenarioPlaces, PastPlaces, SpecPlaces, Goto, Here
<1>1. /\ at = "record" /\ at' = Opening(next + 1) /\ next' = next + 1 /\ result' = NoResult
      /\ answer' = IF next + 1 > Len(job.specs) THEN "ok" ELSE answer
      /\ UNCHANGED <<job, rows, edges, alerts>>
      /\ faults' \in 0..MaxFaults /\ faults' >= faults
  <2>1. Opening(next') = Opening(next + 1)
    BY DEF RecordRun
  <2>2. QED
    BY <2>1, ReadsCount DEF RecordRun, JobInv, reads
<1>2. \/ log' = Put(log, next, IF result = NoResult THEN "failed" ELSE "success") /\ faults' = faults
      \/ log' = log /\ faults' > 0
  BY ReadsCount DEF RecordRun, JobInv
<1>3. job \in Jobs /\ next \in Nat \ {0} /\ IsBatch /\ (IsBatch' <=> IsBatch) /\ next =< Len(job.specs)
  BY <1>1 DEF JobInv, IsBatch
<1>4. Len(job.specs) \in Nat
  BY <1>3, SpecsAreFew
<1>5. \/ at' = "done" /\ next + 1 > Len(job.specs)
      \/ at' = "baseline_pairs" /\ next + 1 =< Len(job.specs) /\ Current'.type \in ScenarioTypes
      \/ at' = "orders" /\ next + 1 =< Len(job.specs) /\ Current'.type \in CounterfactualTypes
  <2>1. Current' = job.specs[next + 1]
    BY <1>1 DEF Current
  <2>2. QED
    BY <1>1, <1>3, <1>4, <2>1, Opens
<1>6. JobInv'
  <2>1. CASE at' = "done"
    BY <1>1, <1>3, <1>4, <1>5, <2>1 DEF JobInv
  <2>2. CASE at' # "done"
    BY <1>1, <1>3, <1>4, <1>5, <2>2 DEF JobInv
  <2>3. QED
    BY <2>1, <2>2
<1>7. \A i \in DOMAIN rows \cup DOMAIN log \cup edges \cup alerts : i \in 1..next
  BY DEF PastTold
<1>8. DOMAIN log' \subseteq DOMAIN log \cup {next}
  BY <1>2 DEF Put
<1>9. CurrentTold'
  <2>1. next + 1 \notin 1..next /\ next + 1 # next
    BY <1>3
  <2>2. next' \notin edges' /\ next' \notin DOMAIN rows' /\ next' \notin alerts' /\ next' \notin DOMAIN log'
    BY <1>1, <1>7, <1>8, <2>1
  <2>3. at' \in {"done", "baseline_pairs", "orders"}
    BY <1>5
  <2>4. QED
    BY <2>2, <2>3 DEF CurrentTold
<1>10. PastTold'
  <2>1. \A i \in DOMAIN rows' \cup DOMAIN log' \cup edges' \cup alerts' : i \in 1..next'
    BY <1>1, <1>3, <1>7, <1>8
  <2>2. at' \notin {"idle", "load", "project"}
    BY <1>5
  <2>3. \A i \in DOMAIN log' : /\ log'[i] \in {"success", "failed"}
                               /\ log'[i] = "success" <=> i \in edges
                               /\ log'[i] = "failed" /\ i \in DOMAIN rows => faults' > 0
    <3>1. CASE log' = log
      BY <1>1, <3>1 DEF PastTold, JobInv
    <3>2. CASE log' = Put(log, next, IF result = NoResult THEN "failed" ELSE "success")
      <4>1. SUFFICES ASSUME NEW i \in DOMAIN log'
                     PROVE  /\ log'[i] \in {"success", "failed"}
                            /\ log'[i] = "success" <=> i \in edges
                            /\ log'[i] = "failed" /\ i \in DOMAIN rows => faults' > 0
        OBVIOUS
      <4>2. CASE i = next
        <5>1. log'[i] = IF result = NoResult THEN "failed" ELSE "success"
          BY <3>2, <4>1, <4>2 DEF Put
        <5>2. result # NoResult <=> next \in edges
          BY <1>1 DEF CurrentTold
        <5>3. next \in DOMAIN rows /\ next \notin edges => faults > 0
          BY <1>1 DEF CurrentTold
        <5>4. QED
          BY <1>1, <4>2, <5>1, <5>2, <5>3 DEF JobInv
      <4>3. CASE i # next
        <5>1. i \in DOMAIN log /\ log'[i] = log[i]
          BY <3>2, <4>1, <4>3 DEF Put
        <5>2. QED
          BY <1>1, <5>1 DEF PastTold, JobInv
      <4>4. QED
        BY <4>2, <4>3
    <3>3. QED
      BY <1>2, <3>1, <3>2
  <2>4. faults' = 0 => \A i \in 1..next : i \in DOMAIN log'
    <3>1. SUFFICES ASSUME faults' = 0, NEW i \in 1..next PROVE i \in DOMAIN log'
      OBVIOUS
    <3>2. log' = Put(log, next, IF result = NoResult THEN "failed" ELSE "success") /\ faults = 0
      BY <1>1, <1>2, <3>1
    <3>3. DOMAIN log' = DOMAIN log \cup {next}
      BY <3>2 DEF Put
    <3>4. i = next \/ i \in 1..(next - 1)
      BY <1>3, <3>1
    <3>5. QED
      BY <3>2, <3>3, <3>4 DEF PastTold
  <2>5. QED
    BY <1>1, <1>3, <2>1, <2>2, <2>3, <2>4 DEF PastTold
<1>11. AnswerTold'
  BY <1>1, <1>3, <1>5 DEF AnswerTold
<1>12. QED
  BY <1>6, <1>9, <1>10, <1>11

\* A kill ends the job, and a rebuild does not touch its records.
LEMMA OthersKeep ==
  ASSUME RunsInv, Kill \/ Rebuild \/ UNCHANGED vars
  PROVE  RunsInv'
<1> USE DEF RunsInv, ScenarioPlaces, PastPlaces, SpecPlaces, Goto, Here, reads, writes, bounds
<1>1. CASE Kill
  <2>1. /\ at \notin {"idle", "done"} /\ at' = "done" /\ answer' = "failed"
        /\ faults' \in 0..MaxFaults /\ faults' > 0
        /\ UNCHANGED <<job, next, result, rows, edges, log, alerts>>
    BY <1>1, ReadsCount DEF Kill, UnderWay, JobInv
  <2>2. (IsBatch' <=> IsBatch) /\ Current' = Current
    BY <2>1 DEF IsBatch, Current
  <2>3. JobInv'
    BY <2>1, <2>2 DEF JobInv
  <2>4. CurrentTold'
    BY <2>1, <2>2 DEF CurrentTold
  <2>5. PastTold' /\ AnswerTold'
    BY <2>1, <2>2, SimulationAssumption DEF PastTold, JobInv, AnswerTold
  <2>6. QED
    BY <2>3, <2>4, <2>5
<1>2. CASE Rebuild \/ UNCHANGED vars
  <2>1. UNCHANGED <<job, at, next, result, rows, edges, log, alerts, answer, faults>>
    BY <1>2 DEF Rebuild, vars
  <2>2. (IsBatch' <=> IsBatch) /\ Current' = Current
    BY <2>1 DEF IsBatch, Current
  <2>3. JobInv'
    BY <2>1, <2>2 DEF JobInv
  <2>4. CurrentTold' /\ PastTold' /\ AnswerTold'
    BY <2>1, <2>2 DEF CurrentTold, PastTold, AnswerTold
  <2>5. QED
    BY <2>3, <2>4
<1>3. QED
  BY <1>1, <1>2

\* Whatever the job, a rebuild or a kill does, its records stay true.
LEMMA RunsAreKept == RunsInv /\ [Next]_vars => RunsInv'
<1> SUFFICES ASSUME RunsInv, [Next]_vars PROVE RunsInv'
  OBVIOUS
<1>1. CASE Receive \/ LoadTwin \/ Project
  BY <1>1, HeadKeeps
<1>2. CASE \/ ReadBaselinePairs \/ RunScenario \/ ReadOrders \/ FindAnomaly
           \/ ReadActualDims \/ ReadOtherDims \/ ReadActualPairs \/ ReplayBoth
  BY <1>2, ReadsStayInside, InsideKeeps, FailsKeeps
<1>3. CASE WriteRow \/ WriteEdge
  BY <1>3, WritingKeeps
<1>4. CASE Alert \/ RecordRun
  BY <1>4, AlertKeeps, RecordKeeps
<1>5. CASE Kill \/ Rebuild \/ UNCHANGED vars
  BY <1>5, OthersKeep
<1>6. QED
  BY <1>1, <1>2, <1>3, <1>4, <1>5 DEF Next, Proceed

\* A run recorded as a success has its row and edge, a failed one has no edge; a batch
\* without faults has a record of each of its specs.
THEOREM RunRowsTell == Spec => []RunRowsTellTheOutcome
<1>1. RunsInv => RunRowsTellTheOutcome
  <2> SUFFICES ASSUME RunsInv PROVE RunRowsTellTheOutcome
    OBVIOUS
  <2>1. at = "done" /\ IsBatch /\ faults = 0 => DOMAIN log = DOMAIN job.specs
    <3>1. SUFFICES ASSUME at = "done", IsBatch, faults = 0 PROVE DOMAIN log = DOMAIN job.specs
      OBVIOUS
    <3>2. job \in Jobs /\ next = Len(job.specs) + 1
      BY <3>1 DEF RunsInv, JobInv
    <3>3. Len(job.specs) \in Nat /\ DOMAIN job.specs = 1..Len(job.specs)
      BY <3>2, SpecsAreFew
    <3>4. \A i \in DOMAIN log : i \in 1..next /\ i # next
      BY DEF RunsInv, PastTold, CurrentTold
    <3>5. \A i \in 1..(next - 1) : i \in DOMAIN log
      BY <3>1 DEF RunsInv, PastTold
    <3>6. \A i \in DOMAIN log : i \in 1..Len(job.specs)
      BY <3>2, <3>3, <3>4
    <3>7. \A i \in 1..Len(job.specs) : i \in DOMAIN log
      BY <3>2, <3>3, <3>5
    <3>8. QED
      BY <3>3, <3>6, <3>7
  <2>2. QED
    BY <2>1 DEF RunsInv, PastTold, AnswerTold, RunRowsTellTheOutcome
<1>2. QED
  BY <1>1, RunsInitially, RunsAreKept, PTL DEF Spec
-----------------------------------------------------------------------------
(* What the results were computed from.                                     *)

AnyTwins == {ClassicTwin(w) : w \in Warehouses} \cup {TenantTwin(w) : w \in Warehouses}
AnyPairs == {NoPairs} \cup {Assortments(w.orders) : w \in Warehouses} \cup {Assortments(w.tenant) : w \in Warehouses}
AnyOrders == UNION {SUBSET w.orders : w \in Warehouses}
AnyDims == {NoDims} \cup {w.dims : w \in Warehouses}

\* A scenario's result: the two branches of the twin that was loaded.
TwoBranches(res, spec) ==
  /\ twin \in AnyTwins /\ ~Unknown(spec, twin)
  /\ res.baseline \in AnyPairs /\ res.scenario \in AnyPairs
  /\ res.ends = <<BaselineBranch(twin, res.baseline, job.overrides, spec, job.ticks),
                  ScenarioBranch(twin, res.scenario, job.overrides, spec, job.ticks)>>

\* A counterfactual's result: the orders it read, what it makes of them, and both replays.
Pasts(spec, anomaly, orders, dims, otherDims, pairs, otherPairs) ==
  LET other == CounterfactualOrders(spec, anomaly, orders) IN
  [actual |-> orders, other |-> other,
   affected |-> Affected(spec, anomaly, orders),
   retailers |-> RetailerDiffs(RetailerTotals(orders), RetailerTotals(other)),
   products |-> ProductDiffs(ProductTotals(orders), ProductTotals(other)),
   dims |-> <<dims, otherDims>>,
   same |-> otherDims = dims /\ pairs = otherPairs,
   ends |-> <<Replayed(orders, dims, pairs, spec.ticks), Replayed(other, otherDims, otherPairs, spec.ticks)>>]
TwoPasts(res, spec) ==
  \E anomaly : \E orders \in AnyOrders, dims, otherDims \in AnyDims, pairs, otherPairs \in AnyPairs :
    res = Pasts(spec, anomaly, orders, dims, otherDims, pairs, otherPairs)

Told(res, spec) == IF spec.type \in ScenarioTypes THEN TwoBranches(res, spec) ELSE TwoPasts(res, spec)

ReadInv ==
  /\ warehouse \in Warehouses
  /\ at = "project" \/ at \in ScenarioPlaces \/ (IsBatch /\ at \in SpecPlaces) => twin \in AnyTwins
  /\ at = "scenario_pairs" => saw.baseline \in AnyPairs
  /\ at = "anomaly" => "orders" \in DOMAIN saw
  /\ at \in PastPlaces \ {"orders"} => saw.orders \in AnyOrders
  /\ at \in {"other_dims", "actual_pairs", "other_pairs"} => saw.dims \in AnyDims
  /\ at \in {"actual_pairs", "other_pairs"} => saw.other \in AnyDims
  /\ at = "other_pairs" => saw.pairs \in AnyPairs

ResultInv ==
  /\ at \in {"row", "edge"} => Told(result, Current)
  /\ \A i \in DOMAIN rows : Told(rows[i], job.specs[i])
  /\ IsBatch /\ (at \in SpecPlaces \/ DOMAIN rows # {}) =>
       projection.end = Projection(twin, projection.pairs, NoOverrides, job.ticks)

ResultsInv == ReadInv /\ ResultInv

\* No counterfactual is a scenario.
LEMMA TypesDiffer == \A t \in CounterfactualTypes : t \notin ScenarioTypes
BY DEF CounterfactualTypes, ScenarioTypes

\* What a warehouse that is there holds.
LEMMA ReadsAreFound ==
  ASSUME warehouse \in Warehouses
  PROVE  /\ Pairs \in AnyPairs /\ AllPairs \in AnyPairs /\ NoPairs \in AnyPairs
         /\ warehouse.dims \in AnyDims /\ NoDims \in AnyDims
         /\ \A window : Loaded(warehouse.orders, window) \in AnyOrders
         /\ {} \in AnyOrders
         /\ ClassicTwin(warehouse) \in AnyTwins /\ TenantTwin(warehouse) \in AnyTwins
<1>1. \A window : Loaded(warehouse.orders, window) \subseteq warehouse.orders
  BY DEF Loaded
<1>2. \A S : S \subseteq warehouse.orders => S \in AnyOrders
  BY DEF AnyOrders
<1>3. (\A window : Loaded(warehouse.orders, window) \in AnyOrders) /\ {} \in AnyOrders
  BY <1>1, <1>2
<1>4. Pairs \in AnyPairs /\ AllPairs \in AnyPairs /\ NoPairs \in AnyPairs
  BY DEF Pairs, AllPairs, AnyPairs
<1>5. warehouse.dims \in AnyDims /\ NoDims \in AnyDims
  BY DEF AnyDims
<1>6. ClassicTwin(warehouse) \in AnyTwins /\ TenantTwin(warehouse) \in AnyTwins
  BY DEF AnyTwins
<1>7. QED
  BY <1>3, <1>4, <1>5, <1>6

\* What was told stays so as long as the job has its twin.
LEMMA ToldStays ==
  ASSUME UNCHANGED <<job, twin>>, NEW res, NEW spec, Told(res, spec)
  PROVE  Told(res, spec)'
BY DEF Told, TwoBranches, TwoPasts

\* Before a twin is loaded nothing is told.
LEMMA ResultsInitially == Init => ResultsInv
BY DEF Init, ResultsInv, ReadInv, ResultInv, ScenarioPlaces, PastPlaces, SpecPlaces, IsBatch, Told

\* The head of a job: no row is written before the twin is loaded.
LEMMA HeadTells ==
  ASSUME RunsInv, ResultsInv, Receive \/ LoadTwin \/ Project
  PROVE  ResultsInv'
<1> USE DEF ScenarioPlaces, PastPlaces, SpecPlaces, Goto, Here, reads, writes
<1>1. at \in {"idle", "load", "project"} /\ DOMAIN rows = {}
  BY DEF Receive, LoadTwin, Project, RunsInv, PastTold
<1>2. warehouse' = warehouse /\ rows' = rows /\ warehouse \in Warehouses
  BY DEF Receive, LoadTwin, Project, ResultsInv, ReadInv
<1>3. \A i \in DOMAIN rows' : Told(rows[i], job.specs[i])'
  BY <1>1, <1>2
<1>4. CASE Receive
  BY <1>1, <1>2, <1>3, <1>4 DEF Receive, ResultsInv, ReadInv, ResultInv, IsBatch
<1>5. CASE LoadTwin
  <2>1. (IsBatch' <=> IsBatch) /\ at' \in {"project", "baseline_pairs", "done"} /\ (at' = "baseline_pairs" => ~IsBatch)
    BY <1>5 DEF LoadTwin, IsBatch
  <2>2. at' # "done" => twin' \in AnyTwins
    BY <1>2, <1>5, ReadsAreFound DEF LoadTwin
  <2>3. ReadInv'
    BY <1>2, <2>1, <2>2 DEF ReadInv
  <2>4. QED
    BY <1>1, <1>2, <1>3, <2>1, <2>3 DEF ResultsInv, ResultInv
<1>6. CASE Project
  <2>1. (IsBatch' <=> IsBatch) /\ UNCHANGED <<twin, job>> /\ at = "project" /\ job \in Jobs
    BY <1>6 DEF Project, IsBatch, RunsInv, JobInv
  <2>2. at' \in {"baseline_pairs", "orders", "done"}
    BY <1>6, <2>1 DEF Project, Opening
  <2>3. ReadInv'
    BY <1>2, <2>1, <2>2 DEF ReadInv, ResultsInv
  <2>4. projection'.end = Projection(twin, projection'.pairs, NoOverrides, job.ticks)
    BY <1>6 DEF Project
  <2>5. (projection.end = Projection(twin, projection.pairs, NoOverrides, job.ticks))'
    BY <2>1, <2>4
  <2>6. QED
    BY <1>1, <1>2, <1>3, <2>2, <2>3, <2>5 DEF ResultsInv, ResultInv
<1>7. QED
  BY <1>4, <1>5, <1>6

\* A step inside a spec that leaves the rows alone keeps what they tell.
LEMMA RowsKeepTelling ==
  ASSUME RunsInv, ResultInv, at \in SpecPlaces, UNCHANGED <<job, twin, projection, rows>>,
         at' \in {"row", "edge"} => Told(result, Current)'
  PROVE  ResultInv'
<1>1. \A i \in DOMAIN rows' : Told(rows[i], job.specs[i])'
  BY ToldStays DEF ResultInv
<1>2. (IsBatch' <=> IsBatch)
  BY DEF IsBatch
<1>3. IsBatch => (projection.end = Projection(twin, projection.pairs, NoOverrides, job.ticks))'
  BY DEF ResultInv
<1>4. QED
  BY <1>1, <1>2, <1>3 DEF ResultInv

\* A scenario is read and run from the twin the job loaded.
LEMMA ScenarioTells ==
  ASSUME RunsInv, ResultsInv, ReadBaselinePairs \/ RunScenario
  PROVE  ResultsInv'
<1> USE DEF ScenarioPlaces, PastPlaces, SpecPlaces, Goto, Here, reads, writes
<1>1. /\ at \in ScenarioPlaces /\ Current.type \in ScenarioTypes /\ job \in Jobs
      /\ twin \in AnyTwins /\ warehouse \in Warehouses
  BY DEF ReadBaselinePairs, RunScenario, RunsInv, JobInv, ResultsInv, ReadInv
<1>2. UNCHANGED <<job, twin, projection, warehouse, next>> /\ (IsBatch' <=> IsBatch) /\ Current' = Current
  BY DEF ReadBaselinePairs, RunScenario, IsBatch, Current
<1>3. CASE ReadBaselinePairs
  <2>1. saw'.baseline \in AnyPairs /\ at' = "scenario_pairs" /\ rows' = rows
    BY <1>1, <1>3, ReadsAreFound DEF ReadBaselinePairs
  <2>2. ReadInv'
    BY <1>1, <1>2, <2>1 DEF ReadInv
  <2>3. QED
    BY <1>1, <1>2, <2>1, <2>2, RowsKeepTelling DEF ResultsInv
<1>4. CASE RunScenario
  <2>1. PICK pairs \in {Pairs, NoPairs} :
          IF Unknown(Current, twin) THEN Raise
          ELSE /\ result' = [baseline |-> saw.baseline, scenario |-> pairs,
                    ends |-> <<BaselineBranch(twin, saw.baseline, job.overrides, Current, job.ticks),
                               ScenarioBranch(twin, pairs, job.overrides, Current, job.ticks)>>]
               /\ Goto("row") /\ UNCHANGED <<rows, edges, answer>>
    BY <1>4 DEF RunScenario
  <2>2. rows' = rows /\ at' \in {"failed", "done", "row"} /\ (at' = "failed" => IsBatch)
    BY <2>1 DEF Raise
  <2>3. ReadInv'
    BY <1>1, <1>2, <2>2 DEF ReadInv
  <2>4. ASSUME at' = "row" PROVE Told(result, Current)'
    <3>1. ~Unknown(Current, twin)
      BY <2>1, <2>4 DEF Raise
    <3>2. saw.baseline \in AnyPairs /\ pairs \in AnyPairs
      BY <1>1, <1>4, ReadsAreFound DEF RunScenario, ResultsInv, ReadInv
    <3>3. TwoBranches(result', Current)
      BY <1>1, <2>1, <3>1, <3>2 DEF TwoBranches
    <3>4. Told(result, Current)' <=> Told(result', Current)
      BY <1>2 DEF Told, TwoBranches, TwoPasts
    <3>5. QED
      BY <1>1, <3>3, <3>4 DEF Told
  <2>5. QED
    BY <1>1, <1>2, <2>2, <2>3, <2>4, RowsKeepTelling DEF ResultsInv
<1>5. QED
  BY <1>3, <1>4

\* A counterfactual is computed from what it read of the warehouse.
LEMMA PastTells ==
  ASSUME RunsInv, ResultsInv,
         \/ ReadOrders \/ FindAnomaly \/ ReadActualDims \/ ReadOtherDims \/ ReadActualPairs \/ ReplayBoth
  PROVE  ResultsInv'
<1> USE DEF ScenarioPlaces, PastPlaces, SpecPlaces, Goto, Here, reads, writes
<1>1. /\ at \in PastPlaces /\ Current.type \notin ScenarioTypes /\ warehouse \in Warehouses
      /\ (IsBatch => twin \in AnyTwins)
  BY TypesDiffer DEF ReadOrders, FindAnomaly, ReadActualDims, ReadOtherDims, ReadActualPairs, ReplayBoth,
     RunsInv, JobInv, ResultsInv, ReadInv
<1>2. UNCHANGED <<job, twin, projection, warehouse, next, rows>> /\ (IsBatch' <=> IsBatch) /\ Current' = Current
  BY DEF ReadOrders, FindAnomaly, ReadActualDims, ReadOtherDims, ReadActualPairs, ReplayBoth, Raise, IsBatch, Current
<1>3. at' \notin {"row", "edge"} => ResultInv'
  BY <1>1, <1>2, RowsKeepTelling DEF ResultsInv
<1>4. ASSUME at' = "row", NEW dims \in AnyDims, NEW pairs \in AnyPairs, NEW otherPairs \in AnyPairs,
             saw.orders \in AnyOrders, saw.dims \in AnyDims, result' = Compared(dims, pairs, otherPairs)
      PROVE  ResultInv'
  <2>1. result' = Pasts(Current, saw.anomaly, saw.orders, saw.dims, dims, pairs, otherPairs)
    BY <1>4 DEF Compared, Pasts
  <2>2. TwoPasts(result', Current)
    BY <1>4, <2>1 DEF TwoPasts
  <2>3. Told(result, Current)'
    BY <1>1, <1>2, <2>2 DEF Told, TwoPasts
  <2>4. QED
    BY <1>1, <1>2, <2>3, RowsKeepTelling DEF ResultsInv
<1>5. CASE ReadOrders
  <2>1. saw'.orders \in AnyOrders /\ "orders" \in DOMAIN saw' /\ at' \in {"anomaly", "actual_dims"}
    BY <1>1, <1>5, ReadsAreFound DEF ReadOrders
  <2>2. ReadInv'
    BY <1>1, <1>2, <2>1 DEF ReadInv
  <2>3. QED
    BY <1>3, <2>1, <2>2 DEF ResultsInv
<1>6. CASE FindAnomaly
  <2>1. saw.orders \in AnyOrders /\ "orders" \in DOMAIN saw
    BY <1>6 DEF FindAnomaly, ResultsInv, ReadInv
  <2>2. PICK found : IF found = {} THEN Raise /\ UNCHANGED saw
                     ELSE /\ saw' = [saw EXCEPT !.anomaly = CHOOSE a \in found : TRUE]
                          /\ Goto("actual_dims") /\ UNCHANGED <<result, rows, edges, answer>>
    BY <1>6 DEF FindAnomaly
  <2>3. at' \in {"failed", "done", "actual_dims"} /\ (at' = "failed" => IsBatch)
    BY <2>2 DEF Raise
  <2>4. at' = "actual_dims" => saw'.orders = saw.orders
    BY <2>1, <2>2 DEF Raise
  <2>5. ReadInv'
    BY <1>1, <1>2, <2>1, <2>3, <2>4 DEF ReadInv
  <2>6. QED
    BY <1>3, <2>3, <2>5 DEF ResultsInv
<1>7. CASE ReadActualDims
  <2>1. saw'.orders \in AnyOrders /\ saw'.dims \in AnyDims /\ at' = "other_dims"
    BY <1>1, <1>7, ReadsAreFound DEF ReadActualDims, ResultsInv, ReadInv
  <2>2. ReadInv'
    BY <1>1, <1>2, <2>1 DEF ReadInv
  <2>3. QED
    BY <1>3, <2>1, <2>2 DEF ResultsInv
<1>8. CASE ReadOtherDims
  <2>1. saw.orders \in AnyOrders /\ saw.dims \in AnyDims
    BY <1>8 DEF ReadOtherDims, ResultsInv, ReadInv
  <2>2. PICK dims \in {warehouse.dims, NoDims} :
          IF Current.ticks > 0
          THEN /\ saw' = [orders |-> saw.orders, anomaly |-> saw.anomaly, dims |-> saw.dims, other |-> dims]
               /\ Goto("actual_pairs") /\ UNCHANGED result
          ELSE result' = Compared(dims, NoPairs, NoPairs) /\ Goto("row") /\ UNCHANGED saw
    BY <1>8 DEF ReadOtherDims
  <2>3. dims \in AnyDims /\ NoPairs \in AnyPairs
    BY <1>1, <2>2, ReadsAreFound
  <2>4. CASE Current.ticks > 0
    <3>1. at' = "actual_pairs" /\ saw'.orders \in AnyOrders /\ saw'.dims \in AnyDims /\ saw'.other \in AnyDims
      BY <2>1, <2>2, <2>3, <2>4
    <3>2. ReadInv'
      BY <1>1, <1>2, <3>1 DEF ReadInv
    <3>3. QED
      BY <1>3, <3>1, <3>2 DEF ResultsInv
  <2>5. CASE ~(Current.ticks > 0)
    <3>1. at' = "row" /\ result' = Compared(dims, NoPairs, NoPairs)
      BY <2>2, <2>5
    <3>2. ReadInv'
      BY <1>1, <1>2, <3>1 DEF ReadInv
    <3>3. QED
      BY <1>4, <2>1, <2>3, <3>1, <3>2 DEF ResultsInv
  <2>6. QED
    BY <2>4, <2>5
<1>9. CASE ReadActualPairs
  <2>1. PICK pairs \in {AllPairs, NoPairs} :
          saw' = [orders |-> saw.orders, anomaly |-> saw.anomaly, dims |-> saw.dims,
                  other |-> saw.other, pairs |-> pairs]
    BY <1>9 DEF ReadActualPairs
  <2>2. /\ at' = "other_pairs" /\ saw'.orders \in AnyOrders /\ saw'.dims \in AnyDims
        /\ saw'.other \in AnyDims /\ saw'.pairs \in AnyPairs
    BY <1>1, <1>9, <2>1, ReadsAreFound DEF ReadActualPairs, ResultsInv, ReadInv
  <2>3. ReadInv'
    BY <1>1, <1>2, <2>2 DEF ReadInv
  <2>4. QED
    BY <1>3, <2>2, <2>3 DEF ResultsInv
<1>10. CASE ReplayBoth
  <2>1. PICK pairs \in {AllPairs, NoPairs} : result' = Compared(saw.other, saw.pairs, pairs)
    BY <1>10 DEF ReplayBoth
  <2>2. /\ at' = "row" /\ pairs \in AnyPairs /\ saw.orders \in AnyOrders /\ saw.dims \in AnyDims
        /\ saw.other \in AnyDims /\ saw.pairs \in AnyPairs
    BY <1>1, <1>10, <2>1, ReadsAreFound DEF ReplayBoth, ResultsInv, ReadInv
  <2>3. ReadInv'
    BY <1>1, <1>2, <2>2 DEF ReadInv
  <2>4. QED
    BY <1>4, <2>1, <2>2, <2>3 DEF ResultsInv
<1>11. QED
  BY <1>5, <1>6, <1>7, <1>8, <1>9, <1>10

\* A row holds the result it is written for.
LEMMA WritingTells ==
  ASSUME RunsInv, ResultsInv, WriteRow \/ WriteEdge
  PROVE  ResultsInv'
<1> USE DEF ScenarioPlaces, PastPlaces, SpecPlaces, Goto, Here, reads, writes
<1>1. at \in {"row", "edge"} /\ Told(result, Current) /\ warehouse \in Warehouses
  BY DEF WriteRow, WriteEdge, ResultsInv, ReadInv, ResultInv
<1>2. UNCHANGED <<job, twin, projection, warehouse, next>> /\ (IsBatch' <=> IsBatch) /\ Current' = Current
  BY DEF WriteRow, WriteEdge, IsBatch, Current
<1>3. at' \in {"edge", "failed", "done", "record"} /\ (~IsBatch => at' \in {"edge", "done"})
  BY DEF WriteRow, WriteEdge, Raise
<1>4. ReadInv'
  BY <1>1, <1>2, <1>3 DEF ReadInv, ResultsInv
<1>5. CASE rows' = rows
  <2>1. at' # "edge"
    BY <1>5, <1>1 DEF WriteRow, WriteEdge, Raise, Put, RunsInv, CurrentTold
  <2>2. QED
    BY <1>1, <1>2, <1>3, <1>4, <1>5, <2>1, RowsKeepTelling DEF ResultsInv
<1>6. CASE rows' # rows
  <2>1. rows' = Put(rows, next, result) /\ result' = result /\ at' = "edge"
    BY <1>6 DEF WriteRow, WriteEdge, Raise
  <2>2. \A res, spec : Told(res, spec) => Told(res, spec)'
    BY <1>2 DEF Told, TwoBranches, TwoPasts
  <2>3. Told(result', Current') <=> Told(result, Current)
    BY <1>2, <2>1
  <2>4. \A i \in DOMAIN rows' : Told(rows'[i], job.specs[i])
    <3>1. SUFFICES ASSUME NEW i \in DOMAIN rows' PROVE Told(rows'[i], job.specs[i])
      OBVIOUS
    <3>2. CASE i = next
      BY <1>1, <2>1, <3>2 DEF Put, Current
    <3>3. CASE i # next
      BY <2>1, <3>3 DEF Put, ResultsInv, ResultInv
    <3>4. QED
      BY <3>2, <3>3
  <2>5. \A i \in DOMAIN rows' : Told(rows[i], job.specs[i])'
    BY <1>2, <2>2, <2>4
  <2>6. Told(result, Current)'
    BY <1>1, <1>2, <2>1, <2>2
  <2>7. IsBatch => (projection.end = Projection(twin, projection.pairs, NoOverrides, job.ticks))'
    BY <1>1, <1>2 DEF ResultsInv, ResultInv
  <2>8. QED
    BY <1>2, <1>4, <2>5, <2>6, <2>7 DEF ResultsInv, ResultInv
<1>7. QED
  BY <1>5, <1>6

\* The rest leaves the results alone.
LEMMA OthersTell ==
  ASSUME RunsInv, ResultsInv, Alert \/ RecordRun \/ Kill \/ Rebuild \/ UNCHANGED vars
  PROVE  ResultsInv'
<1> USE DEF ScenarioPlaces, PastPlaces, SpecPlaces, Goto, Here, reads, writes
<1>1. UNCHANGED <<job, twin, projection, rows>> /\ warehouse' \in Warehouses /\ (IsBatch' <=> IsBatch)
  BY DEF Alert, RecordRun, Kill, Rebuild, vars, ResultsInv, ReadInv, IsBatch
<1>2. CASE Rebuild \/ UNCHANGED vars
  <2>1. UNCHANGED <<at, result, next, saw>> /\ Current' = Current
    BY <1>2 DEF Rebuild, vars, Current
  <2>2. ReadInv'
    BY <1>1, <2>1 DEF ReadInv, ResultsInv
  <2>3. \A i \in DOMAIN rows' : Told(rows[i], job.specs[i])'
    BY <1>1, ToldStays DEF ResultsInv, ResultInv
  <2>4. at' \in {"row", "edge"} => Told(result, Current)'
    BY <1>1, <2>1 DEF ResultsInv, ResultInv, Told, TwoBranches, TwoPasts
  <2>5. (projection.end = Projection(twin, projection.pairs, NoOverrides, job.ticks))' <=>
        projection.end = Projection(twin, projection.pairs, NoOverrides, job.ticks)
    BY <1>1
  <2>6. QED
    BY <1>1, <2>1, <2>2, <2>3, <2>4, <2>5 DEF ResultsInv, ResultInv
<1>3. CASE Kill
  <2>1. at' = "done" /\ at \notin {"idle", "done"}
    BY <1>3 DEF Kill, UnderWay
  <2>2. ReadInv'
    BY <1>1, <2>1 DEF ReadInv
  <2>3. \A i \in DOMAIN rows' : Told(rows[i], job.specs[i])'
    BY <1>1, ToldStays DEF ResultsInv, ResultInv
  <2>4. (projection.end = Projection(twin, projection.pairs, NoOverrides, job.ticks))' <=>
        projection.end = Projection(twin, projection.pairs, NoOverrides, job.ticks)
    BY <1>1
  <2>5. QED
    BY <1>1, <2>1, <2>2, <2>3, <2>4 DEF ResultsInv, ResultInv
<1>4. CASE Alert \/ RecordRun
  <2>1. at \in {"failed", "record"} /\ IsBatch /\ job \in Jobs /\ next + 1 \in Nat
    BY <1>4 DEF Alert, RecordRun, RunsInv, JobInv
  <2>2. at' \in {"record", "done", "baseline_pairs", "orders"}
    BY <1>4, <2>1 DEF Alert, RecordRun, Opening
  <2>3. twin \in AnyTwins
    BY <2>1 DEF ResultsInv, ReadInv
  <2>4. ReadInv'
    BY <1>1, <2>2, <2>3 DEF ReadInv
  <2>5. QED
    BY <1>1, <2>1, <2>2, <2>4, RowsKeepTelling DEF ResultsInv
<1>5. QED
  BY <1>2, <1>3, <1>4

\* What was computed stays what was read.
LEMMA ResultsAreKept == RunsInv /\ ResultsInv /\ [Next]_vars => ResultsInv'
BY HeadTells, ScenarioTells, PastTells, WritingTells, OthersTell DEF Next, Proceed

\* Both invariants hold of every run.
LEMMA RunsAndResults == Spec => [](RunsInv /\ ResultsInv)
<1>1. Init => RunsInv /\ ResultsInv
  BY RunsInitially, ResultsInitially
<1>2. RunsInv /\ ResultsInv /\ [Next]_vars => (RunsInv /\ ResultsInv)'
  BY RunsAreKept, ResultsAreKept
<1>3. QED
  BY <1>1, <1>2, PTL DEF Spec

\* A batch has no overrides, and a promotion changes none that are not there.
LEMMA NothingOverridden == \A spec : OverridesAfter(NoOverrides, spec) = NoOverrides
BY DEF OverridesAfter, NoOverrides

\* Where a run of a batch read the assortments the projection read, its baseline is
\* the projection, whichever scenarios ran before it.
THEOREM BaselinesAreProjections == Spec => []BaselinesAreTheProjection
<1>1. RunsInv /\ ResultsInv => BaselinesAreTheProjection
  <2> SUFFICES ASSUME RunsInv, ResultsInv, NEW i \in ScenarioRows, IsBatch, rows[i].baseline = projection.pairs
               PROVE  rows[i].ends[1] = projection.end
    BY DEF BaselinesAreTheProjection
  <2>1. i \in DOMAIN rows /\ TwoBranches(rows[i], job.specs[i])
    BY DEF ResultsInv, ResultInv, ScenarioRows, Told
  <2>2. at # "idle" /\ job \in Jobs
    BY <2>1 DEF RunsInv, JobInv, PastTold
  <2>3. job.overrides = NoOverrides
    BY <2>2, SimulationAssumption DEF IsBatch
  <2>4. rows[i].ends[1] = Projection(twin, rows[i].baseline, NoOverrides, job.ticks)
    BY <2>1, <2>3, NothingOverridden DEF TwoBranches, BaselineBranch
  <2>5. projection.end = Projection(twin, projection.pairs, NoOverrides, job.ticks)
    BY <2>1 DEF ResultsInv, ResultInv
  <2>6. QED
    BY <2>4, <2>5
<1>2. QED
  BY <1>1, RunsAndResults, PTL

\* Every variable keeps its type.
THEOREM TypeCorrect == Spec => []TypeOK
<1>1. Init => rebuilds \in 0..MaxRebuilds /\ answer \in {None, "ok", "failed"}
  BY SimulationAssumption DEF Init
<1>2. RunsInv /\ rebuilds \in 0..MaxRebuilds /\ answer \in {None, "ok", "failed"} /\ [Next]_vars
        => (rebuilds \in 0..MaxRebuilds /\ answer \in {None, "ok", "failed"})'
  BY SimulationAssumption DEF Next, Proceed, vars, bounds, reads, writes, Granted, Refused, Reads, Rebuild, Receive,
     LoadTwin, Project, Raise, Alert, ReadBaselinePairs, RunScenario, ReadOrders, FindAnomaly, ReadActualDims,
     ReadOtherDims, ReadActualPairs, ReplayBoth, WriteRow, WriteEdge, RecordRun, Kill
<1>3. RunsInv /\ ResultsInv /\ rebuilds \in 0..MaxRebuilds /\ answer \in {None, "ok", "failed"} => TypeOK
  <2> SUFFICES ASSUME RunsInv, ResultsInv, rebuilds \in 0..MaxRebuilds, answer \in {None, "ok", "failed"}
               PROVE  TypeOK
    OBVIOUS
  <2>1. DOMAIN rows \subseteq Nat /\ next \in Nat
    BY DEF RunsInv, PastTold, JobInv
  <2>2. edges \subseteq DOMAIN rows
    BY DEF RunsInv, PastTold
  <2>3. QED
    BY <2>1, <2>2 DEF TypeOK, RunsInv, PastTold, JobInv, ResultsInv, ReadInv
<1>4. QED
  BY <1>1, <1>2, <1>3, RunsInitially, RunsAreKept, RunsAndResults, PTL DEF Spec

-----------------------------------------------------------------------------
(* Finite sums, and loops.                                                  *)

\* A set of numbers that is not empty has a least one.
LEMMA LeastNumber ==
  ASSUME NEW T, T \subseteq Nat, T # {}
  PROVE  \E n \in T : \A m \in T : n =< m
<1>1. \E n \in T : \A m \in T : ~(<<m, n>> \in OpToRel(<, Nat))
  BY WFMin, NatLessThanWellFounded, Zenon
<1>2. \A m, n \in Nat : m < n => <<m, n>> \in OpToRel(<, Nat)
  BY Zenon DEF OpToRel
<1>3. \E n \in T : \A m \in T : ~(m < n)
  BY <1>1, <1>2, Zenon
<1>4. QED
  BY <1>3

\* Of the subsets of a finite set that are in C one has no smaller one in C.
LEMMA SmallestSet ==
  ASSUME NEW S, IsFiniteSet(S), NEW C, C \subseteq SUBSET S, C # {}
  PROVE  \E T \in C : T \subseteq S /\ IsFiniteSet(T) /\ \A U \in C : U \subseteq T => U = T
<1> DEFINE N == {Cardinality(T) : T \in C}
<1>1. \A T \in C : T \in SUBSET S /\ IsFiniteSet(T) /\ Cardinality(T) \in Nat
  BY FS_Subset, FS_CardinalityType
<1>2. N \subseteq Nat /\ N # {}
  BY <1>1
<1>3. PICK n \in N : \A m \in N : n =< m
  BY <1>2, LeastNumber
<1>4. PICK T \in C : Cardinality(T) = n
  BY <1>3
<1>5. ASSUME NEW U \in C, U \subseteq T PROVE U = T
  <2>1. Cardinality(U) =< Cardinality(T) /\ (Cardinality(T) = Cardinality(U) => T = U)
    BY <1>1, <1>5, FS_Subset
  <2>2. n =< Cardinality(U)
    BY <1>3
  <2>3. QED
    BY <1>1, <1>4, <2>1, <2>2
<1>6. QED
  BY <1>1, <1>5

-----------------------------------------------------------------------------
(* Sums over finite sets.                                                   *)

\* The sums of f over the subsets of S that have at most n elements.
Upto(S, n) == {s \in SUBSET S : Cardinality(s) =< n}
FirstOf(s) == CHOOSE x \in s : TRUE
SumsOf(g, f, D) == g = [s \in D |-> IF s = {} THEN 0 ELSE f[FirstOf(s)] + g[s \ {FirstOf(s)}]]

\* What is left of a set without its first element.
LEMMA WithoutFirst ==
  ASSUME NEW s, IsFiniteSet(s), s # {}
  PROVE  /\ FirstOf(s) \in s /\ IsFiniteSet(s \ {FirstOf(s)})
         /\ Cardinality(s) \in Nat /\ Cardinality(s \ {FirstOf(s)}) = Cardinality(s) - 1
         /\ Cardinality(s) # 0
<1>1. FirstOf(s) \in s
  BY DEF FirstOf
<1>2. QED
  BY <1>1, FS_RemoveElement, FS_CardinalityType, FS_EmptySet

\* The fold of the library finds the sums it recurs on.
LEMMA SumsExist ==
  ASSUME NEW f, NEW S, IsFiniteSet(S)
  PROVE  \E g : SumsOf(g, f, SUBSET S) /\ SumFunctionOnSet(f, S) = g[S]
<1> DEFINE T == {n \in Nat : ~\E g : SumsOf(g, f, Upto(S, n))}
<1>0. \A s \in SUBSET S : IsFiniteSet(s) /\ Cardinality(s) \in Nat /\ Cardinality(s) =< Cardinality(S)
  BY FS_Subset, FS_CardinalityType
<1>1. ASSUME T # {} PROVE FALSE
  <2>1. PICK n \in T : \A m \in T : n =< m
    BY <1>1, LeastNumber
  <2>2. n # 0
    <3> DEFINE g == [s \in Upto(S, 0) |-> 0]
    <3>1. \A s \in Upto(S, 0) : s = {}
      BY <1>0, FS_EmptySet DEF Upto
    <3>2. SumsOf(g, f, Upto(S, 0))
      BY <3>1 DEF SumsOf
    <3>3. QED
      BY <2>1, <3>2
  <2>3. n \in Nat /\ n - 1 \in Nat /\ ~(n =< n - 1)
    BY <2>1, <2>2
  <2>4. PICK g : SumsOf(g, f, Upto(S, n - 1))
    BY <2>1, <2>3
  <2> DEFINE h == [s \in Upto(S, n) |->
                     IF s \in Upto(S, n - 1) THEN g[s] ELSE f[FirstOf(s)] + g[s \ {FirstOf(s)}]]
  <2>5. ASSUME NEW s \in Upto(S, n)
        PROVE  h[s] = IF s = {} THEN 0 ELSE f[FirstOf(s)] + h[s \ {FirstOf(s)}]
    <3>1. IsFiniteSet(s) /\ s \in SUBSET S
      BY <1>0 DEF Upto
    <3>2. s # {} => s \ {FirstOf(s)} \in Upto(S, n - 1) /\ s \ {FirstOf(s)} \in Upto(S, n)
      <4> SUFFICES ASSUME s # {}
                   PROVE  s \ {FirstOf(s)} \in Upto(S, n - 1) /\ s \ {FirstOf(s)} \in Upto(S, n)
        OBVIOUS
      <4>1. Cardinality(s) \in Nat /\ Cardinality(s \ {FirstOf(s)}) = Cardinality(s) - 1
        BY <3>1, WithoutFirst
      <4>2. Cardinality(s) =< n
        BY DEF Upto
      <4>3. Cardinality(s \ {FirstOf(s)}) =< n - 1 /\ Cardinality(s \ {FirstOf(s)}) =< n
        BY <2>3, <4>1, <4>2
      <4>4. s \ {FirstOf(s)} \in SUBSET S
        BY <3>1
      <4>5. QED
        BY <4>3, <4>4 DEF Upto
    <3>3. s # {} => h[s \ {FirstOf(s)}] = g[s \ {FirstOf(s)}]
      BY <3>2
    <3>4. CASE s \in Upto(S, n - 1)
      BY <2>4, <3>3, <3>4 DEF SumsOf
    <3>5. CASE s \notin Upto(S, n - 1)
      <4>1. s # {}
        BY <2>3, <3>1, <3>5, FS_EmptySet DEF Upto
      <4>2. QED
        BY <3>3, <3>5, <4>1
    <3>6. QED
      BY <3>4, <3>5
  <2>6. SumsOf(h, f, Upto(S, n))
    BY <2>5 DEF SumsOf
  <2>7. QED
    BY <2>1, <2>6
<1>2. Cardinality(S) \in Nat /\ Upto(S, Cardinality(S)) = SUBSET S
  <2>1. Cardinality(S) \in Nat
    BY FS_CardinalityType
  <2>2. QED
    BY <1>0, <2>1 DEF Upto
<1>3. PICK g : SumsOf(g, f, SUBSET S)
  <2>1. Cardinality(S) \notin T
    BY <1>1
  <2>2. \E g : SumsOf(g, f, Upto(S, Cardinality(S)))
    BY <1>2, <2>1
  <2>3. QED
    BY <1>2, <2>2
<1>4. SumFunctionOnSet(f, S) = (CHOOSE h : SumsOf(h, f, SUBSET S))[S]
  BY DEF SumFunctionOnSet, FoldFunctionOnSet, MapThenFoldSet, SumsOf, FirstOf
<1>5. SumsOf(CHOOSE h : SumsOf(h, f, SUBSET S), f, SUBSET S)
  BY <1>3
<1>6. QED
  BY <1>4, <1>5

\* Two sums of the same function agree where both are defined.
LEMMA SumsAgree ==
  ASSUME NEW f, NEW S, NEW T, NEW g, NEW h, IsFiniteSet(S), T \subseteq S,
         SumsOf(g, f, SUBSET S), SumsOf(h, f, SUBSET T)
  PROVE  g[T] = h[T]
<1> DEFINE C == {s \in SUBSET T : g[s] # h[s]}
<1>1. IsFiniteSet(T)
  BY FS_Subset
<1>2. ASSUME C # {} PROVE FALSE
  <2>1. PICK s \in C : IsFiniteSet(s) /\ \A u \in C : u \subseteq s => u = s
    <3>1. C \subseteq SUBSET T
      OBVIOUS
    <3> HIDE DEF C
    <3>2. QED
      BY <1>1, <1>2, <3>1, SmallestSet
  <2>2. s \in SUBSET T /\ s \in SUBSET S /\ g[s] # h[s]
    BY <2>1
  <2>3. CASE s = {}
    BY <2>2, <2>3 DEF SumsOf
  <2>4. CASE s # {}
    <3>1. FirstOf(s) \in s
      BY <2>1, <2>4, WithoutFirst
    <3>2. s \ {FirstOf(s)} \in SUBSET T /\ s \ {FirstOf(s)} \notin C
      BY <2>1, <2>2, <3>1
    <3>3. g[s \ {FirstOf(s)}] = h[s \ {FirstOf(s)}]
      BY <3>2
    <3>4. g[s] = f[FirstOf(s)] + g[s \ {FirstOf(s)}] /\ h[s] = f[FirstOf(s)] + h[s \ {FirstOf(s)}]
      BY <2>2, <2>4 DEF SumsOf
    <3>5. QED
      BY <2>2, <3>3, <3>4
  <2>5. QED
    BY <2>3, <2>4
<1>3. QED
  BY <1>2

\* A sum is that of nothing, or its first term and the sum of the others.
LEMMA SumSteps ==
  ASSUME NEW f, NEW S, IsFiniteSet(S)
  PROVE  /\ S = {} => SumFunctionOnSet(f, S) = 0
         /\ S # {} => /\ FirstOf(S) \in S
                      /\ SumFunctionOnSet(f, S) = f[FirstOf(S)] + SumFunctionOnSet(f, S \ {FirstOf(S)})
<1>1. PICK g : SumsOf(g, f, SUBSET S) /\ SumFunctionOnSet(f, S) = g[S]
  BY SumsExist
<1>2. CASE S = {}
  BY <1>1, <1>2 DEF SumsOf
<1>3. CASE S # {}
  <2> DEFINE T == S \ {FirstOf(S)}
  <2>1. FirstOf(S) \in S /\ IsFiniteSet(T) /\ T \in SUBSET S
    BY <1>3, WithoutFirst
  <2> HIDE DEF T
  <2>2. PICK h : SumsOf(h, f, SUBSET T) /\ SumFunctionOnSet(f, T) = h[T]
    BY <2>1, SumsExist
  <2>3. g[T] = h[T]
    <3>1. SumsOf(g, f, SUBSET S)
      BY <1>1
    <3>2. SumsOf(h, f, SUBSET T)
      BY <2>2
    <3>3. T \subseteq S
      BY <2>1
    <3>4. QED
      BY <3>1, <3>2, <3>3, SumsAgree
  <2>4. g[S] = f[FirstOf(S)] + g[T]
    BY <1>1, <1>3 DEF SumsOf, T
  <2>5. QED
    BY <1>1, <1>3, <2>1, <2>2, <2>3, <2>4 DEF T
<1>4. QED
  BY <1>2, <1>3

\* A sum of integers is one, and any of its terms can be taken out.
LEMMA SumTakesOut ==
  ASSUME NEW f, NEW S, IsFiniteSet(S), \A x \in S : f[x] \in Int
  PROVE  /\ SumFunctionOnSet(f, S) \in Int
         /\ \A x \in S : SumFunctionOnSet(f, S) = f[x] + SumFunctionOnSet(f, S \ {x})
<1> DEFINE Good(T) == /\ SumFunctionOnSet(f, T) \in Int
                      /\ \A x \in T : SumFunctionOnSet(f, T) = f[x] + SumFunctionOnSet(f, T \ {x})
           C == {T \in SUBSET S : ~Good(T)}
<1>1. ASSUME C # {} PROVE FALSE
  <2>1. PICK T \in C : T \subseteq S /\ IsFiniteSet(T) /\ \A U \in C : U \subseteq T => U = T
    <3>1. C \subseteq SUBSET S
      OBVIOUS
    <3> HIDE DEF C
    <3>2. QED
      BY <1>1, <3>1, SmallestSet
  <2>2. \A x \in T : T \ {x} \notin C /\ Good(T \ {x})
    <3> HIDE DEF Good
    <3> QED
      BY <2>1
  <2>3. T # {}
    <3>1. SumFunctionOnSet(f, {}) = 0
      BY FS_EmptySet, SumSteps
    <3>2. Good({})
      BY <3>1
    <3>3. QED
      BY <2>1, <3>2
  <2> DEFINE y == FirstOf(T)
  <2>4. y \in T /\ SumFunctionOnSet(f, T) = f[y] + SumFunctionOnSet(f, T \ {y})
    BY <2>1, <2>3, SumSteps
  <2> HIDE DEF y
  <2>5. \A x \in T : f[x] \in Int /\ SumFunctionOnSet(f, T \ {x}) \in Int
    BY <2>1, <2>2
  <2>6. ASSUME NEW x \in T, x # y
        PROVE  SumFunctionOnSet(f, T) = f[x] + SumFunctionOnSet(f, T \ {x})
    <3>1. SumFunctionOnSet(f, T \ {y}) = f[x] + SumFunctionOnSet(f, (T \ {y}) \ {x})
      BY <2>2, <2>4, <2>6
    <3>2. SumFunctionOnSet(f, T \ {x}) = f[y] + SumFunctionOnSet(f, (T \ {x}) \ {y})
      BY <2>2, <2>4, <2>6
    <3>3. (T \ {x}) \ {y} = (T \ {y}) \ {x}
      OBVIOUS
    <3>4. (T \ {y}) \ {x} \in SUBSET S
      BY <2>1
    <3>5. SumFunctionOnSet(f, (T \ {y}) \ {x}) \in Int
      <4>1. (T \ {y}) \ {x} \notin C
        <5> HIDE DEF Good
        <5> QED
          BY <2>1, <2>4
      <4>2. QED
        BY <3>4, <4>1
    <3>6. f[x] \in Int /\ f[y] \in Int
      BY <2>4, <2>5
    <3> DEFINE rest == SumFunctionOnSet(f, (T \ {y}) \ {x})
    <3>7. SumFunctionOnSet(f, T) = f[y] + (f[x] + rest) /\ SumFunctionOnSet(f, T \ {x}) = f[y] + rest
      BY <2>4, <3>1, <3>2, <3>3
    <3>8. rest \in Int
      BY <3>5
    <3> HIDE DEF rest
    <3>9. QED
      BY <3>6, <3>7, <3>8
  <2>7. SumFunctionOnSet(f, T) \in Int
    BY <2>4, <2>5
  <2>8. Good(T)
    BY <2>4, <2>6, <2>7
  <2>9. QED
    BY <2>1, <2>8
<1>2. S \notin C /\ S \in SUBSET S
  BY <1>1
<1>3. QED
  BY <1>2

\* Equal terms have equal sums.
LEMMA SumOfSame ==
  ASSUME NEW f, NEW g, NEW S, IsFiniteSet(S), \A x \in S : f[x] = g[x]
  PROVE  SumFunctionOnSet(f, S) = SumFunctionOnSet(g, S)
<1> DEFINE C == {T \in SUBSET S : SumFunctionOnSet(f, T) # SumFunctionOnSet(g, T)}
<1>1. ASSUME C # {} PROVE FALSE
  <2>1. PICK T \in C : T \subseteq S /\ IsFiniteSet(T) /\ \A U \in C : U \subseteq T => U = T
    <3>1. C \subseteq SUBSET S
      OBVIOUS
    <3> HIDE DEF C
    <3>2. QED
      BY <1>1, <3>1, SmallestSet
  <2>2. T # {}
    <3>1. SumFunctionOnSet(f, {}) = 0 /\ SumFunctionOnSet(g, {}) = 0
      BY FS_EmptySet, SumSteps
    <3>2. QED
      BY <2>1, <3>1
  <2>3. /\ FirstOf(T) \in T
        /\ SumFunctionOnSet(f, T) = f[FirstOf(T)] + SumFunctionOnSet(f, T \ {FirstOf(T)})
        /\ SumFunctionOnSet(g, T) = g[FirstOf(T)] + SumFunctionOnSet(g, T \ {FirstOf(T)})
    BY <2>1, <2>2, SumSteps
  <2>4. T \ {FirstOf(T)} \notin C /\ T \ {FirstOf(T)} \in SUBSET S
    BY <2>1, <2>3
  <2>5. SumFunctionOnSet(f, T \ {FirstOf(T)}) = SumFunctionOnSet(g, T \ {FirstOf(T)})
    BY <2>4
  <2>6. f[FirstOf(T)] = g[FirstOf(T)]
    BY <2>1, <2>3
  <2>7. SumFunctionOnSet(f, T) # SumFunctionOnSet(g, T)
    BY <2>1
  <2>8. QED
    BY <2>3, <2>5, <2>6, <2>7
<1>2. S \notin C
  BY <1>1
<1>3. QED
  BY <1>2

\* The sum of differences is the difference of the sums.
LEMMA SumOfDifferences ==
  ASSUME NEW f, NEW g, NEW h, NEW S, IsFiniteSet(S),
         \A x \in S : f[x] \in Int /\ g[x] \in Int /\ h[x] = f[x] - g[x]
  PROVE  SumFunctionOnSet(h, S) = SumFunctionOnSet(f, S) - SumFunctionOnSet(g, S)
<1> DEFINE C == {T \in SUBSET S :
                   SumFunctionOnSet(h, T) # SumFunctionOnSet(f, T) - SumFunctionOnSet(g, T)}
<1>1. ASSUME C # {} PROVE FALSE
  <2>1. PICK T \in C : T \subseteq S /\ IsFiniteSet(T) /\ \A U \in C : U \subseteq T => U = T
    <3>1. C \subseteq SUBSET S
      OBVIOUS
    <3> HIDE DEF C
    <3>2. QED
      BY ONLY IsFiniteSet(S), <1>1, <3>1, SmallestSet
  <2>2. T # {}
    <3>1. SumFunctionOnSet(f, {}) = 0 /\ SumFunctionOnSet(g, {}) = 0 /\ SumFunctionOnSet(h, {}) = 0
      BY FS_EmptySet, SumSteps
    <3>2. {} \notin C
      BY <3>1
    <3>3. QED
      BY <2>1, <3>2
  <2> DEFINE x == FirstOf(T)
             U == T \ {x}
  <2>3. /\ x \in T
        /\ SumFunctionOnSet(f, T) = f[x] + SumFunctionOnSet(f, U)
        /\ SumFunctionOnSet(g, T) = g[x] + SumFunctionOnSet(g, U)
        /\ SumFunctionOnSet(h, T) = h[x] + SumFunctionOnSet(h, U)
    BY <2>1, <2>2, SumSteps
  <2>4. U \notin C /\ U \in SUBSET S /\ IsFiniteSet(U)
    BY <2>1, <2>3, FS_Subset
  <2>5. SumFunctionOnSet(h, U) = SumFunctionOnSet(f, U) - SumFunctionOnSet(g, U)
    BY <2>4
  <2>6. SumFunctionOnSet(f, U) \in Int /\ SumFunctionOnSet(g, U) \in Int
    <3>1. \A z \in U : f[z] \in Int /\ g[z] \in Int
      BY <2>4
    <3>2. QED
      BY <2>4, <3>1, SumTakesOut
  <2>7. h[x] = f[x] - g[x] /\ f[x] \in Int /\ g[x] \in Int
    BY <2>1, <2>3
  <2>8. SumFunctionOnSet(h, T) # SumFunctionOnSet(f, T) - SumFunctionOnSet(g, T)
    BY <2>1
  <2> HIDE DEF x, U
  <2>9. QED
    BY <2>3, <2>5, <2>6, <2>7, <2>8
<1>2. S \notin C
  BY <1>1
<1>3. QED
  BY <1>2

\* What is sorted by a key and summed up for each key adds up to the whole.
LEMMA SumByKey ==
  ASSUME NEW f, NEW S, IsFiniteSet(S), \A x \in S : f[x] \in Int, NEW R, IsFiniteSet(R),
         NEW key, \A x \in S : key[x] \in R
  PROVE  SumFunctionOnSet([r \in R |-> SumFunctionOnSet(f, {x \in S : key[x] = r})], R) = SumFunctionOnSet(f, S)
<1> DEFINE Part(T, r) == {x \in T : key[x] = r}
           Parts(T) == [r \in R |-> SumFunctionOnSet(f, Part(T, r))]
           C == {T \in SUBSET S : SumFunctionOnSet(Parts(T), R) # SumFunctionOnSet(f, T)}
<1>1. ASSUME NEW T \in SUBSET S, NEW r \in R
      PROVE  /\ IsFiniteSet(Part(T, r)) /\ Parts(T)[r] = SumFunctionOnSet(f, Part(T, r))
             /\ Parts(T)[r] \in Int
  <2>1. IsFiniteSet(Part(T, r)) /\ Part(T, r) \subseteq S
    BY FS_Subset
  <2>2. SumFunctionOnSet(f, Part(T, r)) \in Int
    <3>1. \A x \in Part(T, r) : f[x] \in Int
      BY <2>1
    <3>2. QED
      BY <2>1, <3>1, SumTakesOut
  <2>3. QED
    BY <2>1, <2>2
<1>2. ASSUME C # {} PROVE FALSE
  <2>1. PICK T \in C : T \subseteq S /\ IsFiniteSet(T) /\ \A U \in C : U \subseteq T => U = T
    <3>1. C \subseteq SUBSET S
      OBVIOUS
    <3> HIDE DEF C
    <3>2. QED
      BY <1>2, <3>1, SmallestSet
  <2>2. T # {}
    <3>1. ASSUME T = {} PROVE FALSE
      <4>1. \A r \in R : Parts(T)[r] = 0
        <5> TAKE r \in R
        <5>1. Part(T, r) = {}
          BY <3>1
        <5>2. QED
          BY <5>1, FS_EmptySet, SumSteps
      <4>2. \A r \in R : Parts(T)[r] \in Int /\ Parts(T)[r] = Parts(T)[r] - Parts(T)[r]
        BY <4>1
      <4>3. SumFunctionOnSet(Parts(T), R) = SumFunctionOnSet(Parts(T), R) - SumFunctionOnSet(Parts(T), R)
        <5> HIDE DEF Parts
        <5> QED
          BY <4>2, SumOfDifferences
      <4>4. SumFunctionOnSet(Parts(T), R) \in Int
        <5> HIDE DEF Parts
        <5> QED
          BY <4>2, SumTakesOut
      <4>5. SumFunctionOnSet(Parts(T), R) = 0
        <5> HIDE DEF Parts
        <5> QED
          BY <4>3, <4>4
      <4>6. SumFunctionOnSet(f, T) = 0
        BY <3>1, FS_EmptySet, SumSteps
      <4>7. QED
        BY <2>1, <4>5, <4>6
    <3>2. QED
      BY <3>1
  <2>3. PICK x : x \in T
    BY <2>2
  <2> DEFINE U == T \ {x}
             k == key[x]
  <2>4. U \in SUBSET S /\ U \subseteq T /\ U # T /\ T \in SUBSET S /\ x \in S /\ k \in R /\ f[x] \in Int
    BY <2>1, <2>3
  <2>5. SumFunctionOnSet(Parts(U), R) = SumFunctionOnSet(f, U)
    <3> HIDE DEF Parts, U
    <3> QED
      BY <2>1, <2>4
  <2>6. \A r \in R \ {k} : Parts(T)[r] = Parts(U)[r]
    <3> TAKE r \in R \ {k}
    <3>1. Part(T, r) = Part(U, r)
      OBVIOUS
    <3>2. QED
      BY <3>1
  <2>7. Parts(T)[k] = f[x] + Parts(U)[k]
    <3>1. Part(U, k) = Part(T, k) \ {x} /\ x \in Part(T, k)
      BY <2>3
    <3>2. \A z \in Part(T, k) : f[z] \in Int
      BY <2>4
    <3>3. IsFiniteSet(Part(T, k))
      BY <1>1, <2>4
    <3>4. SumFunctionOnSet(f, Part(T, k)) = f[x] + SumFunctionOnSet(f, Part(T, k) \ {x})
      <4> HIDE DEF Part
      <4> QED
        BY <3>1, <3>2, <3>3, SumTakesOut
    <3>5. QED
      BY <2>4, <3>1, <3>4
  <2>8. /\ SumFunctionOnSet(Parts(T), R) = Parts(T)[k] + SumFunctionOnSet(Parts(T), R \ {k})
        /\ SumFunctionOnSet(Parts(U), R) = Parts(U)[k] + SumFunctionOnSet(Parts(U), R \ {k})
        /\ SumFunctionOnSet(Parts(T), R) \in Int /\ SumFunctionOnSet(Parts(U), R) \in Int
    <3>1. \A r \in R : Parts(T)[r] \in Int /\ Parts(U)[r] \in Int
      BY <1>1, <2>4
    <3> HIDE DEF Parts, U, k
    <3>2. QED
      BY <2>4, <3>1, SumTakesOut
  <2>9. /\ SumFunctionOnSet(Parts(T), R \ {k}) = SumFunctionOnSet(Parts(U), R \ {k})
        /\ SumFunctionOnSet(Parts(U), R \ {k}) \in Int
    <3>1. IsFiniteSet(R \ {k}) /\ \A r \in R \ {k} : Parts(U)[r] \in Int
      BY <1>1, <2>4, FS_Subset
    <3> HIDE DEF Parts, U, k
    <3>2. QED
      BY <2>6, <3>1, SumOfSame, SumTakesOut
  <2>10. SumFunctionOnSet(f, T) = f[x] + SumFunctionOnSet(f, U) /\ SumFunctionOnSet(f, U) \in Int
    <3>1. IsFiniteSet(U) /\ \A z \in T : f[z] \in Int
      BY <2>1, <2>4, FS_Subset
    <3>2. \A z \in U : f[z] \in Int
      BY <3>1
    <3>3. QED
      BY <2>1, <2>3, <3>1, <3>2, SumTakesOut
  <2>11. Parts(U)[k] \in Int
    BY <1>1, <2>4
  <2>12. SumFunctionOnSet(Parts(T), R) = SumFunctionOnSet(f, T)
    <3> HIDE DEF Parts, U, k
    <3> QED
      BY <2>4, <2>5, <2>7, <2>8, <2>9, <2>10, <2>11
  <2>13. QED
    BY <2>1, <2>12
<1>3. S \notin C
  BY <1>2
<1>4. QED
  BY <1>3

\* What a finite set is mapped to is finite.
LEMMA ImagesAreFinite ==
  ASSUME NEW S, IsFiniteSet(S), NEW key
  PROVE  IsFiniteSet({key[x] : x \in S})
<1> DEFINE f == [x \in S |-> key[x]]
<1>1. f \in Surjection(S, {key[x] : x \in S})
  BY DEF Surjection
<1>2. QED
  BY <1>1, FS_Surjection

\* The values a loop goes through: the first one, and what each step makes of the last.
Runs(g, N, S, a, step) ==
  /\ g \in [0..N -> S] /\ g[0] = a
  /\ \A n \in 1..N : g[n] = step[n][g[n - 1]]

\* Where a loop's steps stay in a set it has such values.
LEMMA Iterates ==
  ASSUME NEW S, NEW N \in Nat, NEW a \in S, NEW step, \A n \in 1..N : \A x \in S : step[n][x] \in S
  PROVE  \E g : Runs(g, N, S, a, step)
<1> DEFINE T == {m \in 0..N : ~\E g : Runs(g, m, S, a, step)}
<1>1. ASSUME T # {} PROVE FALSE
  <2>0. T \subseteq Nat
    OBVIOUS
  <2>1. PICK m \in T : \A i \in T : m =< i
    <3> HIDE DEF T
    <3>1. QED
      BY <1>1, <2>0, LeastNumber
  <2>2. m # 0
    <3>1. Runs([k \in 0..0 |-> a], 0, S, a, step)
      BY DEF Runs
    <3>2. QED
      BY <3>1, <2>1
  <2>3. m \in 1..N /\ m - 1 \in 0..N /\ ~(m =< m - 1)
    BY <2>1, <2>2
  <2>4. PICK g : Runs(g, m - 1, S, a, step)
    BY <2>1, <2>3
  <2> DEFINE last == step[m][g[m - 1]]
             h == [k \in 0..m |-> IF k = m THEN last ELSE g[k]]
  <2>5. g \in [0..(m - 1) -> S] /\ g[0] = a /\ \A n \in 1..(m - 1) : g[n] = step[n][g[n - 1]]
    BY <2>4 DEF Runs
  <2>6. last \in S
    BY <2>3, <2>5
  <2> HIDE DEF last
  <2>7. h \in [0..m -> S] /\ h[0] = a
    BY <2>2, <2>3, <2>5, <2>6
  <2>8. ASSUME NEW n \in 1..m PROVE h[n] = step[n][h[n - 1]]
    <3>1. n - 1 \in 0..m /\ n - 1 # m
      BY <2>3
    <3>2. h[n - 1] = g[n - 1]
      BY <3>1
    <3>3. CASE n = m
      BY <3>2, <3>3 DEF last
    <3>4. CASE n # m
      <4>1. n \in 1..(m - 1) /\ h[n] = g[n]
        BY <2>3, <3>4
      <4>2. QED
        BY <2>5, <3>2, <4>1
    <3>5. QED
      BY <3>3, <3>4
  <2> HIDE DEF h
  <2>9. Runs(h, m, S, a, step)
    BY <2>7, <2>8 DEF Runs
  <2>10. QED
    BY <2>1, <2>9
<1>2. N \in 0..N
  OBVIOUS
<1>3. QED
  BY <1>1, <1>2

\* A sequence of values whose steps stay in a set stays there.
LEMMA StaysInside ==
  ASSUME NEW S, NEW N \in Nat, NEW h, h[0] \in S, \A n \in 1..N : h[n - 1] \in S => h[n] \in S
  PROVE  \A n \in 0..N : h[n] \in S
<1> DEFINE T == {n \in 0..N : h[n] \notin S}
<1>1. ASSUME T # {} PROVE FALSE
  <2>0. T \subseteq Nat
    OBVIOUS
  <2>1. PICK n \in T : \A m \in T : n =< m
    <3> HIDE DEF T
    <3>1. QED
      BY <1>1, <2>0, LeastNumber
  <2>2. n \in 1..N /\ n - 1 \in 0..N /\ ~(n =< n - 1)
    BY <2>1
  <2>3. h[n - 1] \in S
    BY <2>1, <2>2
  <2>4. QED
    BY <2>1, <2>2, <2>3
<1>2. QED
  BY <1>1

\* The list made of a finite set has its members.
LEMMA ListsOfSets ==
  ASSUME NEW S, IsFiniteSet(S)
  PROVE  SetToSeq(S) \in Seq(S) /\ Len(SetToSeq(S)) = Cardinality(S)
<1>1. Cardinality(S) \in Nat /\ ExistsBijection(1..Cardinality(S), S)
  BY FS_CardinalityType
<1>2. PICK g : g \in Bijection(1..Cardinality(S), S)
  BY <1>1 DEF ExistsBijection
<1>3. g \in [1..Cardinality(S) -> S] /\ IsInjective(g)
  BY <1>2 DEF Bijection, Injection, IsInjective
<1>4. SetToSeq(S) \in [1..Cardinality(S) -> S]
  BY <1>3 DEF SetToSeq
<1>5. QED
  BY <1>1, <1>4

-----------------------------------------------------------------------------
(* The differences of a counterfactual add up.                              *)

\* What is added up over the members of a set is a sum of the library's kind.
LEMMA NetsAdded ==
  ASSUME NEW S
  PROVE  MapThenSumSet(Net, S) = SumFunctionOnSet([o \in S |-> Net(o)], S)
BY DEF MapThenSumSet, MapThenFoldSet, SumFunctionOnSet, FoldFunctionOnSet

\* So is what is added up over the differences of a report.
LEMMA RevenuesAdded ==
  ASSUME NEW diffs
  PROVE  Sum(diffs) = SumFunctionOnSet([x \in DOMAIN diffs |-> diffs[x].revenue], DOMAIN diffs)
BY DEF Sum, MapThenSumSet, MapThenFoldSet, SumFunctionOnSet, FoldFunctionOnSet

\* The revenue of some orders may be added up with any table of their net amounts.
LEMMA SumsOfNets ==
  ASSUME NEW S, NEW f, IsFiniteSet(S), \A o \in S : f[o] = Net(o)
  PROVE  MapThenSumSet(Net, S) = SumFunctionOnSet(f, S)
<1>1. MapThenSumSet(Net, S) = SumFunctionOnSet([o \in S |-> Net(o)], S)
  BY NetsAdded
<1>2. SumFunctionOnSet([o \in S |-> Net(o)], S) = SumFunctionOnSet(f, S)
  BY SumOfSame
<1>3. QED
  BY <1>1, <1>2

\* And the differences of a report with any table of them.
LEMMA SumsOfDiffs ==
  ASSUME NEW diffs, NEW h, IsFiniteSet(DOMAIN diffs), \A x \in DOMAIN diffs : h[x] = diffs[x].revenue
  PROVE  Sum(diffs) = SumFunctionOnSet(h, DOMAIN diffs)
<1>1. Sum(diffs) = SumFunctionOnSet([x \in DOMAIN diffs |-> diffs[x].revenue], DOMAIN diffs)
  BY RevenuesAdded
<1>2. SumFunctionOnSet([x \in DOMAIN diffs |-> diffs[x].revenue], DOMAIN diffs) = SumFunctionOnSet(h, DOMAIN diffs)
  BY SumOfSame
<1>3. QED
  BY <1>1, <1>2

Numbers(f, S) == \A x \in S : f[x] \in Int
Keys(key, S, R) == \A x \in S : key[x] \in R
Part(S, key, r) == {x \in S : key[x] = r}
Deltas(h, R, f, key, A, B) ==
  \A r \in R : h[r] = SumFunctionOnSet(f, Part(B, key, r)) - SumFunctionOnSet(f, Part(A, key, r))

\* The differences of two sets' sums by key add up to the difference of their sums.
LEMMA DeltasAddUp ==
  ASSUME NEW A, NEW B, IsFiniteSet(A), IsFiniteSet(B), NEW f, Numbers(f, A \cup B),
         NEW key, NEW R, IsFiniteSet(R), Keys(key, A \cup B, R), NEW h, Deltas(h, R, f, key, A, B)
  PROVE  SumFunctionOnSet(h, R) = SumFunctionOnSet(f, B) - SumFunctionOnSet(f, A)
<1> DEFINE part(S) == [r \in R |-> SumFunctionOnSet(f, {x \in S : key[x] = r})]
<1>1. SumFunctionOnSet(part(A), R) = SumFunctionOnSet(f, A)
  BY SumByKey DEF Numbers, Keys
<1>2. SumFunctionOnSet(part(B), R) = SumFunctionOnSet(f, B)
  BY SumByKey DEF Numbers, Keys
<1>3. ASSUME NEW r \in R
      PROVE  part(A)[r] \in Int /\ part(B)[r] \in Int /\ h[r] = part(B)[r] - part(A)[r]
  <2>1. IsFiniteSet({x \in A : key[x] = r}) /\ IsFiniteSet({x \in B : key[x] = r})
    BY FS_Subset
  <2>2. SumFunctionOnSet(f, {x \in A : key[x] = r}) \in Int
    BY <2>1, SumTakesOut DEF Numbers
  <2>3. SumFunctionOnSet(f, {x \in B : key[x] = r}) \in Int
    BY <2>1, SumTakesOut DEF Numbers
  <2>4. QED
    BY <1>3, <2>2, <2>3 DEF Deltas, Part
<1> HIDE DEF part
<1>4. SumFunctionOnSet(h, R) = SumFunctionOnSet(part(B), R) - SumFunctionOnSet(part(A), R)
  BY <1>3, SumOfDifferences
<1>5. QED
  BY <1>1, <1>2, <1>4

\* The revenues of an order set's aggregates, by the key of its orders.
TotalsOf(totals, f, key, S) ==
  /\ DOMAIN totals = {key[x] : x \in S}
  /\ \A r \in DOMAIN totals : totals[r].revenue = SumFunctionOnSet(f, Part(S, key, r))
RevenueAt(totals, r) == IF r \in DOMAIN totals THEN totals[r].revenue ELSE 0
RevenueDiffs(diffs, before, after) ==
  /\ DOMAIN diffs = DOMAIN before \cup DOMAIN after
  /\ \A r \in DOMAIN diffs : diffs[r].revenue = RevenueAt(after, r) - RevenueAt(before, r)

\* The differences of two order sets' aggregates add up to that of their amounts.
LEMMA TotalsAddUp ==
  ASSUME NEW A, NEW B, IsFiniteSet(A), IsFiniteSet(B), NEW f, Numbers(f, A \cup B),
         NEW key, NEW before, NEW after, TotalsOf(before, f, key, A), TotalsOf(after, f, key, B),
         NEW diffs, RevenueDiffs(diffs, before, after)
  PROVE  Sum(diffs) = SumFunctionOnSet(f, B) - SumFunctionOnSet(f, A)
<1> DEFINE R == DOMAIN diffs
           h == [r \in R |-> diffs[r].revenue]
<1>1. Keys(key, A \cup B, R)
  BY DEF TotalsOf, Keys, RevenueDiffs
<1>2. IsFiniteSet(R)
  <2>1. IsFiniteSet({key[x] : x \in A}) /\ IsFiniteSet({key[x] : x \in B})
    BY ImagesAreFinite
  <2>2. IsFiniteSet({key[x] : x \in A} \cup {key[x] : x \in B})
    BY <2>1, FS_Union
  <2>3. QED
    BY <2>2 DEF TotalsOf, RevenueDiffs
<1>3. ASSUME NEW S, NEW totals, TotalsOf(totals, f, key, S), NEW r
      PROVE  RevenueAt(totals, r) = SumFunctionOnSet(f, Part(S, key, r))
  <2>1. CASE r \in DOMAIN totals
    BY <1>3, <2>1 DEF TotalsOf, RevenueAt
  <2>2. CASE r \notin DOMAIN totals
    <3>1. Part(S, key, r) = {}
      BY <1>3, <2>2 DEF TotalsOf, Part
    <3>2. SumFunctionOnSet(f, {}) = 0
      BY FS_EmptySet, SumSteps
    <3>3. QED
      BY <2>2, <3>1, <3>2 DEF RevenueAt
  <2>3. QED
    BY <2>1, <2>2
<1>4. Deltas(h, R, f, key, A, B)
  <2>1. ASSUME NEW r \in R
        PROVE  h[r] = SumFunctionOnSet(f, Part(B, key, r)) - SumFunctionOnSet(f, Part(A, key, r))
    <3>1. h[r] = RevenueAt(after, r) - RevenueAt(before, r)
      BY DEF RevenueDiffs
    <3>2. RevenueAt(after, r) = SumFunctionOnSet(f, Part(B, key, r))
      BY <1>3
    <3>3. RevenueAt(before, r) = SumFunctionOnSet(f, Part(A, key, r))
      BY <1>3
    <3>4. QED
      BY <3>1, <3>2, <3>3
  <2> HIDE DEF h
  <2>2. QED
    BY <2>1 DEF Deltas
<1>5. Sum(diffs) = SumFunctionOnSet(h, R)
  BY <1>2, SumsOfDiffs
<1> HIDE DEF h, R
<1>6. SumFunctionOnSet(h, R) = SumFunctionOnSet(f, B) - SumFunctionOnSet(f, A)
  BY <1>1, <1>2, <1>4, DeltasAddUp
<1>7. QED
  BY <1>5, <1>6

\* Amounts are whole numbers of cents.
Amounts(S) == \A o \in S : o.gross \in Int /\ o.discount \in Int

\* By retailer and by product, the differences of two order sets' aggregates add up.
LEMMA AggregatesAddUp ==
  ASSUME NEW A, NEW B, IsFiniteSet(A), IsFiniteSet(B), Amounts(A), Amounts(B)
  PROVE  /\ Sum(RetailerDiffs(RetailerTotals(A), RetailerTotals(B))) = MapThenSumSet(Net, B) - MapThenSumSet(Net, A)
         /\ Sum(ProductDiffs(ProductTotals(A), ProductTotals(B))) = MapThenSumSet(Net, B) - MapThenSumSet(Net, A)
<1> DEFINE f == [o \in A \cup B |-> Net(o)]
<1>1. \A o \in A \cup B : f[o] \in Int /\ f[o] = Net(o)
  BY DEF Net, Amounts
<1>0. Numbers(f, A \cup B)
  BY <1>1 DEF Numbers
<1> HIDE DEF f
<1>2. MapThenSumSet(Net, A) = SumFunctionOnSet(f, A) /\ MapThenSumSet(Net, B) = SumFunctionOnSet(f, B)
  BY <1>1, SumsOfNets
<1>3. ASSUME NEW S, S \subseteq A \cup B, IsFiniteSet(S), NEW T, T \subseteq S
      PROVE  MapThenSumSet(Net, T) = SumFunctionOnSet(f, T)
  BY <1>1, <1>3, FS_Subset, SumsOfNets
<1>4. Sum(RetailerDiffs(RetailerTotals(A), RetailerTotals(B))) = SumFunctionOnSet(f, B) - SumFunctionOnSet(f, A)
  <2> DEFINE key == [o \in A \cup B |-> o.retailer]
             before == RetailerTotals(A)
             after == RetailerTotals(B)
             diffs == RetailerDiffs(before, after)
  <2>1. ASSUME NEW S, S \subseteq A \cup B, IsFiniteSet(S) PROVE TotalsOf(RetailerTotals(S), f, key, S)
    <3>1. DOMAIN RetailerTotals(S) = {o.retailer : o \in S}
      BY DEF RetailerTotals
    <3>2. {o.retailer : o \in S} = {key[o] : o \in S}
      BY <2>1
    <3>3. ASSUME NEW r \in DOMAIN RetailerTotals(S)
          PROVE  RetailerTotals(S)[r].revenue = SumFunctionOnSet(f, Part(S, key, r))
      <4>1. RetailerTotals(S)[r].revenue = MapThenSumSet(Net, {o \in S : o.retailer = r})
        BY DEF RetailerTotals
      <4>2. {o \in S : o.retailer = r} = {o \in S : key[o] = r}
        BY <2>1
      <4> HIDE DEF key
      <4>3. Part(S, key, r) \subseteq S
        BY DEF Part
      <4>4. MapThenSumSet(Net, Part(S, key, r)) = SumFunctionOnSet(f, Part(S, key, r))
        BY <1>3, <2>1, <4>3
      <4>5. QED
        BY <4>1, <4>2, <4>4 DEF Part
    <3>4. QED
      BY <3>1, <3>2, <3>3 DEF TotalsOf
  <2>2. TotalsOf(before, f, key, A) /\ TotalsOf(after, f, key, B)
    BY <2>1
  <2> HIDE DEF before, after, key
  <2>3. DOMAIN diffs = DOMAIN before \cup DOMAIN after
    BY DEF RetailerDiffs
  <2>4. \A r \in DOMAIN diffs : diffs[r].revenue = RevenueAt(after, r) - RevenueAt(before, r)
    BY DEF RetailerDiffs, RevenueAt, At
  <2>5. RevenueDiffs(diffs, before, after)
    BY <2>3, <2>4 DEF RevenueDiffs
  <2> HIDE DEF diffs
  <2>6. Sum(diffs) = SumFunctionOnSet(f, B) - SumFunctionOnSet(f, A)
    BY <1>0, <2>2, <2>5, TotalsAddUp
  <2>7. QED
    BY <2>6 DEF diffs, before, after
<1>5. Sum(ProductDiffs(ProductTotals(A), ProductTotals(B))) = SumFunctionOnSet(f, B) - SumFunctionOnSet(f, A)
  <2> DEFINE key == [o \in A \cup B |-> o.product]
             before == ProductTotals(A)
             after == ProductTotals(B)
             diffs == ProductDiffs(before, after)
  <2>1. ASSUME NEW S, S \subseteq A \cup B, IsFiniteSet(S) PROVE TotalsOf(ProductTotals(S), f, key, S)
    <3>1. DOMAIN ProductTotals(S) = {o.product : o \in S}
      BY DEF ProductTotals
    <3>2. {o.product : o \in S} = {key[o] : o \in S}
      BY <2>1
    <3>3. ASSUME NEW r \in DOMAIN ProductTotals(S)
          PROVE  ProductTotals(S)[r].revenue = SumFunctionOnSet(f, Part(S, key, r))
      <4>1. ProductTotals(S)[r].revenue = MapThenSumSet(Net, {o \in S : o.product = r})
        BY DEF ProductTotals
      <4>2. {o \in S : o.product = r} = {o \in S : key[o] = r}
        BY <2>1
      <4> HIDE DEF key
      <4>3. Part(S, key, r) \subseteq S
        BY DEF Part
      <4>4. MapThenSumSet(Net, Part(S, key, r)) = SumFunctionOnSet(f, Part(S, key, r))
        BY <1>3, <2>1, <4>3
      <4>5. QED
        BY <4>1, <4>2, <4>4 DEF Part
    <3>4. QED
      BY <3>1, <3>2, <3>3 DEF TotalsOf
  <2>2. TotalsOf(before, f, key, A) /\ TotalsOf(after, f, key, B)
    BY <2>1
  <2> HIDE DEF before, after, key
  <2>3. DOMAIN diffs = DOMAIN before \cup DOMAIN after
    BY DEF ProductDiffs
  <2>4. \A r \in DOMAIN diffs : diffs[r].revenue = RevenueAt(after, r) - RevenueAt(before, r)
    BY DEF ProductDiffs, RevenueAt, At
  <2>5. RevenueDiffs(diffs, before, after)
    BY <2>3, <2>4 DEF RevenueDiffs
  <2> HIDE DEF diffs
  <2>6. Sum(diffs) = SumFunctionOnSet(f, B) - SumFunctionOnSet(f, A)
    BY <1>0, <2>2, <2>5, TotalsAddUp
  <2>7. QED
    BY <2>6 DEF diffs, before, after
<1>6. QED
  BY <1>2, <1>4, <1>5

\* Only a spec of the job has a row.
LEMMA RowsAreOfSpecs == Spec => [](DOMAIN rows \subseteq DOMAIN job.specs \/ rows = [i \in {} |-> None])
<1> DEFINE RowsOK == DOMAIN rows \subseteq DOMAIN job.specs \/ rows = [i \in {} |-> None]
<1>1. Init => RowsOK
  BY DEF Init
<1>2. RunsInv /\ RowsOK /\ [Next]_vars => RowsOK'
  <2> SUFFICES ASSUME RunsInv, RowsOK, [Next]_vars PROVE RowsOK'
    OBVIOUS
  <2>1. CASE Receive
    BY <2>1 DEF Receive, RunsInv, PastTold, Here, writes
  <2>2. CASE WriteRow
    <3>1. job' = job /\ (rows' = rows \/ rows' = Put(rows, next, result)) /\ at = "row"
      BY <2>2 DEF WriteRow, Raise, Here
    <3>2. next \in Nat \ {0} /\ next =< Len(job.specs) /\ job \in Jobs
      BY <3>1 DEF RunsInv, JobInv, SpecPlaces
    <3>3. next \in DOMAIN job.specs
      BY <3>2, SpecsAreFew
    <3>4. DOMAIN Put(rows, next, result) = DOMAIN rows \cup {next}
      BY DEF Put
    <3>5. QED
      BY <3>1, <3>3, <3>4
  <2>3. CASE ~Receive /\ ~WriteRow
    <3>1. UNCHANGED <<job, rows>>
      BY <2>3 DEF Next, Proceed, vars, reads, writes, Rebuild, LoadTwin, Project, Raise, Alert, ReadBaselinePairs,
         RunScenario, ReadOrders, FindAnomaly, ReadActualDims, ReadOtherDims, ReadActualPairs, ReplayBoth,
         WriteEdge, RecordRun, Kill
    <3>2. QED
      BY <3>1
  <2>4. QED
    BY <2>1, <2>2, <2>3
<1>3. QED
  BY <1>1, <1>2, RunsAndResults, PTL DEF Spec

\* The orders a counterfactual leaves are finitely many, with whole amounts.
LEMMA OthersAreOrders ==
  ASSUME NEW spec, NEW anomaly, NEW orders, IsFiniteSet(orders), Amounts(orders),
         spec.type = "modify_price" => spec.percent \in Int
  PROVE  /\ IsFiniteSet(CounterfactualOrders(spec, anomaly, orders))
         /\ Amounts(CounterfactualOrders(spec, anomaly, orders))
         /\ Affected(spec, anomaly, orders) = {} => CounterfactualOrders(spec, anomaly, orders) = orders
<1> DEFINE affected == Affected(spec, anomaly, orders)
           reprice == [o \in orders |-> Repriced(o, spec.percent)]
<1>1. affected \subseteq orders /\ IsFiniteSet(affected) /\ IsFiniteSet(orders \ affected)
  BY FS_Subset DEF Affected
<1>2. CASE spec.type # "modify_price"
  BY <1>1, <1>2 DEF CounterfactualOrders, Amounts
<1>3. CASE spec.type = "modify_price"
  <2>1. CounterfactualOrders(spec, anomaly, orders) = (orders \ affected) \cup {Repriced(o, spec.percent) : o \in affected}
    BY <1>3 DEF CounterfactualOrders
  <2>2. {Repriced(o, spec.percent) : o \in affected} = {reprice[o] : o \in affected}
    BY <1>1
  <2>3. IsFiniteSet({reprice[o] : o \in affected})
    <3> HIDE DEF reprice
    <3>1. QED
      BY <1>1, ImagesAreFinite
  <2>4. IsFiniteSet(CounterfactualOrders(spec, anomaly, orders))
    <3> HIDE DEF affected, reprice
    <3>1. IsFiniteSet((orders \ affected) \cup {reprice[o] : o \in affected})
      BY <1>1, <2>3, FS_Union
    <3>2. QED
      BY <2>1, <2>2, <3>1
  <2>5. ASSUME NEW o \in affected PROVE Repriced(o, spec.percent).gross \in Int /\ Repriced(o, spec.percent).discount \in Int
    BY <1>1, <1>3 DEF Repriced, Times, Amounts
  <2>6. QED
    BY <1>1, <2>1, <2>4, <2>5 DEF Amounts
<1>4. QED
  BY <1>2, <1>3

\* Aggregates that are the same do not differ.
LEMMA SameOrdersDoNotDiffer ==
  ASSUME NEW S, IsFiniteSet(S)
  PROVE  \A r \in DOMAIN RetailerDiffs(RetailerTotals(S), RetailerTotals(S)) :
           RetailerDiffs(RetailerTotals(S), RetailerTotals(S))[r].orders = 0
<1>1. SUFFICES ASSUME NEW r \in DOMAIN RetailerTotals(S)
               PROVE  RetailerDiffs(RetailerTotals(S), RetailerTotals(S))[r].orders = 0
  BY DEF RetailerDiffs
<1>2. RetailerTotals(S)[r].orders = Cardinality({o \in S : o.retailer = r})
  BY DEF RetailerTotals
<1>3. Cardinality({o \in S : o.retailer = r}) \in Int
  BY FS_Subset, FS_CardinalityType
<1>4. RetailerDiffs(RetailerTotals(S), RetailerTotals(S))[r].orders = RetailerTotals(S)[r].orders - RetailerTotals(S)[r].orders
  BY <1>1 DEF RetailerDiffs, At
<1>5. QED
  BY <1>2, <1>3, <1>4

\* The differences of a counterfactual, by retailer and by product, add up to what its
\* orders and the real ones differ by; where it touches no order nothing differs.
THEOREM DifferencesAddUp == Spec => []DiffsAddUp
<1> DEFINE RowsOK == DOMAIN rows \subseteq DOMAIN job.specs \/ rows = [i \in {} |-> None]
<1>1. RunsInv /\ ResultsInv /\ RowsOK => DiffsAddUp
  <2> SUFFICES ASSUME RunsInv, ResultsInv, RowsOK, NEW i \in PastRows
               PROVE  LET delta == MapThenSumSet(Net, rows[i].other) - MapThenSumSet(Net, rows[i].actual) IN
                      /\ Sum(rows[i].retailers) = delta /\ Sum(rows[i].products) = delta
                      /\ rows[i].affected = {} => /\ \A r \in DOMAIN rows[i].retailers : rows[i].retailers[r].orders = 0
                                                  /\ rows[i].same => rows[i].ends[1] = rows[i].ends[2]
    BY DEF DiffsAddUp
  <2> DEFINE spec == job.specs[i]
  <2>1. i \in DOMAIN rows /\ TwoPasts(rows[i], spec)
    BY DEF ResultsInv, ResultInv, PastRows, ScenarioRows, Told
  <2>2. i \in DOMAIN job.specs /\ job \in Jobs
    BY <2>1 DEF RunsInv, JobInv, PastTold
  <2>3. spec.type = "modify_price" => spec.percent \in Int
    BY <2>2, SimulationAssumption DEF IsSpec
  <2>4. PICK anomaly : \E orders \in AnyOrders, dims, otherDims \in AnyDims, pairs, otherPairs \in AnyPairs :
          rows[i] = Pasts(spec, anomaly, orders, dims, otherDims, pairs, otherPairs)
    BY <2>1 DEF TwoPasts
  <2>5. PICK orders \in AnyOrders, dims \in AnyDims, otherDims \in AnyDims, pairs \in AnyPairs, otherPairs \in AnyPairs :
          rows[i] = Pasts(spec, anomaly, orders, dims, otherDims, pairs, otherPairs)
    BY <2>4
  <2> DEFINE other == CounterfactualOrders(spec, anomaly, orders)
             affected == Affected(spec, anomaly, orders)
             retailers == RetailerDiffs(RetailerTotals(orders), RetailerTotals(other))
             products == ProductDiffs(ProductTotals(orders), ProductTotals(other))
             same == otherDims = dims /\ pairs = otherPairs
             end == Replayed(orders, dims, pairs, spec.ticks)
             otherEnd == Replayed(other, otherDims, otherPairs, spec.ticks)
  <2>6. /\ rows[i].actual = orders /\ rows[i].other = other /\ rows[i].affected = affected
        /\ rows[i].retailers = retailers /\ rows[i].products = products
        /\ (rows[i].same = same) /\ rows[i].ends[1] = end /\ rows[i].ends[2] = otherEnd
    <3>1. rows[i] = [actual |-> orders, other |-> other, affected |-> affected, retailers |-> retailers,
                     products |-> products, dims |-> <<dims, otherDims>>, same |-> same, ends |-> <<end, otherEnd>>]
      BY <2>5 DEF Pasts
    <3> HIDE DEF other, affected, retailers, products, same, end, otherEnd
    <3>2. QED
      BY <3>1
  <2>7. IsFiniteSet(orders) /\ Amounts(orders)
    <3>1. PICK w \in Warehouses : orders \subseteq w.orders
      BY DEF AnyOrders
    <3>2. QED
      BY <3>1, SimulationAssumption, FS_Subset DEF Amounts, IsOrder
  <2>8. IsFiniteSet(other) /\ Amounts(other) /\ (affected = {} => other = orders)
    BY <2>3, <2>7, OthersAreOrders
  <2> HIDE DEF other, affected, spec
  <2>9. Sum(rows[i].retailers) = MapThenSumSet(Net, rows[i].other) - MapThenSumSet(Net, rows[i].actual)
    BY <2>6, <2>7, <2>8, AggregatesAddUp
  <2>10. Sum(rows[i].products) = MapThenSumSet(Net, rows[i].other) - MapThenSumSet(Net, rows[i].actual)
    BY <2>6, <2>7, <2>8, AggregatesAddUp
  <2>11. ASSUME rows[i].affected = {}
         PROVE  /\ \A r \in DOMAIN rows[i].retailers : rows[i].retailers[r].orders = 0
                /\ rows[i].same => rows[i].ends[1] = rows[i].ends[2]
    <3>1. other = orders
      BY <2>6, <2>8, <2>11
    <3>2. \A r \in DOMAIN rows[i].retailers : rows[i].retailers[r].orders = 0
      BY <2>6, <2>7, <3>1, SameOrdersDoNotDiffer
    <3>3. rows[i].same => rows[i].ends[1] = rows[i].ends[2]
      BY <2>6, <3>1
    <3>4. QED
      BY <3>2, <3>3
  <2>12. QED
    BY <2>9, <2>10, <2>11
<1>2. QED
  BY <1>1, RunsAndResults, RowsAreOfSpecs, PTL

-----------------------------------------------------------------------------
(* What a world holds: each move of the agents accounts for the stock it takes. *)

CategoryNames == ToSet(Categories)
Statuses ==
  {None, "active", "outage"} \cup UNION {{w.dims.retailers[r] : r \in DOMAIN w.dims.retailers} : w \in Warehouses}
RetailerStates == [status : Statuses, orders : Int, revenue : Int]
ProductStates ==
  [price : Nat \cup {None}, stock : Nat \cup {None}, category : CategoryNames, velocity : Int \cup {None},
   sold : Int, since : Int, moved : Int]
Twins(R, P, s, f) ==
  [tick : Nat, retailers : [R -> RetailerStates], products : [P -> ProductStates], suspects : {s}, forecasts : {f}]
Markets ==
  [multiplier : Int, season : Int, trend : [CategoryNames -> Int], pressure : Int, baseline : Int, drawn : Nat]
Curves == [strategy : Demands, price : Nat \cup {None}, velocity : Int, owed : Int]
Sellers(P) == [strategy : Strategies, carries : Seq(P)]
WorldTypes(R, P, s, f) ==
  [twin : Twins(R, P, s, f), market : Markets, curves : [P -> Curves], sellers : [R -> Sellers(P)]]

\* What is left of a product is what there was of it and came in, less what was sold.
Accounted(product, had) == product.stock # None => product.stock = had + product.moved - product.since

\* No demand is asked of a free product: its curve has no reference price.
Worlds(R, P, s, f, had) ==
  {w \in WorldTypes(R, P, s, f) :
     \A p \in P : Accounted(w.twin.products[p], had[p]) /\ (w.twin.products[p].price = 0 => w.curves[p].price = 0)}

\* Whole numbers stay whole.
LEMMA WholeNumbers ==
  ASSUME NEW a \in Int, NEW b \in Int
  PROVE  /\ Times(a, b) \in Int /\ AtLeast0(a) \in Nat /\ Lesser(a, b) \in Int
         /\ Lesser(a, b) =< a /\ Lesser(a, b) =< b
         /\ (a >= 0 => AtLeast0(a) = a) /\ Rounded(a, 100) \in Int
         /\ \A lo \in Int : Clip(lo, a, b) \in Int
BY DEF Times, AtLeast0, Lesser, Rounded, Clip

\* The stream of random numbers and the seasons.
LEMMA CyclesGoOn ==
  ASSUME NEW n \in Nat
  PROVE  Cycle(Draw, n) \in 0..99 /\ Cycle(Season, n) \in Int
<1>1. ASSUME NEW S, NEW q \in Seq(S), q # <<>> PROVE Cycle(q, n) \in S
  <2>1. Len(q) \in Nat /\ Len(q) > 0 /\ DOMAIN q = 1..Len(q)
    BY <1>1
  <2>2. n % Len(q) \in 0..(Len(q) - 1)
    BY <2>1
  <2>3. 1 + (n % Len(q)) \in 1..Len(q)
    BY <2>1, <2>2
  <2>4. QED
    BY <2>1, <2>3 DEF Cycle
<1>2. QED
  BY <1>1, TwinAgentsAssumption

\* Demand curves are whole numbers.
LEMMA CurvesAreWhole ==
  ASSUME NEW product \in ProductStates
  PROVE  Curve(product) \in Int
<1>1. CASE product.velocity # None
  BY <1>1 DEF ProductStates, Curve
<1>2. CASE product.velocity = None /\ product.stock \in {None, 0}
  BY <1>2 DEF ProductStates, Curve
<1>3. CASE product.velocity = None /\ product.stock \notin {None, 0}
  <2>1. product.stock \in Nat \ {0} /\ product.sold \in Int
    BY <1>3 DEF ProductStates
  <2>2. Curve(product) = (100 * product.sold) \div product.stock
    BY <1>3 DEF Curve
  <2>3. QED
    BY <2>1, <2>2
<1>4. QED
  BY <1>1, <1>2, <1>3

\* What is moved in or out of stock, or sold of it, is accounted for.
LEMMA StockIsMoved ==
  ASSUME NEW product \in ProductStates, NEW had \in Int, Accounted(product, had), product.stock # None, NEW delta \in Int
  PROVE  /\ Stocked(product, delta) \in ProductStates
         /\ Accounted(Stocked(product, delta), had)
         /\ Stocked(product, delta).price = product.price
         /\ Stocked(product, delta).stock # None
<1> DEFINE left == AtLeast0(Held(product) + delta)
<1>1. product.stock \in Nat /\ Held(product) = product.stock /\ product.moved \in Int /\ product.since \in Int
  BY DEF ProductStates, Held
<1>2. left \in Nat
  BY <1>1 DEF AtLeast0
<1> HIDE DEF left
<1> DEFINE moved == product.moved + left - product.stock
<1>3. moved \in Int /\ Stocked(product, delta) = [product EXCEPT !.stock = left, !.moved = moved]
  BY <1>1, <1>2 DEF Stocked, left, ProductStates
<1> HIDE DEF moved
<1>4. /\ Stocked(product, delta).stock = left /\ Stocked(product, delta).moved = moved
      /\ Stocked(product, delta).since = product.since /\ Stocked(product, delta).price = product.price
  BY <1>1, <1>3 DEF ProductStates
<1>5. Stocked(product, delta) \in ProductStates
  BY <1>1, <1>2, <1>3 DEF ProductStates
<1>6. product.stock = had + product.moved - product.since
  BY DEF Accounted
<1>7. left = had + moved - product.since
  BY <1>1, <1>2, <1>6 DEF moved
<1>8. left # None
  BY <1>2, TwinAgentsAssumption
<1>9. QED
  BY <1>4, <1>5, <1>7, <1>8 DEF Accounted

\* What a sale takes is counted, so that the stock stays accounted for.
LEMMA StockIsSold ==
  ASSUME NEW product \in ProductStates, NEW had \in Int, Accounted(product, had), NEW quantity \in Int,
         product.stock # None => quantity =< product.stock
  PROVE  /\ Sold(product, quantity) \in ProductStates
         /\ Accounted(Sold(product, quantity), had)
         /\ Sold(product, quantity).price = product.price
<1> DEFINE left == IF product.stock = None THEN None ELSE AtLeast0(product.stock - quantity)
<1>1. product.stock \in Nat \cup {None} /\ product.sold \in Int /\ product.moved \in Int /\ product.since \in Int
  BY DEF ProductStates
<1>2. left \in Nat \cup {None} /\ (product.stock = None <=> left = None)
  BY <1>1, TwinAgentsAssumption DEF AtLeast0
<1>3. product.stock # None => left = product.stock - quantity
  BY <1>1 DEF AtLeast0
<1> DEFINE sold == product.sold + quantity
           since == product.since + quantity
<1>4. sold \in Int /\ since \in Int /\ Sold(product, quantity) = [product EXCEPT !.sold = sold, !.since = since, !.stock = left]
  BY <1>1 DEF Sold, ProductStates
<1> HIDE DEF left, sold, since
<1>5. /\ Sold(product, quantity).stock = left /\ Sold(product, quantity).since = since
      /\ Sold(product, quantity).moved = product.moved /\ Sold(product, quantity).price = product.price
  BY <1>1, <1>4 DEF ProductStates
<1>6. Sold(product, quantity) \in ProductStates
  BY <1>1, <1>2, <1>4 DEF ProductStates
<1>7. product.stock # None => left = had + product.moved - since
  BY <1>1, <1>3 DEF Accounted, since
<1>8. QED
  BY <1>2, <1>5, <1>6, <1>7 DEF Accounted

\* What a world is made of.
LEMMA WorldsAreMade ==
  ASSUME NEW R, NEW P, NEW s, NEW f, NEW had, NEW w \in Worlds(R, P, s, f, had)
  PROVE  /\ w \in WorldTypes(R, P, s, f)
         /\ w.twin \in Twins(R, P, s, f) /\ w.market \in Markets /\ w.curves \in [P -> Curves] /\ w.sellers \in [R -> Sellers(P)]
         /\ w = [twin |-> w.twin, market |-> w.market, curves |-> w.curves, sellers |-> w.sellers]
         /\ w.twin.products \in [P -> ProductStates] /\ w.twin.retailers \in [R -> RetailerStates] /\ w.twin.forecasts = f
         /\ \A p \in P : /\ w.twin.products[p] \in ProductStates /\ Accounted(w.twin.products[p], had[p])
                         /\ w.curves[p] \in Curves /\ (w.twin.products[p].price = 0 => w.curves[p].price = 0)
         /\ \A r \in R : w.sellers[r] \in Sellers(P)
<1>1. w \in WorldTypes(R, P, s, f)
  BY DEF Worlds
<1>2. /\ w.twin \in Twins(R, P, s, f) /\ w.market \in Markets /\ w.curves \in [P -> Curves] /\ w.sellers \in [R -> Sellers(P)]
      /\ w = [twin |-> w.twin, market |-> w.market, curves |-> w.curves, sellers |-> w.sellers]
  BY <1>1 DEF WorldTypes
<1>3. w.twin.products \in [P -> ProductStates] /\ w.twin.retailers \in [R -> RetailerStates] /\ w.twin.forecasts = f
  BY <1>2 DEF Twins
<1>4. QED
  BY <1>1, <1>2, <1>3 DEF Worlds

\* A world whose product p is q, with curve c, and its retailers what they are given to be.
Changed(w, p, q, c, retailers) ==
  [w EXCEPT !.twin = [w.twin EXCEPT !.products = [w.twin.products EXCEPT ![p] = q], !.retailers = retailers],
            !.curves = [w.curves EXCEPT ![p] = c]]

\* Another product, another curve: the world is still one if both are well-formed.
LEMMA ProductChanges ==
  ASSUME NEW R, NEW P, NEW s, NEW f, NEW had, NEW w \in Worlds(R, P, s, f, had), NEW p \in P,
         NEW q \in ProductStates, Accounted(q, had[p]), q.price = w.twin.products[p].price,
         NEW retailers \in [R -> RetailerStates], NEW c \in Curves, c.price = w.curves[p].price
  PROVE  /\ Changed(w, p, q, c, retailers) \in Worlds(R, P, s, f, had)
         /\ Changed(w, p, q, c, retailers).twin.products[p] = q
<1> DEFINE v == Changed(w, p, q, c, retailers)
           products == [w.twin.products EXCEPT ![p] = q]
           curves == [w.curves EXCEPT ![p] = c]
           twin2 == [w.twin EXCEPT !.products = products, !.retailers = retailers]
<1>1. products \in [P -> ProductStates] /\ curves \in [P -> Curves]
  BY WorldsAreMade
<1>2. \A x \in P : Accounted(products[x], had[x]) /\ (products[x].price = 0 => curves[x].price = 0)
  <2>1. SUFFICES ASSUME NEW x \in P PROVE Accounted(products[x], had[x]) /\ (products[x].price = 0 => curves[x].price = 0)
    OBVIOUS
  <2>2. products[x] = (IF x = p THEN q ELSE w.twin.products[x]) /\ curves[x] = (IF x = p THEN c ELSE w.curves[x])
    BY WorldsAreMade
  <2>3. Accounted(w.twin.products[x], had[x]) /\ (w.twin.products[x].price = 0 => w.curves[x].price = 0)
    BY WorldsAreMade
  <2> HIDE DEF products, curves
  <2>4. QED
    BY <2>2, <2>3
<1> HIDE DEF products, curves
<1>0. w.twin \in Twins(R, P, s, f) /\ w \in WorldTypes(R, P, s, f)
  BY WorldsAreMade
<1>3. twin2 \in Twins(R, P, s, f) /\ twin2.products = products
  BY <1>0, <1>1 DEF Twins
<1>4. v = [w EXCEPT !.twin = twin2, !.curves = curves]
  BY DEF products, curves, Changed
<1> HIDE DEF twin2, v
<1>5. v = [twin |-> twin2, market |-> w.market, curves |-> curves, sellers |-> w.sellers]
  BY <1>0, <1>4 DEF WorldTypes
<1>6. v \in WorldTypes(R, P, s, f)
  BY <1>0, <1>1, <1>3, <1>5 DEF WorldTypes
<1>7. v \in Worlds(R, P, s, f, had)
  BY <1>2, <1>3, <1>5, <1>6 DEF Worlds
<1>8. v.twin.products[p] = q
  BY <1>3, <1>5, WorldsAreMade DEF products
<1>9. QED
  BY <1>7, <1>8 DEF v

\* What is asked of a product is a whole number.
LEMMA AsksAreWhole ==
  ASSUME NEW R, NEW P, NEW s, NEW f, NEW had, NEW w \in Worlds(R, P, s, f, had), NEW p \in P
  PROVE  Ask(w, p) \in Int /\ Quantity(w, p) \in Int /\ Ask(w, p) % 100 \in Int
<1> DEFINE curve == w.curves[p]
           product == w.twin.products[p]
           market == w.market
<1>1. /\ curve \in Curves /\ product \in ProductStates /\ market \in Markets
      /\ product.price = 0 => curve.price = 0
  BY WorldsAreMade
<1>2. Ask(w, p) = curve.owed + ExpectedDemand(curve, product, market) /\ Quantity(w, p) = Ask(w, p) \div 100
  BY DEF Ask, Quantity
<1> HIDE DEF curve, product, market
<1>3. ExpectedDemand(curve, product, market) \in Int
  <2>1. CASE product.price = None \/ curve.price \in {None, 0}
    BY <2>1 DEF ExpectedDemand
  <2>2. CASE ~(product.price = None \/ curve.price \in {None, 0})
    <3> DEFINE momentum == AtLeast0(100 + curve.strategy.sensitivity * (Curve(product) - curve.velocity))
               ratio == (100 * curve.price) \div product.price
               wanted == Times(Times(curve.strategy.base, ratio), momentum)
               mood == Times(Times(market.multiplier, market.season), market.trend[product.category])
               pressure == AtLeast0(100 - market.pressure)
    <3>1. product.price \in Nat \ {0} /\ curve.price \in Nat
      BY <1>1, <2>2 DEF ProductStates, Curves
    <3>2. curve.strategy \in Demands /\ curve.velocity \in Int
      BY <1>1 DEF Curves
    <3>3. curve.strategy.sensitivity \in Int /\ curve.strategy.base \in Int
      BY <3>2 DEF Demands
    <3>4. product.category \in CategoryNames
      BY <1>1 DEF ProductStates
    <3>5. market.multiplier \in Int /\ market.season \in Int /\ market.trend[product.category] \in Int /\ market.pressure \in Int
      BY <1>1, <3>4 DEF Markets
    <3>6. ratio \in Int
      BY <3>1
    <3>7. momentum \in Int
      <4>1. Curve(product) \in Int
        BY <1>1, CurvesAreWhole
      <4>2. 100 + curve.strategy.sensitivity * (Curve(product) - curve.velocity) \in Int
        BY <3>2, <3>3, <4>1
      <4>3. QED
        BY <4>2, WholeNumbers
    <3>8. pressure \in Int
      BY <3>5 DEF AtLeast0
    <3> HIDE DEF ratio, momentum
    <3>9. Times(curve.strategy.base, ratio) \in Int
      BY <3>3, <3>6, WholeNumbers
    <3>10. wanted \in Int
      BY <3>7, <3>9, WholeNumbers
    <3>11. Times(market.multiplier, market.season) \in Int
      BY <3>5, WholeNumbers
    <3>12. mood \in Int
      BY <3>5, <3>11, WholeNumbers
    <3> HIDE DEF wanted, mood, pressure
    <3>13. Times(wanted, mood) \in Int
      BY <3>10, <3>12, WholeNumbers
    <3>14. Times(Times(wanted, mood), pressure) \in Int
      BY <3>8, <3>13, WholeNumbers
    <3>15. ExpectedDemand(curve, product, market) = AtLeast0(Times(Times(wanted, mood), pressure))
      BY <2>2 DEF ExpectedDemand, wanted, mood, pressure, ratio, momentum
    <3>16. QED
      BY <3>14, <3>15 DEF AtLeast0
  <2>3. QED
    BY <2>1, <2>2
<1>4. curve.owed \in Int
  BY <1>1 DEF Curves
<1>5. Ask(w, p) \in Int
  BY <1>2, <1>3, <1>4
<1>6. QED
  BY <1>2, <1>5

\* A curve's step keeps a world, and the product's price.
LEMMA CurvesStep ==
  ASSUME NEW R, NEW P, NEW s, NEW f, NEW had, \A x \in P : had[x] \in Int, NEW w \in Worlds(R, P, s, f, had), NEW p \in P
  PROVE  /\ CurveStep(w, p) \in Worlds(R, P, s, f, had)
         /\ CurveStep(w, p).twin.products[p].price = w.twin.products[p].price
<1> DEFINE product == w.twin.products[p]
           owed == Ask(w, p) % 100
           decayed == IF product.stock = None THEN 0 ELSE Rounded(product.stock * w.curves[p].strategy.decay, 100)
           c == [w.curves[p] EXCEPT !.owed = owed]
           q == IF decayed > 0 THEN Stocked(product, -decayed) ELSE product
           products == [w.twin.products EXCEPT ![p] = q]
           twin2 == [w.twin EXCEPT !.products = products]
           curves == [w.curves EXCEPT ![p] = c]
<1>1. /\ product \in ProductStates /\ Accounted(product, had[p]) /\ w.curves[p] \in Curves
      /\ w.twin \in Twins(R, P, s, f) /\ w \in WorldTypes(R, P, s, f)
      /\ w.twin.retailers \in [R -> RetailerStates]
  BY WorldsAreMade
<1>2. owed \in Int
  BY AsksAreWhole
<1>3. c \in Curves /\ c.price = w.curves[p].price
  <2> HIDE DEF owed
  <2>1. QED
    BY <1>1, <1>2 DEF Curves
<1>4. decayed \in Int /\ (product.stock = None => decayed = 0)
  <2>1. product.stock # None => product.stock \in Int
    BY <1>1 DEF ProductStates
  <2>2. w.curves[p].strategy.decay \in Int
    BY <1>1 DEF Curves, Demands
  <2>3. QED
    BY <2>1, <2>2 DEF Rounded
<1>5. q \in ProductStates /\ Accounted(q, had[p]) /\ q.price = product.price
  <2> HIDE DEF decayed, product
  <2>1. CASE decayed > 0
    <3>1. product.stock # None /\ -decayed \in Int /\ had[p] \in Int
      BY <1>4, <2>1
    <3>2. QED
      BY <1>1, <2>1, <3>1, StockIsMoved
  <2>2. CASE ~(decayed > 0)
    BY <1>1, <2>2
  <2>3. QED
    BY <2>1, <2>2
<1>6. CurveStep(w, p) = [w EXCEPT !.curves[p].owed = owed, !.twin = IF decayed > 0 THEN ApplyStock(@, p, -decayed) ELSE @]
  BY DEF CurveStep
<1>7. (IF decayed > 0 THEN ApplyStock(w.twin, p, -decayed) ELSE w.twin) = twin2
  <2> HIDE DEF decayed
  <2>1. CASE decayed > 0
    BY <1>1, <2>1 DEF ApplyStock, Twins
  <2>2. CASE ~(decayed > 0)
    BY <1>1, <2>2 DEF Twins
  <2>3. QED
    BY <2>1, <2>2
<1>8. CurveStep(w, p) = [w EXCEPT !.twin = twin2, !.curves = curves]
  <2> HIDE DEF decayed, owed, twin2
  <2>1. QED
    BY <1>1, <1>6, <1>7 DEF WorldTypes
<1> HIDE DEF q, c, owed, decayed
<1>9. twin2 = [w.twin EXCEPT !.products = products, !.retailers = w.twin.retailers]
  BY <1>1 DEF Twins
<1>10. CurveStep(w, p) \in Worlds(R, P, s, f, had)
  <2>1. CurveStep(w, p) = Changed(w, p, q, c, w.twin.retailers)
    BY <1>8, <1>9 DEF Changed
  <2> HIDE DEF twin2, products, curves
  <2>2. QED
    BY <1>1, <1>3, <1>5, <2>1, ProductChanges
<1>11. CurveStep(w, p).twin.products[p] = q
  BY <1>1, <1>8 DEF WorldTypes, Twins
<1>12. QED
  BY <1>5, <1>10, <1>11

\* No more is ordered than is in stock.
LEMMA OrdersAreHeld ==
  ASSUME NEW R, NEW P, NEW s, NEW f, NEW had, NEW w \in Worlds(R, P, s, f, had), NEW r \in R, NEW p \in P, NEW asked \in Int
  PROVE  /\ Orderable(w, r, p, asked) \in Int
         /\ w.twin.products[p].stock # None => Orderable(w, r, p, asked) =< w.twin.products[p].stock
<1> DEFINE stock == w.twin.products[p].stock
           strategy == w.sellers[r].strategy
           held == IF stock = None THEN asked ELSE Lesser(asked, stock)
<1>1. stock \in Nat \cup {None}
  BY WorldsAreMade DEF ProductStates
<1>2. strategy.cap \in Int
  BY WorldsAreMade DEF Sellers, Strategies
<1>3. Orderable(w, r, p, asked) = IF strategy.fulfillment = "constrained" THEN AtLeast0(Lesser(held, strategy.cap)) ELSE held
  BY DEF Orderable
<1> HIDE DEF stock, strategy
<1>4. held \in Int /\ (stock # None => held =< stock)
  BY <1>1 DEF Lesser
<1> HIDE DEF held
<1>5. stock # None => stock \in Nat
  BY <1>1
<1>6. AtLeast0(Lesser(held, strategy.cap)) \in Int /\ (stock # None => AtLeast0(Lesser(held, strategy.cap)) =< stock)
  BY <1>2, <1>4, <1>5 DEF Lesser, AtLeast0
<1>7. QED
  BY <1>3, <1>4, <1>6 DEF stock

\* Prices are whole numbers.
LEMMA PricesAreWhole ==
  ASSUME NEW R, NEW P, NEW s, NEW f, NEW had, NEW w \in Worlds(R, P, s, f, had), NEW r \in R, NEW p \in P,
         \A x \in DOMAIN f : f[x] \in Int, w.twin.products[p].price # None
  PROVE  PriceFor(w, r, p) \in Int
<1> DEFINE list == w.twin.products[p].price
           strategy == w.sellers[r].strategy
           asked == IF Promoting(w, r) THEN Times(list, 100 - strategy.discount) ELSE list
           pace == Curve(w.twin.products[p])
<1>1. list \in Int
  BY WorldsAreMade DEF ProductStates
<1>2. strategy.discount \in Int
  BY WorldsAreMade DEF Sellers, Strategies
<1>3. pace \in Int
  BY WorldsAreMade, CurvesAreWhole
<1>4. w.twin.forecasts = f
  BY WorldsAreMade
<1>5. asked \in Int
  BY <1>1, <1>2 DEF Times
<1>6. Nudge(w, r, p) \in Int
  <2>1. CASE strategy.ml /\ p \in DOMAIN f /\ pace > 0
    <3>1. Nudge(w, r, p) = 100 + Clip(-5, Times(2, (100 * f[p]) \div pace - 100), 5)
      BY <1>4, <2>1 DEF Nudge
    <3> HIDE DEF pace
    <3>2. (100 * f[p]) \div pace - 100 \in Int
      BY <1>3, <2>1
    <3>3. Times(2, (100 * f[p]) \div pace - 100) \in Int
      BY <3>2, WholeNumbers
    <3>4. QED
      BY <3>1, <3>3 DEF Clip, AtLeast0, Lesser
  <2>2. CASE ~(strategy.ml /\ p \in DOMAIN f /\ pace > 0)
    BY <1>4, <2>2 DEF Nudge
  <2>3. QED
    BY <2>1, <2>2
<1>7. PriceFor(w, r, p) = Times(asked, Nudge(w, r, p))
  BY DEF PriceFor
<1> HIDE DEF asked
<1>8. QED
  BY <1>5, <1>6, <1>7, WholeNumbers

\* A restock keeps a world.
LEMMA RestocksKeep ==
  ASSUME NEW R, NEW P, NEW s, NEW f, NEW had, \A x \in P : had[x] \in Int, NEW w \in Worlds(R, P, s, f, had),
         NEW r \in R, NEW p \in P
  PROVE  Restock(w, r, p) \in Worlds(R, P, s, f, had)
<1> DEFINE strategy == w.sellers[r].strategy
           product == w.twin.products[p]
<1>1. /\ product \in ProductStates /\ Accounted(product, had[p]) /\ w.curves[p] \in Curves
      /\ w.twin \in Twins(R, P, s, f) /\ w \in WorldTypes(R, P, s, f)
      /\ w.twin.retailers \in [R -> RetailerStates]
  BY WorldsAreMade
<1>2. strategy.reorder \in Int
  BY WorldsAreMade DEF Sellers, Strategies
<1>3. CASE strategy.inventory = "proactive" /\ product.stock # None /\ product.stock =< strategy.threshold
  <2>1. Restock(w, r, p) = [w EXCEPT !.twin = ApplyStock(@, p, strategy.reorder)]
    BY <1>3 DEF Restock
  <2>2. /\ Stocked(product, strategy.reorder) \in ProductStates
        /\ Accounted(Stocked(product, strategy.reorder), had[p])
        /\ Stocked(product, strategy.reorder).price = product.price
    BY <1>1, <1>2, <1>3, StockIsMoved
  <2>3. Restock(w, r, p) = Changed(w, p, Stocked(product, strategy.reorder), w.curves[p], w.twin.retailers)
    BY <1>1, <2>1 DEF Changed, ApplyStock, WorldTypes, Twins
  <2>4. QED
    BY <1>1, <2>2, <2>3, ProductChanges
<1>4. CASE ~(strategy.inventory = "proactive" /\ product.stock # None /\ product.stock =< strategy.threshold)
  BY <1>4 DEF Restock
<1>5. QED
  BY <1>3, <1>4

\* An order that is held and can be shipped keeps a world.
LEMMA OrdersKeep ==
  ASSUME NEW R, NEW P, NEW s, NEW f, NEW had, \A x \in P : had[x] \in Int, NEW w \in Worlds(R, P, s, f, had),
         NEW r \in R, NEW p \in P, NEW quantity \in Int, NEW amount \in Int,
         w.twin.products[p].stock # None => quantity =< w.twin.products[p].stock
  PROVE  [w EXCEPT !.twin = ApplyOrder(@, r, p, quantity, amount)] \in Worlds(R, P, s, f, had)
<1> DEFINE product == w.twin.products[p]
           retailer == w.twin.retailers[r]
           q == Sold(product, quantity)
           orders == retailer.orders + 1
           revenue == retailer.revenue + amount
           t == [retailer EXCEPT !.orders = orders, !.revenue = revenue]
           retailers == [w.twin.retailers EXCEPT ![r] = t]
<1>1. /\ product \in ProductStates /\ Accounted(product, had[p]) /\ w.curves[p] \in Curves
      /\ w.twin \in Twins(R, P, s, f) /\ w \in WorldTypes(R, P, s, f)
      /\ w.twin.retailers \in [R -> RetailerStates] /\ had[p] \in Int
  BY WorldsAreMade
<1>2. q \in ProductStates /\ Accounted(q, had[p]) /\ q.price = product.price
  <2> HIDE DEF product
  <2>1. w.twin.products[p] = product
    BY DEF product
  <2>2. product.stock # None => quantity =< product.stock
    BY <2>1
  <2>3. QED
    BY <1>1, <2>2, StockIsSold
<1>3. orders \in Int /\ revenue \in Int
  BY <1>1 DEF RetailerStates
<1>4. t \in RetailerStates
  <2> HIDE DEF orders, revenue
  <2>1. QED
    BY <1>1, <1>3 DEF RetailerStates
<1>5. retailers \in [R -> RetailerStates]
  <2> HIDE DEF t
  <2>1. QED
    BY <1>1, <1>4
<1>6. ApplyOrder(w.twin, r, p, quantity, amount) =
        [w.twin EXCEPT !.products = [w.twin.products EXCEPT ![p] = q], !.retailers = retailers]
  BY <1>1 DEF ApplyOrder, Twins, RetailerStates
<1>7. [w EXCEPT !.twin = ApplyOrder(@, r, p, quantity, amount)] = Changed(w, p, q, w.curves[p], retailers)
  <2> HIDE DEF q, retailers
  <2>1. QED
    BY <1>1, <1>6 DEF Changed, WorldTypes
<1> HIDE DEF q, retailers
<1>8. QED
  BY <1>1, <1>2, <1>5, <1>7, ProductChanges

\* Whatever a retailer tries to sell of a product keeps a world.
LEMMA SalesKeep ==
  ASSUME NEW R, NEW P, NEW s, NEW f, NEW had, \A x \in P : had[x] \in Int, \A x \in DOMAIN f : f[x] \in Int,
         NEW w \in Worlds(R, P, s, f, had), NEW r \in R, NEW p
  PROVE  Sell(w, r, p) \in Worlds(R, P, s, f, had)
<1>1. CASE p \notin DOMAIN w.twin.products \/ w.twin.products[p].price = None
  BY <1>1 DEF Sell
<1>2. CASE ~(p \notin DOMAIN w.twin.products \/ w.twin.products[p].price = None)
  <2> DEFINE asked == Quantity(w, p)
             stepped == CurveStep(w, p)
             quantity == Orderable(stepped, r, p, asked)
             amount == PriceFor(stepped, r, p) * quantity
             sold == [stepped EXCEPT !.twin = ApplyOrder(@, r, p, quantity, amount)]
  <2>1. p \in P /\ w.twin.products[p].price # None
    BY <1>2, WorldsAreMade
  <2>2. stepped \in Worlds(R, P, s, f, had) /\ stepped.twin.products[p].price # None
    BY <2>1, CurvesStep
  <2>3. asked \in Int
    BY <2>1, AsksAreWhole
  <2>4. Sell(w, r, p) = IF asked <= 0 \/ quantity <= 0 THEN stepped ELSE Restock(sold, r, p)
    BY <1>2 DEF Sell
  <2> HIDE DEF stepped, asked
  <2>5. quantity \in Int /\ (stepped.twin.products[p].stock # None => quantity =< stepped.twin.products[p].stock)
    BY <2>1, <2>2, <2>3, OrdersAreHeld
  <2>6. PriceFor(stepped, r, p) \in Int
    BY <2>1, <2>2, PricesAreWhole
  <2> HIDE DEF quantity
  <2>7. amount \in Int
    BY <2>5, <2>6
  <2> HIDE DEF amount
  <2>8. sold \in Worlds(R, P, s, f, had)
    BY <2>1, <2>2, <2>5, <2>7, OrdersKeep
  <2> HIDE DEF sold
  <2>9. Restock(sold, r, p) \in Worlds(R, P, s, f, had)
    BY <2>1, <2>8, RestocksKeep
  <2>10. QED
    BY <2>2, <2>4, <2>9
<1>3. QED
  BY <1>1, <1>2

\* The steps of a loop stay in a set.
StepsInside(S, N, step) == \A n \in 1..N : \A x \in S : step[n][x] \in S
Values(g, S, N, a, step) == g \in [0..N -> S] /\ g = [n \in 0..N |-> IF n = 0 THEN a ELSE step[n][g[n - 1]]]

\* A loop over a set has values of that set: its equation has a solution.
LEMMA LoopsHaveValues ==
  ASSUME NEW S, NEW N \in Nat, NEW a \in S, NEW step, StepsInside(S, N, step)
  PROVE  \E g : Values(g, S, N, a, step)
<1>1. PICK g : Runs(g, N, S, a, step)
  BY Iterates DEF StepsInside
<1>2. g \in [0..N -> S] /\ g[0] = a /\ \A n \in 1..N : g[n] = step[n][g[n - 1]]
  BY <1>1 DEF Runs
<1>3. ASSUME NEW n \in 0..N PROVE g[n] = IF n = 0 THEN a ELSE step[n][g[n - 1]]
  <2>1. n # 0 => n \in 1..N
    OBVIOUS
  <2>2. QED
    BY <1>2, <2>1
<1>4. QED
  BY <1>2, <1>3 DEF Values

\* Serving keeps a world: whatever a retailer carries, it is tried one after another.
LEMMA ServesKeep ==
  ASSUME NEW R, NEW P, NEW s, NEW f, NEW had, \A x \in P : had[x] \in Int, \A x \in DOMAIN f : f[x] \in Int,
         NEW w \in Worlds(R, P, s, f, had), NEW r \in R
  PROVE  Serve(w, r) \in Worlds(R, P, s, f, had)
<1> DEFINE W == Worlds(R, P, s, f, had)
           carries == w.sellers[r].carries
           N == Len(carries)
           step == [n \in 1..N |-> [x \in W |-> Sell(x, r, carries[n])]]
<1>1. N \in Nat
  <2>1. carries \in Seq(P)
    BY WorldsAreMade DEF Sellers
  <2>2. QED
    BY <2>1
<1>2. \A n \in 1..N : \A x \in W : Sell(x, r, carries[n]) \in W
  BY SalesKeep
<1> DEFINE after[n \in 0..N] == IF n = 0 THEN w ELSE Sell(after[n - 1], r, carries[n])
<1>0. Serve(w, r) = after[N]
  BY Zenon DEF Serve
<1> HIDE DEF W, N
<1>3. StepsInside(W, N, step)
  BY <1>2 DEF StepsInside
<1> HIDE DEF step
<1>4. w \in W
  BY DEF W
<1>5. PICK g : g \in [0..N -> W] /\ g = [n \in 0..N |-> IF n = 0 THEN w ELSE step[n][g[n - 1]]]
  <2>1. PICK h : Values(h, W, N, w, step)
    BY <1>1, <1>3, <1>4, LoopsHaveValues
  <2>2. QED
    BY <2>1 DEF Values
<1>6. ASSUME NEW n \in 0..N PROVE g[n] = IF n = 0 THEN w ELSE Sell(g[n - 1], r, carries[n])
  <2>1. n # 0 => n \in 1..N /\ n - 1 \in 0..N
    BY <1>1
  <2>2. n # 0 => g[n - 1] \in W
    BY <1>5, <2>1
  <2>3. n # 0 => step[n][g[n - 1]] = Sell(g[n - 1], r, carries[n])
    BY <2>1, <2>2 DEF step
  <2>4. QED
    BY <1>5, <2>3
<1>7. g = [n \in 0..N |-> IF n = 0 THEN w ELSE Sell(g[n - 1], r, carries[n])]
  BY <1>5, <1>6
<1>8. after = [n \in 0..N |-> IF n = 0 THEN w ELSE Sell(after[n - 1], r, carries[n])]
  BY <1>7, Zenon
<1> HIDE DEF after
<1>9. after[0] \in W /\ \A n \in 1..N : after[n - 1] \in W => after[n] \in W
  <2>1. 0 \in 0..N /\ \A n \in 1..N : n \in 0..N /\ n # 0
    BY <1>1
  <2>2. after[0] = w /\ \A n \in 1..N : after[n] = Sell(after[n - 1], r, carries[n])
    BY <1>8, <2>1
  <2>3. QED
    BY <1>2, <1>4, <2>2
<1>10. \A n \in 0..N : after[n] \in W
  BY <1>1, <1>9, StaysInside
<1>11. QED
  BY <1>0, <1>1, <1>10 DEF W

\* So does a retailer's turn.
LEMMA TurnsKeep ==
  ASSUME NEW R, NEW P, NEW s, NEW f, NEW had, \A x \in P : had[x] \in Int, \A x \in DOMAIN f : f[x] \in Int,
         NEW w \in Worlds(R, P, s, f, had), NEW r \in R
  PROVE  SellerStep(w, r) \in Worlds(R, P, s, f, had)
BY ServesKeep DEF SellerStep

\* There are only so many categories.
LEMMA CategoriesAreFew ==
  /\ IsFiniteSet(CategoryNames)
  /\ \A c, S : Place(c, S) \in Nat
<1>1. Categories \in Seq(CategoryNames) /\ DOMAIN Categories = 1..Len(Categories) /\ Len(Categories) \in Nat
  BY TwinAgentsAssumption DEF CategoryNames
<1>2. IsFiniteSet(DOMAIN Categories)
  BY <1>1, FS_Interval
<1>3. CategoryNames = {Categories[x] : x \in DOMAIN Categories}
  BY DEF CategoryNames, ToSet
<1>4. \A c, S : Place(c, S) \in Nat
  <2> TAKE c, S
  <2> DEFINE D == {i \in DOMAIN Categories : Categories[i] \in S /\ \E j \in DOMAIN Categories : i < j /\ Categories[j] = c}
  <2>1. IsFiniteSet(D)
    BY <1>2, FS_Subset
  <2>2. Place(c, S) = Cardinality(D)
    BY DEF Place
  <2> HIDE DEF D
  <2>3. QED
    BY <2>1, <2>2, FS_CardinalityType
<1>5. QED
  BY <1>2, <1>3, <1>4, ImagesAreFinite

\* The market's step keeps its numbers whole.
LEMMA MarketsKeep ==
  ASSUME NEW market \in Markets, NEW R, NEW P, NEW s, NEW f, NEW t \in Twins(R, P, s, f)
  PROVE  MarketStep(market, t) \in Markets
<1> DEFINE cats == CategoriesOf(t)
           shocked == Cycle(Draw, market.drawn) < Shock.chance
           n == market.drawn + (IF shocked THEN 2 ELSE 1)
           season == Cycle(Season, t.tick)
           multiplier == IF shocked
                         THEN Shock.low + Times(Shock.high - Shock.low, Cycle(Draw, market.drawn + 1))
                         ELSE market.multiplier + ((100 - market.multiplier) * 3) \div 10
           drift(c) == 100 - TrendDrift + Times(2 * TrendDrift, Cycle(Draw, n + Place(c, cats)))
           trend == [c \in DOMAIN market.trend |-> IF c \notin cats THEN market.trend[c] ELSE Times(market.trend[c], drift(c))]
           drawn == n + Cardinality(cats)
<1>1. /\ market.multiplier \in Int /\ market.baseline \in Int /\ market.drawn \in Nat
      /\ market.trend \in [CategoryNames -> Int]
  BY DEF Markets
<1>2. t.tick \in Nat /\ t.products \in [P -> ProductStates]
  BY DEF Twins
<1>3. cats \subseteq CategoryNames
  <2>1. ASSUME NEW p \in P PROVE t.products[p].category \in CategoryNames
    <3>1. t.products[p] \in ProductStates
      BY <1>2
    <3>2. QED
      BY <3>1 DEF ProductStates
  <2>2. DOMAIN t.products = P
    BY <1>2
  <2>3. QED
    BY <2>1, <2>2 DEF CategoriesOf
<1>4. Cardinality(cats) \in Nat
  <2> HIDE DEF cats
  <2>1. QED
    BY <1>3, CategoriesAreFew, FS_Subset, FS_CardinalityType
<1>5. season \in Int
  BY <1>2, CyclesGoOn
<1>6. multiplier \in Int
  <2>1. market.drawn + 1 \in Nat
    BY <1>1
  <2>2. Cycle(Draw, market.drawn + 1) \in Int
    BY <2>1, CyclesGoOn
  <2>3. QED
    BY <1>1, <2>2 DEF Times, Shock
<1>7. n \in Nat
  BY <1>1
<1> HIDE DEF n, cats
<1>8. drawn \in Nat
  BY <1>4, <1>7
<1>9. ASSUME NEW c PROVE drift(c) \in Int
  <2>1. n + Place(c, cats) \in Nat
    BY <1>7, CategoriesAreFew
  <2>2. Cycle(Draw, n + Place(c, cats)) \in Int
    BY <2>1, CyclesGoOn
  <2>3. QED
    BY <2>2 DEF Times, TrendDrift
<1>10. trend \in [CategoryNames -> Int]
  <2> HIDE DEF drift
  <2>1. ASSUME NEW c \in CategoryNames PROVE market.trend[c] \in Int /\ Times(market.trend[c], drift(c)) \in Int
    BY <1>1, <1>9 DEF Times
  <2>2. QED
    BY <1>1, <2>1
<1>11. MarketStep(market, t) =
         [market EXCEPT !.season = season, !.multiplier = multiplier, !.trend = trend, !.drawn = drawn, !.pressure = market.baseline]
  BY DEF MarketStep, n, cats, Markets
<1> HIDE DEF season, multiplier, trend, drawn
<1>12. QED
  BY <1>1, <1>5, <1>6, <1>8, <1>10, <1>11 DEF Markets

\* The same curves with another twin, market and sellers.
Rebuilt(w, t, market, sellers) == [twin |-> t, market |-> market, curves |-> w.curves, sellers |-> sellers]

\* Another market, other retailers, other sellers, another tick: still a world.
LEMMA PartsMakeWorlds ==
  ASSUME NEW R, NEW P, NEW s, NEW f, NEW had, NEW w \in Worlds(R, P, s, f, had),
         NEW t \in Twins(R, P, s, f), t.products = w.twin.products,
         NEW market \in Markets, NEW sellers \in [R -> Sellers(P)]
  PROVE  Rebuilt(w, t, market, sellers) \in Worlds(R, P, s, f, had)
<1>1. w.curves \in [P -> Curves]
  BY WorldsAreMade
<1>2. Rebuilt(w, t, market, sellers) \in WorldTypes(R, P, s, f)
  BY <1>1 DEF Rebuilt, WorldTypes
<1>3. \A p \in P : Accounted(t.products[p], had[p]) /\ (t.products[p].price = 0 => w.curves[p].price = 0)
  BY WorldsAreMade
<1>4. QED
  BY <1>2, <1>3 DEF Worlds, Rebuilt

\* A day's trade keeps a world: the market moves, and the retailers have their turns.
LEMMA TradesKeep ==
  ASSUME NEW R, IsFiniteSet(R), NEW P, NEW s, NEW f, NEW had, \A x \in P : had[x] \in Int,
         \A x \in DOMAIN f : f[x] \in Int, NEW w \in Worlds(R, P, s, f, had)
  PROVE  Trade(w) \in Worlds(R, P, s, f, had)
<1> DEFINE W == Worlds(R, P, s, f, had)
           order == SetToSeq(DOMAIN w.twin.retailers)
           N == Len(order)
           opened == [w EXCEPT !.market = MarketStep(@, w.twin)]
           step == [n \in 1..N |-> [x \in W |-> SellerStep(x, order[n])]]
           after[n \in 0..N] == IF n = 0 THEN opened ELSE SellerStep(after[n - 1], order[n])
<1>0. Trade(w) = after[N]
  BY Zenon DEF Trade
<1>1. DOMAIN w.twin.retailers = R
  BY WorldsAreMade
<1>2. order \in Seq(R)
  BY <1>1, ListsOfSets
<1>3. N \in Nat /\ \A n \in 1..N : order[n] \in R
  <2> HIDE DEF order
  <2>1. QED
    BY <1>2
<1>4. opened \in W
  <2>1. opened = Rebuilt(w, w.twin, MarketStep(w.market, w.twin), w.sellers)
    BY WorldsAreMade DEF Rebuilt
  <2>2. /\ w.twin \in Twins(R, P, s, f) /\ MarketStep(w.market, w.twin) \in Markets
        /\ w.sellers \in [R -> Sellers(P)]
    BY WorldsAreMade, MarketsKeep
  <2>3. QED
    BY <2>1, <2>2, PartsMakeWorlds
<1> HIDE DEF opened, order
<1>5. \A n \in 1..N : \A x \in W : SellerStep(x, order[n]) \in W
  BY <1>3, TurnsKeep
<1> HIDE DEF W, N
<1>6. StepsInside(W, N, step)
  BY <1>5 DEF StepsInside
<1> HIDE DEF step
<1>7. PICK g : g \in [0..N -> W] /\ g = [n \in 0..N |-> IF n = 0 THEN opened ELSE step[n][g[n - 1]]]
  <2>1. PICK h : Values(h, W, N, opened, step)
    BY <1>3, <1>4, <1>6, LoopsHaveValues
  <2>2. QED
    BY <2>1 DEF Values
<1>8. ASSUME NEW n \in 0..N PROVE g[n] = IF n = 0 THEN opened ELSE SellerStep(g[n - 1], order[n])
  <2>1. n # 0 => n \in 1..N /\ n - 1 \in 0..N
    BY <1>3
  <2>2. n # 0 => g[n - 1] \in W
    BY <1>7, <2>1
  <2>3. n # 0 => step[n][g[n - 1]] = SellerStep(g[n - 1], order[n])
    BY <2>1, <2>2 DEF step
  <2>4. QED
    BY <1>7, <2>3
<1>9. g = [n \in 0..N |-> IF n = 0 THEN opened ELSE SellerStep(g[n - 1], order[n])]
  BY <1>7, <1>8
<1>10. after = [n \in 0..N |-> IF n = 0 THEN opened ELSE SellerStep(after[n - 1], order[n])]
  BY <1>9, Zenon
<1> HIDE DEF after
<1>11. after[0] \in W /\ \A n \in 1..N : after[n - 1] \in W => after[n] \in W
  <2>1. 0 \in 0..N /\ \A n \in 1..N : n \in 0..N /\ n # 0
    BY <1>3
  <2>2. after[0] = opened /\ \A n \in 1..N : after[n] = SellerStep(after[n - 1], order[n])
    BY <1>10, <2>1
  <2>3. QED
    BY <1>4, <1>5, <2>2
<1>12. \A n \in 0..N : after[n] \in W
  BY <1>3, <1>11, StaysInside
<1>13. QED
  BY <1>0, <1>3, <1>12 DEF W

\* A run: a world, and what is to be undone.
Undos(R) ==
  [outage : {None} \cup [retailer : R, tick : Int],
   promotion : {None} \cup [retailer : R, tick : Int, strategy : Strategies]]
TickRuns(R, P, s, f, had) == [world : Worlds(R, P, s, f, had), undo : Undos(R)]

\* A change of status keeps a twin, and its products.
LEMMA StatusesKeep ==
  ASSUME NEW R, NEW P, NEW s, NEW f, NEW t \in Twins(R, P, s, f), NEW r \in R, NEW status \in Statuses
  PROVE  ApplyStatus(t, r, status) \in Twins(R, P, s, f) /\ ApplyStatus(t, r, status).products = t.products
<1> DEFINE retailer == [t.retailers[r] EXCEPT !.status = status]
           retailers == [t.retailers EXCEPT ![r] = retailer]
<1>1. t.retailers \in [R -> RetailerStates]
  BY DEF Twins
<1>2. retailer \in RetailerStates
  BY <1>1 DEF RetailerStates
<1>3. ApplyStatus(t, r, status) = [t EXCEPT !.retailers = retailers]
  BY <1>1 DEF ApplyStatus, Twins, RetailerStates
<1> HIDE DEF retailer
<1>4. retailers \in [R -> RetailerStates]
  BY <1>1, <1>2
<1> HIDE DEF retailers
<1>5. QED
  BY <1>3, <1>4 DEF Twins

\* What an outage and a promotion changed is undone in a world.
LEMMA HooksKeep ==
  ASSUME NEW R, NEW P, NEW s, NEW f, NEW had, NEW run \in TickRuns(R, P, s, f, had)
  PROVE  Hook(run) \in TickRuns(R, P, s, f, had)
<1> DEFINE w == run.world
           t == w.twin
           back == run.undo.outage
           over == run.undo.promotion
           opened == IF Due(back, t)
                     THEN [run EXCEPT !.world.twin = ApplyStatus(@, back.retailer, "active"), !.undo.outage = None]
                     ELSE run
           closed == [opened EXCEPT !.world.sellers[over.retailer].strategy =
                           [@ EXCEPT !.promotion = over.strategy.promotion,
                                     !.discount = over.strategy.discount,
                                     !.every = over.strategy.every],
                         !.undo.promotion = None]
<1>1. /\ w \in Worlds(R, P, s, f, had) /\ run.undo \in Undos(R)
      /\ run = [world |-> w, undo |-> run.undo]
      /\ run.undo = [outage |-> back, promotion |-> over]
      /\ back \in {None} \cup [retailer : R, tick : Int]
      /\ over \in {None} \cup [retailer : R, tick : Int, strategy : Strategies]
  BY DEF TickRuns, Undos
<1>2. /\ t \in Twins(R, P, s, f) /\ w.market \in Markets /\ w.sellers \in [R -> Sellers(P)]
      /\ w = [twin |-> t, market |-> w.market, curves |-> w.curves, sellers |-> w.sellers]
  BY <1>1, WorldsAreMade
<1>3. Hook(run) = IF Due(over, t) THEN closed ELSE opened
  BY DEF Hook
<1>4. PICK w2, back2 : /\ w2 \in Worlds(R, P, s, f, had) /\ back2 \in {None} \cup [retailer : R, tick : Int]
                       /\ opened = [world |-> w2, undo |-> [outage |-> back2, promotion |-> over]]
  <2>1. CASE Due(back, t)
    <3> DEFINE t2 == ApplyStatus(t, back.retailer, "active")
    <3>1. back.retailer \in R
      BY <1>1, <2>1 DEF Due
    <3>2. t2 \in Twins(R, P, s, f) /\ t2.products = t.products
      BY <1>2, <3>1, StatusesKeep DEF Statuses
    <3>3. opened = [world |-> [w EXCEPT !.twin = t2], undo |-> [outage |-> None, promotion |-> over]]
      BY <1>1, <1>2, <2>1
    <3> HIDE DEF t2
    <3>4. [w EXCEPT !.twin = t2] = Rebuilt(w, t2, w.market, w.sellers)
      BY <1>2 DEF Rebuilt
    <3>5. [w EXCEPT !.twin = t2] \in Worlds(R, P, s, f, had)
      BY <1>1, <1>2, <3>2, <3>4, PartsMakeWorlds
    <3>6. QED
      BY <3>3, <3>5
  <2>2. CASE ~Due(back, t)
    BY <1>1, <2>2
  <2>3. QED
    BY <2>1, <2>2
<1> HIDE DEF opened
<1>5. opened \in TickRuns(R, P, s, f, had)
  BY <1>1, <1>4 DEF TickRuns, Undos
<1>6. ASSUME Due(over, t) PROVE closed \in TickRuns(R, P, s, f, had)
  <2> DEFINE r == over.retailer
             seller == w2.sellers[r]
             strategy == [seller.strategy EXCEPT !.promotion = over.strategy.promotion,
                            !.discount = over.strategy.discount, !.every = over.strategy.every]
             sellers == [w2.sellers EXCEPT ![r] = [seller EXCEPT !.strategy = strategy]]
  <2>1. r \in R /\ over.strategy \in Strategies
    BY <1>1, <1>6 DEF Due
  <2>2. /\ w2.twin \in Twins(R, P, s, f) /\ w2.market \in Markets /\ w2.sellers \in [R -> Sellers(P)]
        /\ w2 = [twin |-> w2.twin, market |-> w2.market, curves |-> w2.curves, sellers |-> w2.sellers]
    BY <1>4, WorldsAreMade
  <2>3. seller \in Sellers(P)
    BY <2>1, <2>2
  <2>4. strategy \in Strategies
    <3> HIDE DEF seller
    <3>1. seller.strategy \in Strategies
      BY <2>3 DEF Sellers
    <3>2. QED
      BY <2>1, <3>1 DEF Strategies
  <2>5. closed = [world |-> [w2 EXCEPT !.sellers = sellers], undo |-> [outage |-> back2, promotion |-> None]]
    <3> HIDE DEF over
    <3> DEFINE undo == [outage |-> back2, promotion |-> over]
    <3>1. opened = [world |-> w2, undo |-> undo]
      BY <1>4
    <3>2. closed = [opened EXCEPT !.world = [w2 EXCEPT !.sellers[r].strategy = strategy], !.undo = [undo EXCEPT !.promotion = None]]
      <4> HIDE DEF undo
      <4>1. opened.world = w2 /\ opened.undo = undo
        BY <3>1
      <4>2. w2.sellers[r] = seller
        OBVIOUS
      <4> HIDE DEF seller
      <4>3. QED
        BY <3>1, <4>1, <4>2
    <3>3. [w2 EXCEPT !.sellers[r].strategy = strategy] = [w2 EXCEPT !.sellers = sellers]
      <4> HIDE DEF strategy
      <4>1. QED
        BY <2>1, <2>2, <2>3 DEF Sellers
    <3> HIDE DEF sellers, closed
    <3>4. QED
      BY <3>1, <3>2, <3>3
  <2> HIDE DEF strategy, closed
  <2>6. sellers \in [R -> Sellers(P)]
    <3>1. [seller EXCEPT !.strategy = strategy] \in Sellers(P)
      <4> HIDE DEF seller
      <4>1. QED
        BY <2>3, <2>4 DEF Sellers
    <3>2. QED
      BY <2>2, <3>1
  <2> HIDE DEF sellers
  <2>7. [w2 EXCEPT !.sellers = sellers] = Rebuilt(w2, w2.twin, w2.market, sellers)
    BY <2>2 DEF Rebuilt
  <2>8. [w2 EXCEPT !.sellers = sellers] \in Worlds(R, P, s, f, had)
    BY <1>4, <2>2, <2>6, <2>7, PartsMakeWorlds
  <2>9. QED
    BY <1>4, <2>5, <2>8 DEF TickRuns, Undos
<1>7. QED
  BY <1>3, <1>5, <1>6

\* So does a whole tick.
LEMMA TicksKeep ==
  ASSUME NEW R, IsFiniteSet(R), NEW P, NEW s, NEW f, NEW had, \A x \in P : had[x] \in Int,
         \A x \in DOMAIN f : f[x] \in Int, NEW run \in TickRuns(R, P, s, f, had)
  PROVE  Tick(run) \in TickRuns(R, P, s, f, had)
<1> DEFINE traded == [run EXCEPT !.world = Trade(@)]
           hooked == Hook(traded)
           w == hooked.world
           t == [w.twin EXCEPT !.tick = w.twin.tick + 1]
<1>1. traded \in TickRuns(R, P, s, f, had)
  <2>1. run.world \in Worlds(R, P, s, f, had) /\ run.undo \in Undos(R)
    BY DEF TickRuns
  <2>2. Trade(run.world) \in Worlds(R, P, s, f, had)
    BY <2>1, TradesKeep
  <2>3. traded = [world |-> Trade(run.world), undo |-> run.undo]
    BY DEF TickRuns
  <2>4. QED
    BY <2>1, <2>2, <2>3 DEF TickRuns
<1>2. hooked \in TickRuns(R, P, s, f, had)
  <2> HIDE DEF traded
  <2>1. QED
    BY <1>1, HooksKeep
<1>3. Tick(run) = [hooked EXCEPT !.world.twin.tick = @ + 1]
  BY DEF Tick
<1> HIDE DEF hooked
<1>4. w \in Worlds(R, P, s, f, had) /\ hooked.undo \in Undos(R) /\ hooked = [world |-> w, undo |-> hooked.undo]
  BY <1>2 DEF TickRuns
<1>5. /\ w.twin \in Twins(R, P, s, f) /\ w.market \in Markets /\ w.sellers \in [R -> Sellers(P)]
      /\ w = [twin |-> w.twin, market |-> w.market, curves |-> w.curves, sellers |-> w.sellers]
  BY <1>4, WorldsAreMade
<1>6. t \in Twins(R, P, s, f) /\ t.products = w.twin.products
  BY <1>5 DEF Twins
<1>7. Tick(run) = [world |-> Rebuilt(w, t, w.market, w.sellers), undo |-> hooked.undo]
  BY <1>3, <1>4, <1>5 DEF Rebuilt, Twins
<1> HIDE DEF t
<1>8. Rebuilt(w, t, w.market, w.sellers) \in Worlds(R, P, s, f, had)
  BY <1>4, <1>5, <1>6, PartsMakeWorlds
<1>9. QED
  BY <1>4, <1>7, <1>8 DEF TickRuns

\* A run goes through values, one for each tick.
LEMMA RunsUnfold ==
  ASSUME NEW R, IsFiniteSet(R), NEW P, NEW s, NEW f, NEW had, \A x \in P : had[x] \in Int,
         \A x \in DOMAIN f : f[x] \in Int, NEW run \in TickRuns(R, P, s, f, had), NEW ticks \in Nat
  PROVE  \E after : /\ RunTicks(run, ticks) = after[ticks].world.twin
                    /\ after[0] = run /\ \A n \in 1..ticks : after[n] = Tick(after[n - 1])
<1> DEFINE W == TickRuns(R, P, s, f, had)
           step == [n \in 1..ticks |-> [x \in W |-> Tick(x)]]
           after[n \in 0..ticks] == IF n = 0 THEN run ELSE Tick(after[n - 1])
<1>0. RunTicks(run, ticks) = after[ticks].world.twin
  BY Zenon DEF RunTicks
<1>1. \A x \in W : Tick(x) \in W
  BY TicksKeep
<1>2. run \in W
  OBVIOUS
<1> HIDE DEF W
<1>4. StepsInside(W, ticks, step)
  BY <1>1 DEF StepsInside
<1> HIDE DEF step
<1>5. PICK g : g \in [0..ticks -> W] /\ g = [n \in 0..ticks |-> IF n = 0 THEN run ELSE step[n][g[n - 1]]]
  <2>1. PICK h : Values(h, W, ticks, run, step)
    BY <1>2, <1>4, LoopsHaveValues
  <2>2. QED
    BY <2>1 DEF Values
<1>6. ASSUME NEW n \in 0..ticks PROVE g[n] = IF n = 0 THEN run ELSE Tick(g[n - 1])
  <2>1. n # 0 => n \in 1..ticks /\ n - 1 \in 0..ticks
    OBVIOUS
  <2>2. n # 0 => g[n - 1] \in W
    BY <1>5, <2>1
  <2>3. n # 0 => step[n][g[n - 1]] = Tick(g[n - 1])
    BY <2>1, <2>2 DEF step
  <2>4. QED
    BY <1>5, <2>3
<1>7. g = [n \in 0..ticks |-> IF n = 0 THEN run ELSE Tick(g[n - 1])]
  BY <1>5, <1>6
<1>8. after = [n \in 0..ticks |-> IF n = 0 THEN run ELSE Tick(after[n - 1])]
  BY <1>7, Zenon
<1> HIDE DEF after
<1>9. 0 \in 0..ticks /\ \A n \in 1..ticks : n \in 0..ticks /\ n # 0
  OBVIOUS
<1>10. after[0] = run /\ \A n \in 1..ticks : after[n] = Tick(after[n - 1])
  BY <1>8, <1>9
<1>11. QED
  BY <1>0, <1>10

\* What a run of ticks leaves accounts for its stock.
LEMMA RunsKeep ==
  ASSUME NEW R, IsFiniteSet(R), NEW P, NEW s, NEW f, NEW had, \A x \in P : had[x] \in Int,
         \A x \in DOMAIN f : f[x] \in Int, NEW run \in TickRuns(R, P, s, f, had), NEW ticks \in Nat
  PROVE  \E w \in Worlds(R, P, s, f, had) : RunTicks(run, ticks) = w.twin
<1> DEFINE W == TickRuns(R, P, s, f, had)
<1>1. PICK after : /\ RunTicks(run, ticks) = after[ticks].world.twin
                   /\ after[0] = run /\ \A n \in 1..ticks : after[n] = Tick(after[n - 1])
  BY RunsUnfold
<1>2. \A x \in W : Tick(x) \in W
  BY TicksKeep
<1>3. \A x \in W : x.world \in Worlds(R, P, s, f, had)
  BY DEF TickRuns
<1> HIDE DEF W
<1>4. after[0] \in W /\ \A n \in 1..ticks : after[n - 1] \in W => after[n] \in W
  BY <1>1, <1>2 DEF W
<1>5. \A n \in 0..ticks : after[n] \in W
  BY <1>4, StaysInside
<1>6. QED
  BY <1>1, <1>3, <1>5

-----------------------------------------------------------------------------
(* The twins runs start from, and what a setup makes of them.               *)

\* The members of a list that are in a set are a list of the set.
LEMMA AmongIsInside ==
  ASSUME NEW T, NEW list \in Seq(T), NEW S
  PROVE  Among(list, S) \in Seq(S)
<1> DEFINE W == Seq(S)
           N == Len(list)
           step == [n \in 1..N |-> [x \in W |-> IF list[n] \in S THEN Append(x, list[n]) ELSE x]]
           after[n \in 0..N] == IF n = 0 THEN <<>> ELSE IF list[n] \in S THEN Append(after[n - 1], list[n]) ELSE after[n - 1]
<1>0. Among(list, S) = after[N]
  BY Zenon DEF Among
<1>1. N \in Nat
  OBVIOUS
<1>2. \A n \in 1..N : \A x \in W : (IF list[n] \in S THEN Append(x, list[n]) ELSE x) \in W
  OBVIOUS
<1>3. <<>> \in W
  OBVIOUS
<1> HIDE DEF W, N
<1>4. StepsInside(W, N, step)
  BY <1>2 DEF StepsInside
<1> HIDE DEF step
<1>5. PICK g : g \in [0..N -> W] /\ g = [n \in 0..N |-> IF n = 0 THEN <<>> ELSE step[n][g[n - 1]]]
  <2>1. PICK h : Values(h, W, N, <<>>, step)
    BY <1>1, <1>3, <1>4, LoopsHaveValues
  <2>2. QED
    BY <2>1 DEF Values
<1>6. ASSUME NEW n \in 0..N
      PROVE  g[n] = IF n = 0 THEN <<>> ELSE IF list[n] \in S THEN Append(g[n - 1], list[n]) ELSE g[n - 1]
  <2>1. n # 0 => n \in 1..N /\ n - 1 \in 0..N
    BY <1>1
  <2>2. n # 0 => g[n - 1] \in W
    BY <1>5, <2>1
  <2>3. n # 0 => step[n][g[n - 1]] = IF list[n] \in S THEN Append(g[n - 1], list[n]) ELSE g[n - 1]
    BY <2>1, <2>2 DEF step
  <2>4. QED
    BY <1>5, <2>3
<1>7. g = [n \in 0..N |-> IF n = 0 THEN <<>> ELSE IF list[n] \in S THEN Append(g[n - 1], list[n]) ELSE g[n - 1]]
  BY <1>5, <1>6
<1>8. after = [n \in 0..N |-> IF n = 0 THEN <<>> ELSE IF list[n] \in S THEN Append(after[n - 1], list[n]) ELSE after[n - 1]]
  BY <1>7, Zenon
<1> HIDE DEF after
<1>9. after[0] \in W /\ \A n \in 1..N : after[n - 1] \in W => after[n] \in W
  <2>1. 0 \in 0..N /\ \A n \in 1..N : n \in 0..N /\ n # 0
    BY <1>1
  <2>2. after[0] = <<>> /\ \A n \in 1..N : after[n] = IF list[n] \in S THEN Append(after[n - 1], list[n]) ELSE after[n - 1]
    BY <1>8, <2>1
  <2>3. QED
    BY <1>2, <1>3, <2>2
<1>10. \A n \in 0..N : after[n] \in W
  BY <1>1, <1>9, StaysInside
<1>11. QED
  BY <1>0, <1>1, <1>10 DEF W

\* A twin from which nothing has been sold or moved yet, of these retailers and products.
FreshTwin(t, R, P, s, f) ==
  /\ IsFiniteSet(R) /\ IsFiniteSet(P) /\ (\A x \in DOMAIN f : f[x] \in Int)
  /\ t \in Twins(R, P, s, f)
  /\ \A p \in P : t.products[p].since = 0 /\ t.products[p].moved = 0
Stocks(t) == [p \in DOMAIN t.products |-> Held(t.products[p])]
Lists(pairs) == \A r \in DOMAIN pairs : \E T : pairs[r] \in Seq(T)
OverridesOK(overrides) ==
  /\ \A r \in DOMAIN overrides.sellers : overrides.sellers[r] \in Strategies
  /\ \A p \in DOMAIN overrides.curves : overrides.curves[p] \in Demands

\* Where nothing has been sold or moved all stock is accounted for.
LEMMA FreshIsAccounted ==
  ASSUME NEW R, NEW P, NEW s, NEW f, NEW t, FreshTwin(t, R, P, s, f), NEW p \in P
  PROVE  /\ p \in DOMAIN t.products /\ t.products[p] \in ProductStates /\ Stocks(t)[p] \in Int
         /\ Stocks(t)[p] = Held(t.products[p])
         /\ Accounted(t.products[p], Stocks(t)[p])
         /\ t.products[p].since = 0 /\ t.products[p].moved = 0
<1>1. t.products \in [P -> ProductStates] /\ t.products[p].since = 0 /\ t.products[p].moved = 0
  BY DEF FreshTwin, Twins
<1>2. Stocks(t)[p] = Held(t.products[p]) /\ p \in DOMAIN t.products /\ t.products[p] \in ProductStates
  BY <1>1 DEF Stocks
<1>3. Held(t.products[p]) \in Int /\ (t.products[p].stock # None => Held(t.products[p]) = t.products[p].stock)
  <2>1. t.products[p].stock \in Nat \cup {None}
    BY <1>2 DEF ProductStates
  <2>2. QED
    BY <2>1 DEF Held
<1>4. Accounted(t.products[p], Held(t.products[p]))
  BY <1>1, <1>3 DEF Accounted
<1>5. QED
  BY <1>1, <1>2, <1>3, <1>4

\* The agents built for such a twin make a world.
LEMMA BuildsMakeWorlds ==
  ASSUME NEW R, NEW P, NEW s, NEW f, NEW t, FreshTwin(t, R, P, s, f), NEW pairs, Lists(pairs),
         NEW overrides, OverridesOK(overrides)
  PROVE  BuildWorld(t, pairs, overrides) \in Worlds(R, P, s, f, Stocks(t))
<1> DEFINE all == SetToSeq(DOMAIN t.products)
           curves == [p \in DOMAIN t.products |->
             NewCurve(Chosen(overrides.curves, p, NewDemand), t.products[p], Curve(t.products[p]))]
           list(r) == IF r \in DOMAIN pairs THEN pairs[r] ELSE all
           sellers == [r \in DOMAIN t.retailers |->
             [strategy |-> Chosen(overrides.sellers, r, NewStrategy),
              carries |-> Among(list(r), DOMAIN t.products)]]
           w == BuildWorld(t, pairs, overrides)
<1>1. /\ IsFiniteSet(P) /\ t \in Twins(R, P, s, f)
      /\ DOMAIN t.products = P /\ DOMAIN t.retailers = R /\ t.products \in [P -> ProductStates]
  BY DEF FreshTwin, Twins
<1>2. w = [twin |-> t, market |-> NewMarket, curves |-> curves, sellers |-> sellers]
  BY DEF BuildWorld
<1> HIDE DEF w
<1>3. NewMarket \in Markets
  BY DEF NewMarket, Markets, CategoryNames
<1>4. ASSUME NEW p \in P PROVE curves[p] \in Curves /\ curves[p].price = t.products[p].price
  <2>1. t.products[p] \in ProductStates
    BY <1>1
  <2>2. Chosen(overrides.curves, p, NewDemand) \in Demands
    BY DEF Chosen, OverridesOK, NewDemand, Demands
  <2>3. Curve(t.products[p]) \in Int
    BY <2>1, CurvesAreWhole
  <2>4. t.products[p].price \in Nat \cup {None}
    BY <2>1 DEF ProductStates
  <2>5. curves[p] = [strategy |-> Chosen(overrides.curves, p, NewDemand), price |-> t.products[p].price,
                     velocity |-> Curve(t.products[p]), owed |-> 0]
    BY <1>1 DEF NewCurve
  <2>6. QED
    BY <2>2, <2>3, <2>4, <2>5 DEF Curves
<1>5. ASSUME NEW r \in R PROVE sellers[r] \in Sellers(P)
  <2>1. Chosen(overrides.sellers, r, NewStrategy) \in Strategies
    BY DEF Chosen, OverridesOK, NewStrategy, Strategies
  <2>2. \E T : list(r) \in Seq(T)
    <3>1. all \in Seq(P)
      BY <1>1, ListsOfSets
    <3> HIDE DEF all
    <3>2. QED
      BY <3>1 DEF Lists
  <2> HIDE DEF list
  <2>3. Among(list(r), P) \in Seq(P)
    BY <2>2, AmongIsInside
  <2>4. sellers[r] = [strategy |-> Chosen(overrides.sellers, r, NewStrategy), carries |-> Among(list(r), P)]
    BY <1>1
  <2> HIDE DEF sellers
  <2>5. QED
    BY <2>1, <2>3, <2>4 DEF Sellers
<1>6. curves \in [P -> Curves] /\ sellers \in [R -> Sellers(P)]
  <2>1. DOMAIN curves = P /\ DOMAIN sellers = R
    BY <1>1
  <2>2. curves = [p \in P |-> curves[p]] /\ sellers = [r \in R |-> sellers[r]]
    BY <1>1
  <2> HIDE DEF curves, sellers
  <2>3. QED
    BY <1>4, <1>5, <2>2
<1> HIDE DEF curves, sellers
<1>7. w \in WorldTypes(R, P, s, f)
  BY <1>1, <1>2, <1>3, <1>6 DEF WorldTypes
<1>8. \A p \in P : Accounted(t.products[p], Stocks(t)[p]) /\ (t.products[p].price = 0 => curves[p].price = 0)
  BY <1>4, FreshIsAccounted
<1>9. QED
  BY <1>2, <1>7, <1>8 DEF Worlds, w

\* What is left at the end, of what was there and came in.
StockOK(end, start) ==
  \A p \in DOMAIN end.products :
    end.products[p].stock # None =>
      LET before == IF p \in DOMAIN start.products THEN Held(start.products[p]) ELSE 0
      IN /\ end.products[p].stock >= 0
         /\ end.products[p].stock = before + end.products[p].moved - end.products[p].since

\* A run of a world accounts for its stock.
LEMMA EndsAreAccounted ==
  ASSUME NEW R, NEW P, NEW s, NEW f, NEW t, FreshTwin(t, R, P, s, f), NEW Q, P \subseteq Q, NEW had,
         \A x \in Q : had[x] = IF x \in P THEN Stocks(t)[x] ELSE 0,
         NEW run \in TickRuns(R, Q, s, f, had), NEW ticks \in Nat
  PROVE  StockOK(RunTicks(run, ticks), t)
<1>1. \A x \in Q : had[x] \in Int
  BY FreshIsAccounted
<1>2. IsFiniteSet(R) /\ \A x \in DOMAIN f : f[x] \in Int
  BY DEF FreshTwin
<1>3. PICK w \in Worlds(R, Q, s, f, had) : RunTicks(run, ticks) = w.twin
  BY <1>1, <1>2, RunsKeep
<1>4. w.twin.products \in [Q -> ProductStates]
  BY WorldsAreMade
<1>5. SUFFICES ASSUME NEW p \in Q, w.twin.products[p].stock # None
               PROVE  LET before == IF p \in DOMAIN t.products THEN Held(t.products[p]) ELSE 0
                      IN /\ w.twin.products[p].stock >= 0
                         /\ w.twin.products[p].stock = before + w.twin.products[p].moved - w.twin.products[p].since
  BY <1>3, <1>4 DEF StockOK
<1>6. w.twin.products[p] \in ProductStates /\ Accounted(w.twin.products[p], had[p])
  BY WorldsAreMade
<1>7. w.twin.products[p].stock \in Nat
  BY <1>5, <1>6 DEF ProductStates
<1>8. had[p] = IF p \in DOMAIN t.products THEN Held(t.products[p]) ELSE 0
  <2>1. DOMAIN t.products = P
    BY DEF FreshTwin, Twins
  <2>2. QED
    BY <2>1, FreshIsAccounted
<1>9. QED
  BY <1>5, <1>6, <1>7, <1>8 DEF Accounted

\* So does a projection.
LEMMA ProjectionsAreAccounted ==
  ASSUME NEW R, NEW P, NEW s, NEW f, NEW t, FreshTwin(t, R, P, s, f), NEW pairs, Lists(pairs),
         NEW overrides, OverridesOK(overrides), NEW ticks \in Nat
  PROVE  StockOK(Projection(t, pairs, overrides, ticks), t)
<1> DEFINE run == [world |-> BuildWorld(t, pairs, overrides), undo |-> Nothing]
<1>1. BuildWorld(t, pairs, overrides) \in Worlds(R, P, s, f, Stocks(t))
  BY BuildsMakeWorlds
<1>2. Nothing \in Undos(R)
  BY DEF Nothing, Undos
<1>3. run \in TickRuns(R, P, s, f, Stocks(t))
  BY <1>1, <1>2 DEF TickRuns
<1>4. Projection(t, pairs, overrides, ticks) = RunTicks(run, ticks)
  BY DEF Projection
<1> HIDE DEF run
<1>5. \A x \in P : Stocks(t)[x] = IF x \in P THEN Stocks(t)[x] ELSE 0
  OBVIOUS
<1>6. QED
  BY <1>3, <1>4, <1>5, EndsAreAccounted

\* A world with another product p.
Restocked(w, p, q) == [w EXCEPT !.twin = [w.twin EXCEPT !.products = [w.twin.products EXCEPT ![p] = q]]]

\* Where the stock of that product is accounted for, it is still a world.
LEMMA RestockedWorlds ==
  ASSUME NEW R, NEW P, NEW s, NEW f, NEW had, NEW w \in Worlds(R, P, s, f, had), NEW p \in P,
         NEW q \in ProductStates, Accounted(q, had[p]), q.price = 0 => w.curves[p].price = 0
  PROVE  Restocked(w, p, q) \in Worlds(R, P, s, f, had)
<1> DEFINE products == [w.twin.products EXCEPT ![p] = q]
           t == [w.twin EXCEPT !.products = products]
<1>1. /\ w.twin \in Twins(R, P, s, f) /\ w.market \in Markets /\ w.curves \in [P -> Curves] /\ w.sellers \in [R -> Sellers(P)]
      /\ w = [twin |-> w.twin, market |-> w.market, curves |-> w.curves, sellers |-> w.sellers]
      /\ w.twin.products \in [P -> ProductStates]
  BY WorldsAreMade
<1>2. products \in [P -> ProductStates]
  BY <1>1
<1>3. \A x \in P : Accounted(products[x], had[x]) /\ (products[x].price = 0 => w.curves[x].price = 0)
  <2>1. SUFFICES ASSUME NEW x \in P PROVE Accounted(products[x], had[x]) /\ (products[x].price = 0 => w.curves[x].price = 0)
    OBVIOUS
  <2>2. products[x] = (IF x = p THEN q ELSE w.twin.products[x])
    BY <1>1
  <2>3. Accounted(w.twin.products[x], had[x]) /\ (w.twin.products[x].price = 0 => w.curves[x].price = 0)
    BY WorldsAreMade
  <2> HIDE DEF products
  <2>4. QED
    BY <2>2, <2>3
<1>4. Restocked(w, p, q) = [w EXCEPT !.twin = t]
  BY DEF Restocked
<1> HIDE DEF products
<1>5. t \in Twins(R, P, s, f) /\ t.products = products
  BY <1>1, <1>2 DEF Twins
<1> HIDE DEF t
<1>6. Restocked(w, p, q) = [twin |-> t, market |-> w.market, curves |-> w.curves, sellers |-> w.sellers]
  BY <1>1, <1>4
<1>7. QED
  BY <1>1, <1>3, <1>5, <1>6 DEF Worlds, WorldTypes

\* Before anything is sold even what is not known to be in stock can be moved.
LEMMA FreshStockIsMoved ==
  ASSUME NEW product \in ProductStates, product.since = 0, product.moved = 0, NEW delta \in Int
  PROVE  /\ Stocked(product, delta) \in ProductStates
         /\ Accounted(Stocked(product, delta), Held(product))
         /\ Stocked(product, delta).price = product.price
<1> DEFINE held == Held(product)
           left == AtLeast0(held + delta)
           moved == 0 + left - held
<1>1. product.stock \in Nat \cup {None} /\ product.moved \in Int /\ product.since \in Int
  BY DEF ProductStates
<1>2. held \in Nat
  BY <1>1 DEF Held
<1>3. left \in Nat
  BY <1>2 DEF AtLeast0
<1>4. Stocked(product, delta) = [product EXCEPT !.stock = left, !.moved = 0 + left - held]
  BY <1>1 DEF Stocked, ProductStates
<1> HIDE DEF left, held
<1>5. moved \in Int
  BY <1>2, <1>3
<1>6. left = held + moved - 0
  BY <1>2, <1>3
<1>7. Stocked(product, delta) = [product EXCEPT !.stock = left, !.moved = moved]
  BY <1>4
<1> HIDE DEF moved
<1>8. Stocked(product, delta) \in ProductStates
  BY <1>1, <1>3, <1>5, <1>7 DEF ProductStates
<1>9. /\ Stocked(product, delta).stock = left /\ Stocked(product, delta).moved = moved
      /\ Stocked(product, delta).since = 0 /\ Stocked(product, delta).price = product.price
  BY <1>7 DEF ProductStates
<1>10. QED
  BY <1>6, <1>8, <1>9 DEF Accounted, held

\* A world whose agents have just been built for a twin.
FreshWorld(w, t, R, P, s, f) ==
  FreshTwin(t, R, P, s, f) /\ w \in Worlds(R, P, s, f, Stocks(t)) /\ w.twin = t

\* What a setup makes of such a world is a run.
SetUp(run, t, R, P, s, f) ==
  \E Q, had : /\ P \subseteq Q /\ \A x \in Q : had[x] = IF x \in P THEN Stocks(t)[x] ELSE 0
              /\ run \in TickRuns(R, Q, s, f, had)

\* A world with the products it had is set up, whatever is to be undone in it.
LEMMA SetUpInPlace ==
  ASSUME NEW R, NEW P, NEW s, NEW f, NEW t, NEW w \in Worlds(R, P, s, f, Stocks(t)), NEW undo \in Undos(R)
  PROVE  SetUp([world |-> w, undo |-> undo], t, R, P, s, f)
<1>1. [world |-> w, undo |-> undo] \in TickRuns(R, P, s, f, Stocks(t))
  BY DEF TickRuns
<1>2. \A x \in P : Stocks(t)[x] = IF x \in P THEN Stocks(t)[x] ELSE 0
  OBVIOUS
<1>3. QED
  BY <1>1, <1>2 DEF SetUp

\* A price, a stock, a delay: one product is another.
LEMMA ProductsAreSetUp ==
  ASSUME NEW R, NEW P, NEW s, NEW f, NEW t, NEW w, FreshWorld(w, t, R, P, s, f), NEW spec, IsSpec(spec),
         spec.type \in {"price_change", "inventory_change", "supply_chain_delay"}, ~Unknown(spec, t)
  PROVE  SetUp(Setup(w, spec), t, R, P, s, f)
<1> DEFINE p == spec.product
           product == t.products[p]
<1>1. /\ w \in Worlds(R, P, s, f, Stocks(t)) /\ w.twin = t /\ t \in Twins(R, P, s, f)
      /\ w = [twin |-> t, market |-> w.market, curves |-> w.curves, sellers |-> w.sellers]
      /\ t.products \in [P -> ProductStates] /\ w.curves \in [P -> Curves]
      /\ Nothing \in Undos(R)
  BY WorldsAreMade DEF FreshWorld, Nothing, Undos
<1>2. p \in P
  BY <1>1 DEF Unknown
<1>3. /\ product \in ProductStates /\ product.since = 0 /\ product.moved = 0
      /\ Stocks(t)[p] \in Int /\ Stocks(t)[p] = Held(product) /\ Accounted(product, Stocks(t)[p])
      /\ (product.price = 0 => w.curves[p].price = 0)
  BY <1>1, <1>2, FreshIsAccounted, WorldsAreMade DEF FreshWorld
<1>4. ASSUME NEW q \in ProductStates, Accounted(q, Stocks(t)[p]), q.price = 0 => w.curves[p].price = 0,
             Setup(w, spec) = [world |-> Restocked(w, p, q), undo |-> Nothing]
      PROVE  SetUp(Setup(w, spec), t, R, P, s, f)
  <2>1. Restocked(w, p, q) \in Worlds(R, P, s, f, Stocks(t))
    BY <1>1, <1>2, <1>4, RestockedWorlds
  <2>2. QED
    BY <1>1, <1>4, <2>1, SetUpInPlace
<1>5. ASSUME NEW t2, Setup(w, spec) = [[world |-> w, undo |-> Nothing] EXCEPT !.world.twin = t2],
             NEW q, t2 = [t EXCEPT !.products = [t.products EXCEPT ![p] = q]]
      PROVE  Setup(w, spec) = [world |-> Restocked(w, p, q), undo |-> Nothing]
  BY <1>1, <1>5 DEF Restocked
<1>6. CASE spec.type = "price_change"
  <2> DEFINE q == [product EXCEPT !.price = spec.price]
  <2>1. spec.price \in Nat /\ spec.price # 0
    BY <1>6 DEF IsSpec
  <2>2. q \in ProductStates /\ q.price = spec.price
    BY <1>3, <2>1 DEF ProductStates
  <2>3. Accounted(q, Stocks(t)[p])
    BY <1>3 DEF Accounted, ProductStates
  <2>4. Setup(w, spec) = [[world |-> w, undo |-> Nothing] EXCEPT !.world.twin = ApplyPrice(t, p, spec.price)]
    BY <1>1, <1>6 DEF Setup
  <2>5. ApplyPrice(t, p, spec.price) = [t EXCEPT !.products = [t.products EXCEPT ![p] = q]]
    BY <1>1 DEF ApplyPrice, Twins
  <2> HIDE DEF q, p, product
  <2>6. Setup(w, spec) = [world |-> Restocked(w, p, q), undo |-> Nothing]
    BY <1>5, <2>4, <2>5
  <2>7. QED
    BY <1>4, <2>1, <2>2, <2>3, <2>6
<1>7. ASSUME NEW delta \in Int, Setup(w, spec) = [[world |-> w, undo |-> Nothing] EXCEPT !.world.twin = ApplyStock(t, p, delta)]
      PROVE  SetUp(Setup(w, spec), t, R, P, s, f)
  <2> DEFINE q == Stocked(product, delta)
  <2>1. q \in ProductStates /\ Accounted(q, Stocks(t)[p]) /\ q.price = product.price
    BY <1>3, FreshStockIsMoved
  <2>2. ApplyStock(t, p, delta) = [t EXCEPT !.products = [t.products EXCEPT ![p] = q]]
    BY <1>1 DEF ApplyStock, Twins
  <2> HIDE DEF q, p, product
  <2>3. Setup(w, spec) = [world |-> Restocked(w, p, q), undo |-> Nothing]
    BY <1>5, <1>7, <2>2
  <2>4. QED
    BY <1>3, <1>4, <2>1, <2>3
<1>8. CASE spec.type = "inventory_change"
  <2>1. spec.delta \in Int
    BY <1>8 DEF IsSpec
  <2>2. Setup(w, spec) = [[world |-> w, undo |-> Nothing] EXCEPT !.world.twin = ApplyStock(t, p, spec.delta)]
    BY <1>1, <1>8 DEF Setup
  <2>3. QED
    BY <1>7, <2>1, <2>2
<1>9. CASE spec.type = "supply_chain_delay"
  <2> DEFINE owed == Rounded(w.curves[p].strategy.base * spec.ticks, 100)
             lost == IF product.stock = None THEN 0 ELSE Lesser(owed, product.stock)
  <2>1. spec.ticks \in Int
    BY <1>9 DEF IsSpec
  <2>2. w.curves[p].strategy.base \in Int
    BY <1>1, <1>2 DEF Curves, Demands
  <2>3. w.curves[p].strategy.base * spec.ticks \in Int
    BY <2>1, <2>2
  <2>4. owed \in Int
    BY <2>3, WholeNumbers
  <2>5. product.stock \in Nat \cup {None}
    BY <1>3 DEF ProductStates
  <2>6. lost \in Int
    <3> HIDE DEF owed, product
    <3>1. QED
      BY <2>4, <2>5 DEF Lesser
  <2>7. Setup(w, spec) = IF lost > 0 THEN [[world |-> w, undo |-> Nothing] EXCEPT !.world.twin = ApplyStock(t, p, -lost)]
                         ELSE [world |-> w, undo |-> Nothing]
    BY <1>1, <1>9 DEF Setup
  <2> HIDE DEF lost
  <2>8. CASE lost > 0
    <3>1. -lost \in Int
      BY <2>6
    <3>2. QED
      BY <1>7, <2>7, <2>8, <3>1
  <2>9. CASE ~(lost > 0)
    BY <1>1, <2>7, <2>9, SetUpInPlace
  <2>10. QED
    BY <2>8, <2>9
<1>10. QED
  BY <1>6, <1>8, <1>9

\* A shock, a competitor: the market is another.
LEMMA MarketsAreSetUp ==
  ASSUME NEW R, NEW P, NEW s, NEW f, NEW t, NEW w, FreshWorld(w, t, R, P, s, f), NEW spec, IsSpec(spec),
         spec.type \in {"demand_shock", "competitor_entry", "competitor_exit"}
  PROVE  SetUp(Setup(w, spec), t, R, P, s, f)
<1>1. /\ w \in Worlds(R, P, s, f, Stocks(t)) /\ w.twin = t /\ t \in Twins(R, P, s, f)
      /\ w = [twin |-> t, market |-> w.market, curves |-> w.curves, sellers |-> w.sellers]
      /\ w.market \in Markets /\ w.sellers \in [R -> Sellers(P)] /\ Nothing \in Undos(R)
  BY WorldsAreMade DEF FreshWorld, Nothing, Undos
<1>2. ASSUME NEW market \in Markets, Setup(w, spec) = [[world |-> w, undo |-> Nothing] EXCEPT !.world.market = market]
      PROVE  SetUp(Setup(w, spec), t, R, P, s, f)
  <2>1. Setup(w, spec) = [world |-> Rebuilt(w, t, market, w.sellers), undo |-> Nothing]
    BY <1>1, <1>2 DEF Rebuilt
  <2>2. Rebuilt(w, t, market, w.sellers) \in Worlds(R, P, s, f, Stocks(t))
    BY <1>1, PartsMakeWorlds
  <2>3. QED
    BY <1>1, <2>1, <2>2, SetUpInPlace
<1>3. CASE spec.type = "demand_shock"
  <2> DEFINE market == [w.market EXCEPT !.multiplier = spec.multiplier]
  <2>1. market \in Markets
    BY <1>1, <1>3 DEF IsSpec, Markets
  <2>2. Setup(w, spec) = [[world |-> w, undo |-> Nothing] EXCEPT !.world.market = market]
    BY <1>1, <1>3 DEF Setup
  <2> HIDE DEF market
  <2>3. QED
    BY <1>2, <2>1, <2>2
<1>4. ASSUME NEW baseline \in Int, Setup(w, spec) = [[world |-> w, undo |-> Nothing] EXCEPT !.world.market.baseline = baseline]
      PROVE  SetUp(Setup(w, spec), t, R, P, s, f)
  <2> DEFINE market == [w.market EXCEPT !.baseline = baseline]
  <2>1. market \in Markets
    BY <1>1 DEF Markets
  <2>2. Setup(w, spec) = [[world |-> w, undo |-> Nothing] EXCEPT !.world.market = market]
    BY <1>1, <1>4
  <2> HIDE DEF market
  <2>3. QED
    BY <1>2, <2>1, <2>2
<1>5. w.market.baseline \in Int
  BY <1>1 DEF Markets
<1>6. CASE spec.type = "competitor_entry"
  <2> DEFINE baseline == Lesser(100, w.market.baseline + spec.pressure)
  <2>1. baseline \in Int
    BY <1>5, <1>6 DEF IsSpec, Lesser
  <2>2. Setup(w, spec) = [[world |-> w, undo |-> Nothing] EXCEPT !.world.market.baseline = baseline]
    BY <1>1, <1>6 DEF Setup
  <2> HIDE DEF baseline
  <2>3. QED
    BY <1>4, <2>1, <2>2
<1>7. CASE spec.type = "competitor_exit"
  <2> DEFINE baseline == AtLeast0(w.market.baseline - spec.pressure)
  <2>1. baseline \in Int
    BY <1>5, <1>7 DEF IsSpec, AtLeast0
  <2>2. Setup(w, spec) = [[world |-> w, undo |-> Nothing] EXCEPT !.world.market.baseline = baseline]
    BY <1>1, <1>7 DEF Setup
  <2> HIDE DEF baseline
  <2>3. QED
    BY <1>4, <2>1, <2>2
<1>8. QED
  BY <1>3, <1>6, <1>7

\* A promotion is a strategy.
LEMMA PromotionsAreStrategies ==
  ASSUME NEW strategy \in Strategies, NEW spec, spec.discount \in Int
  PROVE  Promoted(strategy, spec) \in Strategies
<1> DEFINE Kinds == {"none", "periodic", "anomaly_triggered"}
<1>1. ASSUME NEW kind \in Kinds, NEW discount \in Int, NEW every \in Int
      PROVE  [strategy EXCEPT !.promotion = kind, !.discount = discount, !.every = every] \in Strategies
  BY DEF Strategies
<1>2. "periodic" \in Kinds /\ spec.discount \in Int /\ 1 \in Int
  OBVIOUS
<1> HIDE DEF Kinds
<1>3. QED
  BY <1>1, <1>2 DEF Promoted

\* An outage, a promotion: a retailer is another, for a while.
LEMMA RetailersAreSetUp ==
  ASSUME NEW R, NEW P, NEW s, NEW f, NEW t, NEW w, FreshWorld(w, t, R, P, s, f), NEW spec, IsSpec(spec),
         spec.type \in {"retailer_outage", "promotion_event"}, ~Unknown(spec, t)
  PROVE  SetUp(Setup(w, spec), t, R, P, s, f)
<1> DEFINE r == spec.retailer
<1>1. /\ w \in Worlds(R, P, s, f, Stocks(t)) /\ w.twin = t /\ t \in Twins(R, P, s, f)
      /\ w = [twin |-> t, market |-> w.market, curves |-> w.curves, sellers |-> w.sellers]
      /\ w.market \in Markets /\ w.sellers \in [R -> Sellers(P)] /\ t.retailers \in [R -> RetailerStates]
  BY WorldsAreMade DEF FreshWorld
<1>2. r \in R
  BY <1>1 DEF Unknown
<1>3. CASE spec.type = "retailer_outage"
  <2> DEFINE t2 == ApplyStatus(t, r, "outage")
             undo == [outage |-> [retailer |-> r, tick |-> spec.ticks], promotion |-> None]
  <2>1. spec.ticks \in Int
    BY <1>3 DEF IsSpec
  <2>2. undo \in Undos(R)
    BY <1>2, <2>1 DEF Undos
  <2>3. t2 \in Twins(R, P, s, f) /\ t2.products = t.products
    BY <1>1, <1>2, StatusesKeep DEF Statuses
  <2>4. Setup(w, spec) = [[world |-> w, undo |-> Nothing] EXCEPT !.world.twin = t2,
                            !.undo.outage = [retailer |-> r, tick |-> spec.ticks]]
    BY <1>1, <1>3 DEF Setup
  <2> HIDE DEF t2, r
  <2>5. Setup(w, spec) = [world |-> Rebuilt(w, t2, w.market, w.sellers), undo |-> undo]
    BY <1>1, <2>4 DEF Rebuilt, Nothing
  <2> HIDE DEF undo
  <2>6. Rebuilt(w, t2, w.market, w.sellers) \in Worlds(R, P, s, f, Stocks(t))
    BY <1>1, <2>3, PartsMakeWorlds
  <2>7. QED
    BY <2>2, <2>5, <2>6, SetUpInPlace
<1>4. CASE spec.type = "promotion_event"
  <2> DEFINE strategy == w.sellers[r].strategy
             sellers == [w.sellers EXCEPT ![r] = [w.sellers[r] EXCEPT !.strategy = Promoted(strategy, spec)]]
             over == [retailer |-> r, tick |-> spec.ticks, strategy |-> strategy]
             undo == [outage |-> None, promotion |-> over]
  <2>1. spec.ticks \in Int /\ spec.discount \in Int
    BY <1>4 DEF IsSpec
  <2>2. w.sellers[r] \in Sellers(P) /\ strategy \in Strategies
    BY <1>1, <1>2 DEF Sellers
  <2>3. undo \in Undos(R)
    <3> HIDE DEF strategy
    <3>1. QED
      BY <1>2, <2>1, <2>2 DEF Undos
  <2>4. sellers \in [R -> Sellers(P)]
    <3>1. Promoted(strategy, spec) \in Strategies
      BY <2>1, <2>2, PromotionsAreStrategies
    <3>2. [w.sellers[r] EXCEPT !.strategy = Promoted(strategy, spec)] \in Sellers(P)
      <4> HIDE DEF strategy
      <4>1. QED
        BY <2>2, <3>1 DEF Sellers
    <3> HIDE DEF strategy
    <3>3. QED
      BY <1>1, <3>2
  <2>5. Setup(w, spec) = [[world |-> w, undo |-> Nothing] EXCEPT !.world.sellers[r].strategy = Promoted(@, spec),
                            !.undo.promotion = over]
    BY <1>1, <1>4 DEF Setup
  <2> HIDE DEF over, r
  <2>6. Setup(w, spec) = [world |-> [w EXCEPT !.sellers = sellers], undo |-> undo]
    BY <1>1, <1>2, <2>5 DEF Nothing
  <2> HIDE DEF undo, sellers
  <2>7. [w EXCEPT !.sellers = sellers] = Rebuilt(w, t, w.market, sellers)
    BY <1>1 DEF Rebuilt
  <2>8. Rebuilt(w, t, w.market, sellers) \in Worlds(R, P, s, f, Stocks(t))
    BY <1>1, <2>4, PartsMakeWorlds
  <2>9. QED
    BY <2>3, <2>6, <2>7, <2>8, SetUpInPlace
<1>5. QED
  BY <1>3, <1>4

\* A launch: one more product, which some retailers carry.
LEMMA LaunchesAreSetUp ==
  ASSUME NEW R, NEW P, NEW s, NEW f, NEW t, NEW w, FreshWorld(w, t, R, P, s, f), NEW spec, IsSpec(spec),
         spec.type = "product_launch", ~Unknown(spec, t)
  PROVE  SetUp(Setup(w, spec), t, R, P, s, f)
<1> DEFINE p == spec.product
           Q == P \cup {p}
           had == [x \in Q |-> IF x \in P THEN Stocks(t)[x] ELSE 0]
           product == Launched(spec)
           there == [x \in DOMAIN t.products \cup {p} |-> IF x = p THEN product ELSE t.products[x]]
           curves == [x \in DOMAIN there |-> IF x = p THEN NewCurve(NewDemand, product, 0) ELSE w.curves[x]]
           sellers == [r \in DOMAIN w.sellers |->
                        IF spec.sellers = {} \/ r \in spec.sellers
                        THEN [w.sellers[r] EXCEPT !.carries = Append(@, p)] ELSE w.sellers[r]]
           t2 == [t EXCEPT !.products = there]
           w2 == [twin |-> t2, market |-> w.market, curves |-> curves, sellers |-> sellers]
<1>1. /\ w \in Worlds(R, P, s, f, Stocks(t)) /\ w.twin = t /\ t \in Twins(R, P, s, f)
      /\ w = [twin |-> t, market |-> w.market, curves |-> w.curves, sellers |-> w.sellers]
      /\ w.market \in Markets /\ w.curves \in [P -> Curves] /\ w.sellers \in [R -> Sellers(P)]
      /\ t.products \in [P -> ProductStates] /\ Nothing \in Undos(R)
  BY WorldsAreMade DEF FreshWorld, Nothing, Undos
<1>2. p \notin P
  BY <1>1 DEF Unknown
<1>3. product \in ProductStates /\ product.price \in Nat /\ Accounted(product, 0)
  <2>1. spec.price \in Nat /\ spec.stock \in Nat /\ spec.category \in CategoryNames
    BY DEF IsSpec, CategoryNames
  <2>2. product = [price |-> spec.price, stock |-> spec.stock, sold |-> 0, velocity |-> None,
                   category |-> spec.category, since |-> 0, moved |-> spec.stock]
    BY DEF Launched
  <2> HIDE DEF product
  <2>3. QED
    BY <2>1, <2>2 DEF ProductStates, Accounted
<1>4. there \in [Q -> ProductStates] /\ DOMAIN there = Q
  <2> HIDE DEF product
  <2>1. QED
    BY <1>1, <1>3
<1>5. NewCurve(NewDemand, product, 0) \in Curves /\ NewCurve(NewDemand, product, 0).price = product.price
  <2> HIDE DEF product
  <2>1. QED
    BY <1>3 DEF NewCurve, NewDemand, Demands, Curves
<1>6. curves \in [Q -> Curves]
  <2> HIDE DEF product, there
  <2>1. QED
    BY <1>1, <1>4, <1>5
<1>7. sellers \in [R -> Sellers(Q)]
  <2>1. ASSUME NEW r \in R PROVE sellers[r] \in Sellers(Q)
    <3> DEFINE seller == w.sellers[r]
    <3>1. seller \in Sellers(P) /\ DOMAIN w.sellers = R
      BY <1>1
    <3>2. sellers[r] = IF spec.sellers = {} \/ r \in spec.sellers THEN [seller EXCEPT !.carries = Append(@, p)] ELSE seller
      BY <3>1
    <3> HIDE DEF seller, sellers
    <3>3. seller.carries \in Seq(P) /\ seller.strategy \in Strategies /\ seller = [strategy |-> seller.strategy, carries |-> seller.carries]
      BY <3>1 DEF Sellers
    <3>4. seller.carries \in Seq(Q) /\ Append(seller.carries, p) \in Seq(Q)
      BY <3>3
    <3>5. [seller EXCEPT !.carries = Append(@, p)] = [strategy |-> seller.strategy, carries |-> Append(seller.carries, p)]
      BY <3>3
    <3> HIDE DEF Q
    <3>6. QED
      BY <3>2, <3>3, <3>4, <3>5 DEF Sellers
  <2>2. DOMAIN w.sellers = R
    BY <1>1
  <2>3. sellers = [r \in R |-> sellers[r]]
    BY <2>2
  <2> HIDE DEF sellers
  <2>4. QED
    BY <2>1, <2>3
<1>8. \A x \in Q : Accounted(there[x], had[x]) /\ (there[x].price = 0 => curves[x].price = 0)
  <2>1. SUFFICES ASSUME NEW x \in Q PROVE Accounted(there[x], had[x]) /\ (there[x].price = 0 => curves[x].price = 0)
    OBVIOUS
  <2>2. DOMAIN t.products = P
    BY <1>1
  <2>3. CASE x = p
    <3>1. there[x] = product /\ curves[x] = NewCurve(NewDemand, product, 0) /\ had[x] = 0
      BY <1>2, <2>2, <2>3
    <3> HIDE DEF there, curves, had, product
    <3>2. QED
      BY <1>3, <1>5, <3>1
  <2>4. CASE x # p
    <3>1. x \in P /\ there[x] = t.products[x] /\ curves[x] = w.curves[x] /\ had[x] = Stocks(t)[x]
      BY <2>2, <2>4
    <3>2. Accounted(t.products[x], Stocks(t)[x]) /\ (t.products[x].price = 0 => w.curves[x].price = 0)
      BY <1>1, <3>1, WorldsAreMade
    <3> HIDE DEF there, curves, had
    <3>3. QED
      BY <3>1, <3>2
  <2>5. QED
    BY <2>3, <2>4
<1>9. Setup(w, spec) = [[world |-> w, undo |-> Nothing] EXCEPT !.world.twin.products = there,
                          !.world.curves = curves, !.world.sellers = sellers]
  BY <1>1 DEF Setup
<1> HIDE DEF there, curves, sellers, product
<1>10. t2 \in Twins(R, Q, s, f) /\ t2.products = there
  <2> HIDE DEF Q
  <2>1. QED
    BY <1>1, <1>4 DEF Twins
<1>11. Setup(w, spec) = [world |-> w2, undo |-> Nothing]
  BY <1>1, <1>9
<1> HIDE DEF t2
<1>12. w2 \in Worlds(R, Q, s, f, had)
  <2> HIDE DEF Q, had
  <2>1. w2 \in WorldTypes(R, Q, s, f)
    BY <1>1, <1>6, <1>7, <1>10 DEF WorldTypes
  <2>2. QED
    BY <1>8, <1>10, <2>1 DEF Worlds
<1> HIDE DEF w2
<1>13. Setup(w, spec) \in TickRuns(R, Q, s, f, had)
  BY <1>1, <1>11, <1>12 DEF TickRuns
<1>14. P \subseteq Q /\ \A x \in Q : had[x] = IF x \in P THEN Stocks(t)[x] ELSE 0
  OBVIOUS
<1> HIDE DEF Q, had
<1>15. QED
  BY <1>13, <1>14 DEF SetUp

\* Whatever the scenario, its setup leaves a run, and its branch accounts for its stock.
LEMMA BranchesAreAccounted ==
  ASSUME NEW R, NEW P, NEW s, NEW f, NEW t, FreshTwin(t, R, P, s, f), NEW pairs, Lists(pairs),
         NEW overrides, OverridesOK(overrides), NEW ticks \in Nat,
         NEW spec, IsSpec(spec), spec.type \in ScenarioTypes, ~Unknown(spec, t)
  PROVE  StockOK(ScenarioBranch(t, pairs, overrides, spec, ticks), t)
<1> DEFINE w == BuildWorld(t, pairs, overrides)
<1>1. FreshWorld(w, t, R, P, s, f)
  BY BuildsMakeWorlds DEF FreshWorld, BuildWorld
<1>2. ScenarioBranch(t, pairs, overrides, spec, ticks) = RunTicks(Setup(w, spec), ticks)
  BY DEF ScenarioBranch
<1> HIDE DEF w
<1>3. SetUp(Setup(w, spec), t, R, P, s, f)
  <2>1. \/ spec.type \in {"price_change", "inventory_change", "supply_chain_delay"}
        \/ spec.type \in {"demand_shock", "competitor_entry", "competitor_exit"}
        \/ spec.type \in {"retailer_outage", "promotion_event"}
        \/ spec.type = "product_launch"
    BY DEF ScenarioTypes
  <2>2. QED
    BY <1>1, <2>1, ProductsAreSetUp, MarketsAreSetUp, RetailersAreSetUp, LaunchesAreSetUp
<1>4. PICK Q, had : /\ P \subseteq Q /\ \A x \in Q : had[x] = IF x \in P THEN Stocks(t)[x] ELSE 0
                    /\ Setup(w, spec) \in TickRuns(R, Q, s, f, had)
  BY <1>3 DEF SetUp
<1>5. QED
  BY <1>2, <1>4, EndsAreAccounted

\* What is added up of whole numbers is one.
LEMMA TotalsAreWhole ==
  ASSUME NEW S, IsFiniteSet(S), \A o \in S : IsOrder(o)
  PROVE  /\ MapThenSumSet(Net, S) \in Int
         /\ MapThenSumSet(LAMBDA o : o.quantity, S) \in Int
<1> DEFINE quantity == [o \in S |-> o.quantity]
           net == [o \in S |-> Net(o)]
<1>1. MapThenSumSet(Net, S) = SumFunctionOnSet(net, S)
  BY NetsAdded
<1>2. MapThenSumSet(LAMBDA o : o.quantity, S) = SumFunctionOnSet(quantity, S)
  BY DEF MapThenSumSet, MapThenFoldSet, SumFunctionOnSet, FoldFunctionOnSet
<1>3. \A o \in S : net[o] \in Int /\ quantity[o] \in Int
  BY DEF IsOrder, Net
<1> HIDE DEF net, quantity
<1>4. SumFunctionOnSet(net, S) \in Int /\ SumFunctionOnSet(quantity, S) \in Int
  BY <1>3, SumTakesOut
<1>5. QED
  BY <1>1, <1>2, <1>4

\* Orders of a warehouse, or some of them, perhaps at another price.
OrdersOK(S) == IsFiniteSet(S) /\ \A o \in S : IsOrder(o)

\* Their aggregates are whole numbers, of finitely many retailers and products.
LEMMA AggregatesAreWhole ==
  ASSUME NEW S, OrdersOK(S)
  PROVE  /\ DOMAIN RetailerTotals(S) = {o.retailer : o \in S} /\ IsFiniteSet({o.retailer : o \in S})
         /\ DOMAIN ProductTotals(S) = {o.product : o \in S} /\ IsFiniteSet({o.product : o \in S})
         /\ \A r \in DOMAIN RetailerTotals(S) : RetailerTotals(S)[r].orders \in Int /\ RetailerTotals(S)[r].revenue \in Int
         /\ \A p \in DOMAIN ProductTotals(S) : ProductTotals(S)[p].sold \in Int
<1>1. DOMAIN RetailerTotals(S) = {o.retailer : o \in S} /\ DOMAIN ProductTotals(S) = {o.product : o \in S}
  BY DEF RetailerTotals, ProductTotals
<1>2. IsFiniteSet({o.retailer : o \in S}) /\ IsFiniteSet({o.product : o \in S})
  <2> DEFINE retailer == [o \in S |-> o.retailer]
             product == [o \in S |-> o.product]
  <2>1. {o.retailer : o \in S} = {retailer[o] : o \in S} /\ {o.product : o \in S} = {product[o] : o \in S}
    OBVIOUS
  <2> HIDE DEF retailer, product
  <2>2. IsFiniteSet({retailer[o] : o \in S}) /\ IsFiniteSet({product[o] : o \in S})
    BY ImagesAreFinite DEF OrdersOK
  <2>3. QED
    BY <2>1, <2>2
<1>3. ASSUME NEW r \in {o.retailer : o \in S}
      PROVE  RetailerTotals(S)[r].orders \in Int /\ RetailerTotals(S)[r].revenue \in Int
  <2> DEFINE own == {o \in S : o.retailer = r}
  <2>1. RetailerTotals(S)[r].orders = Cardinality(own) /\ RetailerTotals(S)[r].revenue = MapThenSumSet(Net, own)
    BY DEF RetailerTotals
  <2>2. IsFiniteSet(own) /\ \A o \in own : IsOrder(o)
    BY FS_Subset DEF OrdersOK
  <2> HIDE DEF own
  <2>3. Cardinality(own) \in Int
    BY <2>2, FS_CardinalityType
  <2>4. MapThenSumSet(Net, own) \in Int
    BY <2>2, TotalsAreWhole
  <2>5. QED
    BY <2>1, <2>3, <2>4
<1>4. ASSUME NEW p \in {o.product : o \in S}
      PROVE  ProductTotals(S)[p].sold \in Int
  <2> DEFINE own == {o \in S : o.product = p}
  <2>1. ProductTotals(S)[p].sold = MapThenSumSet(LAMBDA o : o.quantity, own)
    BY DEF ProductTotals
  <2>2. IsFiniteSet(own) /\ \A o \in own : IsOrder(o)
    BY FS_Subset DEF OrdersOK
  <2> HIDE DEF own
  <2>3. MapThenSumSet(LAMBDA o : o.quantity, own) \in Int
    BY <2>2, TotalsAreWhole
  <2>4. QED
    BY <2>1, <2>3
<1>5. QED
  BY <1>1, <1>2, <1>3, <1>4

\* The dimensions of a warehouse, or none.
LEMMA DimsAreSound ==
  ASSUME NEW dims \in AnyDims
  PROVE  /\ IsFiniteSet(DOMAIN dims.retailers) /\ IsFiniteSet(DOMAIN dims.products)
         /\ \A r \in DOMAIN dims.retailers : dims.retailers[r] \in Statuses
         /\ \A p \in DOMAIN dims.products : IsProduct(dims.products[p])
<1>1. CASE dims = NoDims
  BY <1>1, FS_EmptySet DEF NoDims
<1>2. CASE dims # NoDims
  <2>1. PICK w \in Warehouses : dims = w.dims
    BY <1>2 DEF AnyDims
  <2>2. \A r \in DOMAIN dims.retailers : dims.retailers[r] \in Statuses
    BY <2>1 DEF Statuses
  <2>3. QED
    BY <2>1, <2>2, SimulationAssumption
<1>3. QED
  BY <1>1, <1>2

\* The twin of an order set is fresh.
LEMMA TwinsOfTotalsAreFresh ==
  ASSUME NEW S, OrdersOK(S), NEW dims \in AnyDims
  PROVE  \E R, P, s, f : FreshTwin(TwinFromTotals(RetailerTotals(S), ProductTotals(S), dims), R, P, s, f)
<1> DEFINE sellers == RetailerTotals(S)
           goods == ProductTotals(S)
           R == DOMAIN dims.retailers \cup DOMAIN sellers
           P == DOMAIN dims.products \cup DOMAIN goods
           f == [p \in {} |-> 0]
           retailer(r) == [status |-> At(dims.retailers, r, "active"),
                           orders |-> At(sellers, r, [orders |-> 0, revenue |-> 0]).orders,
                           revenue |-> At(sellers, r, [orders |-> 0, revenue |-> 0]).revenue]
           dim(p) == At(dims.products, p, [price |-> None, stock |-> None, category |-> "uncategorized"])
           product(p) == [price |-> dim(p).price, stock |-> dim(p).stock, category |-> dim(p).category, velocity |-> None,
                          sold |-> At(goods, p, [sold |-> 0]).sold, since |-> 0, moved |-> 0]
           retailers == [r \in R |-> retailer(r)]
           products == [p \in P |-> product(p)]
           t == TwinFromTotals(sellers, goods, dims)
<1>1. /\ IsFiniteSet(DOMAIN dims.retailers) /\ IsFiniteSet(DOMAIN dims.products)
      /\ \A r \in DOMAIN dims.retailers : dims.retailers[r] \in Statuses
      /\ \A p \in DOMAIN dims.products : IsProduct(dims.products[p])
  BY DimsAreSound
<1>2. /\ IsFiniteSet(DOMAIN sellers) /\ IsFiniteSet(DOMAIN goods)
      /\ \A r \in DOMAIN sellers : sellers[r].orders \in Int /\ sellers[r].revenue \in Int
      /\ \A p \in DOMAIN goods : goods[p].sold \in Int
  BY AggregatesAreWhole
<1>3. t = [tick |-> 0, suspects |-> {}, forecasts |-> f, retailers |-> retailers, products |-> products]
  BY DEF TwinFromTotals
<1> HIDE DEF sellers, goods, t
<1>4. IsFiniteSet(R) /\ IsFiniteSet(P)
  BY <1>1, <1>2, FS_Union
<1>5. ASSUME NEW r \in R PROVE retailer(r) \in RetailerStates
  <2>1. At(dims.retailers, r, "active") \in Statuses
    BY <1>1 DEF At, Statuses
  <2>2. At(sellers, r, [orders |-> 0, revenue |-> 0]).orders \in Int /\ At(sellers, r, [orders |-> 0, revenue |-> 0]).revenue \in Int
    BY <1>2 DEF At
  <2>3. QED
    BY <2>1, <2>2 DEF RetailerStates
<1>6. ASSUME NEW p \in P PROVE product(p) \in ProductStates /\ product(p).since = 0 /\ product(p).moved = 0
  <2>1. dim(p).price \in Nat \cup {None} /\ dim(p).stock \in Nat \cup {None} /\ dim(p).category \in CategoryNames
    <3>1. CASE p \in DOMAIN dims.products
      BY <1>1, <3>1 DEF At, IsProduct, CategoryNames
    <3>2. CASE p \notin DOMAIN dims.products
      BY <3>2, TwinAgentsAssumption DEF At, CategoryNames
    <3>3. QED
      BY <3>1, <3>2
  <2>2. At(goods, p, [sold |-> 0]).sold \in Int
    BY <1>2 DEF At
  <2> HIDE DEF dim
  <2>3. QED
    BY <2>1, <2>2 DEF ProductStates
<1> HIDE DEF R, P, f, retailer, product
<1>7. retailers \in [R -> RetailerStates] /\ products \in [P -> ProductStates]
  BY <1>5, <1>6
<1>8. t \in Twins(R, P, {}, f) /\ t.products = products
  BY <1>3, <1>7 DEF Twins
<1>9. \A p \in P : products[p].since = 0 /\ products[p].moved = 0
  BY <1>6
<1>10. \A x \in DOMAIN f : f[x] \in Int
  BY DEF f
<1>11. FreshTwin(t, R, P, {}, f)
  BY <1>4, <1>8, <1>9, <1>10 DEF FreshTwin
<1>12. QED
  BY <1>11 DEF t, sellers, goods

\* The dimensions and the orders of a warehouse are sound.
LEMMA WarehousesAreSound ==
  ASSUME NEW w \in Warehouses
  PROVE  /\ OrdersOK(w.orders) /\ OrdersOK(w.tenant) /\ w.dims \in AnyDims
         /\ \A p \in DOMAIN w.forecasts : w.forecasts[p] \in Int
<1>1. OrdersOK(w.orders) /\ OrdersOK(w.tenant)
  BY SimulationAssumption DEF OrdersOK
<1>2. QED
  BY <1>1, SimulationAssumption DEF AnyDims

\* The twins of a warehouse are fresh.
LEMMA ClassicTwinsAreFresh ==
  ASSUME NEW w \in Warehouses
  PROVE  \E R, P, s, f : FreshTwin(ClassicTwin(w), R, P, s, f)
<1> DEFINE sellers == RetailerTotals(w.orders)
           goods == ProductTotals(w.orders)
           dims == w.dims
           R == DOMAIN dims.retailers
           P == DOMAIN dims.products
           f == w.forecasts
           suspects == {a.entity : a \in w.anomalies}
           retailer(r) == [status |-> dims.retailers[r],
                           orders |-> At(sellers, r, [orders |-> 0, revenue |-> 0]).orders,
                           revenue |-> At(sellers, r, [orders |-> 0, revenue |-> 0]).revenue]
           product(p) == [price |-> dims.products[p].price, stock |-> dims.products[p].stock,
                          category |-> dims.products[p].category, velocity |-> dims.products[p].velocity,
                          sold |-> At(goods, p, [sold |-> 0]).sold, since |-> 0, moved |-> 0]
           retailers == [r \in R |-> retailer(r)]
           products == [p \in P |-> product(p)]
           t == ClassicTwin(w)
<1>0. OrdersOK(w.orders) /\ dims \in AnyDims /\ \A p \in DOMAIN f : f[p] \in Int
  BY WarehousesAreSound
<1>1. /\ IsFiniteSet(R) /\ IsFiniteSet(P)
      /\ \A r \in R : dims.retailers[r] \in Statuses
      /\ \A p \in P : IsProduct(dims.products[p])
  BY <1>0, DimsAreSound
<1>2. /\ \A r \in DOMAIN sellers : sellers[r].orders \in Int /\ sellers[r].revenue \in Int
      /\ \A p \in DOMAIN goods : goods[p].sold \in Int
  BY <1>0, AggregatesAreWhole
<1>3. t = [tick |-> 0, suspects |-> suspects, forecasts |-> f, retailers |-> retailers, products |-> products]
  BY DEF ClassicTwin
<1> HIDE DEF sellers, goods, t, suspects, dims
<1>5. ASSUME NEW r \in R PROVE retailer(r) \in RetailerStates
  <2>1. At(sellers, r, [orders |-> 0, revenue |-> 0]).orders \in Int /\ At(sellers, r, [orders |-> 0, revenue |-> 0]).revenue \in Int
    BY <1>2 DEF At
  <2>2. QED
    BY <1>1, <2>1 DEF RetailerStates
<1>6. ASSUME NEW p \in P PROVE product(p) \in ProductStates /\ product(p).since = 0 /\ product(p).moved = 0
  <2>1. IsProduct(dims.products[p])
    BY <1>1
  <2>2. At(goods, p, [sold |-> 0]).sold \in Int
    BY <1>2 DEF At
  <2>3. QED
    BY <2>1, <2>2 DEF ProductStates, IsProduct, CategoryNames
<1> HIDE DEF R, P, f, retailer, product
<1>7. retailers \in [R -> RetailerStates] /\ products \in [P -> ProductStates]
  BY <1>5, <1>6
<1>8. t \in Twins(R, P, suspects, f) /\ t.products = products
  BY <1>3, <1>7 DEF Twins
<1>9. \A p \in P : products[p].since = 0 /\ products[p].moved = 0
  BY <1>6
<1>10. FreshTwin(t, R, P, suspects, f)
  BY <1>0, <1>1, <1>8, <1>9 DEF FreshTwin
<1>11. QED
  BY <1>10 DEF t

\* So is the twin of a tenant, made of its orders alone.
LEMMA TenantTwinsAreFresh ==
  ASSUME NEW w \in Warehouses
  PROVE  \E R, P, s, f : FreshTwin(TenantTwin(w), R, P, s, f)
<1> DEFINE sellers == RetailerTotals(w.tenant)
           goods == ProductTotals(w.tenant)
           R == DOMAIN sellers
           P == DOMAIN goods
           f == w.forecasts
           suspects == {a.entity : a \in w.anomalies}
           retailer(r) == [status |-> None, orders |-> sellers[r].orders, revenue |-> sellers[r].revenue]
           product(p) == [price |-> None, stock |-> None, category |-> "uncategorized", velocity |-> None,
                          sold |-> goods[p].sold, since |-> 0, moved |-> 0]
           retailers == [r \in R |-> retailer(r)]
           products == [p \in P |-> product(p)]
           t == TenantTwin(w)
<1>0. OrdersOK(w.tenant) /\ \A p \in DOMAIN f : f[p] \in Int
  BY WarehousesAreSound
<1>1. /\ IsFiniteSet(R) /\ IsFiniteSet(P)
      /\ \A r \in R : sellers[r].orders \in Int /\ sellers[r].revenue \in Int
      /\ \A p \in P : goods[p].sold \in Int
  BY <1>0, AggregatesAreWhole
<1>2. t = [tick |-> 0, suspects |-> suspects, forecasts |-> f, retailers |-> retailers, products |-> products]
  BY DEF TenantTwin
<1> HIDE DEF sellers, goods, t, suspects
<1>3. ASSUME NEW r \in R PROVE retailer(r) \in RetailerStates
  BY <1>1 DEF RetailerStates, Statuses
<1>4. ASSUME NEW p \in P PROVE product(p) \in ProductStates /\ product(p).since = 0 /\ product(p).moved = 0
  BY <1>1, TwinAgentsAssumption DEF ProductStates, CategoryNames
<1> HIDE DEF R, P, f, retailer, product
<1>5. retailers \in [R -> RetailerStates] /\ products \in [P -> ProductStates]
  BY <1>3, <1>4
<1>6. t \in Twins(R, P, suspects, f) /\ t.products = products
  BY <1>2, <1>5 DEF Twins
<1>7. \A p \in P : products[p].since = 0 /\ products[p].moved = 0
  BY <1>4
<1>8. FreshTwin(t, R, P, suspects, f)
  BY <1>0, <1>1, <1>6, <1>7 DEF FreshTwin
<1>9. QED
  BY <1>8 DEF t

\* The assortments a job reads are lists.
LEMMA PairsAreLists ==
  ASSUME NEW pairs \in AnyPairs
  PROVE  Lists(pairs)
<1>1. CASE pairs = NoPairs
  BY <1>1 DEF NoPairs, Lists
<1>2. ASSUME NEW S, OrdersOK(S), pairs = Assortments(S) PROVE Lists(pairs)
  <2>1. SUFFICES ASSUME NEW r \in DOMAIN pairs PROVE \E T : pairs[r] \in Seq(T)
    BY DEF Lists
  <2> DEFINE own == {x \in S : x.retailer = r}
             T == {o.product : o \in own}
  <2>2. pairs[r] = SetToSeq(T)
    BY <1>2, <2>1 DEF Assortments
  <2>3. OrdersOK(own)
    BY <1>2, FS_Subset DEF OrdersOK
  <2>4. IsFiniteSet(T)
    <3> HIDE DEF own
    <3>1. QED
      BY <2>3, AggregatesAreWhole
  <2> HIDE DEF T
  <2>5. SetToSeq(T) \in Seq(T)
    BY <2>4, ListsOfSets
  <2>6. QED
    BY <2>2, <2>5
<1>3. CASE pairs # NoPairs
  <2>1. PICK w \in Warehouses : pairs = Assortments(w.orders) \/ pairs = Assortments(w.tenant)
    BY <1>3 DEF AnyPairs
  <2>2. QED
    BY <1>2, <2>1, WarehousesAreSound
<1>4. QED
  BY <1>1, <1>3

\* The overrides of a job are strategies, and stay so when a promotion writes to one.
LEMMA OverridesAreSound ==
  ASSUME NEW j \in Jobs, NEW spec, IsSpec(spec)
  PROVE  /\ OverridesOK(j.overrides) /\ OverridesOK(NoOverrides)
         /\ OverridesOK(OverridesAfter(j.overrides, spec))
<1> DEFINE overrides == j.overrides
           after == OverridesAfter(overrides, spec)
<1>1. OverridesOK(overrides) /\ OverridesOK(NoOverrides)
  BY SimulationAssumption DEF OverridesOK, NoOverrides
<1> HIDE DEF overrides
<1>2. CASE spec.type = "promotion_event" /\ spec.retailer \in DOMAIN overrides.sellers
  <2>1. after = [overrides EXCEPT !.sellers[spec.retailer] = Promoted(@, spec)]
    BY <1>2 DEF OverridesAfter
  <2>2. Promoted(overrides.sellers[spec.retailer], spec) \in Strategies
    <3>1. overrides.sellers[spec.retailer] \in Strategies /\ spec.discount \in Int
      BY <1>1, <1>2 DEF OverridesOK, IsSpec
    <3>2. QED
      BY <3>1, PromotionsAreStrategies
  <2>3. DOMAIN after.sellers = DOMAIN overrides.sellers /\ after.curves = overrides.curves
    BY <1>2, <2>1
  <2>4. \A r \in DOMAIN overrides.sellers : after.sellers[r] \in Strategies
    BY <1>1, <1>2, <2>1, <2>2 DEF OverridesOK
  <2>5. QED
    BY <1>1, <2>3, <2>4 DEF OverridesOK, overrides
<1>3. CASE ~(spec.type = "promotion_event" /\ spec.retailer \in DOMAIN overrides.sellers)
  BY <1>1, <1>3 DEF OverridesAfter, overrides
<1>4. QED
  BY <1>1, <1>2, <1>3 DEF overrides

\* A replay accounts for its stock, from what the dimensions say there was.
LEMMA ReplaysAreAccounted ==
  ASSUME NEW S, OrdersOK(S), NEW dims \in AnyDims, NEW pairs \in AnyPairs, NEW ticks \in Int
  PROVE  StockOK(Replayed(S, dims, pairs, ticks), dims)
<1> DEFINE t == TwinFromTotals(RetailerTotals(S), ProductTotals(S), dims)
           end == Replayed(S, dims, pairs, ticks)
<1>1. PICK R, P, s, f : FreshTwin(t, R, P, s, f)
  BY TwinsOfTotalsAreFresh
<1>2. end = IF ticks > 0 THEN Projection(t, pairs, NoOverrides, ticks) ELSE t
  BY DEF Replayed
<1>3. \A p : (IF p \in DOMAIN t.products THEN Held(t.products[p]) ELSE 0)
               = (IF p \in DOMAIN dims.products THEN Held(dims.products[p]) ELSE 0)
  <2> TAKE p
  <2> DEFINE goods == ProductTotals(S)
  <2>1. DOMAIN t.products = DOMAIN dims.products \cup DOMAIN goods
    BY DEF TwinFromTotals
  <2>2. p \in DOMAIN t.products =>
          t.products[p].stock = At(dims.products, p, [price |-> None, stock |-> None, category |-> "uncategorized"]).stock
    BY <2>1 DEF TwinFromTotals
  <2> HIDE DEF t
  <2>3. QED
    BY <2>1, <2>2 DEF At, Held
<1> HIDE DEF t
<1>4. StockOK(end, t)
  <2>1. CASE ticks > 0
    <3>1. OverridesOK(NoOverrides)
      BY DEF OverridesOK, NoOverrides
    <3>2. QED
      BY <1>1, <1>2, <2>1, <3>1, PairsAreLists, ProjectionsAreAccounted
  <2>2. CASE ~(ticks > 0)
    <3>1. end = t /\ DOMAIN t.products = P
      BY <1>1, <1>2, <2>2 DEF FreshTwin, Twins
    <3>2. SUFFICES ASSUME NEW p \in P, t.products[p].stock # None
                   PROVE  t.products[p].stock >= 0 /\ t.products[p].stock = Held(t.products[p]) + t.products[p].moved - t.products[p].since
      BY <3>1 DEF StockOK
    <3>3. t.products[p] \in ProductStates /\ t.products[p].since = 0 /\ t.products[p].moved = 0
      BY <1>1, FreshIsAccounted
    <3>4. t.products[p].stock \in Nat /\ Held(t.products[p]) = t.products[p].stock
      BY <3>2, <3>3 DEF ProductStates, Held
    <3>5. QED
      BY <3>3, <3>4
  <2>3. QED
    BY <2>1, <2>2
<1> HIDE DEF end
<1>5. SUFFICES ASSUME NEW p \in DOMAIN end.products, end.products[p].stock # None
               PROVE  LET before == IF p \in DOMAIN dims.products THEN Held(dims.products[p]) ELSE 0
                      IN /\ end.products[p].stock >= 0
                         /\ end.products[p].stock = before + end.products[p].moved - end.products[p].since
  BY DEF StockOK, end
<1>6. QED
  BY <1>3, <1>4, <1>5 DEF StockOK

\* A twin that a job loads is fresh.
LEMMA LoadedTwinsAreFresh ==
  ASSUME NEW t \in AnyTwins
  PROVE  \E R, P, s, f : FreshTwin(t, R, P, s, f)
<1>1. PICK w \in Warehouses : t = ClassicTwin(w) \/ t = TenantTwin(w)
  BY DEF AnyTwins
<1>2. QED
  BY <1>1, ClassicTwinsAreFresh, TenantTwinsAreFresh

\* In every run that has been recorded, scenario or counterfactual and in both of its
\* branches, what is left of a product is what there was and came in, less what was sold.
THEOREM StockIsAccounted == Spec => []StockIsAccountedFor
<1> DEFINE RowsOK == DOMAIN rows \subseteq DOMAIN job.specs \/ rows = [i \in {} |-> None]
<1>1. RunsInv /\ ResultsInv /\ RowsOK => StockIsAccountedFor
  <2> SUFFICES ASSUME RunsInv, ResultsInv, RowsOK, NEW i \in DOMAIN rows, NEW b \in {1, 2}
               PROVE  StockOK(rows[i].ends[b], IF i \in PastRows THEN rows[i].dims[b] ELSE twin)
    BY DEF StockIsAccountedFor, StockOK
  <2> DEFINE spec == job.specs[i]
  <2>1. Told(rows[i], spec)
    BY DEF ResultsInv, ResultInv
  <2>2. i \in DOMAIN job.specs /\ job \in Jobs
    BY DEF RunsInv, JobInv, PastTold
  <2>3. /\ IsSpec(spec) /\ spec.type \in ScenarioTypes \cup CounterfactualTypes /\ job.ticks \in Nat
        /\ OverridesOK(job.overrides) /\ OverridesOK(OverridesAfter(job.overrides, spec))
    BY <2>2, SimulationAssumption, OverridesAreSound
  <2>4. CASE spec.type \in ScenarioTypes
    <3>1. i \notin PastRows /\ TwoBranches(rows[i], spec)
      BY <2>1, <2>4 DEF PastRows, ScenarioRows, Told
    <3>2. PICK R, P, s, f : FreshTwin(twin, R, P, s, f)
      BY <3>1, LoadedTwinsAreFresh DEF TwoBranches
    <3>3. Lists(rows[i].baseline) /\ Lists(rows[i].scenario) /\ ~Unknown(spec, twin)
      BY <3>1, PairsAreLists DEF TwoBranches
    <3> HIDE DEF spec
    <3>4. StockOK(BaselineBranch(twin, rows[i].baseline, job.overrides, spec, job.ticks), twin)
      BY <2>3, <3>2, <3>3, ProjectionsAreAccounted DEF BaselineBranch
    <3>5. StockOK(ScenarioBranch(twin, rows[i].scenario, job.overrides, spec, job.ticks), twin)
      BY <2>3, <2>4, <3>2, <3>3, BranchesAreAccounted
    <3>6. rows[i].ends = <<BaselineBranch(twin, rows[i].baseline, job.overrides, spec, job.ticks),
                           ScenarioBranch(twin, rows[i].scenario, job.overrides, spec, job.ticks)>>
      BY <3>1 DEF TwoBranches
    <3>7. QED
      BY <3>1, <3>4, <3>5, <3>6
  <2>5. CASE spec.type \notin ScenarioTypes
    <3>1. i \in PastRows /\ TwoPasts(rows[i], spec)
      BY <2>1, <2>5 DEF PastRows, ScenarioRows, Told
    <3>2. PICK anomaly : \E orders \in AnyOrders, dims, otherDims \in AnyDims, pairs, otherPairs \in AnyPairs :
            rows[i] = Pasts(spec, anomaly, orders, dims, otherDims, pairs, otherPairs)
      BY <3>1 DEF TwoPasts
    <3>3. PICK orders \in AnyOrders, dims \in AnyDims, otherDims \in AnyDims, pairs \in AnyPairs, otherPairs \in AnyPairs :
            rows[i] = Pasts(spec, anomaly, orders, dims, otherDims, pairs, otherPairs)
      BY <3>2
    <3> DEFINE other == CounterfactualOrders(spec, anomaly, orders)
    <3>4. /\ rows[i].dims = <<dims, otherDims>>
          /\ rows[i].ends = <<Replayed(orders, dims, pairs, spec.ticks), Replayed(other, otherDims, otherPairs, spec.ticks)>>
      BY <3>3 DEF Pasts
    <3>5. spec.ticks \in Int
      BY <2>3, <2>5 DEF IsSpec, CounterfactualTypes
    <3>6. OrdersOK(orders)
      <4>1. PICK w \in Warehouses : orders \subseteq w.orders
        BY DEF AnyOrders
      <4>2. QED
        BY <4>1, WarehousesAreSound, FS_Subset DEF OrdersOK
    <3>7. OrdersOK(other)
      <4>1. spec.type = "modify_price" => spec.percent \in Int
        BY <2>3 DEF IsSpec
      <4>2. IsFiniteSet(orders) /\ Amounts(orders)
        BY <3>6 DEF OrdersOK, Amounts, IsOrder
      <4> HIDE DEF spec
      <4>3. IsFiniteSet(other) /\ Amounts(other)
        BY <4>1, <4>2, OthersAreOrders
      <4>4. \A o \in other : o.quantity \in Int
        <5>1. \A o \in orders : o.quantity \in Int /\ Repriced(o, spec.percent).quantity = o.quantity
          BY <3>6 DEF OrdersOK, IsOrder, Repriced
        <5>2. QED
          BY <5>1 DEF CounterfactualOrders, Affected
      <4> HIDE DEF other
      <4>5. QED
        BY <4>3, <4>4 DEF OrdersOK, Amounts, IsOrder
    <3> HIDE DEF other, spec
    <3>8. StockOK(Replayed(orders, dims, pairs, spec.ticks), dims)
      BY <3>5, <3>6, ReplaysAreAccounted
    <3>9. StockOK(Replayed(other, otherDims, otherPairs, spec.ticks), otherDims)
      BY <3>5, <3>7, ReplaysAreAccounted
    <3>10. QED
      BY <3>1, <3>4, <3>8, <3>9
  <2>6. QED
    BY <2>4, <2>5
<1>2. QED
  BY <1>1, RunsAndResults, RowsAreOfSpecs, PTL

-----------------------------------------------------------------------------
(* Scenarios that change nothing: two runs side by side.                    *)

\* A setup that sets what is already so leaves the world it was given.
LEMMA NeutralSetups ==
  ASSUME NEW R, NEW P, NEW s, NEW f, NEW t, FreshTwin(t, R, P, s, f), NEW pairs, Lists(pairs),
         NEW overrides, OverridesOK(overrides), NEW spec, IsSpec(spec), spec.type # "promotion_event",
         ~Unknown(spec, t), Neutral(spec, t)
  PROVE  Setup(BuildWorld(t, pairs, overrides), spec) = [world |-> BuildWorld(t, pairs, overrides), undo |-> Nothing]
<1> DEFINE w == BuildWorld(t, pairs, overrides)
           p == spec.product
           product == t.products[p]
           keep == [world |-> w, undo |-> Nothing]
<1>0. SUFFICES Setup(w, spec) = keep
  OBVIOUS
<1>1. w \in Worlds(R, P, s, f, Stocks(t)) /\ w.twin = t /\ w.market = NewMarket
  BY BuildsMakeWorlds DEF BuildWorld
<1> HIDE DEF w
<1>2. /\ t \in Twins(R, P, s, f) /\ t.products \in [P -> ProductStates] /\ w.curves \in [P -> Curves]
      /\ w = [twin |-> t, market |-> NewMarket, curves |-> w.curves, sellers |-> w.sellers]
  BY <1>1, WorldsAreMade
<1>3. spec.type \in {"price_change", "inventory_change", "supply_chain_delay"} =>
        /\ p \in P /\ product \in ProductStates
  BY <1>2 DEF Unknown
<1>4. ASSUME NEW t2, t2 = t, Setup(w, spec) = [keep EXCEPT !.world.twin = t2]
      PROVE  Setup(w, spec) = keep
  BY <1>2, <1>4
<1>5. CASE spec.type = "price_change"
  <2>1. product.price = spec.price
    BY <1>5 DEF Neutral
  <2>2. ApplyPrice(t, p, spec.price) = t
    BY <1>2, <1>3, <1>5, <2>1 DEF ApplyPrice, Twins, ProductStates
  <2>3. Setup(w, spec) = [keep EXCEPT !.world.twin = ApplyPrice(t, p, spec.price)]
    BY <1>1, <1>5 DEF Setup
  <2> HIDE DEF keep, p
  <2>4. QED
    BY <1>4, <2>2, <2>3 DEF keep
<1>6. CASE spec.type = "inventory_change"
  <2>1. spec.delta = 0 /\ product.stock # None
    BY <1>6 DEF Neutral
  <2>2. Stocked(product, 0) = product
    <3>1. product \in ProductStates
      BY <1>3, <1>6
    <3> HIDE DEF product
    <3>2. product.stock \in Nat /\ product.moved \in Int
      BY <2>1, <3>1 DEF ProductStates
    <3>3. AtLeast0(Held(product) + 0) = product.stock /\ Held(product) = product.stock
      BY <2>1, <3>2 DEF AtLeast0, Held
    <3>4. product.moved + product.stock - product.stock = product.moved
      BY <3>2
    <3>5. Stocked(product, 0) = [product EXCEPT !.stock = product.stock, !.moved = product.moved]
      BY <3>1, <3>3, <3>4 DEF Stocked, ProductStates
    <3>6. QED
      BY <3>1, <3>5 DEF ProductStates
  <2>3. ApplyStock(t, p, spec.delta) = t
    <3>1. ApplyStock(t, p, 0) = [t EXCEPT !.products = [t.products EXCEPT ![p] = product]]
      BY <1>2, <2>2 DEF ApplyStock, Twins
    <3>2. QED
      BY <1>2, <1>3, <1>6, <2>1, <3>1 DEF Twins
  <2>4. Setup(w, spec) = [keep EXCEPT !.world.twin = ApplyStock(t, p, spec.delta)]
    BY <1>1, <1>6 DEF Setup
  <2> HIDE DEF keep, p
  <2>5. QED
    BY <1>4, <2>3, <2>4 DEF keep
<1>7. CASE spec.type = "supply_chain_delay"
  <2> DEFINE owed == Rounded(w.curves[p].strategy.base * spec.ticks, 100)
             lost == IF product.stock = None THEN 0 ELSE Lesser(owed, product.stock)
  <2>1. spec.ticks = 0 /\ w.curves[p].strategy.base \in Int
    BY <1>2, <1>3, <1>7 DEF Neutral, Curves, Demands
  <2>2. owed = 0
    BY <2>1 DEF Rounded
  <2>3. product.stock \in Nat \cup {None}
    BY <1>3, <1>7 DEF ProductStates
  <2>4. ~(lost > 0)
    <3> HIDE DEF owed, product
    <3>1. QED
      BY <2>2, <2>3 DEF Lesser
  <2>5. Setup(w, spec) = IF lost > 0 THEN [keep EXCEPT !.world.twin = ApplyStock(t, p, -lost)] ELSE keep
    BY <1>1, <1>7 DEF Setup
  <2>6. QED
    BY <2>4, <2>5
<1>8. CASE spec.type = "demand_shock"
  <2>1. spec.multiplier = 100
    BY <1>8 DEF Neutral
  <2>2. Setup(w, spec) = [keep EXCEPT !.world.market.multiplier = 100]
    BY <1>1, <1>8, <2>1 DEF Setup
  <2>3. QED
    BY <1>2, <2>2 DEF NewMarket
<1>9. CASE spec.type \in {"competitor_entry", "competitor_exit"}
  <2>1. spec.pressure = 0
    BY <1>9 DEF Neutral
  <2>2. Lesser(100, NewMarket.baseline + spec.pressure) = 0 /\ AtLeast0(NewMarket.baseline - spec.pressure) = 0
    BY <2>1 DEF NewMarket, Lesser, AtLeast0
  <2>3. Setup(w, spec) = [keep EXCEPT !.world.market.baseline = 0]
    BY <1>1, <1>9, <2>2 DEF Setup
  <2>4. QED
    BY <1>2, <2>3 DEF NewMarket
<1>10. QED
  BY <1>5, <1>6, <1>7, <1>8, <1>9 DEF Neutral

\* What does not differ adds up to nothing, and is no anomaly.
LEMMA NothingIsPredicted ==
  ASSUME NEW R, IsFiniteSet(R), NEW end, end.retailers \in [R -> RetailerStates]
  PROVE  PredictedAnomalies(end, end) = {}
<1> DEFINE delta == [r \in R |-> Moved(end, end)[r][2]]
           square == [r \in R |-> Moved(end, end)[r][2] * Moved(end, end)[r][2]]
<1>1. Both(end, end) = R
  BY DEF Both
<1>2. \A r \in R : Moved(end, end)[r][2] = 0
  <2> TAKE r \in R
  <2>1. end.retailers[r].revenue \in Int
    BY DEF RetailerStates
  <2>2. Moved(end, end)[r][2] = end.retailers[r].revenue - end.retailers[r].revenue
    BY <1>1 DEF Moved
  <2>3. QED
    BY <2>1, <2>2
<1>3. ASSUME NEW g, \A r \in R : g[r] = 0 PROVE SumFunctionOnSet(g, R) = 0
  <2>1. \A r \in R : g[r] \in Int /\ g[r] = g[r] - g[r]
    BY <1>3
  <2>2. SumFunctionOnSet(g, R) = SumFunctionOnSet(g, R) - SumFunctionOnSet(g, R)
    BY <2>1, SumOfDifferences
  <2>3. SumFunctionOnSet(g, R) \in Int
    BY <2>1, SumTakesOut
  <2>4. QED
    BY <2>2, <2>3
<1>4. MapThenSumSet(LAMBDA r : Moved(end, end)[r][2], R) = SumFunctionOnSet(delta, R)
  BY DEF MapThenSumSet, MapThenFoldSet, SumFunctionOnSet, FoldFunctionOnSet
<1>5. MapThenSumSet(LAMBDA r : Moved(end, end)[r][2] * Moved(end, end)[r][2], R) = SumFunctionOnSet(square, R)
  BY DEF MapThenSumSet, MapThenFoldSet, SumFunctionOnSet, FoldFunctionOnSet
<1>6. (\A r \in R : delta[r] = 0) /\ (\A r \in R : square[r] = 0)
  BY <1>2
<1> HIDE DEF delta, square
<1>7. SumFunctionOnSet(delta, R) = 0 /\ SumFunctionOnSet(square, R) = 0
  BY <1>3, <1>6
<1> DEFINE n == Cardinality(R)
           sum == MapThenSumSet(LAMBDA r : Moved(end, end)[r][2], R)
           squares == MapThenSumSet(LAMBDA r : Moved(end, end)[r][2] * Moved(end, end)[r][2], R)
<1>8. n \in Nat
  BY FS_CardinalityType
<1>9. sum = 0 /\ squares = 0
  BY <1>4, <1>5, <1>7
<1> HIDE DEF n
<1>10. n * squares - sum * sum = 0
  <2> HIDE DEF sum, squares
  <2>1. QED
    BY <1>8, <1>9
<1>11. QED
  BY <1>1, <1>10 DEF PredictedAnomalies, n

\* The same world, with other sellers.
With(w, sellers) == [twin |-> w.twin, market |-> w.market, curves |-> w.curves, sellers |-> sellers]

\* Sellers that act alike: they differ at most by a promotion that takes nothing off.
Alike(sellers, others) ==
  \A r \in DOMAIN sellers :
    LET a == sellers[r].strategy
        b == others[r].strategy
    IN /\ others[r].carries = sellers[r].carries
       /\ b.inventory = a.inventory /\ b.fulfillment = a.fulfillment /\ b.response = a.response /\ (b.ml = a.ml)
       /\ b.threshold = a.threshold /\ b.reorder = a.reorder /\ b.cap = a.cap
       /\ b = a \/ (a.promotion = "none" /\ b.promotion = "periodic" /\ b.discount = 0)

\* What does not look at a seller does the same in both worlds.
LEMMA CurvesStepAlike ==
  ASSUME NEW R, NEW P, NEW s, NEW f, NEW had, NEW w \in Worlds(R, P, s, f, had), NEW others, NEW p \in P
  PROVE  /\ Quantity(With(w, others), p) = Quantity(w, p)
         /\ CurveStep(With(w, others), p) = With(CurveStep(w, p), others)
         /\ CurveStep(w, p).sellers = w.sellers
<1> DEFINE v == With(w, others)
           decayed == IF w.twin.products[p].stock = None THEN 0
                      ELSE Rounded(w.twin.products[p].stock * w.curves[p].strategy.decay, 100)
           owed == Ask(w, p) % 100
           t2 == IF decayed > 0 THEN ApplyStock(w.twin, p, -decayed) ELSE w.twin
           curves == [w.curves EXCEPT ![p].owed = owed]
<1>1. w = [twin |-> w.twin, market |-> w.market, curves |-> w.curves, sellers |-> w.sellers]
  BY WorldsAreMade
<1>2. v.twin = w.twin /\ v.market = w.market /\ v.curves = w.curves /\ v.sellers = others
  BY DEF With
<1>3. Ask(v, p) = Ask(w, p) /\ Quantity(v, p) = Quantity(w, p)
  BY <1>2 DEF Ask, Quantity
<1>4. CurveStep(w, p) = [w EXCEPT !.curves[p].owed = owed, !.twin = IF decayed > 0 THEN ApplyStock(@, p, -decayed) ELSE @]
  BY DEF CurveStep
<1>5. CurveStep(v, p) = [v EXCEPT !.curves[p].owed = owed, !.twin = IF decayed > 0 THEN ApplyStock(@, p, -decayed) ELSE @]
  BY <1>2, <1>3 DEF CurveStep
<1> HIDE DEF owed, decayed
<1>6. CurveStep(w, p) = [twin |-> t2, market |-> w.market, curves |-> curves, sellers |-> w.sellers]
  BY <1>1, <1>4
<1>7. CurveStep(v, p) = [twin |-> t2, market |-> w.market, curves |-> curves, sellers |-> others]
  BY <1>5 DEF With
<1> HIDE DEF t2, curves
<1>8. QED
  BY <1>3, <1>6, <1>7 DEF With

\* Neither does an order or a restock differ between sellers that act alike.
LEMMA OrdersAlike ==
  ASSUME NEW R, NEW P, NEW s, NEW f, NEW had, NEW w \in Worlds(R, P, s, f, had), NEW others,
         Alike(w.sellers, others), NEW r \in R, NEW p \in P
  PROVE  /\ \A asked : Orderable(With(w, others), r, p, asked) = Orderable(w, r, p, asked)
         /\ Restock(With(w, others), r, p) = With(Restock(w, r, p), others)
         /\ Restock(w, r, p).sellers = w.sellers
         /\ w.twin.products[p].price # None => PriceFor(With(w, others), r, p) = PriceFor(w, r, p)
<1> DEFINE v == With(w, others)
           a == w.sellers[r].strategy
           b == others[r].strategy
           t2 == ApplyStock(w.twin, p, a.reorder)
<1>1. /\ w = [twin |-> w.twin, market |-> w.market, curves |-> w.curves, sellers |-> w.sellers]
      /\ DOMAIN w.sellers = R
  BY WorldsAreMade
<1>2. /\ v.twin = w.twin /\ v.market = w.market /\ v.curves = w.curves /\ v.sellers = others
      /\ v = [twin |-> w.twin, market |-> w.market, curves |-> w.curves, sellers |-> others]
  BY DEF With
<1>3. /\ b.inventory = a.inventory /\ b.fulfillment = a.fulfillment /\ (b.ml = a.ml)
      /\ b.threshold = a.threshold /\ b.reorder = a.reorder /\ b.cap = a.cap
      /\ b = a \/ (a.promotion = "none" /\ b.promotion = "periodic" /\ b.discount = 0)
  BY <1>1 DEF Alike
<1> HIDE DEF v
<1>4. \A asked : Orderable(v, r, p, asked) = Orderable(w, r, p, asked)
  BY <1>2, <1>3 DEF Orderable
<1>5. Restock(v, r, p) = With(Restock(w, r, p), others) /\ Restock(w, r, p).sellers = w.sellers
  <2>1. CASE a.inventory = "proactive" /\ w.twin.products[p].stock # None /\ w.twin.products[p].stock <= a.threshold
    <3>1. Restock(w, r, p) = [w EXCEPT !.twin = t2] /\ Restock(v, r, p) = [v EXCEPT !.twin = t2]
      BY <1>2, <1>3, <2>1 DEF Restock
    <3> HIDE DEF t2
    <3>2. /\ Restock(w, r, p) = [twin |-> t2, market |-> w.market, curves |-> w.curves, sellers |-> w.sellers]
          /\ Restock(v, r, p) = [twin |-> t2, market |-> w.market, curves |-> w.curves, sellers |-> others]
      BY <1>1, <1>2, <3>1
    <3>3. QED
      BY <3>2 DEF With
  <2>2. CASE ~(a.inventory = "proactive" /\ w.twin.products[p].stock # None /\ w.twin.products[p].stock <= a.threshold)
    <3>1. Restock(w, r, p) = w /\ Restock(v, r, p) = v
      BY <1>2, <1>3, <2>2 DEF Restock
    <3>2. QED
      BY <3>1 DEF v
  <2>3. QED
    BY <2>1, <2>2
<1>6. ASSUME w.twin.products[p].price # None PROVE PriceFor(v, r, p) = PriceFor(w, r, p)
  <2> DEFINE list == w.twin.products[p].price
  <2>1. list \in Int
    BY <1>6, WorldsAreMade DEF ProductStates
  <2>2. Nudge(v, r, p) = Nudge(w, r, p)
    BY <1>2, <1>3 DEF Nudge
  <2>3. (IF Promoting(v, r) THEN Times(list, 100 - b.discount) ELSE list)
          = (IF Promoting(w, r) THEN Times(list, 100 - a.discount) ELSE list)
    <3>1. CASE b = a
      BY <1>2, <3>1 DEF Promoting
    <3>2. CASE a.promotion = "none" /\ b.promotion = "periodic" /\ b.discount = 0
      <4>1. ~Promoting(w, r)
        BY <3>2 DEF Promoting
      <4>2. Times(list, 100 - b.discount) = list
        <5> HIDE DEF list
        <5>1. QED
          BY <2>1, <3>2 DEF Times
      <4>3. QED
        BY <4>1, <4>2
    <3>3. QED
      BY <1>3, <3>1, <3>2
  <2>4. QED
    BY <1>2, <2>2, <2>3 DEF PriceFor
<1>7. QED
  BY <1>4, <1>5, <1>6 DEF v

\* Nor does a sale.
LEMMA SalesAlike ==
  ASSUME NEW R, NEW P, NEW s, NEW f, NEW had, \A x \in P : had[x] \in Int, \A x \in DOMAIN f : f[x] \in Int,
         NEW w \in Worlds(R, P, s, f, had), NEW others, Alike(w.sellers, others), NEW r \in R, NEW p
  PROVE  Sell(With(w, others), r, p) = With(Sell(w, r, p), others) /\ Sell(w, r, p).sellers = w.sellers
<1> DEFINE v == With(w, others)
<1>1. v.twin = w.twin
  BY DEF With
<1>2. CASE p \notin DOMAIN w.twin.products \/ w.twin.products[p].price = None
  BY <1>1, <1>2 DEF Sell
<1>3. CASE ~(p \notin DOMAIN w.twin.products \/ w.twin.products[p].price = None)
  <2> DEFINE asked == Quantity(w, p)
             stepped == CurveStep(w, p)
             quantity == Orderable(stepped, r, p, asked)
             price == PriceFor(stepped, r, p)
             amount == price * quantity
             t2 == ApplyOrder(stepped.twin, r, p, quantity, amount)
             sold == [stepped EXCEPT !.twin = t2]
             step2 == With(stepped, others)
             sold2 == [step2 EXCEPT !.twin = t2]
  <2>1. p \in P /\ w.twin.products[p].price # None
    BY <1>3, WorldsAreMade
  <2>2. stepped \in Worlds(R, P, s, f, had) /\ stepped.twin.products[p].price # None
    BY <2>1, CurvesStep
  <2>3. stepped.sellers = w.sellers /\ CurveStep(v, p) = step2 /\ Quantity(v, p) = asked
    BY <2>1, CurvesStepAlike
  <2>4. asked \in Int
    BY <2>1, AsksAreWhole
  <2>5. Sell(w, r, p) = IF asked <= 0 \/ quantity <= 0 THEN stepped ELSE Restock(sold, r, p)
    BY <1>3 DEF Sell
  <2>6. Sell(v, r, p) = IF Quantity(v, p) <= 0 \/ Orderable(CurveStep(v, p), r, p, Quantity(v, p)) <= 0 THEN CurveStep(v, p)
                        ELSE Restock([CurveStep(v, p) EXCEPT
                               !.twin = ApplyOrder(@, r, p, Orderable(CurveStep(v, p), r, p, Quantity(v, p)),
                                          PriceFor(CurveStep(v, p), r, p) * Orderable(CurveStep(v, p), r, p, Quantity(v, p)))], r, p)
    BY <1>1, <1>3 DEF Sell
  <2> HIDE DEF stepped, asked
  <2>7. step2.twin = stepped.twin
    BY DEF With
  <2>8. Alike(stepped.sellers, others)
    BY <2>3
  <2>9. Orderable(step2, r, p, asked) = quantity /\ PriceFor(step2, r, p) = price
    BY <2>1, <2>2, <2>8, OrdersAlike
  <2>10. quantity \in Int /\ (stepped.twin.products[p].stock # None => quantity =< stepped.twin.products[p].stock)
    BY <2>1, <2>2, <2>4, OrdersAreHeld
  <2>11. price \in Int
    BY <2>1, <2>2, PricesAreWhole
  <2>12. Sell(v, r, p) = IF asked <= 0 \/ quantity <= 0 THEN step2 ELSE Restock(sold2, r, p)
    <3> HIDE DEF v, step2, quantity, price
    <3>1. QED
      BY <2>3, <2>6, <2>7, <2>9
  <2> HIDE DEF quantity, price
  <2>13. amount \in Int
    BY <2>10, <2>11
  <2> HIDE DEF amount
  <2>14. sold \in Worlds(R, P, s, f, had)
    BY <2>1, <2>2, <2>10, <2>13, OrdersKeep
  <2> HIDE DEF t2
  <2>15. sold.sellers = stepped.sellers /\ sold2 = With(sold, others)
    <3>1. stepped = [twin |-> stepped.twin, market |-> stepped.market, curves |-> stepped.curves, sellers |-> stepped.sellers]
      BY <2>2, WorldsAreMade
    <3>2. QED
      BY <3>1 DEF With
  <2> HIDE DEF sold, sold2
  <2>16. Restock(sold2, r, p) = With(Restock(sold, r, p), others) /\ Restock(sold, r, p).sellers = sold.sellers
    <3>1. Alike(sold.sellers, others)
      BY <2>8, <2>15
    <3>2. QED
      BY <2>1, <2>14, <2>15, <3>1, OrdersAlike
  <2>17. QED
    BY <2>3, <2>5, <2>12, <2>15, <2>16
<1>4. QED
  BY <1>2, <1>3

\* Nor does serving all a retailer carries.
LEMMA ServesAlike ==
  ASSUME NEW R, NEW P, NEW s, NEW f, NEW had, \A x \in P : had[x] \in Int, \A x \in DOMAIN f : f[x] \in Int,
         NEW w \in Worlds(R, P, s, f, had), NEW r \in R, NEW others, Alike(w.sellers, others)
  PROVE  Serve(With(w, others), r) = With(Serve(w, r), others) /\ Serve(w, r).sellers = w.sellers
<1> DEFINE W == {x \in Worlds(R, P, s, f, had) : x.sellers = w.sellers}
           carries == w.sellers[r].carries
           N == Len(carries)
           v == With(w, others)
           step == [n \in 1..N |-> [x \in W |-> Sell(x, r, carries[n])]]
           after[n \in 0..N] == IF n = 0 THEN w ELSE Sell(after[n - 1], r, carries[n])
           also[n \in 0..Len(v.sellers[r].carries)] == IF n = 0 THEN v ELSE Sell(also[n - 1], r, v.sellers[r].carries[n])
           both[n \in 0..N] == IF n = 0 THEN v ELSE Sell(both[n - 1], r, carries[n])
<1>0. Serve(w, r) = after[N]
  BY Zenon DEF Serve
<1>00. Serve(v, r) = also[Len(v.sellers[r].carries)]
  BY Zenon DEF Serve
<1>01. v.sellers[r].carries = carries
  BY WorldsAreMade DEF With, Alike
<1>02. Serve(v, r) = both[N]
  BY <1>00, <1>01, Zenon
<1>1. N \in Nat
  <2>1. carries \in Seq(P)
    BY WorldsAreMade DEF Sellers
  <2>2. QED
    BY <2>1
<1>2. \A n \in 1..N : \A x \in W : /\ Sell(x, r, carries[n]) \in W
                                   /\ Sell(With(x, others), r, carries[n]) = With(Sell(x, r, carries[n]), others)
  <2> TAKE n \in 1..N
  <2> TAKE x \in W
  <2>1. x \in Worlds(R, P, s, f, had) /\ Alike(x.sellers, others) /\ x.sellers = w.sellers
    OBVIOUS
  <2> HIDE DEF W
  <2>2. Sell(x, r, carries[n]) \in Worlds(R, P, s, f, had)
    BY <2>1, SalesKeep
  <2>3. Sell(With(x, others), r, carries[n]) = With(Sell(x, r, carries[n]), others) /\ Sell(x, r, carries[n]).sellers = x.sellers
    BY <2>1, SalesAlike
  <2>4. QED
    BY <2>1, <2>2, <2>3 DEF W
<1>4. w \in W
  OBVIOUS
<1>W. \A x \in W : x.sellers = w.sellers
  OBVIOUS
<1> HIDE DEF W, N, carries, v
<1>3. StepsInside(W, N, step)
  BY <1>2 DEF StepsInside
<1> HIDE DEF step
<1>5. PICK g : g \in [0..N -> W] /\ g = [n \in 0..N |-> IF n = 0 THEN w ELSE step[n][g[n - 1]]]
  <2>1. PICK h : Values(h, W, N, w, step)
    BY <1>1, <1>3, <1>4, LoopsHaveValues
  <2>2. QED
    BY <2>1 DEF Values
<1>6. ASSUME NEW n \in 0..N PROVE g[n] = IF n = 0 THEN w ELSE Sell(g[n - 1], r, carries[n])
  <2>1. n # 0 => n \in 1..N /\ n - 1 \in 0..N
    BY <1>1
  <2>2. n # 0 => g[n - 1] \in W
    BY <1>5, <2>1
  <2>3. n # 0 => step[n][g[n - 1]] = Sell(g[n - 1], r, carries[n])
    BY <2>1, <2>2 DEF step
  <2>4. QED
    BY <1>5, <2>3
<1>7. g = [n \in 0..N |-> IF n = 0 THEN w ELSE Sell(g[n - 1], r, carries[n])]
  BY <1>5, <1>6
<1> DEFINE h == [n \in 0..N |-> With(g[n], others)]
<1>8. ASSUME NEW n \in 0..N PROVE h[n] = IF n = 0 THEN v ELSE Sell(h[n - 1], r, carries[n])
  <2>1. CASE n = 0
    BY <1>6, <2>1 DEF v
  <2>2. CASE n # 0
    <3>0. n \in 1..N /\ n - 1 \in 0..N
      BY <1>1, <2>2
    <3>1. g[n - 1] \in W /\ g[n] = Sell(g[n - 1], r, carries[n])
      <4>1. g[n] = Sell(g[n - 1], r, carries[n])
        BY <1>6, <2>2
      <4>2. QED
        BY <1>5, <3>0, <4>1
    <3>2. Sell(With(g[n - 1], others), r, carries[n]) = With(g[n], others)
      BY <1>2, <3>0, <3>1
    <3>3. QED
      BY <2>2, <3>0, <3>1, <3>2
  <2>3. QED
    BY <2>1, <2>2
<1>9. h = [n \in 0..N |-> IF n = 0 THEN v ELSE Sell(h[n - 1], r, carries[n])]
  BY <1>8
<1>10. /\ after = [n \in 0..N |-> IF n = 0 THEN w ELSE Sell(after[n - 1], r, carries[n])]
       /\ both = [n \in 0..N |-> IF n = 0 THEN v ELSE Sell(both[n - 1], r, carries[n])]
  <2> HIDE DEF h
  <2>1. after = [n \in 0..N |-> IF n = 0 THEN w ELSE Sell(after[n - 1], r, carries[n])]
    BY <1>7, Zenon
  <2>2. both = [n \in 0..N |-> IF n = 0 THEN v ELSE Sell(both[n - 1], r, carries[n])]
    BY <1>9, Zenon
  <2>3. QED
    BY <2>1, <2>2, Zenon
<1> HIDE DEF after, both, h
<1> DEFINE pair == [n \in 0..N |-> <<after[n], both[n]>>]
           L == {<<x, With(x, others)>> : x \in W}
<1>11. pair[0] \in L /\ \A n \in 1..N : pair[n - 1] \in L => pair[n] \in L
  <2>1. 0 \in 0..N /\ \A n \in 1..N : n \in 0..N /\ n - 1 \in 0..N /\ n # 0
    BY <1>1
  <2>2. after[0] = w /\ both[0] = v /\ \A n \in 1..N : /\ after[n] = Sell(after[n - 1], r, carries[n])
                                                       /\ both[n] = Sell(both[n - 1], r, carries[n])
    BY <1>10, <2>1
  <2>3. pair[0] \in L
    BY <1>4, <2>1, <2>2 DEF v
  <2>4. ASSUME NEW n \in 1..N, pair[n - 1] \in L PROVE pair[n] \in L
    <3>1. PICK x \in W : after[n - 1] = x /\ both[n - 1] = With(x, others)
      BY <2>1, <2>4
    <3>2. after[n] = Sell(x, r, carries[n]) /\ both[n] = With(Sell(x, r, carries[n]), others) /\ Sell(x, r, carries[n]) \in W
      BY <1>2, <2>2, <3>1
    <3>3. QED
      BY <2>1, <3>2
  <2>5. QED
    BY <2>3, <2>4
<1>12. \A n \in 0..N : pair[n] \in L
  <2> HIDE DEF pair, L
  <2>1. QED
    BY <1>1, <1>11, StaysInside
<1>13. after[N] \in W /\ both[N] = With(after[N], others)
  BY <1>1, <1>12
<1>14. QED
  BY <1>0, <1>02, <1>13, <1>W DEF v

\* Nor does a retailer's turn.
LEMMA TurnsAlike ==
  ASSUME NEW R, NEW P, NEW s, NEW f, NEW had, \A x \in P : had[x] \in Int, \A x \in DOMAIN f : f[x] \in Int,
         NEW w \in Worlds(R, P, s, f, had), NEW r \in R, NEW others, Alike(w.sellers, others)
  PROVE  SellerStep(With(w, others), r) = With(SellerStep(w, r), others) /\ SellerStep(w, r).sellers = w.sellers
<1>1. Serve(With(w, others), r) = With(Serve(w, r), others) /\ Serve(w, r).sellers = w.sellers
  BY ServesAlike
<1>2. Operating(With(w, others).twin, r) <=> Operating(w.twin, r)
  BY DEF With
<1>3. Throttled(With(w, others), r) <=> Throttled(w, r)
  <2>1. others[r].strategy.response = w.sellers[r].strategy.response
    BY WorldsAreMade DEF Alike
  <2>2. With(w, others).twin = w.twin /\ With(w, others).sellers = others
    BY DEF With
  <2>3. QED
    BY <2>1, <2>2 DEF Throttled
<1>4. QED
  BY <1>1, <1>2, <1>3 DEF SellerStep

\* Nor does a day's trade.
LEMMA TradesAlike ==
  ASSUME NEW R, IsFiniteSet(R), NEW P, NEW s, NEW f, NEW had, \A x \in P : had[x] \in Int,
         \A x \in DOMAIN f : f[x] \in Int, NEW w \in Worlds(R, P, s, f, had), NEW others, Alike(w.sellers, others)
  PROVE  Trade(With(w, others)) = With(Trade(w), others) /\ Trade(w).sellers = w.sellers
<1> DEFINE W == {x \in Worlds(R, P, s, f, had) : x.sellers = w.sellers}
           order == SetToSeq(DOMAIN w.twin.retailers)
           N == Len(order)
           v == With(w, others)
           opened == [w EXCEPT !.market = MarketStep(@, w.twin)]
           also == [v EXCEPT !.market = MarketStep(@, w.twin)]
           step == [n \in 1..N |-> [x \in W |-> SellerStep(x, order[n])]]
           after[n \in 0..N] == IF n = 0 THEN opened ELSE SellerStep(after[n - 1], order[n])
           theirs[n \in 0..Len(SetToSeq(DOMAIN v.twin.retailers))] ==
             IF n = 0 THEN [v EXCEPT !.market = MarketStep(@, v.twin)]
             ELSE SellerStep(theirs[n - 1], SetToSeq(DOMAIN v.twin.retailers)[n])
           both[n \in 0..N] == IF n = 0 THEN also ELSE SellerStep(both[n - 1], order[n])
<1>0. Trade(w) = after[N]
  BY Zenon DEF Trade
<1>01. Trade(v) = theirs[Len(SetToSeq(DOMAIN v.twin.retailers))]
  BY Zenon DEF Trade
<1>02. v.twin = w.twin
  BY DEF With
<1>03. Trade(v) = both[N]
  BY <1>01, <1>02, Zenon
<1>1. DOMAIN w.twin.retailers = R
  BY WorldsAreMade
<1>2. order \in Seq(R)
  BY <1>1, ListsOfSets
<1>3. N \in Nat /\ \A n \in 1..N : order[n] \in R
  <2> HIDE DEF order
  <2>1. QED
    BY <1>2
<1>4. opened \in W /\ also = With(opened, others)
  <2>1. opened = Rebuilt(w, w.twin, MarketStep(w.market, w.twin), w.sellers)
    BY WorldsAreMade DEF Rebuilt
  <2>2. /\ w.twin \in Twins(R, P, s, f) /\ MarketStep(w.market, w.twin) \in Markets
        /\ w.sellers \in [R -> Sellers(P)]
    BY WorldsAreMade, MarketsKeep
  <2>3. opened \in Worlds(R, P, s, f, had)
    BY <2>1, <2>2, PartsMakeWorlds
  <2>4. opened.sellers = w.sellers /\ also = With(opened, others)
    BY <2>1 DEF With, Rebuilt
  <2>5. QED
    BY <2>3, <2>4
<1>5. \A n \in 1..N : \A x \in W : /\ SellerStep(x, order[n]) \in W
                                   /\ SellerStep(With(x, others), order[n]) = With(SellerStep(x, order[n]), others)
  <2> TAKE n \in 1..N
  <2> TAKE x \in W
  <2>1. x \in Worlds(R, P, s, f, had) /\ Alike(x.sellers, others) /\ x.sellers = w.sellers /\ order[n] \in R
    BY <1>3
  <2> HIDE DEF W, order
  <2>2. SellerStep(x, order[n]) \in Worlds(R, P, s, f, had)
    BY <2>1, TurnsKeep
  <2>3. /\ SellerStep(With(x, others), order[n]) = With(SellerStep(x, order[n]), others)
        /\ SellerStep(x, order[n]).sellers = x.sellers
    BY <2>1, TurnsAlike
  <2>4. QED
    BY <2>1, <2>2, <2>3 DEF W
<1>W. \A x \in W : x.sellers = w.sellers
  OBVIOUS
<1> HIDE DEF W, N, order, v, opened, also
<1>6. StepsInside(W, N, step)
  BY <1>5 DEF StepsInside
<1> HIDE DEF step
<1>7. PICK g : g \in [0..N -> W] /\ g = [n \in 0..N |-> IF n = 0 THEN opened ELSE step[n][g[n - 1]]]
  <2>1. PICK h : Values(h, W, N, opened, step)
    BY <1>3, <1>4, <1>6, LoopsHaveValues
  <2>2. QED
    BY <2>1 DEF Values
<1>8. ASSUME NEW n \in 0..N PROVE g[n] = IF n = 0 THEN opened ELSE SellerStep(g[n - 1], order[n])
  <2>1. n # 0 => n \in 1..N /\ n - 1 \in 0..N
    BY <1>3
  <2>2. n # 0 => g[n - 1] \in W
    BY <1>7, <2>1
  <2>3. n # 0 => step[n][g[n - 1]] = SellerStep(g[n - 1], order[n])
    BY <2>1, <2>2 DEF step
  <2>4. QED
    BY <1>7, <2>3
<1>9. g = [n \in 0..N |-> IF n = 0 THEN opened ELSE SellerStep(g[n - 1], order[n])]
  BY <1>7, <1>8
<1> DEFINE h == [n \in 0..N |-> With(g[n], others)]
<1>10. ASSUME NEW n \in 0..N PROVE h[n] = IF n = 0 THEN also ELSE SellerStep(h[n - 1], order[n])
  <2>1. CASE n = 0
    BY <1>4, <1>8, <2>1
  <2>2. CASE n # 0
    <3>0. n \in 1..N /\ n - 1 \in 0..N
      BY <1>3, <2>2
    <3>1. g[n] = SellerStep(g[n - 1], order[n])
      BY <1>8, <2>2
    <3>2. g[n - 1] \in W
      BY <1>7, <3>0
    <3>3. SellerStep(With(g[n - 1], others), order[n]) = With(g[n], others)
      BY <1>5, <3>0, <3>1, <3>2
    <3>4. QED
      BY <2>2, <3>0, <3>3
  <2>3. QED
    BY <2>1, <2>2
<1>11. h = [n \in 0..N |-> IF n = 0 THEN also ELSE SellerStep(h[n - 1], order[n])]
  BY <1>10
<1>12. /\ after = [n \in 0..N |-> IF n = 0 THEN opened ELSE SellerStep(after[n - 1], order[n])]
       /\ both = [n \in 0..N |-> IF n = 0 THEN also ELSE SellerStep(both[n - 1], order[n])]
  <2> HIDE DEF h
  <2>1. after = [n \in 0..N |-> IF n = 0 THEN opened ELSE SellerStep(after[n - 1], order[n])]
    BY <1>9, Zenon
  <2>2. both = [n \in 0..N |-> IF n = 0 THEN also ELSE SellerStep(both[n - 1], order[n])]
    BY <1>11, Zenon
  <2>3. QED
    BY <2>1, <2>2, Zenon
<1> HIDE DEF after, both, h
<1> DEFINE pair == [n \in 0..N |-> <<after[n], both[n]>>]
           L == {<<x, With(x, others)>> : x \in W}
<1>13. pair[0] \in L /\ \A n \in 1..N : pair[n - 1] \in L => pair[n] \in L
  <2>1. 0 \in 0..N /\ \A n \in 1..N : n \in 0..N /\ n - 1 \in 0..N /\ n # 0
    BY <1>3
  <2>2. after[0] = opened /\ both[0] = also /\ \A n \in 1..N : /\ after[n] = SellerStep(after[n - 1], order[n])
                                                              /\ both[n] = SellerStep(both[n - 1], order[n])
    BY <1>12, <2>1
  <2>3. pair[0] \in L
    BY <1>4, <2>1, <2>2
  <2>4. ASSUME NEW n \in 1..N, pair[n - 1] \in L PROVE pair[n] \in L
    <3>1. PICK x \in W : after[n - 1] = x /\ both[n - 1] = With(x, others)
      BY <2>1, <2>4
    <3>2. /\ after[n] = SellerStep(x, order[n]) /\ both[n] = With(SellerStep(x, order[n]), others)
          /\ SellerStep(x, order[n]) \in W
      BY <1>5, <2>2, <3>1
    <3>3. QED
      BY <2>1, <3>2
  <2>5. QED
    BY <2>3, <2>4
<1>14. \A n \in 0..N : pair[n] \in L
  <2> HIDE DEF pair, L
  <2>1. QED
    BY <1>3, <1>13, StaysInside
<1>15. after[N] \in W /\ both[N] = With(after[N], others)
  BY <1>3, <1>14
<1>16. QED
  BY <1>0, <1>03, <1>15, <1>W DEF v

\* A promotion of no discount, and the run it is undone in.
Discounted(sellers, r, spec) == [sellers EXCEPT ![r].strategy = Promoted(@, spec)]
Promotion(x, r, k, spec) ==
  [world |-> With(x.world, Discounted(x.world.sellers, r, spec)),
   undo |-> [outage |-> None, promotion |-> [retailer |-> r, tick |-> k, strategy |-> x.world.sellers[r].strategy]]]

\* The sellers it leaves once it has ended, with the strategy it began with.
Undone(sellers, r, before) ==
  [sellers EXCEPT ![r].strategy =
     [@ EXCEPT !.promotion = before.promotion, !.discount = before.discount, !.every = before.every]]

\* Such a promotion leaves a seller that acts alike, and what is undone is what was.
LEMMA PromotionsActAlike ==
  ASSUME NEW R, NEW P, NEW sellers \in [R -> Sellers(P)], NEW r \in R, sellers[r].strategy.promotion = "none",
         NEW spec, spec.discount = 0, NEW a, a = sellers[r].strategy
  PROVE  /\ Alike(sellers, Discounted(sellers, r, spec))
         /\ Discounted(sellers, r, spec) \in [R -> Sellers(P)]
         /\ Undone(Discounted(sellers, r, spec), r, a) = sellers
<1> DEFINE b == Promoted(a, spec)
           seller == [sellers[r] EXCEPT !.strategy = b]
           others == [sellers EXCEPT ![r] = seller]
<1>1. sellers[r] \in Sellers(P) /\ a \in Strategies /\ sellers[r] = [strategy |-> a, carries |-> sellers[r].carries]
  BY DEF Sellers
<1>2. b \in Strategies
  BY <1>1, PromotionsAreStrategies
<1>3. /\ b.promotion = "periodic" /\ b.discount = 0
      /\ b.inventory = a.inventory /\ b.fulfillment = a.fulfillment /\ b.response = a.response /\ (b.ml = a.ml)
      /\ b.threshold = a.threshold /\ b.reorder = a.reorder /\ b.cap = a.cap
      /\ [b EXCEPT !.promotion = a.promotion, !.discount = a.discount, !.every = a.every] = a
  BY <1>1 DEF Promoted, Strategies
<1>4. Discounted(sellers, r, spec) = others
  BY <1>1 DEF Discounted
<1> HIDE DEF b
<1>5. seller = [strategy |-> b, carries |-> sellers[r].carries] /\ seller \in Sellers(P)
  BY <1>1, <1>2 DEF Sellers
<1> HIDE DEF seller
<1>6. others \in [R -> Sellers(P)]
  BY <1>5
<1>7. Alike(sellers, others)
  <2> SUFFICES ASSUME NEW x \in R
               PROVE  LET c == sellers[x].strategy
                          d == others[x].strategy
                      IN /\ others[x].carries = sellers[x].carries
                         /\ d.inventory = c.inventory /\ d.fulfillment = c.fulfillment /\ d.response = c.response /\ (d.ml = c.ml)
                         /\ d.threshold = c.threshold /\ d.reorder = c.reorder /\ d.cap = c.cap
                         /\ d = c \/ (c.promotion = "none" /\ d.promotion = "periodic" /\ d.discount = 0)
    BY DEF Alike
  <2>1. CASE x = r
    BY <1>3, <1>5, <2>1
  <2>2. CASE x # r
    BY <2>2
  <2>3. QED
    BY <2>1, <2>2
<1> DEFINE undone == [b EXCEPT !.promotion = a.promotion, !.discount = a.discount, !.every = a.every]
<1>8. [others EXCEPT ![r].strategy = undone] = sellers
  <2> HIDE DEF undone
  <2>1. undone = a
    BY <1>3 DEF undone
  <2>2. [seller EXCEPT !.strategy = undone] = sellers[r]
    BY <1>1, <1>5, <2>1
  <2>3. [others EXCEPT ![r] = [seller EXCEPT !.strategy = undone]] = sellers
    BY <2>2
  <2>4. QED
    BY <2>3
<1>9. others[r].strategy = b
  BY <1>5
<1> HIDE DEF others
<1>10. [others EXCEPT ![r].strategy = [@ EXCEPT !.promotion = a.promotion, !.discount = a.discount, !.every = a.every]] = sellers
  BY <1>8, <1>9
<1>11. QED
  BY <1>4, <1>6, <1>7, <1>10 DEF Undone

\* A promotion ends with the strategy it began with.
LEMMA PromotionsEnd ==
  ASSUME NEW v, NEW others, NEW sellers, NEW over, Due(over, v.twin), v.sellers = others,
         v = [twin |-> v.twin, market |-> v.market, curves |-> v.curves, sellers |-> others],
         Undone(others, over.retailer, over.strategy) = sellers
  PROVE  Hook([world |-> v, undo |-> [outage |-> None, promotion |-> over]]) = [world |-> With(v, sellers), undo |-> Nothing]
<1> DEFINE undo == [outage |-> None, promotion |-> over]
           run == [world |-> v, undo |-> undo]
           r == over.retailer
           restored == [others[r].strategy EXCEPT !.promotion = over.strategy.promotion,
                          !.discount = over.strategy.discount, !.every = over.strategy.every]
           closed == [run EXCEPT !.world.sellers[over.retailer].strategy =
                           [@ EXCEPT !.promotion = over.strategy.promotion,
                                     !.discount = over.strategy.discount,
                                     !.every = over.strategy.every],
                         !.undo.promotion = None]
<1>1. Hook(run) = closed
  BY DEF Hook, Due
<1>2. closed = [run EXCEPT !.world = [v EXCEPT !.sellers[r].strategy = restored], !.undo = [undo EXCEPT !.promotion = None]]
  OBVIOUS
<1>3. sellers = [others EXCEPT ![r].strategy = restored]
  BY DEF Undone
<1> HIDE DEF closed, restored
<1>4. [v EXCEPT !.sellers[r].strategy = restored] = [v EXCEPT !.sellers = sellers]
  BY <1>3
<1>5. [v EXCEPT !.sellers = sellers] = With(v, sellers)
  BY DEF With
<1>6. closed = [world |-> With(v, sellers), undo |-> Nothing]
  BY <1>2, <1>4, <1>5 DEF Nothing
<1>7. QED
  BY <1>1, <1>6

\* A tick of the run with it does what the tick of the run without it does, whether
\* the promotion ends with it or not.
LEMMA TicksAlike ==
  ASSUME NEW R, IsFiniteSet(R), NEW P, NEW s, NEW f, NEW had, \A x \in P : had[x] \in Int,
         \A x \in DOMAIN f : f[x] \in Int, NEW x \in TickRuns(R, P, s, f, had), x.undo = Nothing,
         NEW r \in R, x.world.sellers[r].strategy.promotion = "none", NEW spec, spec.discount = 0, NEW k
  PROVE  /\ Tick(x).undo = Nothing /\ Tick(x).world.sellers = x.world.sellers
         /\ Tick(Promotion(x, r, k, spec)) \in {Tick(x), Promotion(Tick(x), r, k, spec)}
<1> DEFINE w == x.world
           y == Promotion(x, r, k, spec)
           others == Discounted(w.sellers, r, spec)
           over == [retailer |-> r, tick |-> k, strategy |-> w.sellers[r].strategy]
           undo == [outage |-> None, promotion |-> over]
           traded == Trade(w)
           later(v) == [v EXCEPT !.twin = [v.twin EXCEPT !.tick = v.twin.tick + 1]]
<1>1. w \in Worlds(R, P, s, f, had) /\ x = [world |-> w, undo |-> Nothing] /\ w.sellers \in [R -> Sellers(P)]
  BY WorldsAreMade DEF TickRuns
<1>2. y = [world |-> With(w, others), undo |-> undo]
  BY DEF Promotion
<1>3. /\ Alike(w.sellers, others)
      /\ Undone(others, r, over.strategy) = w.sellers
  <2>1. over.strategy = w.sellers[r].strategy
    OBVIOUS
  <2>2. w.sellers[r].strategy.promotion = "none"
    OBVIOUS
  <2> HIDE DEF over, w, others
  <2>3. QED
    <3>1. spec.discount = 0 /\ r \in R /\ w.sellers \in [R -> Sellers(P)]
      BY <1>1
    <3>2. QED
      BY <2>1, <2>2, <3>1, PromotionsActAlike DEF others
<1>4. /\ Trade(With(w, others)) = With(traded, others) /\ traded.sellers = w.sellers
      /\ traded \in Worlds(R, P, s, f, had)
  BY <1>1, <1>3, TradesAlike, TradesKeep
<1>5. traded = [twin |-> traded.twin, market |-> traded.market, curves |-> traded.curves, sellers |-> w.sellers]
  BY <1>4, WorldsAreMade
<1> HIDE DEF y, w, others, over, traded
<1>6. Tick(x) = [world |-> later(traded), undo |-> Nothing]
  <2>1. [x EXCEPT !.world = Trade(@)] = [world |-> traded, undo |-> Nothing]
    BY <1>1 DEF traded
  <2>2. Hook([world |-> traded, undo |-> Nothing]) = [world |-> traded, undo |-> Nothing]
    BY DEF Hook, Due, Nothing
  <2>3. Tick(x) = [[world |-> traded, undo |-> Nothing] EXCEPT !.world.twin.tick = @ + 1]
    BY <2>1, <2>2 DEF Tick
  <2>4. QED
    BY <1>5, <2>3
<1>7. ASSUME NEW v, NEW u, v.twin = traded.twin, DOMAIN v = {"twin", "market", "curves", "sellers"},
             Hook([world |-> With(traded, others), undo |-> undo]) = [world |-> v, undo |-> u]
      PROVE  Tick(y) = [world |-> later(v), undo |-> u]
  <2>1. [y EXCEPT !.world = Trade(@)] = [world |-> With(traded, others), undo |-> undo]
    BY <1>2, <1>4
  <2>2. Tick(y) = [[world |-> v, undo |-> u] EXCEPT !.world.twin.tick = @ + 1]
    BY <1>7, <2>1 DEF Tick
  <2>3. QED
    BY <2>2
<1>8. CASE Due(over, traded.twin)
  <2>1. Hook([world |-> With(traded, others), undo |-> undo]) = [world |-> traded, undo |-> Nothing]
    <3> DEFINE v == With(traded, others)
    <3>1. v.twin = traded.twin /\ v.sellers = others /\ over.retailer = r
      BY DEF With, over
    <3>2. v = [twin |-> v.twin, market |-> v.market, curves |-> v.curves, sellers |-> others]
      BY DEF With
    <3>3. With(v, w.sellers) = traded
      BY <1>5 DEF With
    <3>4. Due(over, v.twin)
      BY <1>8, <3>1
    <3>5. Undone(others, over.retailer, over.strategy) = w.sellers
      BY <1>3, <3>1
    <3> HIDE DEF v
    <3>6. Hook([world |-> v, undo |-> undo]) = [world |-> With(v, w.sellers), undo |-> Nothing]
      BY <3>1, <3>2, <3>4, <3>5, PromotionsEnd
    <3>7. QED
      BY <3>3, <3>6 DEF v
  <2>2. DOMAIN traded = {"twin", "market", "curves", "sellers"}
    BY <1>5
  <2>3. Tick(y) = [world |-> later(traded), undo |-> Nothing]
    BY <1>7, <2>1, <2>2
  <2>4. QED
    BY <1>5, <1>6, <2>3 DEF y, w
<1>9. CASE ~Due(over, traded.twin)
  <2> DEFINE v == With(traded, others)
  <2>1. v.twin = traded.twin /\ DOMAIN v = {"twin", "market", "curves", "sellers"}
    BY DEF With
  <2>2. Hook([world |-> v, undo |-> undo]) = [world |-> v, undo |-> undo]
    BY <1>9, <2>1 DEF Hook, Due
  <2>3. Tick(y) = [world |-> later(v), undo |-> undo]
    BY <1>7, <2>1, <2>2
  <2>4. later(v) = With(later(traded), others)
    BY <1>5 DEF With
  <2>5. later(traded).sellers = w.sellers
    BY <1>5
  <2>6. Promotion(Tick(x), r, k, spec) = [world |-> With(later(traded), others), undo |-> undo]
    <3>1. Tick(x).world = later(traded)
      BY <1>6
    <3> HIDE DEF later
    <3>2. QED
      BY <2>5, <3>1 DEF Promotion, others, over
  <2>7. QED
    BY <1>5, <1>6, <2>3, <2>4, <2>6 DEF y, w
<1>10. QED
  BY <1>8, <1>9

\* So a whole run with it ends as the run without it does.
LEMMA RunsAlike ==
  ASSUME NEW R, IsFiniteSet(R), NEW P, NEW s, NEW f, NEW had, \A x \in P : had[x] \in Int,
         \A x \in DOMAIN f : f[x] \in Int, NEW x \in TickRuns(R, P, s, f, had), x.undo = Nothing,
         NEW r \in R, x.world.sellers[r].strategy.promotion = "none", NEW spec, spec.discount = 0, NEW k \in Int,
         NEW ticks \in Nat
  PROVE  RunTicks(Promotion(x, r, k, spec), ticks) = RunTicks(x, ticks)
<1> DEFINE y == Promotion(x, r, k, spec)
           T == TickRuns(R, P, s, f, had)
           V == {v \in T : v.undo = Nothing /\ v.world.sellers[r].strategy.promotion = "none"}
           L == {<<v, v>> : v \in V} \cup {<<v, Promotion(v, r, k, spec)>> : v \in V}
<1>1. \A v \in V : /\ Tick(v) \in V
                   /\ Tick(Promotion(v, r, k, spec)) \in {Tick(v), Promotion(Tick(v), r, k, spec)}
                   /\ Promotion(v, r, k, spec).world.twin = v.world.twin
  <2> TAKE v \in V
  <2>1. v \in T /\ v.undo = Nothing /\ v.world.sellers[r].strategy.promotion = "none"
    OBVIOUS
  <2> HIDE DEF V
  <2>2. Tick(v) \in T
    BY <2>1, TicksKeep
  <2>3. /\ Tick(v).undo = Nothing /\ Tick(v).world.sellers = v.world.sellers
        /\ Tick(Promotion(v, r, k, spec)) \in {Tick(v), Promotion(Tick(v), r, k, spec)}
    BY <2>1, TicksAlike
  <2>4. Promotion(v, r, k, spec).world.twin = v.world.twin
    BY DEF Promotion, With
  <2>5. QED
    BY <2>1, <2>2, <2>3, <2>4 DEF V
<1>2. x \in V
  OBVIOUS
<1>3. y \in T
  <2>1. /\ x.world \in Worlds(R, P, s, f, had) /\ x.world.sellers \in [R -> Sellers(P)]
        /\ x.world.twin \in Twins(R, P, s, f) /\ x.world.market \in Markets
    BY WorldsAreMade DEF TickRuns
  <2>2. Discounted(x.world.sellers, r, spec) \in [R -> Sellers(P)]
    <3> DEFINE sellers == x.world.sellers
               a == sellers[r].strategy
    <3>1. sellers \in [R -> Sellers(P)] /\ a.promotion = "none" /\ a = sellers[r].strategy
      BY <2>1
    <3> HIDE DEF sellers, a
    <3>2. Discounted(sellers, r, spec) \in [R -> Sellers(P)]
      BY <3>1, PromotionsActAlike
    <3>3. QED
      BY <3>2 DEF sellers
  <2>3. With(x.world, Discounted(x.world.sellers, r, spec)) \in Worlds(R, P, s, f, had)
    BY <2>1, <2>2, PartsMakeWorlds DEF With, Rebuilt
  <2>4. x.world.sellers[r].strategy \in Strategies
    BY <2>1 DEF Sellers
  <2>5. QED
    BY <2>3, <2>4 DEF Promotion, TickRuns, Undos
<1>4. PICK one : /\ RunTicks(x, ticks) = one[ticks].world.twin
                 /\ one[0] = x /\ \A n \in 1..ticks : one[n] = Tick(one[n - 1])
  BY RunsUnfold
<1> HIDE DEF y, T
<1>5. PICK other : /\ RunTicks(y, ticks) = other[ticks].world.twin
                   /\ other[0] = y /\ \A n \in 1..ticks : other[n] = Tick(other[n - 1])
  BY <1>3, RunsUnfold DEF T
<1> DEFINE pair == [n \in 0..ticks |-> <<one[n], other[n]>>]
<1> HIDE DEF V
<1>6. pair[0] \in L
  BY <1>2, <1>4, <1>5 DEF y
<1>7. ASSUME NEW n \in 1..ticks, pair[n - 1] \in L PROVE pair[n] \in L
  <2>1. n \in 0..ticks /\ n - 1 \in 0..ticks
    OBVIOUS
  <2>2. PICK v \in V : one[n - 1] = v /\ other[n - 1] \in {v, Promotion(v, r, k, spec)}
    BY <1>7, <2>1
  <2>3. one[n] = Tick(v) /\ other[n] \in {Tick(v), Promotion(Tick(v), r, k, spec)} /\ Tick(v) \in V
    BY <1>1, <1>4, <1>5, <2>2
  <2>4. QED
    BY <2>1, <2>3
<1>8. \A n \in 0..ticks : pair[n] \in L
  <2> HIDE DEF pair, L
  <2>1. QED
    BY <1>6, <1>7, StaysInside
<1>9. PICK v \in V : one[ticks] = v /\ other[ticks] \in {v, Promotion(v, r, k, spec)}
  BY <1>8
<1>10. QED
  BY <1>1, <1>4, <1>5, <1>9 DEF y

\* A promotion that takes nothing off, of a retailer with no strategy of its own,
\* ends as the baseline does.
LEMMA FreePromotions ==
  ASSUME NEW R, NEW P, NEW s, NEW f, NEW t, FreshTwin(t, R, P, s, f), NEW pairs, Lists(pairs),
         NEW overrides, OverridesOK(overrides), NEW ticks \in Nat,
         NEW spec, IsSpec(spec), spec.type = "promotion_event", ~Unknown(spec, t),
         spec.discount = 0, spec.retailer \notin DOMAIN overrides.sellers
  PROVE  ScenarioBranch(t, pairs, overrides, spec, ticks) = Projection(t, pairs, overrides, ticks)
<1> DEFINE w == BuildWorld(t, pairs, overrides)
           r == spec.retailer
           x == [world |-> w, undo |-> Nothing]
<1>1. w \in Worlds(R, P, s, f, Stocks(t))
  BY BuildsMakeWorlds
<1>2. /\ IsFiniteSet(R) /\ t.retailers \in [R -> RetailerStates] /\ \A i \in DOMAIN f : f[i] \in Int
      /\ \A p \in P : Stocks(t)[p] \in Int
  BY FreshIsAccounted DEF FreshTwin, Twins
<1>3. r \in R /\ spec.ticks \in Int
  BY <1>2 DEF Unknown, IsSpec
<1>4. w.sellers[r].strategy.promotion = "none"
  <2>1. w.sellers[r].strategy = NewStrategy
    BY <1>2, <1>3 DEF BuildWorld, Chosen
  <2>2. QED
    BY <2>1 DEF NewStrategy
<1> HIDE DEF w
<1>5. w = [twin |-> w.twin, market |-> w.market, curves |-> w.curves, sellers |-> w.sellers]
  BY <1>1, WorldsAreMade
<1>6. Setup(w, spec) = Promotion(x, r, spec.ticks, spec)
  <2> DEFINE over == [retailer |-> r, tick |-> spec.ticks, strategy |-> w.sellers[r].strategy]
  <2>1. Setup(w, spec) = [x EXCEPT !.world.sellers[r].strategy = Promoted(@, spec), !.undo.promotion = over]
    BY DEF Setup
  <2> HIDE DEF over
  <2>2. Setup(w, spec) = [world |-> [w EXCEPT !.sellers[r].strategy = Promoted(@, spec)],
                          undo |-> [outage |-> None, promotion |-> over]]
    BY <2>1 DEF Nothing
  <2>3. [w EXCEPT !.sellers[r].strategy = Promoted(@, spec)] = With(w, Discounted(w.sellers, r, spec))
    BY <1>5 DEF With, Discounted
  <2>4. Promotion(x, r, spec.ticks, spec) = [world |-> With(w, Discounted(w.sellers, r, spec)),
                                             undo |-> [outage |-> None, promotion |-> over]]
    BY DEF Promotion, over
  <2>5. QED
    BY <2>2, <2>3, <2>4
<1>7. x \in TickRuns(R, P, s, f, Stocks(t)) /\ x.undo = Nothing /\ x.world.sellers[r].strategy.promotion = "none"
  BY <1>1, <1>4 DEF TickRuns, Undos, Nothing
<1>8. ScenarioBranch(t, pairs, overrides, spec, ticks) = RunTicks(Setup(w, spec), ticks)
  BY DEF ScenarioBranch, w
<1>9. Projection(t, pairs, overrides, ticks) = RunTicks(x, ticks)
  BY DEF Projection, w
<1> HIDE DEF x, r
<1>10. RunTicks(Promotion(x, r, spec.ticks, spec), ticks) = RunTicks(x, ticks)
  BY <1>2, <1>3, <1>7, RunsAlike
<1>11. QED
  BY <1>6, <1>8, <1>9, <1>10

\* A projection predicts nothing when it is compared with itself.
LEMMA ProjectionsPredictNothing ==
  ASSUME NEW R, NEW P, NEW s, NEW f, NEW t, FreshTwin(t, R, P, s, f), NEW pairs, Lists(pairs),
         NEW overrides, OverridesOK(overrides), NEW ticks \in Nat
  PROVE  LET end == Projection(t, pairs, overrides, ticks) IN PredictedAnomalies(end, end) = {}
<1> DEFINE run == [world |-> BuildWorld(t, pairs, overrides), undo |-> Nothing]
           end == Projection(t, pairs, overrides, ticks)
<1>1. run \in TickRuns(R, P, s, f, Stocks(t))
  BY BuildsMakeWorlds DEF TickRuns, Undos, Nothing
<1>2. end = RunTicks(run, ticks)
  BY DEF Projection
<1> HIDE DEF run, end
<1>3. IsFiniteSet(R) /\ (\A p \in P : Stocks(t)[p] \in Int) /\ \A i \in DOMAIN f : f[i] \in Int
  BY FreshIsAccounted DEF FreshTwin
<1>4. PICK w \in Worlds(R, P, s, f, Stocks(t)) : end = w.twin
  BY <1>1, <1>2, <1>3, RunsKeep
<1>5. end.retailers \in [R -> RetailerStates]
  BY <1>4, WorldsAreMade DEF Twins
<1>6. QED
  BY <1>3, <1>5, NothingIsPredicted DEF end

\* A scenario that sets what is already so ends as its baseline does, and predicts
\* nothing, over all the ticks and whichever retailers, products and orders there are.
THEOREM NeutralScenarios == Spec => []NeutralScenariosChangeNothing
<1> DEFINE RowsOK == DOMAIN rows \subseteq DOMAIN job.specs \/ rows = [i \in {} |-> None]
<1>1. RunsInv /\ ResultsInv /\ RowsOK => NeutralScenariosChangeNothing
  <2> SUFFICES ASSUME RunsInv, ResultsInv, RowsOK, NEW i \in ScenarioRows,
                      rows[i].baseline = rows[i].scenario, Neutral(job.specs[i], twin)
               PROVE  /\ rows[i].ends[1] = rows[i].ends[2]
                      /\ PredictedAnomalies(rows[i].ends[1], rows[i].ends[2]) = {}
    BY DEF NeutralScenariosChangeNothing
  <2> DEFINE spec == job.specs[i]
             pairs == rows[i].baseline
             overrides == job.overrides
             base == Projection(twin, pairs, overrides, job.ticks)
  <2>1. i \in DOMAIN rows /\ spec.type \in ScenarioTypes /\ TwoBranches(rows[i], spec)
    BY DEF ResultsInv, ResultInv, ScenarioRows, Told
  <2>2. i \in DOMAIN job.specs /\ job \in Jobs
    BY <2>1 DEF RunsInv, JobInv, PastTold
  <2>3. IsSpec(spec) /\ job.ticks \in Nat /\ OverridesOK(overrides)
    BY <2>2, SimulationAssumption, OverridesAreSound
  <2>4. PICK R, P, s, f : FreshTwin(twin, R, P, s, f)
    BY <2>1, LoadedTwinsAreFresh DEF TwoBranches
  <2>5. Lists(pairs) /\ ~Unknown(spec, twin)
    BY <2>1, PairsAreLists DEF TwoBranches
  <2>6. OverridesAfter(overrides, spec) = overrides
    BY DEF OverridesAfter, Neutral
  <2>7. rows[i].ends = <<base, ScenarioBranch(twin, pairs, overrides, spec, job.ticks)>>
    BY <2>1, <2>6 DEF TwoBranches, BaselineBranch
  <2>8. ScenarioBranch(twin, pairs, overrides, spec, job.ticks) = base
    <3>1. CASE spec.type = "promotion_event"
      <4>1. spec.discount = 0 /\ spec.retailer \notin DOMAIN overrides.sellers
        BY <3>1 DEF Neutral
      <4> HIDE DEF spec, pairs, overrides
      <4>2. QED
        BY <2>3, <2>4, <2>5, <3>1, <4>1, FreePromotions
    <3>2. CASE spec.type # "promotion_event"
      <4>1. Neutral(spec, twin)
        OBVIOUS
      <4> HIDE DEF spec, pairs, overrides
      <4>2. Setup(BuildWorld(twin, pairs, overrides), spec) = [world |-> BuildWorld(twin, pairs, overrides), undo |-> Nothing]
        BY <2>3, <2>4, <2>5, <3>2, <4>1, NeutralSetups
      <4>3. QED
        BY <4>2 DEF ScenarioBranch, Projection
    <3>3. QED
      BY <3>1, <3>2
  <2>9. PredictedAnomalies(base, base) = {}
    <3> HIDE DEF pairs, overrides
    <3>1. QED
      BY <2>3, <2>4, <2>5, ProjectionsPredictNothing
  <2> HIDE DEF base
  <2>10. QED
    BY <2>7, <2>8, <2>9
<1>2. QED
  BY <1>1, RunsAndResults, RowsAreOfSpecs, PTL
=================================================================================
