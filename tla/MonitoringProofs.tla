---------------------------- MODULE MonitoringProofs ----------------------------
(***************************************************************************)
(* Proofs about the state files of the monitoring pass, for any quarantine *)
(* files, snapshots and heartbeats, and for any number of passes, locked   *)
(* connections, crashes and torn files.                                    *)
(***************************************************************************)
EXTENDS Monitoring, AlertDispatch, TLAPS

-----------------------------------------------------------------------------
(* Types.                                                                   *)

WritersStep == \E f \in Files, same \in BOOLEAN : OpenFile(f, same) \/ FillFile(f, same)
RefreshStep ==
  \E s \in DOMAIN Snapshots, new \in SUBSET refreshed, same \in SUBSET refreshed : StartPass(s, new, same)

\* The parts of TypeOK that are moved by different steps.
WorldTyped ==
  /\ {version, stamp} \subseteq [Files -> Nat] /\ {refreshed, blurred} \subseteq SUBSET Files
  /\ snapshot \in DOMAIN Snapshots
RateTyped == beat \in Counts /\ sampled \in Counts /\ rate \in Counts /\ fresh \in Int
SeenTyped ==
  /\ {seen, known, current} \subseteq [Files -> Nat]
  /\ todo \subseteq Files /\ at \in Files \cup {Nothing}
  /\ drift \cup reports \cup lost \subseteq DriftRows
HealthTyped == {health, next} \subseteq [Retailers -> Scores]
BoundsTyped ==
  /\ passes \in 0..MaxPasses /\ busy \in 0..MaxBusy
  /\ crashes \in 0..MaxCrashes /\ torn \in 0..crashes
AtAStage == pc \in MetricStages \cup DriftStages \cup AnomalyStages \cup {"idle"}

\* The surroundings stay in their types.
LEMMA WorldStaysTyped == WorldTyped /\ [Next]_vars => WorldTyped'
<1> SUFFICES ASSUME WorldTyped, [Next]_vars PROVE WorldTyped'
  OBVIOUS
<1> USE DEF WorldTyped
<1>1. ASSUME NEW versions \in [Files -> Nat], NEW same, Change(versions, same), snapshot' \in DOMAIN Snapshots
      PROVE  WorldTyped'
  BY <1>1 DEF Change
<1>2. CASE WritersStep
  <2>1. PICK f \in Files, same \in BOOLEAN : OpenFile(f, same) \/ FillFile(f, same)
    BY <1>2 DEF WritersStep
  <2>2. [version EXCEPT ![f] = version[f] + 1] \in [Files -> Nat]
    OBVIOUS
  <2>3. Change([version EXCEPT ![f] = version[f] + 1], {g \in {f} : same}) /\ UNCHANGED snapshot
    BY <2>1 DEF OpenFile, FillFile
  <2>4. QED
    BY <1>1, <2>2, <2>3
<1>3. CASE RefreshStep
  <2>1. PICK s \in DOMAIN Snapshots, new \in SUBSET refreshed, same \in SUBSET refreshed : StartPass(s, new, same)
    BY <1>3 DEF RefreshStep
  <2> DEFINE versions == [f \in Files |-> IF f \in refreshed /\ (version[f] # 0 \/ f \in new)
                                          THEN Rewritten(version[f]) ELSE version[f]]
  <2>2. versions \in [Files -> Nat]
    BY DEF Rewritten
  <2>3. Change(versions, same) /\ snapshot' = s
    BY <2>1 DEF StartPass
  <2> HIDE DEF versions
  <2>4. QED
    BY <1>1, <2>2, <2>3
<1>4. CASE UNCHANGED <<quarantine, snapshot>>
  BY <1>4 DEF quarantine
<1>5. QED
  BY <1>2, <1>3, <1>4 DEF Next, PassStep, WritersStep, RefreshStep, OpenMetrics, SampleStream, RecordMetrics,
     MetricLineage, WriteSample, ThresholdAlerts, StartScan, ReadFile, EndScan, SaveSeen, WriteSeen, StatFile,
     RecordDrift, DriftLineage, DriftAlert, Detect, SaveHealth, WriteHealth, RecordAnomalies, AnomalyLineage,
     AnomalyAlerts, ConnectFails, Crash, Generate, world, vars

\* A rate is no more than the generator's counter.
LEMMA RateStaysTyped == RateTyped /\ [Next]_vars => RateTyped'
<1> SUFFICES ASSUME RateTyped, [Next]_vars PROVE RateTyped'
  OBVIOUS
<1> USE MonitoringAssumption, DetectorsAssumption DEF RateTyped, Counts, Events
<1>1. CASE SampleStream
  <2>1. beat # Nothing => RateSinceBaseline(beat) \in Counts
    BY DEF RateSinceBaseline
  <2>2. QED
    BY <1>1, <2>1 DEF SampleStream, world
<1>2. CASE WriteSample
  BY <1>2 DEF WriteSample, memory, world
<1>3. CASE RecordMetrics
  BY <1>3 DEF RecordMetrics, memory, saved
<1>4. ASSUME NEW n \in {0, 1}, NEW restarted \in BOOLEAN, Generate(n, restarted) PROVE RateTyped'
  BY <1>4 DEF Generate, memory, saved
<1>5. CASE UNCHANGED <<beat, sampled, fresh>> /\ rate' \in {rate, Nothing}
  BY <1>5
<1>6. QED
  BY <1>1, <1>2, <1>3, <1>4, <1>5 DEF Next, PassStep, OpenMetrics, MetricLineage,
     ThresholdAlerts, StartScan, ReadFile, EndScan, SaveSeen, WriteSeen, StatFile, RecordDrift, DriftLineage,
     DriftAlert, Detect, SaveHealth, WriteHealth, RecordAnomalies, AnomalyLineage, AnomalyAlerts,
     ConnectFails, Crash, OpenFile, FillFile, StartPass, Forgotten, world, saved, memory, vars

\* What the scan builds and saves are stamps of files, and rows about files.
LEMMA SeenStaysTyped == WorldTyped /\ BoundsTyped /\ SeenTyped /\ [Next]_vars => SeenTyped'
<1> SUFFICES ASSUME WorldTyped, BoundsTyped, SeenTyped, [Next]_vars PROVE SeenTyped'
  OBVIOUS
<1> USE DEF WorldTyped, SeenTyped, BoundsTyped
<1>a. NothingSeen \in [Files -> Nat]
  BY DEF NothingSeen
<1>1. CASE StartScan
  BY <1>a, <1>1 DEF StartScan, saved, tables
<1>2. ASSUME NEW f \in Files, StatFile(f) PROVE SeenTyped'
  BY <1>2 DEF StatFile, saved, tables
<1>3. CASE ReadFile
  <2>1. at \in Files /\ EventsOf(at) \in DriftRows
    BY <1>3, MonitoringAssumption DEF ReadFile, EventsOf, DriftRows
  <2>2. QED
    BY <1>3, <2>1 DEF ReadFile, saved, tables
<1>4. CASE SaveSeen \/ WriteSeen
  BY <1>a, <1>4 DEF SaveSeen, WriteSeen, memory, scanning, tables
<1>5. CASE RecordDrift
  <2>1. reports' = reports \cup drift /\ UNCHANGED <<seen, lost>> /\ (Forgotten \/ UNCHANGED memory)
    BY <1>5 DEF RecordDrift, saved
  <2>2. QED
    BY <1>a, <2>1 DEF Forgotten, memory, scanning
<1>6. CASE DriftAlert \/ RecordAnomalies \/ AnomalyAlerts \/ ConnectFails \/ Crash
  <2>1. /\ UNCHANGED <<seen, reports>> /\ lost' \in {lost, lost \cup drift}
        /\ Forgotten \/ UNCHANGED memory
    BY <1>6 DEF DriftAlert, RecordAnomalies, AnomalyAlerts, ConnectFails, Crash, saved, tables
  <2>2. QED
    BY <1>a, <2>1 DEF Forgotten, memory, scanning
<1>7. CASE UNCHANGED <<seen, known, current, todo, at, drift, lost, reports>>
  BY <1>7
<1>8. QED
  BY <1>1, <1>2, <1>3, <1>4, <1>5, <1>6, <1>7 DEF Next, PassStep, OpenMetrics, SampleStream, RecordMetrics,
     MetricLineage, WriteSample, ThresholdAlerts, EndScan, DriftLineage, Detect, SaveHealth, WriteHealth,
     AnomalyLineage, OpenFile, FillFile, StartPass, Generate, saved, memory, scanning, tables, vars

\* The baseline is a score, or the average of one and a baseline.
LEMMA HealthStaysTyped == WorldTyped /\ HealthTyped /\ [Next]_vars => HealthTyped'
<1> SUFFICES ASSUME WorldTyped, HealthTyped, [Next]_vars PROVE HealthTyped'
  OBVIOUS
<1> USE DEF HealthTyped
<1>a. NoBaseline \in [Retailers -> Scores]
  BY DEF NoBaseline, Scores
<1>1. ASSUME NEW raises \in BOOLEAN, Detect(raises) PROVE HealthTyped'
  <2>1. /\ health' = health
        /\ next' = [r \in Retailers |-> EwmaUpdate(health[r], Snapshots[snapshot].health[r])]
    BY <1>1 DEF Detect, saved
  <2>2. ASSUME NEW r \in Retailers PROVE EwmaUpdate(health[r], Snapshots[snapshot].health[r]) \in Int
    <3>1. Snapshots[snapshot].health[r] \in Int /\ health[r] \in Int \cup {Nothing}
      BY MonitoringAssumption DEF WorldTyped, Scores
    <3>2. QED
      BY <3>1 DEF EwmaUpdate
  <2>3. QED
    BY <2>1, <2>2 DEF Scores
<1>2. CASE SaveHealth \/ WriteHealth
  BY <1>a, <1>2 DEF SaveHealth, WriteHealth, memory
<1>3. CASE health' = health /\ next' \in {next, NoBaseline}
  BY <1>a, <1>3
<1>4. QED
  BY <1>1, <1>2, <1>3 DEF Next, PassStep, OpenMetrics, SampleStream, RecordMetrics, MetricLineage, WriteSample,
     ThresholdAlerts, StartScan, ReadFile, EndScan, SaveSeen, WriteSeen, StatFile, RecordDrift, DriftLineage,
     DriftAlert, RecordAnomalies, AnomalyLineage, AnomalyAlerts, ConnectFails, Crash, OpenFile, FillFile,
     StartPass, Generate, Forgotten, saved, memory, vars

\* No bound is passed, and every torn file is of a crash.
LEMMA BoundsStayTyped == BoundsTyped /\ [Next]_vars => BoundsTyped'
<1> SUFFICES ASSUME BoundsTyped, [Next]_vars PROVE BoundsTyped'
  OBVIOUS
<1> USE MonitoringAssumption DEF BoundsTyped
<1>1. CASE ConnectFails
  BY <1>1 DEF ConnectFails
<1>2. CASE Crash
  BY <1>2 DEF Crash
<1>3. CASE RefreshStep
  BY <1>3 DEF RefreshStep, StartPass
<1>4. CASE UNCHANGED bounds
  BY <1>4 DEF bounds
<1>5. QED
  BY <1>1, <1>2, <1>3, <1>4 DEF Next, PassStep, OpenMetrics, SampleStream, RecordMetrics, MetricLineage,
     WriteSample, ThresholdAlerts, StartScan, ReadFile, EndScan, SaveSeen, WriteSeen, StatFile, RecordDrift,
     DriftLineage, DriftAlert, Detect, SaveHealth, WriteHealth, RecordAnomalies, AnomalyLineage, AnomalyAlerts,
     OpenFile, FillFile, Generate, RefreshStep, vars

\* The pass is at one of its stages.
LEMMA StageStaysTyped == AtAStage /\ [Next]_vars => AtAStage'
<1> SUFFICES ASSUME AtAStage, [Next]_vars PROVE AtAStage'
  OBVIOUS
<1> USE DEF AtAStage, MetricStages, DriftStages, AnomalyStages
<1>1. CASE pc' = pc
  BY <1>1
<1>2. CASE OpenMetrics \/ SampleStream \/ RecordMetrics \/ MetricLineage \/ WriteSample \/ ThresholdAlerts
  BY <1>2 DEF OpenMetrics, SampleStream, RecordMetrics, MetricLineage, WriteSample, ThresholdAlerts
<1>3. CASE StartScan \/ EndScan \/ SaveSeen \/ WriteSeen \/ RecordDrift \/ DriftLineage \/ DriftAlert
  BY <1>3 DEF StartScan, EndScan, SaveSeen, WriteSeen, RecordDrift, DriftLineage, DriftAlert
<1>4. CASE \/ (\E raises \in BOOLEAN : Detect(raises)) \/ SaveHealth \/ WriteHealth
           \/ RecordAnomalies \/ AnomalyLineage \/ AnomalyAlerts
  BY <1>4 DEF Detect, SaveHealth, WriteHealth, RecordAnomalies, AnomalyLineage, AnomalyAlerts
<1>5. CASE ConnectFails \/ Crash \/ RefreshStep
  BY <1>5 DEF ConnectFails, Crash, RefreshStep, StartPass, NextStage
<1>6. CASE ReadFile \/ (\E f \in Files : StatFile(f)) \/ WritersStep \/ UNCHANGED vars
           \/ \E n \in {0, 1}, restarted \in BOOLEAN : Generate(n, restarted)
  BY <1>1, <1>6 DEF ReadFile, StatFile, WritersStep, OpenFile, FillFile, Generate, vars
<1>7. QED
  BY <1>2, <1>3, <1>4, <1>5, <1>6 DEF Next, PassStep, WritersStep, RefreshStep

\* Every variable of the pass stays in its type, whatever fails.
THEOREM MonitoringTyped == Spec => []TypeOK
<1> DEFINE Typed == WorldTyped /\ RateTyped /\ SeenTyped /\ HealthTyped /\ BoundsTyped /\ AtAStage
<1>1. Init => Typed
  <2> SUFFICES ASSUME Init PROVE Typed
    OBVIOUS
  <2>1. NothingSeen \in [Files -> Nat] /\ NoBaseline \in [Retailers -> Scores]
    BY DEF NothingSeen, NoBaseline, Scores
  <2>2. WorldTyped /\ SeenTyped /\ HealthTyped
    BY <2>1, MonitoringAssumption DEF Init, WorldTyped, SeenTyped, HealthTyped
  <2>3. RateTyped /\ BoundsTyped /\ AtAStage
    BY MonitoringAssumption DEF Init, RateTyped, BoundsTyped, AtAStage, Counts
  <2>4. QED
    BY <2>2, <2>3
<1>2. Typed /\ [Next]_vars => Typed'
  BY WorldStaysTyped, RateStaysTyped, SeenStaysTyped, HealthStaysTyped, BoundsStayTyped, StageStaysTyped
<1>3. Typed => TypeOK
  BY DEF TypeOK, WorldTyped, RateTyped, SeenTyped, HealthTyped, BoundsTyped, AtAStage
<1>4. QED
  BY <1>1, <1>2, <1>3, PTL DEF Spec

-----------------------------------------------------------------------------
(* Anomaly alerts.                                                          *)

\* Once the rows are written the pass only turns to what it has written.
FoundAreRows == pc \in {"anomalyLineage", "anomalyAlerts"} => found \subseteq rows

\* Alerts refer to rows of the table, whatever else the pass does and wherever it
\* stops: the rows come first, and both are cleared together.
THEOREM PagesHaveRows == Spec => []PagesReferToRows
<1> DEFINE Inv == PagesReferToRows /\ FoundAreRows
<1>1. Init => Inv
  BY DEF Init, PagesReferToRows, FoundAreRows
<1>2. Inv /\ [Next]_vars => Inv'
  <2> SUFFICES ASSUME Inv, [Next]_vars PROVE Inv'
    OBVIOUS
  <2> USE DEF PagesReferToRows, FoundAreRows
  <2>1. CASE RecordAnomalies
    BY <2>1 DEF RecordAnomalies, memory
  <2>2. CASE AnomalyLineage \/ AnomalyAlerts
    BY <2>2 DEF AnomalyLineage, AnomalyAlerts, tables, memory
  <2>3. CASE RefreshStep
    BY <2>3 DEF RefreshStep, StartPass
  <2>4. ASSUME UNCHANGED <<rows, pages>>, pc' \notin {"anomalyLineage", "anomalyAlerts"} PROVE Inv'
    BY <2>4
  <2>5. CASE UNCHANGED <<rows, pages, found, pc>>
    BY <2>5
  <2>6. CASE PassStep
    <3> USE DEF tables, memory, world, saved, scanning
    <3>1. CASE OpenMetrics \/ SampleStream \/ RecordMetrics \/ MetricLineage \/ WriteSample \/ ThresholdAlerts
      BY <2>4, <3>1 DEF OpenMetrics, SampleStream, RecordMetrics, MetricLineage, WriteSample, ThresholdAlerts
    <3>2. CASE StartScan \/ EndScan \/ SaveSeen \/ WriteSeen
      BY <2>4, <3>2 DEF StartScan, EndScan, SaveSeen, WriteSeen
    <3>3. CASE ReadFile \/ \E f \in Files : StatFile(f)
      BY <2>4, <3>3 DEF ReadFile, StatFile
    <3>4. CASE RecordDrift \/ DriftLineage \/ DriftAlert
      BY <2>4, <3>4 DEF RecordDrift, DriftLineage, DriftAlert
    <3>5. CASE (\E raises \in BOOLEAN : Detect(raises)) \/ SaveHealth \/ WriteHealth
      BY <2>4, <3>5 DEF Detect, SaveHealth, WriteHealth
    <3>6. QED
      BY <2>1, <2>2, <2>6, <3>1, <3>2, <3>3, <3>4, <3>5 DEF PassStep
  <2>7. CASE ConnectFails \/ Crash
    BY <2>4, <2>7 DEF ConnectFails, Crash, NextStage, MetricStages, DriftStages, tables
  <2>8. CASE WritersStep
    BY <2>5, <2>8 DEF WritersStep, OpenFile, FillFile, tables, memory
  <2>9. CASE \E n \in {0, 1}, restarted \in BOOLEAN : Generate(n, restarted)
    BY <2>5, <2>9 DEF Generate, tables, memory
  <2>10. CASE UNCHANGED vars
    BY <2>5, <2>10 DEF vars, tables, memory
  <2>11. QED
    BY <2>3, <2>6, <2>7, <2>8, <2>9, <2>10 DEF Next, WritersStep, RefreshStep
<1>3. QED
  BY <1>1, <1>2, PTL DEF Spec

-----------------------------------------------------------------------------
(* Event rates.                                                             *)

\* What the next sample of the stream would give, if there is a baseline for it.
Uncounted == RateSinceBaseline(beat)

CountsTyped == {beat, sampled, rate} \subseteq Nat \cup {Nothing} /\ fresh \in Int

\* The rate on its way to the table and the events since the last sample are both
\* covered by the events produced and not recorded.
RateIsFresh ==
  /\ fresh >= 0
  /\ pc \in {"writeSample", "recordMetrics"} /\ rate # Nothing => rate =< fresh
  /\ beat # Nothing /\ sampled # Nothing => Uncounted =< fresh

\* The sample in the file is the one the rate was taken at.
SampleIsTaken == pc = "recordMetrics" => sampled = beat

CountInv == CountsTyped /\ RateIsFresh /\ SampleIsTaken

\* A restart of the generator between two samples never adds to what is uncounted
\* more than the new process has produced.
LEMMA GenerateKeepsCounts ==
  ASSUME CountInv, NEW n \in {0, 1}, NEW restarted \in BOOLEAN, Generate(n, restarted)
  PROVE  CountInv'
<1>1. /\ pc = "idle" /\ pc' = "idle" /\ UNCHANGED <<sampled, rate>> /\ fresh' = fresh + n
      /\ beat' = IF restarted \/ beat = Nothing THEN n ELSE beat + n
  BY DEF Generate, saved, memory
<1>2. beat' = n \/ (beat # Nothing /\ beat' = beat + n)
  BY <1>1
<1>3. beat' \in Nat
  BY <1>2 DEF CountInv, CountsTyped
<1>4. sampled # Nothing => Uncounted' =< fresh + n
  BY <1>1, <1>2, <1>3 DEF CountInv, CountsTyped, RateIsFresh, Uncounted, RateSinceBaseline
<1>5. QED
  BY <1>1, <1>3, <1>4 DEF CountInv, CountsTyped, RateIsFresh, SampleIsTaken

\* A sample takes the uncounted events, and the rate recorded is not counted again,
\* whether or not the sample or the rate reaches its place.
LEMMA SamplingKeepsCounts ==
  ASSUME CountInv, SampleStream \/ WriteSample \/ RecordMetrics
  PROVE  CountInv'
<1> USE DEF CountInv, CountsTyped, RateIsFresh, SampleIsTaken
<1>0. Nothing \notin Nat
  BY DetectorsAssumption
<1>1. CASE SampleStream
  <2>1. /\ pc' = "writeSample" /\ sampled' = Nothing /\ UNCHANGED <<beat, fresh>>
        /\ rate' = IF beat = Nothing THEN Nothing ELSE Uncounted
    BY <1>1 DEF SampleStream, world, Uncounted
  <2>2. rate' = Nothing \/ (rate' \in Nat /\ rate' =< fresh)
    <3>1. CASE beat = Nothing \/ sampled = Nothing
      BY <2>1, <3>1 DEF Uncounted, RateSinceBaseline
    <3>2. CASE beat # Nothing /\ sampled # Nothing
      BY <2>1, <3>2 DEF Uncounted, RateSinceBaseline
    <3>3. QED
      BY <3>1, <3>2
  <2>3. QED
    BY <2>1, <2>2
<1>2. CASE WriteSample
  <2>1. pc = "writeSample" /\ pc' = "recordMetrics" /\ sampled' = beat /\ UNCHANGED <<beat, fresh, rate>>
    BY <1>2 DEF WriteSample, world, memory
  <2>2. beat # Nothing => Uncounted' = 0
    BY <2>1 DEF Uncounted, RateSinceBaseline
  <2>3. QED
    BY <2>1, <2>2
<1>3. CASE RecordMetrics
  <2>1. /\ pc = "recordMetrics" /\ pc' = "metricLineage" /\ UNCHANGED <<beat, sampled, rate>>
        /\ fresh' = IF rate = Nothing THEN fresh ELSE fresh - rate
    BY <1>3 DEF RecordMetrics, saved, memory
  <2>2. beat # Nothing => Uncounted' = 0
    BY <2>1 DEF Uncounted, RateSinceBaseline
  <2>3. fresh' \in Int /\ fresh' >= 0
    BY <2>1
  <2>4. QED
    BY <2>1, <2>2, <2>3
<1>4. QED
  BY <1>1, <1>2, <1>3

\* No other step moves an event, a sample or a rate, but that a rate is forgotten.
LEMMA OthersLeaveCounts ==
  ASSUME [Next]_vars
  PROVE  \/ \E n \in {0, 1}, restarted \in BOOLEAN : Generate(n, restarted)
         \/ SampleStream \/ WriteSample \/ RecordMetrics
         \/ /\ UNCHANGED <<beat, fresh, sampled>> /\ rate' \in {rate, Nothing}
            /\ pc' \notin {"writeSample", "recordMetrics"} \/ UNCHANGED <<pc, rate>>
<1> USE DEF world, saved, memory, scanning, Forgotten
<1>1. CASE OpenMetrics \/ MetricLineage \/ ThresholdAlerts
  BY <1>1 DEF OpenMetrics, MetricLineage, ThresholdAlerts
<1>2. CASE StartScan \/ EndScan \/ SaveSeen \/ WriteSeen \/ ReadFile \/ \E f \in Files : StatFile(f)
  BY <1>2 DEF StartScan, EndScan, SaveSeen, WriteSeen, ReadFile, StatFile
<1>3. CASE RecordDrift \/ DriftLineage \/ DriftAlert
  BY <1>3 DEF RecordDrift, DriftLineage, DriftAlert
<1>4. CASE (\E raises \in BOOLEAN : Detect(raises)) \/ SaveHealth \/ WriteHealth
  BY <1>4 DEF Detect, SaveHealth, WriteHealth
<1>5. CASE RecordAnomalies \/ AnomalyLineage \/ AnomalyAlerts
  BY <1>5 DEF RecordAnomalies, AnomalyLineage, AnomalyAlerts
<1>6. CASE ConnectFails \/ Crash
  BY <1>6 DEF ConnectFails, Crash, NextStage
<1>7. CASE WritersStep \/ RefreshStep
  BY <1>7 DEF WritersStep, RefreshStep, OpenFile, FillFile, StartPass
<1>8. CASE UNCHANGED vars
  BY <1>8 DEF vars
<1>9. QED
  BY <1>1, <1>2, <1>3, <1>4, <1>5, <1>6, <1>7, <1>8 DEF Next, PassStep, WritersStep, RefreshStep

\* No event is counted twice in the recorded rates, for any number of generator
\* restarts, lost samples, lost rates and crashes.
THEOREM RatesAddUp == Spec => []NoEventCountedTwice
<1>1. Init => CountInv
  <2> SUFFICES ASSUME Init PROVE CountInv
    OBVIOUS
  <2>1. beat \in Nat \cup {Nothing} /\ sampled = beat /\ rate = Nothing /\ fresh = 0 /\ pc = "idle"
    BY MonitoringAssumption DEF Init, Counts, Events
  <2>2. beat # Nothing => Uncounted = 0
    BY <2>1 DEF Uncounted, RateSinceBaseline
  <2>3. QED
    BY <2>1, <2>2 DEF CountInv, CountsTyped, RateIsFresh, SampleIsTaken
<1>2. CountInv /\ [Next]_vars => CountInv'
  <2> SUFFICES ASSUME CountInv, [Next]_vars PROVE CountInv'
    OBVIOUS
  <2>1. ASSUME UNCHANGED <<beat, fresh, sampled>>, rate' \in {rate, Nothing},
               pc' \notin {"writeSample", "recordMetrics"} \/ UNCHANGED <<pc, rate>>
        PROVE  CountInv'
    BY <2>1 DEF CountInv, CountsTyped, RateIsFresh, SampleIsTaken, Uncounted, RateSinceBaseline
  <2>2. QED
    BY <2>1, OthersLeaveCounts, GenerateKeepsCounts, SamplingKeepsCounts
<1>3. CountInv => NoEventCountedTwice
  BY DEF CountInv, RateIsFresh, NoEventCountedTwice
<1>4. QED
  BY <1>1, <1>2, <1>3, PTL DEF Spec

-----------------------------------------------------------------------------
(* Quarantine files and their drift events.                                 *)

ScanTyped ==
  /\ {version, stamp, seen, known, current} \subseteq [Files -> Nat] /\ blurred \subseteq Files
  /\ todo \subseteq Files /\ at \in Files \cup {Nothing}
  /\ drift \cup reports \cup lost \subseteq DriftRows /\ torn \in Nat /\ passes \in Nat

Scanning == pc \in {"scan", "saveSeen", "writeSeen"}

\* The scan is at one file at a time, and over once the seen state is saved.
ScanIsInOrder ==
  /\ pc # "scan" => at = Nothing
  /\ Scanning \/ pc \in {"recordDrift", "driftLineage", "driftAlert"} \/ drift = {}
  /\ pc \in {"saveSeen", "writeSeen"} => todo = {}

\* Stamps only rise: those that were taken are behind the file's, which is behind its
\* version, and a file that exists has one.
StampsAreBehind ==
  /\ \A f \in Files :
       /\ seen[f] =< stamp[f] /\ known[f] =< stamp[f] /\ current[f] =< stamp[f]
       /\ stamp[f] =< version[f] /\ (stamp[f] = 0 => version[f] = 0)
  /\ \A r \in drift \cup reports : r.under =< stamp[r.file] /\ r.under > 0

\* A scan that has not come to a file has nothing of it; then it has one row at most,
\* under the stamp it has taken.
RowsAreOfThisScan ==
  /\ Scanning => \A f \in Files :
       /\ f \in todo => current[f] = 0 /\ stamp[f] > 0 /\ at # f /\ \A r \in drift : r.file # f
       /\ at = f => current[f] > 0 /\ \A r \in drift : r.file # f
  /\ Scanning => \A r \in drift : r.under = current[r.file]
  /\ pc = "recordDrift" => \A r \in drift : r.under = seen[r.file]
  /\ \A x, y \in drift : x.file = y.file => x = y

\* A complete version that is not blurred, as the invariant tells of it.
Plain(f) == Complete(version[f]) /\ f \notin blurred
OfVersion(f, rs) == \E r \in rs : r.file = f /\ r.version = version[f]

\* What a scan has the present stamp of it has read, or an earlier scan had.
ScannedAreReported ==
  Scanning => \A f \in Files : Plain(f) =>
    /\ known[f] = stamp[f] => OfVersion(f, reports \cup lost)
    /\ current[f] = stamp[f] => at = f \/ OfVersion(f, reports \cup lost \cup drift)

\* As long as no state file was torn, a row's stamp is not ahead of the state file, or
\* of what the scan is about to write there.
ReportsAreSeen ==
  torn = 0 => \A r \in reports :
    /\ pc # "writeSeen" => r.under =< seen[r.file]
    /\ Scanning => /\ r.under =< known[r.file]
                   /\ r.file \in todo \/ r.under =< current[r.file]

\* A scan reads a reported file again only under another stamp.
RepeatsAreUnderNewStamps ==
  (Scanning \/ pc = "recordDrift") /\ torn = 0 => \A x \in reports :
    /\ at = x.file => x.under # current[x.file]
    /\ \A y \in drift : x.file = y.file => x.under # y.under

DriftInv ==
  /\ ScanTyped /\ ScanIsInOrder /\ StampsAreBehind /\ RowsAreOfThisScan
  /\ SeenFilesAreReported /\ ScannedAreReported
  /\ ReportsAreSeen /\ RepeatsAreUnderNewStamps /\ RepeatsNeedALostStamp

\* How files go on: to later versions, each with a new stamp or in the tick of the last.
FilesGoOn ==
  /\ {version', stamp'} \subseteq [Files -> Nat] /\ blurred' \subseteq Files
  /\ \A f \in Files :
       \/ /\ version'[f] = version[f] /\ stamp'[f] = stamp[f]
          /\ f \in blurred => f \in blurred'
       \/ /\ version'[f] > version[f] /\ stamp'[f] = version'[f]
       \/ /\ version'[f] > version[f] /\ stamp'[f] = stamp[f] /\ stamp[f] > 0
          /\ stamp[f] \in Taken(f) => f \in blurred'

\* Every write of files is such a step.
LEMMA ChangeGoesOn ==
  ASSUME ScanTyped, NEW versions \in [Files -> Nat], NEW same, Change(versions, same),
         \A f \in Files : versions[f] # version[f] => versions[f] > version[f] /\ (f \in same => stamp[f] > 0)
  PROVE  FilesGoOn
<1>1. /\ version' = versions
      /\ stamp' = [f \in Files |-> IF versions[f] = version[f] \/ f \in same THEN stamp[f] ELSE versions[f]]
  BY DEF Change
<1>2. \A f \in Files : stamp'[f] = stamp[f] => (f \in blurred' <=>
           f \in blurred \/ (versions[f] # version[f] /\ stamp[f] \in Taken(f)))
  BY DEF Change
<1>3. {version', stamp'} \subseteq [Files -> Nat] /\ blurred' \subseteq Files
  BY <1>1 DEF Change, ScanTyped
<1>4. ASSUME NEW f \in Files
      PROVE  \/ version'[f] = version[f] /\ stamp'[f] = stamp[f] /\ (f \in blurred => f \in blurred')
             \/ version'[f] > version[f] /\ stamp'[f] = version'[f]
             \/ /\ version'[f] > version[f] /\ stamp'[f] = stamp[f] /\ stamp[f] > 0
                /\ stamp[f] \in Taken(f) => f \in blurred'
  <2>1. CASE versions[f] = version[f]
    BY <1>1, <1>2, <2>1
  <2>2. CASE versions[f] # version[f] /\ f \in same
    BY <1>1, <1>2, <2>2
  <2>3. CASE versions[f] # version[f] /\ f \notin same
    BY <1>1, <2>3
  <2>4. QED
    BY <2>1, <2>2, <2>3
<1>5. QED
  BY <1>3, <1>4 DEF FilesGoOn

\* The other processes take a file on to its next version.
LEMMA WritersGoOn ==
  ASSUME DriftInv, WritersStep
  PROVE  FilesGoOn /\ UNCHANGED <<seen, known, current, todo, at, drift, lost, reports, torn, passes, pc>>
<1>1. PICK f \in Files, same \in BOOLEAN : OpenFile(f, same) \/ FillFile(f, same)
  BY DEF WritersStep
<1> DEFINE versions == [version EXCEPT ![f] = version[f] + 1]
<1>2. versions \in [Files -> Nat] /\ \A g \in Files : versions[g] # version[g] => g = f /\ versions[g] > version[g]
  BY DEF DriftInv, ScanTyped
<1>3. Change(versions, {g \in {f} : same})
  BY <1>1 DEF OpenFile, FillFile
<1>4. same => stamp[f] > 0
  <2>1. version[f] \in Nat /\ stamp[f] \in Nat /\ (stamp[f] = 0 => version[f] = 0)
    BY DEF DriftInv, ScanTyped, StampsAreBehind
  <2>2. CASE OpenFile(f, same)
    BY <2>1, <2>2 DEF OpenFile
  <2>3. CASE FillFile(f, same)
    <3>1. version[f] % 2 = 1
      BY <2>3 DEF FillFile
    <3>2. version[f] # 0
      BY <3>1
    <3>3. QED
      BY <2>1, <3>2
  <2>4. QED
    BY <1>1, <2>2, <2>3
<1>5. UNCHANGED <<seen, known, current, todo, at, drift, lost, reports, torn, passes, pc>>
  BY <1>1 DEF OpenFile, FillFile, saved, memory, scanning, tables, bounds
<1> HIDE DEF versions
<1>6. FilesGoOn
  BY <1>2, <1>3, <1>4, ChangeGoesOn DEF DriftInv
<1>7. QED
  BY <1>5, <1>6

\* A refresh takes the batch and event files on to their next complete version.
LEMMA RefreshGoesOn ==
  ASSUME DriftInv, RefreshStep
  PROVE  /\ FilesGoOn /\ UNCHANGED <<seen, known, current, todo, at, drift, lost, reports, torn>>
         /\ pc = "idle" /\ pc' = "metrics" /\ passes' \in Nat
<1>1. PICK s \in DOMAIN Snapshots, new \in SUBSET refreshed, same \in SUBSET refreshed : StartPass(s, new, same)
  BY DEF RefreshStep
<1> DEFINE versions == [f \in Files |-> IF f \in refreshed /\ (version[f] # 0 \/ f \in new)
                                        THEN Rewritten(version[f]) ELSE version[f]]
<1>2. versions \in [Files -> Nat] /\ \A f \in Files : versions[f] # version[f] => versions[f] > version[f]
  BY DEF Rewritten, DriftInv, ScanTyped
<1>3. Change(versions, same) /\ \A f \in same : stamp[f] # 0
  BY <1>1 DEF StartPass
<1>4. UNCHANGED <<seen, known, current, todo, at, drift, lost, reports, torn>>
  BY <1>1 DEF StartPass, saved, memory, scanning
<1>5. pc = "idle" /\ pc' = "metrics" /\ passes' = passes + 1
  BY <1>1 DEF StartPass
<1> HIDE DEF versions
<1>6. \A f \in Files : f \in same => stamp[f] > 0
  BY <1>3 DEF DriftInv, ScanTyped
<1>7. FilesGoOn
  BY <1>2, <1>3, <1>6, ChangeGoesOn DEF DriftInv
<1>8. QED
  BY <1>4, <1>5, <1>7 DEF DriftInv, ScanTyped

\* A write leaves every stamp that was taken behind, or has the file blurred.
LEMMA FilesKeepDriftInv ==
  ASSUME DriftInv, FilesGoOn, UNCHANGED <<seen, known, current, todo, at, drift, lost, reports, torn>>,
         passes' \in Nat, pc' = pc \/ (pc = "idle" /\ pc' = "metrics")
  PROVE  DriftInv'
<1>0. ASSUME NEW f \in Files
      PROVE  /\ {version[f], version'[f], stamp[f], stamp'[f], seen[f], known[f], current[f]} \subseteq Nat
             /\ seen[f] =< stamp[f] /\ known[f] =< stamp[f] /\ current[f] =< stamp[f]
             /\ stamp[f] =< version[f] /\ (stamp[f] = 0 => version[f] = 0)
             /\ stamp'[f] >= stamp[f] /\ version'[f] >= version[f]
  <2>1. /\ {version[f], version'[f], stamp[f], stamp'[f], seen[f], known[f], current[f]} \subseteq Nat
        /\ seen[f] =< stamp[f] /\ known[f] =< stamp[f] /\ current[f] =< stamp[f]
        /\ stamp[f] =< version[f] /\ (stamp[f] = 0 => version[f] = 0)
    BY DEF DriftInv, ScanTyped, StampsAreBehind, FilesGoOn
  <2>2. \/ version'[f] = version[f] /\ stamp'[f] = stamp[f]
        \/ version'[f] > version[f] /\ stamp'[f] = version'[f]
        \/ version'[f] > version[f] /\ stamp'[f] = stamp[f]
    BY DEF FilesGoOn
  <2>3. QED
    BY <2>1, <2>2
\* A stamp that is the file's own after the write was so before, of the same version.
<1>1. ASSUME NEW f \in Files, Plain(f)', NEW taken \in Taken(f), taken = stamp'[f]
      PROVE  Plain(f) /\ taken = stamp[f] /\ version'[f] = version[f]
  <2>1. taken \in Nat /\ taken =< stamp[f]
    BY <1>0 DEF Taken
  <2>2. f \notin blurred'
    BY <1>1 DEF Plain
  <2>3. ~(version'[f] > version[f] /\ stamp'[f] = version'[f])
    BY <1>0, <1>1, <2>1
  <2>4. ~(version'[f] > version[f] /\ stamp'[f] = stamp[f] /\ (stamp[f] \in Taken(f) => f \in blurred'))
    BY <1>1, <2>2
  <2>5. version'[f] = version[f] /\ stamp'[f] = stamp[f] /\ (f \in blurred => f \in blurred')
    BY <2>3, <2>4 DEF FilesGoOn
  <2>6. Complete(version[f])
    BY <1>1, <2>5 DEF Plain, Complete
  <2>7. QED
    BY <1>1, <2>2, <2>5, <2>6 DEF Plain
<1>2. ScanTyped' /\ ScanIsInOrder'
  BY DEF DriftInv, ScanTyped, ScanIsInOrder, Scanning, FilesGoOn
<1>3. StampsAreBehind'
  <2>1. ASSUME NEW f \in Files
        PROVE  /\ seen'[f] =< stamp'[f] /\ known'[f] =< stamp'[f] /\ current'[f] =< stamp'[f]
               /\ stamp'[f] =< version'[f] /\ (stamp'[f] = 0 => version'[f] = 0)
    <3>1. \/ version'[f] = version[f] /\ stamp'[f] = stamp[f]
          \/ version'[f] > version[f] /\ stamp'[f] = version'[f]
          \/ version'[f] > version[f] /\ stamp'[f] = stamp[f] /\ stamp[f] > 0
      BY DEF FilesGoOn
    <3>2. QED
      BY <1>0, <3>1
  <2>2. ASSUME NEW r \in drift' \cup reports' PROVE r.under =< stamp'[r.file] /\ r.under > 0
    <3>1. r.file \in Files /\ r.under \in Nat /\ r.under =< stamp[r.file] /\ r.under > 0
      BY DEF DriftInv, ScanTyped, StampsAreBehind, DriftRows
    <3>2. QED
      BY <1>0, <3>1
  <2>3. QED
    BY <2>1, <2>2 DEF StampsAreBehind
<1>4. RowsAreOfThisScan'
  <2>1. Scanning' => Scanning
    BY DEF Scanning
  <2>2. ASSUME NEW f \in Files, stamp[f] > 0 PROVE stamp'[f] > 0
    BY <1>0, <2>2
  <2>3. QED
    BY <2>1, <2>2 DEF DriftInv, RowsAreOfThisScan
<1>5. SeenFilesAreReported'
  <2> SUFFICES ASSUME NEW f \in Files, seen'[f] = stamp'[f], Plain(f)' PROVE ToldOf(f)'
    BY DEF SeenFilesAreReported, Plain
  <2>1. Plain(f) /\ seen[f] = stamp[f] /\ version'[f] = version[f]
    BY <1>1 DEF Taken
  <2>2. ToldOf(f)
    BY <2>1 DEF DriftInv, SeenFilesAreReported, Plain
  <2>3. pc' = "recordDrift" <=> pc = "recordDrift"
    OBVIOUS
  <2>4. QED
    BY <2>1, <2>2, <2>3 DEF ToldOf
<1>6. ScannedAreReported'
  <2> SUFFICES ASSUME Scanning', NEW f \in Files, Plain(f)'
               PROVE  /\ known'[f] = stamp'[f] => OfVersion(f, reports \cup lost)'
                      /\ current'[f] = stamp'[f] => at' = f \/ OfVersion(f, reports \cup lost \cup drift)'
    BY DEF ScannedAreReported
  <2>1. Scanning
    BY DEF Scanning
  <2>2. CASE known'[f] = stamp'[f]
    <3>1. Plain(f) /\ known[f] = stamp[f] /\ version'[f] = version[f]
      BY <1>1, <2>2 DEF Taken
    <3>2. QED
      BY <2>1, <3>1 DEF DriftInv, ScannedAreReported, OfVersion
  <2>3. CASE current'[f] = stamp'[f]
    <3>1. Plain(f) /\ current[f] = stamp[f] /\ version'[f] = version[f]
      BY <1>1, <2>3 DEF Taken
    <3>2. at = f \/ OfVersion(f, reports \cup lost \cup drift)
      BY <2>1, <3>1 DEF DriftInv, ScannedAreReported
    <3>3. at = f \/ OfVersion(f, reports \cup lost \cup drift)'
      BY <3>1, <3>2 DEF OfVersion
    <3>4. CASE known[f] = stamp[f]
      <4>1. OfVersion(f, reports \cup lost)
        BY <2>1, <3>1, <3>4 DEF DriftInv, ScannedAreReported
      <4>2. QED
        BY <3>1, <3>3, <4>1 DEF OfVersion
    <3>5. CASE known[f] # stamp[f]
      <4>1. known'[f] # stamp'[f]
        BY <2>3, <3>1, <3>5
      <4>2. QED
        BY <3>3, <4>1
    <3>6. QED
      BY <3>4, <3>5
  <2>4. QED
    BY <2>2, <2>3
<1>7. (ReportsAreSeen /\ RepeatsAreUnderNewStamps /\ RepeatsNeedALostStamp)'
  BY DEF DriftInv, ReportsAreSeen, RepeatsAreUnderNewStamps, RepeatsNeedALostStamp, Scanning
<1>8. QED
  BY <1>2, <1>3, <1>4, <1>5, <1>6, <1>7 DEF DriftInv

\* A scan starts from what was saved, and lists every file that is there.
LEMMA StartScanKeepsDriftInv ==
  ASSUME DriftInv, StartScan
  PROVE  DriftInv'
<1>1. /\ pc = "drift" /\ pc' = "scan" /\ known' = seen /\ current' = NothingSeen
      /\ todo' = {f \in Files : version[f] # 0} /\ drift = {} /\ at = Nothing
      /\ UNCHANGED <<version, stamp, blurred, seen, at, drift, lost, reports, torn, passes>>
  BY DEF StartScan, world, quarantine, saved, tables, bounds, DriftInv, ScanIsInOrder, Scanning
<1>2. \A f \in Files : current'[f] = 0 /\ at' # f
  BY <1>1, MonitoringAssumption DEF NothingSeen
<1>3. ScanTyped' /\ ScanIsInOrder'
  BY <1>1 DEF DriftInv, ScanTyped, ScanIsInOrder, Scanning, NothingSeen
<1>4. StampsAreBehind'
  BY <1>1, <1>2 DEF DriftInv, ScanTyped, StampsAreBehind
<1>5. RowsAreOfThisScan'
  <2>1. \A f \in todo' : stamp'[f] > 0
    BY <1>1 DEF DriftInv, ScanTyped, StampsAreBehind
  <2>2. QED
    BY <1>1, <1>2, <2>1 DEF RowsAreOfThisScan
<1>6. SeenFilesAreReported'
  BY <1>1 DEF DriftInv, SeenFilesAreReported, ToldOf
<1>7. ScannedAreReported'
  <2> SUFFICES ASSUME NEW f \in Files, Plain(f)'
               PROVE  /\ known'[f] = stamp'[f] => OfVersion(f, reports \cup lost)'
                      /\ current'[f] # stamp'[f]
    BY DEF ScannedAreReported
  <2>1. Plain(f) /\ stamp'[f] = stamp[f] /\ known'[f] = seen[f]
    BY <1>1 DEF Plain, Complete
  <2>2. version[f] # 0
    BY <2>1 DEF Plain, Complete
  <2>3. current'[f] # stamp'[f]
    BY <1>2, <2>1, <2>2 DEF DriftInv, StampsAreBehind
  <2>4. ASSUME seen[f] = stamp[f] PROVE OfVersion(f, reports \cup lost)'
    <3>1. ToldOf(f)
      BY <2>1, <2>4 DEF DriftInv, SeenFilesAreReported, Plain
    <3>2. QED
      BY <1>1, <3>1 DEF ToldOf, OfVersion
  <2>5. QED
    BY <2>1, <2>3, <2>4
<1>8. ReportsAreSeen'
  <2> SUFFICES ASSUME torn' = 0, NEW r \in reports'
               PROVE  r.under =< seen'[r.file] /\ r.under =< known'[r.file] /\ r.file \in todo'
    BY DEF ReportsAreSeen
  <2>1. r.under =< seen[r.file]
    BY <1>1 DEF DriftInv, ReportsAreSeen
  <2>2. r.file \in Files /\ r.under \in Nat /\ r.under > 0 /\ r.under =< stamp[r.file]
    BY <1>1 DEF DriftInv, ScanTyped, StampsAreBehind, DriftRows
  <2>3. version[r.file] # 0
    BY <2>2 DEF DriftInv, ScanTyped, StampsAreBehind
  <2>4. QED
    BY <1>1, <2>1, <2>2, <2>3
<1>9. RepeatsAreUnderNewStamps'
  <2>1. \A r \in reports' : r.file \in Files
    BY <1>1 DEF DriftInv, ScanTyped, DriftRows
  <2>2. QED
    BY <1>1, <1>2, <2>1 DEF RepeatsAreUnderNewStamps
<1>10. RepeatsNeedALostStamp'
  BY <1>1 DEF DriftInv, RepeatsNeedALostStamp
<1>11. QED
  BY <1>3, <1>4, <1>5, <1>6, <1>7, <1>8, <1>9, <1>10 DEF DriftInv

\* A file whose stamp is the saved one is passed over; another is read next.
LEMMA StatFileKeepsDriftInv ==
  ASSUME DriftInv, NEW g \in Files, StatFile(g)
  PROVE  DriftInv'
<1>1. /\ pc = "scan" /\ at = Nothing /\ g \in todo /\ todo' = todo \ {g}
      /\ current' = [current EXCEPT ![g] = stamp[g]]
      /\ at' = IF known[g] = stamp[g] THEN Nothing ELSE g
      /\ UNCHANGED <<version, stamp, blurred, seen, known, drift, lost, reports, torn, passes, pc>>
  BY DEF StatFile, world, quarantine, saved, tables, bounds
<1>2. current'[g] = stamp[g] /\ \A f \in Files \ {g} : current'[f] = current[f]
  BY <1>1 DEF DriftInv, ScanTyped
<1>3. Scanning /\ Scanning' /\ Nothing \notin Files
  BY <1>1, MonitoringAssumption DEF Scanning
<1>4. stamp[g] > 0 /\ \A r \in drift : r.file # g /\ r.file \in Files
  BY <1>1, <1>3 DEF DriftInv, ScanTyped, RowsAreOfThisScan, DriftRows
<1>5. ScanTyped' /\ ScanIsInOrder'
  BY <1>1 DEF DriftInv, ScanTyped, ScanIsInOrder, Scanning
<1>6. StampsAreBehind'
  <2>1. stamp[g] =< stamp[g]
    BY DEF DriftInv, ScanTyped
  <2>2. QED
    BY <1>1, <1>2, <2>1 DEF DriftInv, StampsAreBehind
<1>7. RowsAreOfThisScan'
  <2>1. \A f \in Files : /\ f \in todo' => current'[f] = 0 /\ stamp'[f] > 0 /\ at' # f /\ \A r \in drift' : r.file # f
                         /\ at' = f => current'[f] > 0 /\ \A r \in drift' : r.file # f
    BY <1>1, <1>2, <1>3, <1>4 DEF DriftInv, RowsAreOfThisScan
  <2>2. \A r \in drift' : r.under = current'[r.file]
    BY <1>1, <1>2, <1>3, <1>4 DEF DriftInv, RowsAreOfThisScan
  <2>3. QED
    BY <1>1, <2>1, <2>2 DEF DriftInv, RowsAreOfThisScan
<1>8. SeenFilesAreReported'
  BY <1>1 DEF DriftInv, SeenFilesAreReported, ToldOf
<1>9. ScannedAreReported'
  <2> SUFFICES ASSUME NEW f \in Files, Plain(f)'
               PROVE  /\ known'[f] = stamp'[f] => OfVersion(f, reports \cup lost)'
                      /\ current'[f] = stamp'[f] => at' = f \/ OfVersion(f, reports \cup lost \cup drift)'
    BY DEF ScannedAreReported
  <2>1. Plain(f) /\ version'[f] = version[f] /\ stamp'[f] = stamp[f] /\ known'[f] = known[f]
    BY <1>1 DEF Plain, Complete
  <2>2. /\ known[f] = stamp[f] => OfVersion(f, reports \cup lost)
        /\ current[f] = stamp[f] => at = f \/ OfVersion(f, reports \cup lost \cup drift)
    BY <1>3, <2>1 DEF DriftInv, ScannedAreReported
  <2>3. OfVersion(f, reports \cup lost) => OfVersion(f, reports \cup lost)' /\ OfVersion(f, reports \cup lost \cup drift)'
    BY <1>1 DEF OfVersion
  <2>4. OfVersion(f, reports \cup lost \cup drift) => OfVersion(f, reports \cup lost \cup drift)'
    BY <1>1 DEF OfVersion
  <2>5. CASE f = g
    BY <1>1, <2>1, <2>2, <2>3, <2>5
  <2>6. CASE f # g
    BY <1>1, <1>2, <1>3, <2>1, <2>2, <2>3, <2>4, <2>6
  <2>7. QED
    BY <2>5, <2>6
<1>10. ReportsAreSeen' /\ RepeatsAreUnderNewStamps'
  <2> SUFFICES ASSUME torn' = 0, NEW x \in reports'
               PROVE  /\ x.under =< seen'[x.file] /\ x.under =< known'[x.file]
                      /\ x.file \in todo' \/ x.under =< current'[x.file]
                      /\ at' = x.file => x.under # current'[x.file]
                      /\ \A y \in drift' : x.file = y.file => x.under # y.under
    BY DEF ReportsAreSeen, RepeatsAreUnderNewStamps
  <2>1. /\ x.under =< seen[x.file] /\ x.under =< known[x.file]
        /\ x.file \in todo \/ x.under =< current[x.file]
        /\ \A y \in drift : x.file = y.file => x.under # y.under
    BY <1>1, <1>3 DEF DriftInv, ReportsAreSeen, RepeatsAreUnderNewStamps
  <2>2. x.file \in Files /\ x.under \in Nat /\ x.under =< stamp[x.file]
        /\ known[x.file] \in Nat /\ stamp[x.file] \in Nat /\ known[x.file] =< stamp[x.file]
    BY <1>1 DEF DriftInv, ScanTyped, StampsAreBehind, DriftRows
  <2>3. x.file \in todo' \/ x.under =< current'[x.file]
    BY <1>1, <1>2, <2>1, <2>2
  <2>4. ASSUME at' = x.file PROVE x.under # current'[x.file]
    <3>1. x.file = g /\ known[g] # stamp[g]
      BY <1>1, <1>3, <2>2, <2>4
    <3>2. QED
      BY <1>2, <2>1, <2>2, <3>1
  <2>5. QED
    BY <1>1, <2>1, <2>3, <2>4
<1>11. RepeatsNeedALostStamp'
  BY <1>1 DEF DriftInv, RepeatsNeedALostStamp
<1>12. QED
  BY <1>5, <1>6, <1>7, <1>8, <1>9, <1>10, <1>11 DEF DriftInv

\* A complete file that is read has its drift events found, under the stamp it had
\* when it was stat'ed.
LEMMA ReadFileKeepsDriftInv ==
  ASSUME DriftInv, ReadFile
  PROVE  DriftInv'
<1>1. /\ pc = "scan" /\ at \in Files /\ at' = Nothing
      /\ drift' = IF Complete(version[at]) THEN drift \cup {EventsOf(at)} ELSE drift
      /\ UNCHANGED <<version, stamp, blurred, seen, known, current, todo, lost, reports, torn, passes, pc>>
  BY DEF ReadFile, world, quarantine, saved, tables, bounds, DriftInv, ScanTyped
<1>2. Scanning /\ Scanning' /\ Nothing \notin Files
  BY <1>1, MonitoringAssumption DEF Scanning
<1> DEFINE e == EventsOf(at)
<1>3. /\ e \in DriftRows /\ e.file = at /\ e.version = version[at] /\ e.under = current[at]
  BY <1>1 DEF EventsOf, DriftRows, DriftInv, ScanTyped
<1>4. current[at] > 0 /\ current[at] =< stamp[at] /\ at \notin todo /\ \A r \in drift : r.file # at
  BY <1>1, <1>2 DEF DriftInv, RowsAreOfThisScan, StampsAreBehind
<1> HIDE DEF e
<1>a. drift' = IF Complete(version[at]) THEN drift \cup {e} ELSE drift
  BY <1>1 DEF e
<1>5. ScanTyped' /\ ScanIsInOrder'
  BY <1>1, <1>a, <1>3 DEF DriftInv, ScanTyped, ScanIsInOrder, Scanning
<1>6. StampsAreBehind'
  <2>1. \A r \in drift' \cup reports' : r = e \/ r \in drift \cup reports
    BY <1>1, <1>a
  <2>2. QED
    BY <1>1, <1>3, <1>4, <2>1 DEF DriftInv, StampsAreBehind
<1>7. RowsAreOfThisScan'
  <2>1. \A r \in drift' : r = e \/ r \in drift
    BY <1>a
  <2>2. \A f \in Files : /\ f \in todo' => current'[f] = 0 /\ stamp'[f] > 0 /\ at' # f /\ \A r \in drift' : r.file # f
                         /\ at' # f
    BY <1>1, <1>2, <1>3, <1>4, <2>1 DEF DriftInv, RowsAreOfThisScan
  <2>3. \A r \in drift' : r.under = current'[r.file]
    BY <1>1, <1>2, <1>3, <2>1 DEF DriftInv, RowsAreOfThisScan
  <2>4. \A x, y \in drift' : x.file = y.file => x = y
    BY <1>3, <1>4, <2>1 DEF DriftInv, RowsAreOfThisScan
  <2>5. QED
    BY <1>1, <2>2, <2>3, <2>4 DEF RowsAreOfThisScan
<1>8. SeenFilesAreReported'
  BY <1>1 DEF DriftInv, SeenFilesAreReported, ToldOf
<1>9. ScannedAreReported'
  <2> SUFFICES ASSUME NEW f \in Files, Plain(f)'
               PROVE  /\ known'[f] = stamp'[f] => OfVersion(f, reports \cup lost)'
                      /\ current'[f] = stamp'[f] => OfVersion(f, reports \cup lost \cup drift)'
    BY DEF ScannedAreReported
  <2>1. Plain(f) /\ version'[f] = version[f] /\ stamp'[f] = stamp[f] /\ known'[f] = known[f] /\ current'[f] = current[f]
    BY <1>1 DEF Plain, Complete
  <2>2. /\ known[f] = stamp[f] => OfVersion(f, reports \cup lost)
        /\ current[f] = stamp[f] => at = f \/ OfVersion(f, reports \cup lost \cup drift)
    BY <1>2, <2>1 DEF DriftInv, ScannedAreReported
  <2>3. OfVersion(f, reports \cup lost) => OfVersion(f, reports \cup lost)'
    BY <1>1 DEF OfVersion
  <2>4. OfVersion(f, reports \cup lost \cup drift) => OfVersion(f, reports \cup lost \cup drift)'
    BY <1>1, <1>a DEF OfVersion
  <2>5. ASSUME at = f PROVE OfVersion(f, reports \cup lost \cup drift)'
    <3>1. e \in drift'
      BY <1>a, <2>1, <2>5 DEF Plain
    <3>2. QED
      BY <1>1, <1>3, <2>5, <3>1 DEF OfVersion
  <2>6. QED
    BY <2>1, <2>2, <2>3, <2>4, <2>5
<1>10. ReportsAreSeen' /\ RepeatsAreUnderNewStamps'
  <2>1. \A r \in drift' : r = e \/ r \in drift
    BY <1>a
  <2>2. ReportsAreSeen'
    BY <1>1, <1>2 DEF DriftInv, ReportsAreSeen, Scanning
  <2>3. ASSUME torn' = 0, NEW x \in reports', NEW y \in drift', x.file = y.file PROVE x.under # y.under
    BY <1>1, <1>2, <1>3, <2>1, <2>3 DEF DriftInv, RepeatsAreUnderNewStamps
  <2>4. \A x \in reports' : x.file # at'
    BY <1>1, <1>2 DEF DriftInv, ScanTyped, DriftRows
  <2>5. QED
    BY <2>2, <2>3, <2>4 DEF RepeatsAreUnderNewStamps
<1>11. RepeatsNeedALostStamp'
  BY <1>1 DEF DriftInv, RepeatsNeedALostStamp
<1>12. QED
  BY <1>5, <1>6, <1>7, <1>8, <1>9, <1>10, <1>11 DEF DriftInv

\* What was scanned becomes what was seen; the file is empty for a moment.
LEMMA SavingKeepsDriftInv ==
  ASSUME DriftInv, EndScan \/ SaveSeen \/ WriteSeen
  PROVE  DriftInv'
<1>1. CASE EndScan
  <2>1. /\ pc = "scan" /\ pc' = "saveSeen" /\ at = Nothing /\ todo = {}
        /\ UNCHANGED <<version, stamp, blurred, seen, known, current, todo, at, drift, lost, reports, torn, passes>>
    BY <1>1 DEF EndScan, world, quarantine, saved, memory, scanning, tables, bounds
  <2>2. \A f \in Files : (Plain(f)' <=> Plain(f)) /\ (ToldOf(f) => ToldOf(f)')
    BY <2>1 DEF Plain, Complete, ToldOf
  <2>3. (ScanTyped /\ ScanIsInOrder /\ StampsAreBehind /\ RowsAreOfThisScan)'
    BY <2>1 DEF DriftInv, ScanTyped, ScanIsInOrder, StampsAreBehind, RowsAreOfThisScan, Scanning
  <2>4. (SeenFilesAreReported /\ ScannedAreReported)'
    BY <2>1, <2>2 DEF DriftInv, SeenFilesAreReported, ScannedAreReported, Scanning, OfVersion, Plain
  <2>5. (ReportsAreSeen /\ RepeatsAreUnderNewStamps /\ RepeatsNeedALostStamp)'
    BY <2>1 DEF DriftInv, ReportsAreSeen, RepeatsAreUnderNewStamps, RepeatsNeedALostStamp, Scanning
  <2>6. QED
    BY <2>3, <2>4, <2>5 DEF DriftInv
<1>2. CASE SaveSeen
  <2>1. /\ pc = "saveSeen" /\ pc' = "writeSeen" /\ seen' = NothingSeen
        /\ UNCHANGED <<version, stamp, blurred, known, current, todo, at, drift, lost, reports, torn, passes>>
    BY <1>2 DEF SaveSeen, world, quarantine, memory, scanning, tables, bounds
  <2>2. seen' \in [Files -> Nat] /\ \A f \in Files : seen'[f] = 0
    BY <2>1 DEF NothingSeen
  <2>3. (ScanTyped /\ ScanIsInOrder /\ StampsAreBehind /\ RowsAreOfThisScan)'
    BY <2>1, <2>2 DEF DriftInv, ScanTyped, ScanIsInOrder, StampsAreBehind, RowsAreOfThisScan, Scanning
  <2>4. SeenFilesAreReported'
    <3>1. \A f \in Files : seen'[f] = stamp'[f] => ~ Complete(version'[f])
      BY <2>1, <2>2 DEF DriftInv, StampsAreBehind, Complete
    <3>2. QED
      BY <3>1 DEF SeenFilesAreReported, Complete
  <2>5. ScannedAreReported'
    BY <2>1 DEF DriftInv, ScannedAreReported, Scanning, OfVersion, Plain, Complete
  <2>6. (ReportsAreSeen /\ RepeatsAreUnderNewStamps /\ RepeatsNeedALostStamp)'
    BY <2>1 DEF DriftInv, ReportsAreSeen, RepeatsAreUnderNewStamps, RepeatsNeedALostStamp, Scanning
  <2>7. QED
    BY <2>3, <2>4, <2>5, <2>6 DEF DriftInv
<1>3. CASE WriteSeen
  <2>1. /\ pc = "writeSeen" /\ pc' = "recordDrift" /\ seen' = current
        /\ UNCHANGED <<version, stamp, blurred, known, current, todo, at, drift, lost, reports, torn, passes>>
    BY <1>3 DEF WriteSeen, world, quarantine, memory, scanning, tables, bounds
  <2>2. at = Nothing /\ todo = {} /\ Nothing \notin Files /\ Scanning /\ ~ Scanning'
    BY <2>1, MonitoringAssumption DEF DriftInv, ScanIsInOrder, Scanning
  <2>3. (ScanTyped /\ ScanIsInOrder /\ StampsAreBehind /\ RowsAreOfThisScan)'
    BY <2>1, <2>2 DEF DriftInv, ScanTyped, ScanIsInOrder, StampsAreBehind, RowsAreOfThisScan, Scanning
  <2>4. SeenFilesAreReported' /\ ScannedAreReported'
    <3>1. ASSUME NEW f \in Files, current[f] = stamp[f], Plain(f) PROVE OfVersion(f, reports \cup lost \cup drift)
      BY <2>2, <3>1 DEF DriftInv, ScannedAreReported
    <3>2. ASSUME NEW f \in Files, seen'[f] = stamp'[f], Plain(f)' PROVE ToldOf(f)'
      <4>1. Plain(f) /\ current[f] = stamp[f]
        BY <2>1, <3>2 DEF Plain, Complete
      <4>2. QED
        BY <2>1, <3>1, <4>1 DEF OfVersion, ToldOf
    <3>3. QED
      BY <2>2, <3>2 DEF SeenFilesAreReported, ScannedAreReported, Plain
  <2>5. ReportsAreSeen'
    BY <2>1, <2>2 DEF DriftInv, ReportsAreSeen
  <2>6. RepeatsAreUnderNewStamps' /\ RepeatsNeedALostStamp'
    <3>1. \A x \in reports : x.file \in Files
      BY DEF DriftInv, ScanTyped, DriftRows
    <3>2. QED
      BY <2>1, <2>2, <3>1 DEF DriftInv, RepeatsAreUnderNewStamps, RepeatsNeedALostStamp
  <2>7. QED
    BY <2>3, <2>4, <2>5, <2>6 DEF DriftInv
<1>4. QED
  BY <1>1, <1>2, <1>3

\* The drift events found enter the table, under the stamps just saved.
LEMMA RecordDriftKeepsDriftInv ==
  ASSUME DriftInv, RecordDrift
  PROVE  DriftInv'
<1>1. /\ pc = "recordDrift" /\ UNCHANGED <<version, stamp, blurred, seen, lost, torn, passes>>
      /\ reports' = reports \cup drift
      /\ \/ pc' = "detect" /\ Forgotten
         \/ pc' = "driftLineage" /\ UNCHANGED <<known, current, todo, at, drift>>
  BY DEF RecordDrift, world, quarantine, saved, bounds, memory, scanning
<1>2. ~ Scanning' /\ ~ Scanning /\ pc' # "recordDrift"
  BY <1>1 DEF Scanning
<1>3. ScanTyped' /\ ScanIsInOrder'
  BY <1>1, <1>2, MonitoringAssumption DEF DriftInv, ScanTyped, ScanIsInOrder, Forgotten, NothingSeen
<1>4. StampsAreBehind'
  <2>1. drift' \subseteq drift
    BY <1>1 DEF Forgotten
  <2>2. \A f \in Files : known'[f] =< stamp'[f] /\ current'[f] =< stamp'[f]
    BY <1>1 DEF DriftInv, ScanTyped, StampsAreBehind, Forgotten, NothingSeen
  <2>3. QED
    BY <1>1, <2>1, <2>2 DEF DriftInv, StampsAreBehind
<1>5. RowsAreOfThisScan'
  BY <1>1, <1>2 DEF DriftInv, RowsAreOfThisScan, Forgotten
<1>6. SeenFilesAreReported' /\ ScannedAreReported'
  <2>1. \A f \in Files : ToldOf(f) => ToldOf(f)'
    BY <1>1 DEF ToldOf
  <2>2. QED
    BY <1>1, <1>2, <2>1 DEF DriftInv, SeenFilesAreReported, ScannedAreReported
<1>7. ReportsAreSeen' /\ RepeatsAreUnderNewStamps'
  <2>1. torn = 0 => \A r \in reports : r.under =< seen[r.file]
    BY <1>1 DEF DriftInv, ReportsAreSeen
  <2>2. \A r \in drift : r.under = seen[r.file] /\ r.under =< seen[r.file]
    <3>1. \A r \in drift : r.under = seen[r.file] /\ r.under \in Nat
      BY <1>1 DEF DriftInv, RowsAreOfThisScan, ScanTyped, DriftRows
    <3>2. QED
      BY <3>1
  <2>3. QED
    BY <1>1, <1>2, <2>1, <2>2 DEF ReportsAreSeen, RepeatsAreUnderNewStamps
<1>8. RepeatsNeedALostStamp'
  <2> SUFFICES ASSUME torn = 0, NEW x \in reports \cup drift, NEW y \in reports \cup drift,
                      x.file = y.file, x.version = y.version, x.under = y.under
               PROVE  x = y
    BY <1>1 DEF RepeatsNeedALostStamp, DriftInv, ScanTyped
  <2>1. CASE x \in reports /\ y \in reports
    BY <2>1 DEF DriftInv, RepeatsNeedALostStamp
  <2>2. CASE x \in drift /\ y \in drift
    BY <2>2 DEF DriftInv, RowsAreOfThisScan
  <2>3. \A r \in reports, d \in drift : r.file = d.file => r.under # d.under
    BY <1>1 DEF DriftInv, RepeatsAreUnderNewStamps
  <2>4. QED
    BY <2>1, <2>2, <2>3
<1>9. QED
  BY <1>3, <1>4, <1>5, <1>6, <1>7, <1>8 DEF DriftInv

\* A stage that raises, and a process that dies, forget the scan; drift events they
\* had on the way to the table are lost, and so is a state file half written.
LEMMA FailuresKeepDriftInv ==
  ASSUME DriftInv, ConnectFails \/ Crash
  PROVE  DriftInv'
<1>1. /\ UNCHANGED <<version, stamp, blurred, seen, reports, passes>> /\ Forgotten
      /\ pc' \notin {"scan", "saveSeen", "writeSeen", "recordDrift"}
      /\ lost' = IF pc = "recordDrift" THEN lost \cup drift ELSE lost
      /\ torn' \in {torn, torn + 1} /\ (pc = "writeSeen" => torn' = torn + 1)
  BY DEF ConnectFails, Crash, NextStage, MetricStages, DriftStages, Saving, world, quarantine, saved, tables
<1>2. ~ Scanning' /\ drift' = {}
  BY <1>1 DEF Scanning, Forgotten
<1>3. ScanTyped' /\ ScanIsInOrder'
  BY <1>1, <1>2, MonitoringAssumption DEF DriftInv, ScanTyped, ScanIsInOrder, Forgotten, NothingSeen
<1>4. StampsAreBehind'
  BY <1>1, <1>2 DEF DriftInv, ScanTyped, StampsAreBehind, Forgotten, NothingSeen
<1>5. RowsAreOfThisScan'
  BY <1>1, <1>2 DEF RowsAreOfThisScan
<1>6. SeenFilesAreReported' /\ ScannedAreReported'
  <2>1. \A f \in Files : ToldOf(f) => ToldOf(f)'
    BY <1>1 DEF ToldOf
  <2>2. QED
    BY <1>1, <1>2, <2>1 DEF DriftInv, SeenFilesAreReported, ScannedAreReported
<1>7. torn' = 0 => torn = 0 /\ pc # "writeSeen"
  BY <1>1 DEF DriftInv, ScanTyped
<1>8. (ReportsAreSeen /\ RepeatsAreUnderNewStamps /\ RepeatsNeedALostStamp)'
  <2>1. ReportsAreSeen' /\ RepeatsAreUnderNewStamps'
    BY <1>1, <1>2, <1>7 DEF DriftInv, ReportsAreSeen, RepeatsAreUnderNewStamps
  <2>2. RepeatsNeedALostStamp'
    <3>1. torn > 0 => torn' > 0
      BY <1>1 DEF DriftInv, ScanTyped
    <3>2. QED
      BY <1>1, <3>1 DEF DriftInv, RepeatsNeedALostStamp
  <2>3. QED
    BY <2>1, <2>2
<1>9. QED
  BY <1>3, <1>4, <1>5, <1>6, <1>8 DEF DriftInv

\* A step from a stage to the next that has no part in a scan.
OutsideTheScan ==
  /\ {pc, pc'} \cap {"scan", "saveSeen", "writeSeen", "recordDrift"} = {}
  /\ \/ Forgotten
     \/ UNCHANGED scanning /\ (pc \in {"driftLineage", "driftAlert"} => pc' = "driftAlert")

\* The steps of the other stages leave the files and the scan's state alone, and come
\* at most to its beginning; after its alert the scan is forgotten.
LEMMA OthersLeaveDrift ==
  ASSUME [Next]_vars
  PROVE  \/ WritersStep \/ RefreshStep \/ \E f \in Files : StatFile(f)
         \/ StartScan \/ ReadFile \/ EndScan \/ SaveSeen \/ WriteSeen \/ RecordDrift
         \/ ConnectFails \/ Crash
         \/ /\ UNCHANGED <<quarantine, seen, lost, reports, torn, passes>>
            /\ \/ UNCHANGED <<scanning, pc>>
               \/ OutsideTheScan
<1> USE DEF world, saved, memory, scanning, tables, bounds, OutsideTheScan
<1>1. CASE OpenMetrics \/ MetricLineage \/ ThresholdAlerts
  BY <1>1 DEF OpenMetrics, MetricLineage, ThresholdAlerts
<1>2. CASE SampleStream \/ WriteSample \/ RecordMetrics
  BY <1>2 DEF SampleStream, WriteSample, RecordMetrics
<1>3. CASE DriftLineage \/ DriftAlert
  BY <1>3 DEF DriftLineage, DriftAlert
<1>4. CASE (\E raises \in BOOLEAN : Detect(raises)) \/ SaveHealth \/ WriteHealth
  BY <1>4 DEF Detect, SaveHealth, WriteHealth
<1>5. CASE RecordAnomalies \/ AnomalyLineage \/ AnomalyAlerts
  BY <1>5 DEF RecordAnomalies, AnomalyLineage, AnomalyAlerts
<1>6. CASE \E n \in {0, 1}, restarted \in BOOLEAN : Generate(n, restarted)
  BY <1>6 DEF Generate
<1>7. CASE UNCHANGED vars
  BY <1>7 DEF vars
<1>8. QED
  BY <1>1, <1>2, <1>3, <1>4, <1>5, <1>6, <1>7 DEF Next, PassStep, WritersStep, RefreshStep

\* Steps that leave the scan alone, or forget it when it is over.
LEMMA OthersKeepDriftInv ==
  ASSUME DriftInv, UNCHANGED <<quarantine, seen, lost, reports, torn, passes>>,
         UNCHANGED <<scanning, pc>> \/ OutsideTheScan
  PROVE  DriftInv'
<1>0. /\ UNCHANGED <<version, stamp, blurred>>
      /\ \A f \in Files : Plain(f)' <=> Plain(f)
  BY DEF quarantine, Plain, Complete
<1>1. CASE UNCHANGED <<scanning, pc>>
  <2>1. UNCHANGED <<known, current, todo, at, drift, pc>>
    BY <1>1 DEF scanning
  <2>2. (ScanTyped /\ ScanIsInOrder /\ StampsAreBehind /\ RowsAreOfThisScan)'
    BY <1>0, <2>1 DEF DriftInv, ScanTyped, ScanIsInOrder, StampsAreBehind, RowsAreOfThisScan, Scanning
  <2>3. (SeenFilesAreReported /\ ScannedAreReported)'
    BY <1>0, <2>1 DEF DriftInv, SeenFilesAreReported, ScannedAreReported, Scanning, ToldOf, OfVersion
  <2>4. (ReportsAreSeen /\ RepeatsAreUnderNewStamps /\ RepeatsNeedALostStamp)'
    BY <1>0, <2>1 DEF DriftInv, ReportsAreSeen, RepeatsAreUnderNewStamps, RepeatsNeedALostStamp, Scanning
  <2>5. QED
    BY <2>2, <2>3, <2>4 DEF DriftInv
<1>2. CASE OutsideTheScan
  <2>1. ~ Scanning /\ ~ Scanning' /\ {pc, pc'} \cap {"scan", "saveSeen", "writeSeen", "recordDrift"} = {}
    BY <1>2 DEF OutsideTheScan, Scanning
  <2>2. \/ /\ known' = NothingSeen /\ current' = NothingSeen /\ todo' = {} /\ at' = Nothing /\ drift' = {}
        \/ /\ UNCHANGED <<known, current, todo, at, drift>>
           /\ pc \in {"driftLineage", "driftAlert"} => pc' = "driftAlert"
    BY <1>2 DEF OutsideTheScan, scanning, Forgotten
  <2>3. ScanTyped' /\ ScanIsInOrder'
    <3>1. ScanTyped'
      BY <1>0, <2>2 DEF DriftInv, ScanTyped, NothingSeen
    <3>2. ScanIsInOrder
      BY DEF DriftInv
    <3>3. ScanIsInOrder'
      BY <2>1, <2>2, <3>2 DEF ScanIsInOrder, Scanning
    <3>4. QED
      BY <3>1, <3>3
  <2>4. StampsAreBehind' /\ RowsAreOfThisScan'
    <3>1. drift' \subseteq drift
      BY <2>2
    <3>2. \A f \in Files : known'[f] =< stamp'[f] /\ current'[f] =< stamp'[f]
      BY <1>0, <2>2 DEF DriftInv, ScanTyped, StampsAreBehind, NothingSeen
    <3>3. QED
      BY <1>0, <2>1, <3>1, <3>2 DEF DriftInv, StampsAreBehind, RowsAreOfThisScan
  <2>5. SeenFilesAreReported' /\ ScannedAreReported'
    <3>1. \A f \in Files : ToldOf(f) => ToldOf(f)'
      BY <1>0, <2>1 DEF ToldOf
    <3>2. QED
      BY <1>0, <2>1, <3>1 DEF DriftInv, SeenFilesAreReported, ScannedAreReported
  <2>6. (ReportsAreSeen /\ RepeatsAreUnderNewStamps /\ RepeatsNeedALostStamp)'
    BY <1>0, <2>1 DEF DriftInv, ReportsAreSeen, RepeatsAreUnderNewStamps, RepeatsNeedALostStamp
  <2>7. QED
    BY <2>3, <2>4, <2>5, <2>6 DEF DriftInv
<1>3. QED
  BY <1>1, <1>2

\* The invariant of the drift scan, for any interleaving of its steps with refreshes
\* and other writers of the files, failed connections and crashes.
THEOREM DriftIsTold == Spec => []DriftInv
<1>1. Init => DriftInv
  <2> SUFFICES ASSUME Init PROVE DriftInv
    OBVIOUS
  <2>1. /\ ScanTyped /\ pc = "idle" /\ drift = {} /\ reports = {} /\ at = Nothing
        /\ \A f \in Files : seen[f] = 0 /\ known[f] = 0 /\ current[f] = 0 /\ stamp[f] = version[f] /\ version[f] \in Nat
    BY DEF Init, ScanTyped, NothingSeen, DriftRows
  <2>2. SeenFilesAreReported
    BY <2>1 DEF SeenFilesAreReported, Complete
  <2>3. QED
    BY <2>1, <2>2 DEF DriftInv, ScanIsInOrder, StampsAreBehind, RowsAreOfThisScan, ScannedAreReported, ReportsAreSeen,
       RepeatsAreUnderNewStamps, RepeatsNeedALostStamp, Scanning
<1>2. DriftInv /\ [Next]_vars => DriftInv'
  <2> SUFFICES ASSUME DriftInv, [Next]_vars PROVE DriftInv'
    OBVIOUS
  <2>1. CASE WritersStep
    BY <2>1, WritersGoOn, FilesKeepDriftInv DEF DriftInv, ScanTyped
  <2>2. CASE RefreshStep
    BY <2>2, RefreshGoesOn, FilesKeepDriftInv
  <2>3. QED
    BY <2>1, <2>2, OthersLeaveDrift, OthersKeepDriftInv, StartScanKeepsDriftInv, StatFileKeepsDriftInv,
       ReadFileKeepsDriftInv, SavingKeepsDriftInv, RecordDriftKeepsDriftInv, FailuresKeepDriftInv
<1>3. QED
  BY <1>1, <1>2, PTL DEF Spec

\* A complete quarantine file whose stamp is in the state file is told of in the
\* version it has, unless that version hides behind a stamp that was taken before: for
\* any refreshes and other writers, while they overtake the scan or not.
THEOREM SeenFilesReported == Spec => []SeenFilesAreReported
<1>1. DriftInv => SeenFilesAreReported
  BY DEF DriftInv
<1>2. QED
  BY <1>1, DriftIsTold, PTL

\* The drift of a version is not in the table twice under one stamp, unless a state
\* file was torn: for any number of refreshes that write the files again.
THEOREM RepeatsHaveAReason == Spec => []RepeatsNeedALostStamp
<1>1. DriftInv => RepeatsNeedALostStamp
  BY DEF DriftInv
<1>2. QED
  BY <1>1, DriftIsTold, PTL


-----------------------------------------------------------------------------
(* The dispatcher of the pass's alerts (AlertDispatch).                     *)

ChannelNames == {"slack", "webhook", "console"}
Delivering == {"build", "slack", "webhook", "console"}

\* The outcomes of the call under way, or of the last one, tell what was delivered.
ResultsTellDeliveries ==
  \A c \in Callers : \A n \in ChannelNames :
    results[c][n] = "ok" <=> <<Alert(c), n, "2xx">> \in sent

\* A channel that the loop has not passed has no outcome yet.
UntriedHaveNone ==
  \A c \in Callers :
    /\ doing[c] \in {"build", "slack"} => results[c]["slack"] = "none"
    /\ doing[c] \in {"build", "slack", "webhook"} => results[c]["webhook"] = "none"
    /\ doing[c] \in Delivering => results[c]["console"] = "none"

\* A call that is under way has been counted.
CallsAreCounted == \A c \in Callers : doing[c] # "idle" => count[c] > 0

\* Alerts that were not dispatched yet have left no trace.
NothingAhead ==
  \A c \in Callers : \A n \in Nat : n > count[c] =>
    /\ <<c, n>> \notin DOMAIN table
    /\ \A m \in ChannelNames : <<<<c, n>>, m, "2xx">> \notin sent

\* An alert is recorded after its last channel, and a call that got through to the
\* lineage edge has recorded it.
RecordedAtTheEnd ==
  \A c \in Callers :
    /\ doing[c] \in Delivering \cup {"persist"} => Alert(c) \notin DOMAIN table
    /\ doing[c] = "lineage" => Alert(c) \in DOMAIN table

IInv ==
  /\ ResultsTellDeliveries /\ UntriedHaveNone /\ NothingAhead /\ RecordedAtTheEnd
  /\ RowsTellTheOutcome

-----------------------------------------------------------------------------
\* The loop over the channels goes on with a later one, or with the record.
LEMMA LaterChannel ==
  /\ After(0) \in {"slack", "webhook", "console", "persist"}
  /\ After(1) \in {"webhook", "console", "persist"}
  /\ After(2) \in {"console", "persist"}
<1> DEFINE open(k) == {j \in (k + 1)..3 : Enabled(Channels[j])}
<1>1. Len(Channels) = 3 /\ Channels[1] = "slack" /\ Channels[2] = "webhook" /\ Channels[3] = "console"
  BY DEF Channels
<1>2. ASSUME NEW k \in 0..2, open(k) # {}
      PROVE  (CHOOSE j \in open(k) : \A i \in open(k) : j =< i) \in open(k)
  <2>1. open(k) \subseteq 1..3
    BY <1>2
  <2>2. \E j \in open(k) : \A i \in open(k) : j =< i
    <3>1. CASE 1 \in open(k)
      BY <2>1, <3>1
    <3>2. CASE 1 \notin open(k) /\ 2 \in open(k)
      BY <2>1, <3>2
    <3>3. CASE 1 \notin open(k) /\ 2 \notin open(k)
      BY <2>1, <3>3, <1>2
    <3>4. QED
      BY <3>1, <3>2, <3>3
  <2>3. QED
    BY <2>2
<1>3. ASSUME NEW k \in 0..2
      PROVE  After(k) = "persist" \/ \E j \in (k + 1)..3 : After(k) = Channels[j]
  BY <1>1, <1>2, <1>3 DEF After
<1>4. QED
  BY <1>1, <1>3

\* Every variable stays in its type, for any callers, configurations and bounds.
THEOREM AlertsTyped ==
  AlertSpec => [](AlertTypeOK /\ CallsAreCounted)
<1>1. AlertInit => AlertTypeOK /\ CallsAreCounted
  BY AlertAssumption DEF AlertInit, AlertTypeOK, CallsAreCounted, Places, NoResults, Outcomes, Alerts
<1>2. AlertTypeOK /\ CallsAreCounted /\ [AlertNext]_alertVars => AlertTypeOK'
  <2> SUFFICES ASSUME AlertTypeOK, CallsAreCounted, [AlertNext]_alertVars PROVE AlertTypeOK'
    OBVIOUS
  <2> USE AlertAssumption DEF AlertTypeOK, Goto, Places
  <2>1. ASSUME NEW c \in Callers, NEW s \in Severities, Call(c, s) PROVE AlertTypeOK'
    BY <2>1 DEF Call, NoResults, Outcomes
  <2>2. ASSUME NEW c \in Callers, LoadFails(c) PROVE AlertTypeOK'
    BY <2>2 DEF LoadFails
  <2>3. ASSUME NEW c \in Callers, Build(c) PROVE AlertTypeOK'
    BY <2>3, LaterChannel DEF Build
  <2>4. ASSUME NEW c \in Callers, NEW k \in 1..2, Post(c, k) PROVE AlertTypeOK'
    BY <2>4, LaterChannel DEF Post, Channels, Outcomes
  <2>5. ASSUME NEW c \in Callers, NEW k \in 1..2, NotConfigured(c, k) PROVE AlertTypeOK'
    BY <2>5, LaterChannel DEF NotConfigured, Channels, Outcomes
  <2>6. ASSUME NEW c \in Callers, NEW k \in 1..2, Malformed(c, k) PROVE AlertTypeOK'
    BY <2>6 DEF Malformed, AfterMalformed
  <2>7. ASSUME NEW c \in Callers, Console(c) PROVE AlertTypeOK'
    BY <2>7 DEF Console, Outcomes
  <2>8. ASSUME NEW c \in Callers, Persist(c) PROVE AlertTypeOK'
    BY <2>8 DEF Persist, Recorded, Alert, Alerts, CallsAreCounted
  <2>9. ASSUME NEW c \in Callers, Lineage(c) PROVE AlertTypeOK'
    BY <2>9 DEF Lineage
  <2>10. ASSUME NEW c \in Callers, Refused(c) PROVE AlertTypeOK'
    <3>1. /\ UNCHANGED <<config, holder, count, severity, results, table, clashed, faults>>
          /\ doing' \in [Callers -> Places]
      BY <2>10 DEF Refused
    <3>2. attempt' \in [Callers -> 0..Retries]
      <4>1. attempt[c] \in 0..Retries /\ Retries \in Nat \ {0}
        BY AlertAssumption
      <4>2. (attempt[c] + 1) % Retries \in 0..Retries
        BY ONLY <4>1
      <4>3. QED
        BY <2>10, <4>1, <4>2 DEF Refused
    <3>3. QED
      BY <3>1, <3>2
  <2>11. CASE OthersConnect
    BY <2>11 DEF OthersConnect
  <2>12. CASE UNCHANGED alertVars
    BY <2>12 DEF alertVars
  <2>13. ASSUME NEW c \in Callers, Clashes(c) PROVE AlertTypeOK'
    BY <2>13 DEF Clashes
  <2>14. QED
    BY <2>1, <2>2, <2>3, <2>4, <2>5, <2>6, <2>7, <2>8, <2>9, <2>10, <2>11, <2>12, <2>13 DEF AlertNext, Dispatch
<1>3. AlertTypeOK /\ CallsAreCounted /\ [AlertNext]_alertVars => CallsAreCounted'
  <2> SUFFICES ASSUME AlertTypeOK, CallsAreCounted, [AlertNext]_alertVars PROVE CallsAreCounted'
    OBVIOUS
  <2> USE DEF AlertTypeOK, CallsAreCounted, Goto
  <2>1. ASSUME NEW c \in Callers, NEW s \in Severities, Call(c, s) PROVE CallsAreCounted'
    BY <2>1, AlertAssumption DEF Call
  <2>2. ASSUME NEW c \in Callers, doing[c] # "idle", UNCHANGED count,
               doing' = [doing EXCEPT ![c] = doing'[c]] \/ UNCHANGED doing
        PROVE  CallsAreCounted'
    BY <2>2
  <2>3. ASSUME NEW c \in Callers, Dispatch(c) PROVE CallsAreCounted'
    <3>1. doing[c] # "idle" /\ UNCHANGED count
      BY <2>3 DEF Dispatch, LoadFails, Build, Post, NotConfigured, Malformed, Console, Persist, Lineage, Refused, Clashes,
         Channels
    <3>2. doing' = [doing EXCEPT ![c] = doing'[c]] \/ UNCHANGED doing
      BY <2>3 DEF Dispatch, LoadFails, Build, Post, NotConfigured, Malformed, Console, Persist, Lineage, Refused, Clashes
    <3>3. QED
      BY <2>2, <3>1, <3>2
  <2>4. CASE OthersConnect \/ UNCHANGED alertVars
    BY <2>4 DEF OthersConnect, alertVars
  <2>5. QED
    BY <2>1, <2>3, <2>4 DEF AlertNext
<1>4. QED
  BY <1>1, <1>2, <1>3, PTL DEF AlertSpec


-----------------------------------------------------------------------------
\* A step of the channel named n gives it an outcome that tells whether it delivered,
\* and touches nothing else of what the invariant is about.
Outcome(c, n) ==
  /\ results' = [results EXCEPT ![c] = results'[c]]
  /\ \A m \in ChannelNames \ {n} : results'[c][m] = results[c][m]
  /\ \A a, m : <<a, m, "2xx">> \in sent' <=>
       \/ <<a, m, "2xx">> \in sent
       \/ a = Alert(c) /\ m = n /\ results'[c][n] = "ok"
  /\ UNCHANGED <<count, table>>

\* A post to a configured channel, whatever it answers, is recorded as what it was.
LEMMA PostGivesOutcome ==
  ASSUME AlertTypeOK, NEW c \in Callers, NEW k \in 1..2, Post(c, k)
  PROVE  /\ Outcome(c, Channels[k])
         /\ doing[c] = Channels[k] /\ doing' = [doing EXCEPT ![c] = After(k)]
<1>1. Channels[1] = "slack" /\ Channels[2] = "webhook"
  BY DEF Channels
<1>2. CASE k = 1
  BY <1>1, <1>2 DEF Post, Outcome, AlertTypeOK, Goto, Delivered, ChannelNames, Outcomes
<1>3. CASE k = 2
  BY <1>1, <1>3 DEF Post, Outcome, AlertTypeOK, Goto, Delivered, ChannelNames, Outcomes
<1>4. QED
  BY <1>2, <1>3

\* A channel that is not configured is recorded as such, and nothing is sent.
LEMMA NotConfiguredGivesOutcome ==
  ASSUME AlertTypeOK, NEW c \in Callers, NEW k \in 1..2, NotConfigured(c, k)
  PROVE  /\ Outcome(c, Channels[k])
         /\ doing[c] = Channels[k] /\ doing' = [doing EXCEPT ![c] = After(k)]
<1>1. Channels[1] = "slack" /\ Channels[2] = "webhook"
  BY DEF Channels
<1>2. CASE k = 1
  BY <1>1, <1>2 DEF NotConfigured, Outcome, AlertTypeOK, Goto, ChannelNames, Outcomes
<1>3. CASE k = 2
  BY <1>1, <1>3 DEF NotConfigured, Outcome, AlertTypeOK, Goto, ChannelNames, Outcomes
<1>4. QED
  BY <1>2, <1>3

\* The console, the last channel, is recorded before the row is written.
LEMMA ConsoleGivesOutcome ==
  ASSUME AlertTypeOK, NEW c \in Callers, Console(c)
  PROVE  Outcome(c, "console") /\ doing[c] = "console" /\ doing' = [doing EXCEPT ![c] = "persist"]
BY DEF Console, Outcome, AlertTypeOK, Goto, ChannelNames, Outcomes

-----------------------------------------------------------------------------
\* A channel may be tried once in a call: its outcome keeps the record in step.
LEMMA OutcomeKeepsInvariant ==
  ASSUME AlertTypeOK, IInv, NEW c \in Callers, NEW n \in ChannelNames,
         Outcome(c, n), doing[c] = n, doing' = [doing EXCEPT ![c] = doing'[c]],
         doing'[c] \in (IF n = "slack" THEN {"webhook", "console", "persist"}
                     ELSE IF n = "webhook" THEN {"console", "persist"} ELSE {"persist"})
  PROVE  IInv'
<1> USE DEF AlertTypeOK, ChannelNames, Delivering
<1>0. /\ \A d \in Callers : Alert(d)' = Alert(d)
      /\ \A d \in Callers : d # c => Alert(d) # Alert(c) /\ results'[d] = results[d] /\ doing'[d] = doing[d]
      /\ results[c][n] = "none" /\ Alert(c) \notin DOMAIN table
  BY DEF Outcome, Alert, IInv, UntriedHaveNone, RecordedAtTheEnd
<1>1. ResultsTellDeliveries'
  <2> SUFFICES ASSUME NEW d \in Callers, NEW m \in ChannelNames
               PROVE  results'[d][m] = "ok" <=> <<Alert(d), m, "2xx">> \in sent'
    BY DEF ResultsTellDeliveries, Outcome, Alert
  <2>0. results[d][m] = "ok" <=> <<Alert(d), m, "2xx">> \in sent
    BY DEF IInv, ResultsTellDeliveries
  <2>1. CASE d # c
    BY <1>0, <2>0, <2>1 DEF Outcome
  <2>2. CASE d = c /\ m # n
    BY <2>0, <2>2 DEF Outcome
  <2>3. CASE d = c /\ m = n
    BY <1>0, <2>0, <2>3 DEF Outcome
  <2>4. QED
    BY <2>1, <2>2, <2>3
<1>2. UntriedHaveNone'
  BY <1>0 DEF Outcome, IInv, UntriedHaveNone
<1>3. NothingAhead'
  <2> SUFFICES ASSUME NEW d \in Callers, NEW i \in Nat, i > count[d]
               PROVE  /\ <<d, i>> \notin DOMAIN table
                      /\ \A m \in ChannelNames : <<<<d, i>>, m, "2xx">> \notin sent'
    BY DEF NothingAhead, Outcome
  <2>1. <<d, i>> # Alert(c)
    BY DEF Alert
  <2>2. QED
    BY <2>1 DEF Outcome, IInv, NothingAhead
<1>4. RecordedAtTheEnd'
  BY <1>0 DEF Outcome, IInv, RecordedAtTheEnd
<1>5. RowsTellTheOutcome'
  BY <1>0 DEF Outcome, IInv, RowsTellTheOutcome
<1>6. QED
  BY <1>1, <1>2, <1>3, <1>4, <1>5 DEF IInv

\* A record tells, for each channel, whether the alert was delivered there: for any
\* channels that fail in any order, and however long the warehouse is locked.
THEOREM RecordsAreTrue ==
  AlertSpec => []RowsTellTheOutcome
<1>1. AlertInit => IInv
  BY AlertAssumption DEF AlertInit, IInv, ResultsTellDeliveries, UntriedHaveNone, NothingAhead, RecordedAtTheEnd,
     RowsTellTheOutcome, NoResults, ChannelNames, Delivering, Alert
<1>2. AlertTypeOK /\ CallsAreCounted /\ IInv /\ [AlertNext]_alertVars => IInv'
  <2> SUFFICES ASSUME AlertTypeOK, CallsAreCounted, IInv, [AlertNext]_alertVars PROVE IInv'
    OBVIOUS
  <2>1. ASSUME NEW c \in Callers, NEW s \in Severities, Call(c, s) PROVE IInv'
    <3> USE <2>1 DEF Call, AlertTypeOK, Goto, ChannelNames, Delivering
    <3>0. /\ Alert(c)' = <<c, count[c] + 1>> /\ count[c] + 1 \in Nat /\ count[c] + 1 > count[c]
          /\ \A d \in Callers : d # c => Alert(d)' = Alert(d) /\ doing'[d] = doing[d] /\ results'[d] = results[d]
          /\ results'[c] = NoResults /\ doing'[c] = "build"
      BY AlertAssumption DEF Alert
    <3>a. /\ <<c, count[c] + 1>> \notin DOMAIN table
          /\ \A m \in ChannelNames : <<<<c, count[c] + 1>>, m, "2xx">> \notin sent
      BY ONLY <3>0, IInv, c \in Callers DEF IInv, NothingAhead
    <3>1. ResultsTellDeliveries'
      <4> SUFFICES ASSUME NEW d \in Callers, NEW m \in ChannelNames
                   PROVE  (results[d][m] = "ok" <=> <<Alert(d), m, "2xx">> \in sent)'
        BY DEF ResultsTellDeliveries
      <4>0. sent' = sent
        OBVIOUS
      <4>1. CASE d = c
        <5>1. results'[d] = NoResults /\ Alert(d)' = <<c, count[c] + 1>>
          BY ONLY <3>0, <4>1
        <5>2. NoResults[m] # "ok"
          BY DEF NoResults
        <5>3. <<<<c, count[c] + 1>>, m, "2xx">> \notin sent
          BY ONLY <3>a, m \in ChannelNames
        <5>4. <<Alert(d)', m, "2xx">> \notin sent' /\ results'[d][m] # "ok"
          BY ONLY <4>0, <5>1, <5>2, <5>3
        <5>5. QED
          BY <5>4
      <4>2. CASE d # c
        <5>1. Alert(d)' = Alert(d) /\ results'[d] = results[d]
          BY ONLY <3>0, <4>2, d \in Callers
        <5>2. results[d][m] = "ok" <=> <<Alert(d), m, "2xx">> \in sent
          BY ONLY IInv, d \in Callers, m \in ChannelNames DEF IInv, ResultsTellDeliveries
        <5>3. QED
          BY ONLY <4>0, <5>1, <5>2
      <4>3. QED
        BY <4>1, <4>2
    <3>2. UntriedHaveNone'
      BY <3>0 DEF IInv, UntriedHaveNone, NoResults
    <3>3. NothingAhead'
      <4>1. \A d \in Callers : \A n \in Nat : n > count'[d] => n > count[d]
        BY AlertAssumption
      <4>2. QED
        BY <4>1 DEF IInv, NothingAhead
    <3>4. RecordedAtTheEnd'
      <4>1. Alert(c)' \notin DOMAIN table
        BY <3>0, <3>a
      <4>2. QED
        BY <3>0, <4>1 DEF IInv, RecordedAtTheEnd
    <3>5. RowsTellTheOutcome'
      BY DEF IInv, RowsTellTheOutcome
    <3>6. QED
      BY <3>1, <3>2, <3>3, <3>4, <3>5 DEF IInv
  <2>2. ASSUME NEW c \in Callers, NEW k \in 1..2, Post(c, k) \/ NotConfigured(c, k) PROVE IInv'
    <3>1. Outcome(c, Channels[k]) /\ doing[c] = Channels[k] /\ doing' = [doing EXCEPT ![c] = After(k)]
      BY <2>2, PostGivesOutcome, NotConfiguredGivesOutcome
    <3>2. Channels[1] = "slack" /\ Channels[2] = "webhook" /\ c \in DOMAIN doing
      BY DEF Channels, AlertTypeOK
    <3>3. CASE k = 1
      <4>1. Outcome(c, "slack") /\ doing[c] = "slack" /\ doing' = [doing EXCEPT ![c] = doing'[c]]
            /\ doing'[c] \in {"webhook", "console", "persist"}
        BY <3>1, <3>2, <3>3, LaterChannel
      <4>2. QED
        BY <4>1, OutcomeKeepsInvariant DEF ChannelNames
    <3>4. CASE k = 2
      <4>1. Outcome(c, "webhook") /\ doing[c] = "webhook" /\ doing' = [doing EXCEPT ![c] = doing'[c]]
            /\ doing'[c] \in {"console", "persist"}
        BY <3>1, <3>2, <3>4, LaterChannel
      <4>2. QED
        BY <4>1, OutcomeKeepsInvariant DEF ChannelNames
    <3>5. QED
      BY <3>3, <3>4
  <2>3. ASSUME NEW c \in Callers, Console(c) PROVE IInv'
    <3>1. Outcome(c, "console") /\ doing[c] = "console" /\ doing' = [doing EXCEPT ![c] = doing'[c]] /\ doing'[c] \in {"persist"}
      BY <2>3, ConsoleGivesOutcome DEF AlertTypeOK
    <3>2. QED
      BY <3>1, OutcomeKeepsInvariant DEF ChannelNames
  <2>4. ASSUME NEW c \in Callers, Persist(c) PROVE IInv'
    <3> USE <2>4 DEF Persist, AlertTypeOK, Goto, ChannelNames, Delivering
    <3>0. /\ Alert(c) \notin DOMAIN table /\ count[c] \in Nat /\ \A d \in Callers : Alert(d)' = Alert(d)
          /\ DOMAIN table' = DOMAIN table \cup {Alert(c)}
          /\ table'[Alert(c)] = results[c] /\ \A a \in DOMAIN table : table'[a] = table[a]
      BY AlertAssumption DEF Recorded, Alert, IInv, RecordedAtTheEnd
    <3>1. ResultsTellDeliveries'
      BY <3>0 DEF IInv, ResultsTellDeliveries
    <3>2. UntriedHaveNone'
      BY DEF IInv, UntriedHaveNone
    <3>3. NothingAhead'
      <4>1. \A d \in Callers : \A n \in Nat : n > count[d] => <<d, n>> # Alert(c)
        BY <3>0 DEF Alert
      <4>2. QED
        BY <3>0, <4>1 DEF IInv, NothingAhead
    <3>4. RecordedAtTheEnd'
      BY <3>0 DEF IInv, RecordedAtTheEnd, Alert
    <3>5. RowsTellTheOutcome'
      <4> SUFFICES ASSUME NEW a \in DOMAIN table', NEW k \in DOMAIN Channels
                   PROVE  table'[a][Channels[k]] = "ok" <=> <<a, Channels[k], "2xx">> \in sent
        BY DEF RowsTellTheOutcome
      <4>1. Channels[k] \in ChannelNames
        <5>1. k \in 1..3
          BY DEF Channels
        <5>2. Channels[1] = "slack" /\ Channels[2] = "webhook" /\ Channels[3] = "console"
          BY DEF Channels
        <5>3. k = 1 \/ k = 2 \/ k = 3
          BY <5>1
        <5>4. QED
          BY <5>2, <5>3
      <4>2. CASE a = Alert(c)
        <5>1. table'[a] = results[c]
          BY ONLY <3>0, <4>2
        <5>2. results[c][Channels[k]] = "ok" <=> <<Alert(c), Channels[k], "2xx">> \in sent
          BY ONLY <4>1, IInv, c \in Callers DEF IInv, ResultsTellDeliveries
        <5>3. QED
          BY ONLY <5>1, <5>2, <4>2
      <4>3. CASE a # Alert(c)
        <5>1. a \in DOMAIN table /\ table'[a] = table[a]
          BY <3>0, <4>3
        <5>2. table[a][Channels[k]] = "ok" <=> <<a, Channels[k], "2xx">> \in sent
          BY ONLY <5>1, IInv, k \in DOMAIN Channels DEF IInv, RowsTellTheOutcome
        <5>3. QED
          BY <5>1, <5>2
      <4>4. QED
        BY <4>2, <4>3
    <3>6. QED
      BY <3>1, <3>2, <3>3, <3>4, <3>5 DEF IInv
  <2>5. ASSUME NEW c \in Callers, UNCHANGED <<count, results, table, sent>>,
               doing' = [doing EXCEPT ![c] = doing'[c]] \/ UNCHANGED doing,
               \/ doing[c] = "build" /\ doing'[c] \in Delivering \cup {"idle", "persist"}
               \/ doing[c] \in Delivering /\ doing'[c] = "persist"
               \/ doing'[c] \in {"idle", doing[c]}
        PROVE  IInv'
    <3> USE <2>5 DEF AlertTypeOK, Delivering
    <3>0. \A d \in Callers : Alert(d)' = Alert(d) /\ (d # c => doing'[d] = doing[d])
      BY DEF Alert
    <3>1. ResultsTellDeliveries'
      BY <3>0 DEF IInv, ResultsTellDeliveries
    <3>2. UntriedHaveNone'
      BY <3>0 DEF IInv, UntriedHaveNone
    <3>3. NothingAhead'
      BY DEF IInv, NothingAhead
    <3>4. RecordedAtTheEnd'
      BY <3>0 DEF IInv, RecordedAtTheEnd
    <3>5. RowsTellTheOutcome'
      BY DEF IInv, RowsTellTheOutcome
    <3>6. QED
      BY <3>1, <3>2, <3>3, <3>4, <3>5 DEF IInv
  <2>6. ASSUME NEW c \in Callers, Build(c) PROVE IInv'
    BY <2>5, <2>6, LaterChannel DEF Build, Goto, AlertTypeOK, Delivering
  <2>7. ASSUME NEW c \in Callers, LoadFails(c) PROVE IInv'
    BY <2>5, <2>7 DEF LoadFails, Goto, AlertTypeOK
  <2>8. ASSUME NEW c \in Callers, NEW k \in 1..2, Malformed(c, k) PROVE IInv'
    <3>1. doing[c] \in Delivering
      BY <2>8 DEF Malformed, Channels, Delivering
    <3>2. QED
      BY <2>5, <2>8, <3>1 DEF Malformed, AfterMalformed, Goto, AlertTypeOK
  <2>9. ASSUME NEW c \in Callers, Lineage(c) \/ Refused(c) \/ Clashes(c) PROVE IInv'
    BY <2>5, <2>9 DEF Lineage, Refused, Clashes, Goto, AlertTypeOK
  <2>10. CASE OthersConnect \/ UNCHANGED alertVars
    BY <2>10 DEF OthersConnect, alertVars, IInv, ResultsTellDeliveries, UntriedHaveNone, NothingAhead, RecordedAtTheEnd,
       RowsTellTheOutcome, Alert
  <2>11. QED
    BY <2>1, <2>2, <2>3, <2>4, <2>6, <2>7, <2>8, <2>9, <2>10 DEF AlertNext, Dispatch
<1>3. IInv => RowsTellTheOutcome
  BY DEF IInv
<1>4. QED
  BY <1>1, <1>2, <1>3, AlertsTyped, PTL DEF AlertSpec

\* The only ways for an alert to be dropped are a warehouse that was open elsewhere at
\* every attempt, or in another mode in the same process: for any number of retries,
\* callers and other writers.
THEOREM BusyWarehouseOnly ==
  AlertSpec => []OnlyABusyWarehouseLosesAlerts
<1> DEFINE Kept(c) == /\ doing[c] = "lineage" => Alert(c) \in DOMAIN table
                      /\ c \notin raised /\ doing[c] = "idle" /\ count[c] > 0
                           => Alert(c) \in DOMAIN table \/ attempt[c] = Retries \/ c \in clashed
           Inv == \A c \in Callers : Kept(c)
<1>1. AlertInit => Inv
  BY DEF AlertInit
<1>2. AlertTypeOK /\ CallsAreCounted /\ Inv /\ [AlertNext]_alertVars => Inv'
  <2> SUFFICES ASSUME AlertTypeOK, CallsAreCounted, Inv, [AlertNext]_alertVars PROVE Inv'
    OBVIOUS
  <2> USE DEF AlertTypeOK, Goto
  <2>0. \A d \in Callers : count'[d] = count[d] => Alert(d)' = Alert(d)
    BY DEF Alert
  <2>1. ASSUME NEW c \in Callers, NEW s \in Severities, Call(c, s) PROVE Inv'
    <3>1. doing'[c] = "build" /\ \A d \in Callers \ {c} : count'[d] = count[d] /\ doing'[d] = doing[d] /\ attempt'[d] = attempt[d]
      BY <2>1 DEF Call
    <3>2. table' = table /\ raised' = raised /\ clashed' = clashed \ {c}
      BY <2>1 DEF Call
    <3>3. QED
      BY <2>0, <3>1, <3>2
  <2>2. ASSUME NEW c \in Callers, UNCHANGED <<count, table, attempt>>, raised \subseteq raised',
               clashed \subseteq clashed',
               doing' = [doing EXCEPT ![c] = doing'[c]],
               doing'[c] \notin {"lineage", "idle"} \/ c \in raised'
                 \/ c \in clashed' \/ (doing[c] = "lineage" /\ doing'[c] = "idle"),
               doing'[c] # "lineage"
        PROVE  Inv'
    BY <2>0, <2>2
  <2>3. ASSUME NEW c \in Callers, LoadFails(c) PROVE Inv'
    BY <2>2, <2>3 DEF LoadFails
  <2>4. ASSUME NEW c \in Callers, Build(c) PROVE Inv'
    BY <2>2, <2>4, LaterChannel DEF Build
  <2>5. ASSUME NEW c \in Callers, NEW k \in 1..2, Post(c, k) \/ NotConfigured(c, k) \/ Malformed(c, k)
        PROVE  Inv'
    <3>1. After(k) \notin {"lineage", "idle"}
      BY LaterChannel
    <3>2. QED
      BY <2>2, <2>5, <3>1 DEF Post, NotConfigured, Malformed, AfterMalformed
  <2>6. ASSUME NEW c \in Callers, Console(c) PROVE Inv'
    BY <2>2, <2>6 DEF Console
  <2>7. ASSUME NEW c \in Callers, Persist(c) PROVE Inv'
    <3>1. /\ DOMAIN table' = DOMAIN table \cup {Alert(c)} /\ Alert(c)' = Alert(c)
          /\ UNCHANGED <<raised, clashed, count>> /\ doing'[c] = "lineage"
          /\ \A d \in Callers \ {c} : doing'[d] = doing[d] /\ attempt'[d] = attempt[d]
      BY <2>0, <2>7 DEF Persist, Recorded
    <3>2. QED
      BY <2>0, <3>1
  <2>8. ASSUME NEW c \in Callers, Lineage(c) PROVE Inv'
    BY <2>2, <2>8 DEF Lineage
  <2>9. ASSUME NEW c \in Callers, Refused(c) PROVE Inv'
    <3>1. UNCHANGED <<count, table, raised, clashed>> /\ doing[c] \in {"persist", "lineage"}
          /\ \A d \in Callers \ {c} : doing'[d] = doing[d] /\ attempt'[d] = attempt[d]
      BY <2>9 DEF Refused
    <3>2. (doing'[c] = "idle" /\ attempt'[c] = Retries) \/ doing'[c] = doing[c]
      BY <2>9 DEF Refused
    <3>3. QED
      BY <2>0, <3>1, <3>2
  <2>10. ASSUME NEW c \in Callers, Clashes(c) PROVE Inv'
    BY <2>2, <2>10 DEF Clashes
  <2>11. CASE OthersConnect \/ UNCHANGED alertVars
    BY <2>0, <2>11 DEF OthersConnect, alertVars
  <2>12. QED
    BY <2>1, <2>3, <2>4, <2>5, <2>6, <2>7, <2>8, <2>9, <2>10, <2>11 DEF AlertNext, Dispatch
<1>3. Inv => OnlyABusyWarehouseLosesAlerts
  BY DEF OnlyABusyWarehouseLosesAlerts
<1>4. QED
  BY <1>1, <1>2, <1>3, AlertsTyped, PTL DEF AlertSpec
================================================================================
