------------------------------ MODULE Monitoring ------------------------------
(***************************************************************************)
(* The monitoring pass that orchestration/realtime_flow.py runs after each *)
(* refresh: monitoring/metrics.py, monitoring/schema_drift.py, then        *)
(* anomalies/detector.py.  Each of the three keeps what it has seen in a   *)
(* small JSON file that it overwrites before it writes to the warehouse,   *)
(* and each may raise without stopping the next.                           *)
(*                                                                         *)
(* The warehouse changes only in a refresh, so a pass sees one snapshot.   *)
(* Quarantine files are written by other processes, at any time; those of  *)
(* batch and event files, whose run id is the name of their source file,   *)
(* are written again by every refresh.  Only a file's mtime tells one      *)
(* version from another, and writes in one tick of the clock share it.     *)
(* The alerts on stale heartbeats (metrics.py:338) look at nothing         *)
(* modelled here.                                                          *)
(***************************************************************************)
EXTENDS Detectors, FiniteSets

CONSTANTS
  Files,       \* quarantine files the ingestion may write, one per run
  Errors,      \* Errors[f]: the JSONSchema keywords that f's records violate
  Retailers,
  Snapshots,   \* Snapshots[s]: what a refresh may leave in the warehouse
  MaxQuarantinePercent, \* thresholds.quarantine_rate of config/alerts.yaml
  Moments,     \* bound: stages in which other processes write quarantine files
  MaxVersion,  \* bound: changes of one file, two for each time it is written
  MaxPasses,   \* bound: refreshes that are followed by a pass
  MaxBeat,     \* bound: events the generator counts in one process
  MaxFresh,    \* bound: events produced and not in a recorded rate yet
  MaxBusy,     \* bound: connections that stay locked for all their retries
  MaxCrashes   \* bound: process deaths during a pass

ASSUME MonitoringAssumption ==
  /\ IsFiniteSet(Files) /\ Nothing \notin Files
  /\ Errors \in [Files -> SUBSET STRING]
  /\ {MaxQuarantinePercent, MaxVersion, MaxPasses, MaxBeat, MaxFresh, MaxBusy, MaxCrashes} \subseteq Nat
  /\ DOMAIN Snapshots # {} /\ \A s \in DOMAIN Snapshots : Snapshots[s].health \in [Retailers -> Int]

VARIABLES
  refreshed, \* the batch and event files; the others are Mongo's, written once
  version,  \* version[f]: changes of f so far: 0 absent, odd emptied, even complete
  stamp,    \* stamp[f]: st_mtime of f, by the first version that had it
  blurred,  \* history: files changed under a stamp that a scan had taken
  snapshot, \* the warehouse, by its name in Snapshots
  beat,     \* the events counted in the generator's heartbeat file, or Nothing
  fresh,    \* history: events the generator has produced less those in recorded rates
  sampled,  \* _monitoring_metrics_baseline.json: the count of the last sample
  seen,     \* _schema_drift_seen.json: seen[f] is the stamp f was scanned at, or 0
  health,   \* _anomaly_baseline.json: the EWMA of each retailer's score
  pc,
  rate,     \* the event rate to be recorded, or Nothing
  known,    \* the seen state the scan started from
  current,  \* the seen state the scan builds
  todo,     \* files of the glob not looked at yet
  at,       \* the file that was stat'ed but not read, or Nothing
  drift,    \* the drift events found by this scan, one row for those of a file
  found,    \* anomalies found by this pass
  next,     \* the baseline the pass will save
  reports,  \* schema_drift_events
  rows,     \* what the latest pass added to anomaly_events
  pages,    \* its anomaly_detected alerts: the rows they refer to
  notices,  \* the other alerts of the latest pass
  lost,     \* history: drift events that a failed write dropped
  passes, busy, crashes, torn

quarantine == <<refreshed, version, stamp, blurred>>
world    == <<quarantine, snapshot, beat, fresh>>
saved    == <<sampled, seen, health>>
scanning == <<known, current, todo, at, drift>>
memory   == <<rate, scanning, found, next>>
tables   == <<reports, rows, pages, notices>>
bounds   == <<passes, busy, crashes, torn>>
vars     == <<world, saved, pc, memory, tables, lost, bounds>>

MetricStages == {"metrics", "sample", "writeSample", "recordMetrics", "metricLineage", "thresholds"}
DriftStages == {"drift", "scan", "saveSeen", "writeSeen", "recordDrift", "driftLineage", "driftAlert"}
AnomalyStages == {"detect", "saveHealth", "writeHealth", "recordAnomalies", "anomalyLineage", "anomalyAlerts"}

DriftRows == [file : Files, version : Nat, under : Nat, pass : Nat]
NothingSeen == [f \in Files |-> 0]
NoBaseline == [r \in Retailers |-> Nothing]
Events == 0..MaxBeat
Counts == Events \cup {Nothing}
Scores == Int \cup {Nothing}

TypeOK ==
  /\ {version, stamp} \subseteq [Files -> Nat] /\ {refreshed, blurred} \subseteq SUBSET Files
  /\ snapshot \in DOMAIN Snapshots
  /\ beat \in Counts /\ sampled \in Counts /\ rate \in Counts
  /\ fresh \in Int
  /\ {seen, known, current} \subseteq [Files -> Nat]
  /\ {health, next} \subseteq [Retailers -> Scores]
  /\ pc \in MetricStages \cup DriftStages \cup AnomalyStages \cup {"idle"}
  /\ todo \subseteq Files /\ at \in Files \cup {Nothing}
  /\ drift \cup reports \cup lost \subseteq DriftRows
  /\ passes \in 0..MaxPasses /\ busy \in 0..MaxBusy
  /\ crashes \in 0..MaxCrashes /\ torn \in 0..crashes

Forgotten ==
  /\ rate' = Nothing /\ known' = NothingSeen /\ current' = NothingSeen
  /\ todo' = {} /\ at' = Nothing /\ drift' = {}
  /\ found' = {} /\ next' = NoBaseline

\* Earlier processes may have left quarantine files and a sample of the stream.
Init ==
  /\ refreshed \in SUBSET Files /\ version \in [Files -> {0, 2}] /\ stamp = version /\ blurred = {}
  /\ snapshot = CHOOSE s \in DOMAIN Snapshots : TRUE
  /\ beat \in Counts /\ sampled = beat /\ fresh = 0
  /\ seen = NothingSeen /\ health = NoBaseline
  /\ pc = "idle"
  /\ rate = Nothing /\ known = NothingSeen /\ current = NothingSeen
  /\ todo = {} /\ at = Nothing /\ drift = {} /\ found = {} /\ next = NoBaseline
  /\ reports = {} /\ rows = {} /\ pages = {} /\ notices = {}
  /\ lost = {} /\ passes = 0 /\ busy = 0 /\ crashes = 0 /\ torn = 0

-----------------------------------------------------------------------------
(* The surroundings.                                                        *)

Complete(v) == v > 0 /\ v % 2 = 0

Taken(f) == {seen[f], known[f], current[f]}

\* The files change to these versions; those of "same" in the tick of their last change.
Change(versions, same) ==
  /\ \A f \in Files : versions[f] # version[f] => versions[f] =< MaxVersion
  /\ version' = versions /\ refreshed' = refreshed
  /\ stamp' = [f \in Files |-> IF versions[f] = version[f] \/ f \in same THEN stamp[f] ELSE versions[f]]
  /\ blurred' = {f \in Files : stamp'[f] = stamp[f]
                  /\ (f \in blurred \/ (versions[f] # version[f] /\ stamp[f] \in Taken(f)))}

\* write_text() of a quarantine file by another process that ingests: emptied, then filled.
OpenFile(f, same) ==
  /\ pc \in Moments /\ (version[f] = 0 \/ (f \in refreshed /\ Complete(version[f])))
  /\ same => stamp[f] # 0
  /\ Change([version EXCEPT ![f] = version[f] + 1], {g \in {f} : same})
  /\ UNCHANGED <<snapshot, beat, fresh, saved, pc, memory, tables, lost, bounds>>

FillFile(f, same) ==
  /\ pc \in Moments /\ version[f] % 2 = 1
  /\ Change([version EXCEPT ![f] = version[f] + 1], {g \in {f} : same})
  /\ UNCHANGED <<snapshot, beat, fresh, saved, pc, memory, tables, lost, bounds>>

\* The generator's heartbeat: its own counter goes on, or starts again in a new
\* process.  A pass reads it once, so it need not move while one runs.
Generate(n, restarted) ==
  /\ pc = "idle" /\ passes < MaxPasses /\ fresh + n =< MaxFresh
  /\ fresh' = fresh + n
  /\ beat' = IF restarted \/ beat = Nothing THEN n ELSE beat + n
  /\ beat' # beat /\ beat' =< MaxBeat
  /\ UNCHANGED <<quarantine, snapshot, saved, pc, memory, tables, lost, bounds>>

\* The next complete version.
Rewritten(v) == IF v % 2 = 0 THEN v + 2 ELSE v + 1

\* A refresh has ingested all batch and event files, those whose source is new too,
\* and succeeds: _run_monitoring_pass().
StartPass(s, new, same) ==
  /\ pc = "idle" /\ passes < MaxPasses
  /\ \A f \in new : version[f] = 0
  /\ \A f \in same : stamp[f] # 0
  /\ Change([f \in Files |-> IF f \in refreshed /\ (version[f] # 0 \/ f \in new)
                            THEN Rewritten(version[f]) ELSE version[f]], same)
  /\ snapshot' = s
  /\ passes' = passes + 1
  /\ pc' = "metrics"
  /\ rows' = {} /\ pages' = {} /\ notices' = {}
  /\ UNCHANGED <<beat, fresh, saved, memory, reports, lost, busy, crashes, torn>>

NoNextStage == "idle"

\* The stage after the one that ends or raises.
NextStage ==
  CASE pc \in MetricStages -> "drift"
    [] pc \in DriftStages -> "detect"
    [] OTHER -> "idle"

\* connect_with_retry() raises after its last attempt; so does the rest of the stage.
ConnectFails ==
  /\ pc \in {"metrics", "recordMetrics", "metricLineage", "recordDrift", "driftLineage",
             "detect", "recordAnomalies", "anomalyLineage"}
  /\ busy < MaxBusy
  /\ busy' = busy + 1
  /\ lost' = IF pc = "recordDrift" THEN lost \cup drift ELSE lost
  /\ pc' = NextStage
  /\ Forgotten
  /\ UNCHANGED <<world, saved, tables, passes, crashes, torn>>

Saving == {"writeSample", "writeSeen", "writeHealth"}

\* The process dies and is started again; the state file it was writing is empty.
Crash ==
  /\ pc # "idle" /\ crashes < MaxCrashes
  /\ crashes' = crashes + 1
  /\ torn' = IF pc \in Saving THEN torn + 1 ELSE torn
  /\ lost' = IF pc = "recordDrift" THEN lost \cup drift ELSE lost
  /\ pc' = "idle"
  /\ Forgotten
  /\ UNCHANGED <<world, saved, tables, passes, busy>>

-----------------------------------------------------------------------------
(* run_all_metrics().                                                       *)

\* The quarantine_rate metric of ingestion_metrics(), against its threshold.
Exceeds(runs, percent) ==
  LET valid == SumFunction([e \in Entities |-> runs[e].valid])
      invalid == SumFunction([e \in Entities |-> runs[e].invalid])
  IN 100 * invalid > percent * (valid + invalid)

OpenMetrics ==
  /\ pc = "metrics"
  /\ pc' = "sample"
  /\ UNCHANGED <<world, saved, memory, tables, lost, bounds>>

RateIgnoringResets(total) ==
  IF sampled = Nothing THEN Nothing ELSE IF total < sampled THEN sampled - total ELSE total - sampled

\* _rate_since_baseline(), times the interval: a smaller count is a new process.
RateSinceBaseline(total) ==
  IF sampled = Nothing THEN Nothing ELSE IF total < sampled THEN total ELSE total - sampled

\* streaming_metrics(): nothing is sampled before the first heartbeat; the file
\* is emptied by _save_baseline() before it is filled.  The watcher's counter is
\* sampled in the same way.
SampleStream ==
  /\ pc = "sample"
  /\ rate' = IF beat = Nothing THEN Nothing ELSE RateSinceBaseline(beat)
  /\ sampled' = Nothing
  /\ pc' = "writeSample"
  /\ UNCHANGED <<world, seen, health, scanning, found, next, tables, lost, bounds>>

WriteSample ==
  /\ pc = "writeSample"
  /\ sampled' = beat
  /\ pc' = "recordMetrics"
  /\ UNCHANGED <<world, seen, health, memory, tables, lost, bounds>>

\* persist_metrics(); the rows of the other categories are never absent.
RecordMetrics ==
  /\ pc = "recordMetrics"
  /\ fresh' = IF rate = Nothing THEN fresh ELSE fresh - rate
  /\ pc' = "metricLineage"
  /\ UNCHANGED <<quarantine, snapshot, beat, saved, memory, tables, lost, bounds>>

MetricLineage ==
  /\ pc = "metricLineage"
  /\ pc' = "thresholds"
  /\ UNCHANGED <<world, saved, memory, tables, lost, bounds>>

\* _dispatch_threshold_alerts(): too many of the sampled documents are invalid.
ThresholdAlerts ==
  /\ pc = "thresholds"
  /\ notices' = IF Exceeds(Snapshots[snapshot].runs, MaxQuarantinePercent)
                THEN notices \cup {"quarantine_rate_spike"} ELSE notices
  /\ rate' = Nothing
  /\ pc' = "drift"
  /\ UNCHANGED <<world, saved, scanning, found, next, reports, rows, pages, lost, bounds>>

-----------------------------------------------------------------------------
(* scan_quarantine_for_drift() and persist_drift_events().                  *)

DriftType(keyword) ==
  CASE keyword = "required" -> "missing_field"
    [] keyword = "additionalProperties" -> "new_field"
    [] keyword \in {"type", "pattern"} -> "type_mismatch"
    [] keyword \in {"enum", "const"} -> "enum_violation"
    [] keyword = "format" -> "timestamp_format_issue"
    [] OTHER -> "other"

DriftSeverity(type) ==
  CASE type = "missing_field" -> "critical"
    [] type = "other" -> "info"
    [] OTHER -> "warning"

DriftSeverities(rs) == {DriftSeverity(DriftType(e)) : e \in UNION {Errors[r.file] : r \in rs}}

Highest(severities) ==
  CHOOSE s \in severities : \A t \in severities :
    \/ s = "critical" \/ t = s \/ t = "info"

\* _load_state(); the glob lists what exists now.
StartScan ==
  /\ pc = "drift"
  /\ known' = seen /\ current' = NothingSeen
  /\ todo' = {f \in Files : version[f] # 0}
  /\ pc' = "scan"
  /\ UNCHANGED <<world, saved, rate, at, drift, found, next, tables, lost, bounds>>

StatWithoutSkip(f) ==
  /\ pc = "scan" /\ at = Nothing /\ f \in todo
  /\ todo' = todo \ {f}
  /\ current' = [current EXCEPT ![f] = stamp[f]]
  /\ at' = f
  /\ UNCHANGED <<world, saved, pc, rate, known, drift, found, next, tables, lost, bounds>>

\* path.stat(): the stamp is noted before the file is read.
StatFile(f) ==
  /\ pc = "scan" /\ at = Nothing /\ f \in todo
  /\ todo' = todo \ {f}
  /\ current' = [current EXCEPT ![f] = stamp[f]]
  /\ at' = IF known[f] = stamp[f] THEN Nothing ELSE f
  /\ UNCHANGED <<world, saved, pc, rate, known, drift, found, next, tables, lost, bounds>>

EventsOf(f) == [file |-> f, version |-> version[f], under |-> current[f], pass |-> passes]

\* A file that is not filled yet does not parse and is passed over.
ReadFile ==
  /\ pc = "scan" /\ at # Nothing
  /\ drift' = IF Complete(version[at]) THEN drift \cup {EventsOf(at)} ELSE drift
  /\ at' = Nothing
  /\ UNCHANGED <<world, saved, pc, rate, known, current, todo, found, next, tables, lost, bounds>>

EndScan ==
  /\ pc = "scan" /\ at = Nothing /\ todo = {}
  /\ pc' = "saveSeen"
  /\ UNCHANGED <<world, saved, memory, tables, lost, bounds>>

SaveSeen ==
  /\ pc = "saveSeen"
  /\ seen' = NothingSeen
  /\ pc' = "writeSeen"
  /\ UNCHANGED <<world, sampled, health, memory, tables, lost, bounds>>

WriteStampsOfNow ==
  /\ pc = "writeSeen"
  /\ seen' = stamp
  /\ pc' = "recordDrift"
  /\ UNCHANGED <<world, sampled, health, memory, tables, lost, bounds>>

WriteSeen ==
  /\ pc = "writeSeen"
  /\ seen' = current
  /\ pc' = "recordDrift"
  /\ UNCHANGED <<world, sampled, health, memory, tables, lost, bounds>>

\* persist_drift_events(); without events it stops after _ensure_tables().
RecordDrift ==
  /\ pc = "recordDrift"
  /\ reports' = reports \cup drift
  /\ IF DriftSeverities(drift) = {} THEN pc' = "detect" /\ Forgotten
                               ELSE pc' = "driftLineage" /\ UNCHANGED memory
  /\ UNCHANGED <<world, saved, rows, pages, notices, lost, bounds>>

DriftLineage ==
  /\ pc = "driftLineage"
  /\ pc' = "driftAlert"
  /\ UNCHANGED <<world, saved, memory, tables, lost, bounds>>

\* _dispatch_summary_alert(): one alert for the whole scan.
DriftAlert ==
  /\ pc = "driftAlert"
  /\ notices' = notices \cup {Highest(DriftSeverities(drift))}
  /\ pc' = "detect"
  /\ Forgotten
  /\ UNCHANGED <<world, saved, reports, rows, pages, lost, bounds>>

-----------------------------------------------------------------------------
(* run_all_detectors().                                                     *)

Stateless == [s \in DOMAIN Snapshots |-> SnapshotAnomalies(Snapshots[s])]

\* A detector that raises reports nothing; the health detector reads its file here
\* and lets the baseline follow the score, degraded or not.
Detect(healthRaises) ==
  /\ pc = "detect"
  /\ LET scores == Snapshots[snapshot].health
     IN /\ found' = Stateless[snapshot] \cup (IF healthRaises THEN {} ELSE HealthAnomalies(scores, health))
        /\ next' = [r \in Retailers |-> EwmaUpdate(health[r], scores[r])]
  /\ pc' = IF healthRaises THEN "recordAnomalies" ELSE "saveHealth"
  /\ UNCHANGED <<world, saved, rate, scanning, tables, lost, bounds>>

SaveHealth ==
  /\ pc = "saveHealth"
  /\ health' = NoBaseline
  /\ pc' = "writeHealth"
  /\ UNCHANGED <<world, sampled, seen, memory, tables, lost, bounds>>

WriteHealth ==
  /\ pc = "writeHealth"
  /\ health' = next
  /\ pc' = "recordAnomalies"
  /\ UNCHANGED <<world, sampled, seen, memory, tables, lost, bounds>>

\* persist_anomalies(); without anomalies the pass is over.
RecordAnomalies ==
  /\ pc = "recordAnomalies"
  /\ rows' = rows \cup found
  /\ IF found = {} THEN pc' = "idle" /\ Forgotten
                   ELSE pc' = "anomalyLineage" /\ UNCHANGED memory
  /\ UNCHANGED <<world, saved, reports, pages, notices, lost, bounds>>

AnomalyLineage ==
  /\ pc = "anomalyLineage"
  /\ pc' = "anomalyAlerts"
  /\ UNCHANGED <<world, saved, memory, tables, lost, bounds>>

AlertsBeforeRows ==
  /\ pc = "recordAnomalies"
  /\ pages' = pages \cup found
  /\ pc' = "idle"
  /\ Forgotten
  /\ UNCHANGED <<world, saved, reports, rows, notices, lost, bounds>>

\* One anomaly_detected alert per anomaly; the pass ends.
AnomalyAlerts ==
  /\ pc = "anomalyAlerts"
  /\ pages' = pages \cup found
  /\ pc' = "idle"
  /\ Forgotten
  /\ UNCHANGED <<world, saved, reports, rows, notices, lost, bounds>>

-----------------------------------------------------------------------------

PassStep ==
  \/ OpenMetrics \/ SampleStream \/ RecordMetrics \/ MetricLineage
  \/ WriteSample \/ ThresholdAlerts
  \/ StartScan \/ ReadFile \/ EndScan \/ SaveSeen \/ WriteSeen
  \/ \E f \in Files : StatFile(f)
  \/ RecordDrift \/ DriftLineage \/ DriftAlert
  \/ \E raises \in BOOLEAN : Detect(raises)
  \/ SaveHealth \/ WriteHealth \/ RecordAnomalies \/ AnomalyLineage \/ AnomalyAlerts

Next ==
  \/ PassStep
  \/ ConnectFails \/ Crash
  \/ \E f \in Files, same \in BOOLEAN : OpenFile(f, same) \/ FillFile(f, same)
  \/ \E n \in {0, 1}, restarted \in BOOLEAN : Generate(n, restarted)
  \/ \E s \in DOMAIN Snapshots, new \in SUBSET refreshed, same \in SUBSET refreshed : StartPass(s, new, same)

Spec == Init /\ [][Next]_vars

\* The pass runs in the refresh's thread, which goes on as long as it lives.
Fairness == WF_vars(PassStep)

LiveSpec == Spec /\ Fairness

-----------------------------------------------------------------------------
(* What the pass promises.                                                  *)

\* The file as it is now has its drift events in the table, or they are on their way
\* there, or a failed write dropped them.
ToldOf(f) ==
  \E r \in reports \cup lost \cup (IF pc = "recordDrift" THEN drift ELSE {}) :
    r.file = f /\ r.version = version[f]

\* A complete quarantine file that no later scan will look at, because the state file
\* has its stamp, is told of in the version it has, though it was being written while
\* it was scanned and is written again by every refresh: only a change in the tick of
\* the stamp that was taken can hide a version.
SeenFilesAreReported ==
  \A f \in Files : seen[f] = stamp[f] /\ Complete(version[f]) /\ f \notin blurred => ToldOf(f)

\* The drift of one version of a file is in the table twice only if a scan began before
\* the file was complete, so that it has two stamps, or if a torn state file lost one.
RepeatsNeedALostStamp ==
  \A x, y \in reports :
    x.file = y.file /\ x.version = y.version /\ x.under = y.under => torn > 0 \/ x = y

\* What the docstring of the scan says of it, that a quarantine file is not processed
\* again while it is the same: not so, as the refresh before each pass writes every
\* batch and event file again.
TreeIsNotReprocessed ==
  torn = 0 => \A x, y \in reports : x.file = y.file => x = y

\* An anomaly alert names a row that is in the table by then.
PagesReferToRows == pages \subseteq rows

\* The recorded event rates never add up to more events than the generator made,
\* however often it restarts, the samples are lost or the pass dies.
NoEventCountedTwice == fresh >= 0

\* A pass that starts comes to the detectors whatever its other stages raise,
\* unless the process dies.
PassReachesTheDetectors == pc = "metrics" ~> (pc = "detect" \/ crashes > 0)
===============================================================================
