----------------------------- MODULE AlertDispatch -----------------------------
(***************************************************************************)
(* alerts/dispatcher.py: dispatch_alert(), called by the processes that      *)
(* detect anomalies, check thresholds and run the pipeline.  It decides      *)
(* which channels an alert goes to, tries them one after another, and writes *)
(* the alert with the outcomes to the single-writer warehouse, whose lock    *)
(* connect_with_retry() asks for a bounded number of times.                  *)
(***************************************************************************)
EXTENDS Integers, Sequences, FiniteSets

CONSTANTS
  Callers,     \* processes that dispatch alerts
  Other,       \* any other process that has the warehouse open
  Reader,      \* a read-only connection, which may be in the caller's own process
  Nobody,      \* nobody has the warehouse open
  Severities,  \* severities the callers pass
  Configs,     \* contents of config/alerts.yaml and the webhook variables
  Retries,     \* retries of connect_with_retry
  MaxAlerts,   \* bound: alerts each caller dispatches
  MaxFaults    \* bound: configurations that do not load

SeverityOrder == <<"info", "warning", "critical">>
Channels == <<"slack", "webhook", "console">>
Alerts == Callers \X (1..MaxAlerts)

ASSUME AlertAssumption ==
  /\ {Other, Reader, Nobody} \cap Callers = {} /\ Cardinality({Other, Reader, Nobody}) = 3
  /\ Retries \in Nat \ {0} /\ MaxAlerts \in Nat /\ MaxFaults \in Nat
  /\ \A c \in Configs :
       /\ {c.enabled, c.slack, c.webhook, c.console} \subseteq BOOLEAN
       /\ c.minimum \in {SeverityOrder[k] : k \in DOMAIN SeverityOrder}
       /\ {c.url.slack, c.url.webhook} \subseteq {"unset", "valid", "malformed"}

VARIABLES
  config,    \* what load_alerts_config() reads
  holder,    \* who has the warehouse open
  doing,        \* what each caller is about to do
  count,     \* count[c]: the number of the alert c is dispatching, or has last
  severity,  \* its severity
  results,   \* the outcomes of its channels so far
  attempt,   \* connections refused to it so far
  table,     \* monitoring.alert_events: outcomes recorded for an alert
  sent,      \* history: <<alert, channel>> that was attempted or delivered
  raised,    \* history: callers that got an exception
  clashed,   \* history: callers whose alert met a connection of another mode
  faults

alertVars == <<config, holder, doing, count, severity, results, attempt, table, sent, raised, clashed, faults>>

Outcomes == {"none", "ok", "failed", "not_configured"}
NoResults == [slack |-> "none", webhook |-> "none", console |-> "none"]
Places == {"idle", "build", "slack", "webhook", "console", "persist", "lineage"}

AlertTypeOK ==
  /\ config \in Configs
  /\ holder \in {Other, Reader, Nobody} /\ clashed \subseteq Callers
  /\ doing \in [Callers -> Places] /\ count \in [Callers -> 0..MaxAlerts]
  /\ severity \in [Callers -> Severities]
  /\ results \in [Callers -> [slack : Outcomes, webhook : Outcomes, console : Outcomes]]
  /\ attempt \in [Callers -> 0..Retries]
  /\ \A a \in DOMAIN table : a \in Alerts
  /\ faults \in 0..MaxFaults

AlertInit ==
  /\ config \in Configs
  /\ holder = Nobody
  /\ doing = [c \in Callers |-> "idle"] /\ count = [c \in Callers |-> 0]
  /\ severity \in [Callers -> Severities]
  /\ results = [c \in Callers |-> NoResults]
  /\ attempt = [c \in Callers |-> 0]
  /\ table = [a \in {} |-> NoResults]
  /\ sent = {} /\ raised = {} /\ clashed = {} /\ faults = 0

-----------------------------------------------------------------------------
Alert(c) == <<c, count[c]>>

\* _severity_rank(): an unknown severity has the rank of the lowest.
Severity(s) ==
  IF \E k \in DOMAIN SeverityOrder : SeverityOrder[k] = s
  THEN CHOOSE k \in DOMAIN SeverityOrder : SeverityOrder[k] = s ELSE 1
MeetsMinimum(s) == Severity(s) >= Severity(config.minimum)

Enabled(channel) ==
  CASE channel = "slack" -> config.slack
    [] channel = "webhook" -> config.webhook
    [] channel = "console" -> config.console

\* The place after the first k channels: the next enabled one, or persist_alert().
After(k) ==
  LET open == {j \in (k + 1)..Len(Channels) : Enabled(Channels[j])}
  IN IF open = {} THEN "persist"
     ELSE Channels[CHOOSE j \in open : \A i \in open : j =< i]

Goto(c, place) == doing' = [doing EXCEPT ![c] = place]

\* dispatch_alert() is called; the configuration is loaded outside of any try.
Call(c, s) ==
  /\ doing[c] = "idle" /\ count[c] < MaxAlerts
  /\ count' = [count EXCEPT ![c] = @ + 1]
  /\ severity' = [severity EXCEPT ![c] = s]
  /\ results' = [results EXCEPT ![c] = NoResults]
  /\ attempt' = [attempt EXCEPT ![c] = 0]
  /\ clashed' = clashed \ {c}
  /\ Goto(c, "build")
  /\ UNCHANGED <<config, holder, table, sent, raised, faults>>

LoadFails(c) ==
  /\ doing[c] = "build" /\ faults < MaxFaults
  /\ faults' = faults + 1
  /\ raised' = raised \cup {c}
  /\ Goto(c, "idle")
  /\ UNCHANGED <<config, holder, count, severity, results, attempt, table, sent, clashed>>

\* build_alert(), and the decision to send or to skip.
Build(c) ==
  /\ doing[c] = "build"
  /\ Goto(c, IF config.enabled /\ MeetsMinimum(severity[c]) THEN After(0) ELSE "persist")
  /\ UNCHANGED <<config, holder, count, severity, results, attempt, table, sent, raised, clashed, faults>>

\* _post_json(): only a 2xx status is a delivery.
DeliveredIfAnswered(answer) == answer \in {"2xx", "5xx"}
Delivered(answer) == answer = "2xx"

\* _send_slack() and _send_webhook(), k the number of the channel.
Post(c, k) ==
  /\ k \in 1..2 /\ doing[c] = Channels[k]
  /\ config.url[Channels[k]] = "valid"
  /\ \E answer \in {"2xx", "5xx", "unreachable"} :
       /\ results' = [results EXCEPT ![c][Channels[k]] = IF Delivered(answer) THEN "ok" ELSE "failed"]
       /\ sent' = sent \cup {<<Alert(c), Channels[k], answer>>}
  /\ Goto(c, After(k))
  /\ UNCHANGED <<config, holder, count, severity, attempt, table, raised, clashed, faults>>

NotConfigured(c, k) ==
  /\ k \in 1..2 /\ doing[c] = Channels[k]
  /\ config.url[Channels[k]] = "unset"
  /\ results' = [results EXCEPT ![c][Channels[k]] = "not_configured"]
  /\ Goto(c, After(k))
  /\ UNCHANGED <<config, holder, count, severity, attempt, table, sent, raised, clashed, faults>>

AfterMalformedReturn == "idle"
AfterMalformed == "persist"

\* A URL that urllib rejects with a ValueError ends the whole loop over channels.
Malformed(c, k) ==
  /\ k \in 1..2 /\ doing[c] = Channels[k]
  /\ config.url[Channels[k]] = "malformed"
  /\ Goto(c, AfterMalformed)
  /\ UNCHANGED <<config, holder, count, severity, results, attempt, table, sent, raised, clashed, faults>>

Console(c) ==
  /\ doing[c] = "console"
  /\ results' = [results EXCEPT ![c].console = "ok"]
  /\ sent' = sent \cup {<<Alert(c), "console", "2xx">>}
  /\ Goto(c, "persist")
  /\ UNCHANGED <<config, holder, count, severity, attempt, table, raised, clashed, faults>>

-----------------------------------------------------------------------------
(* persist_alert(), with connect_with_retry()                               *)

Recorded(c) == [a \in DOMAIN table \cup {Alert(c)} |-> IF a = Alert(c) THEN results[c] ELSE table[a]]

Persist(c) ==
  /\ doing[c] = "persist" /\ holder = Nobody
  /\ table' = Recorded(c)
  /\ attempt' = [attempt EXCEPT ![c] = 0]
  /\ Goto(c, "lineage")
  /\ UNCHANGED <<config, holder, count, severity, results, sent, raised, clashed, faults>>

\* The lineage edge is a second connection; its failure is reported and dropped.
Lineage(c) ==
  /\ doing[c] = "lineage" /\ holder = Nobody
  /\ Goto(c, "idle")
  /\ UNCHANGED <<config, holder, count, severity, results, attempt, table, sent, raised, clashed, faults>>

LastAttempt(c) == attempt[c] = Retries - 1

\* The warehouse is open elsewhere: sleep and retry, or give up and return.
Refused(c) ==
  /\ doing[c] \in {"persist", "lineage"} /\ holder # Nobody
  /\ IF LastAttempt(c)
     THEN Goto(c, "idle") /\ attempt' = [attempt EXCEPT ![c] = Retries]
     ELSE attempt' = [attempt EXCEPT ![c] = (@ + 1) % Retries] /\ UNCHANGED doing
  /\ UNCHANGED <<config, holder, count, severity, results, table, sent, raised, clashed, faults>>

\* The reader is in the caller's own process, as in the API: DuckDB's error about two
\* modes of one file is no IOException, and is not retried.
Clashes(c) ==
  /\ doing[c] \in {"persist", "lineage"} /\ holder = Reader
  /\ clashed' = clashed \cup {c}
  /\ Goto(c, "idle")
  /\ UNCHANGED <<config, holder, count, severity, results, attempt, table, sent, raised, faults>>

OthersConnect ==
  /\ holder' \in {Other, Reader, Nobody} \ {holder}
  /\ UNCHANGED <<config, doing, count, severity, results, attempt, table, sent, raised, clashed, faults>>

Dispatch(c) ==
  \/ Build(c) \/ LoadFails(c) \/ Console(c) \/ Persist(c) \/ Lineage(c) \/ Refused(c) \/ Clashes(c)
  \/ \E k \in 1..2 : Post(c, k) \/ NotConfigured(c, k) \/ Malformed(c, k)

AlertNext ==
  \/ \E c \in Callers : Dispatch(c) \/ \E s \in Severities : Call(c, s)
  \/ OthersConnect

AlertSpec == AlertInit /\ [][AlertNext]_alertVars

-----------------------------------------------------------------------------
(* Properties.                                                              *)

\* A recorded alert tells for each channel whether it was delivered there, and
\* nothing that was delivered is missing from its record.
RowsTellTheOutcome ==
  \A a \in DOMAIN table : \A k \in DOMAIN Channels :
    table[a][Channels[k]] = "ok" <=> <<a, Channels[k], "2xx">> \in sent

\* However the channels behave, an alert whose call has returned is recorded, unless
\* the warehouse was open elsewhere at every one of the attempts to connect, or open
\* in another mode in the caller's own process at one of them.
OnlyABusyWarehouseLosesAlerts ==
  \A c \in Callers \ raised :
    doing[c] = "idle" /\ count[c] > 0 => Alert(c) \in DOMAIN table \/ attempt[c] = Retries \/ c \in clashed
===============================================================================
