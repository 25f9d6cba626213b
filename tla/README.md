# mini-faire: models, model checks and proofs

TLA+ modules for the parts of mini-faire whose difficulty lies in the order in which things
happen: files and change events that arrive while a refresh runs, processes that die between two
statements, several writers of one state file, agents that contradict each other, alerts that
must survive their channels, requests that interleave statement by statement. Every definition is
translated from the Python source; line ranges are in the `map` of `PROJECT.json`.

Check a configuration with `tlc -config <run>.cfg <module>.tla` (run and module are listed in
section 3), a proof module with `tlapm <module>.tla`: `RealtimeFlowProofs`, `FeedProofs`,
`ModelRegistryProofs`, `AgentFlowProofs`, `StreamGeneratorProofs`, `MonitoringProofs`,
`TenantsProofs`, `SimulationProofs` (the last takes some minutes).

## 1. Inventory of the system

| Component | State | Operations | Interacts with | What is hard | What makes it correct |
|---|---|---|---|---|---|
| `orchestration/realtime_flow.py` | `_seen`, `_pending_since`, `_rebuild_lock` | `poll_once`, `_trigger_rebuild`, `_run_rebuild_and_compute`, `force_refresh`, `run_forever` | source directories, ingestion, warehouse, compute, watcher, alerts | two threads, files rewritten mid-cycle, stage failures, restarts | one cycle at a time; what was there is published; nothing is forgotten |
| `ingestion/{batch,event}_ingestion.py` | raw zone `data/raw` | ingest a file, ingest all | validators, metadata, quarantine | globs while producers write, torn files | every file of the glob is ingested or the stage fails |
| `ingestion/mongo_change_stream.py` | streams, resume tokens (memory and file), backoff | `poll_once`, `_open`, `_backoff`, `close`, `run_forever` | MongoDB, `ingest_mongo_collection` | broken streams, crashes, torn token file | token never ahead of the raw zone; every stream recovers |
| `ingestion/mongo_ingest.py` | watermark file | `fetch_documents`, `ingest_mongo_collection`, `_advance_watermark` | MongoDB, raw zone, watcher, `MongoSink` | read-modify-write of one file by several processes, a file truncated before it is filled, equal stamps, batch boundaries, crashes | below the mark only late documents and ties are missing; all others arrive |
| `ml/registry.py`, `orchestration/ml_training_flow.py` | `ml.model_registry` | `register_model`, `activate_model`, `rollback_model`, gate, sanity check | warehouse | statements that commit one by one, stale reads | one active version; only better versions where versions are compared; safe rollback |
| `autonomy/*`, `orchestration/agent_flow.py` | digital twin, proposals, action and conflict tables | `decide`, `enforce_constraints`, `act`, `_resolve_and_apply`, `_persist_*` | twin, scenario engine, alerts, warehouse | contradicting agents, stale prices, partial persistence | one action per entity, by priority; complete records |
| `alerts/dispatcher.py` | `monitoring.alert_events` | `dispatch_alert`, `persist_alert` | HTTP channels, warehouse lock | channels that fail, a locked warehouse | recorded with the outcomes |
| `synthetic/stream_generator.py` | `pending`, heartbeat clock | `run_stream`, `_heartbeat`, `_process_pending` | file and MongoDB sinks | a list that grows while walked, pace, drain | lifecycle in order, nothing forgotten |
| `simulation/*`, `orchestration/simulation_flow.py` | twins, their agents, scenario and counterfactual results | `run_scenario`, `run_counterfactual`, the batch, setups, tick hooks | warehouse, lineage, alerts | isolation of clones and branches, a rebuild between two reads, partial failures | a scenario differs from its baseline by what it changed; records agree |
| `anomalies/`, `monitoring/` | anomaly, metric and drift tables, three baseline files | the pass after a refresh: measure, scan, detect | warehouse, quarantine files, alerts | files written again by every refresh, state saved before its rows, counters that restart, one of three raising | nothing counted twice; what counts as seen is reported; pages have rows |
| `multi_tenant/`, `auth/`, `ingestion/tenant_ingest.py` | tenants, users, refresh tokens, rate-limit buckets, tenant files and facts | signup, join, login, refresh, logout; suspend, delete, upgrade; ingest and rebuild | warehouse, metadata, API | check-then-insert, one call in several connections, files of one name | no orphan tenant, no duplicate account, tokens rotate, no writes for the suspended, the rate holds in every period |
| `ingestion/load_duckdb.py`, `warehouse/duckdb/models`, `compute/polars/` | staging tables, marts, `elt_model_runs`, compute tables | rebuild, compute | raw zone, warehouse | statements that commit one by one, fact models that load by a watermark they keep | tables follow their inputs but for rewrites the watermark holds back |
| `ingestion/metadata.py` | `ingestion_runs`, `lineage_edges` | upsert a run, upsert edges | every flow | rows lost on their own | rows describe what was written |
| `storage/`, `database/` | object stores, pools | put, get, connect with retry | vendor SDKs | retries, exhausted pools | bounded retries |
| `api/`, `frontend/`, `observability/`, `ml/models`, `ml/features` | none of their own | queries, pages, exporters, numerical code | warehouse | none of the above | |

Everything meets in one DuckDB file that admits one writing process at a time;
`connect_with_retry` (`ingestion/duckdb_utils.py`) waits for it a bounded number of times.

## 2. Modules

| Module | Models | State and actions |
|---|---|---|
| `RealtimeFlow` | `realtime_flow.py` with the ingestion, rebuild and compute stages it calls | `seen`, `pending` (`none`, `fresh`, `ripe` for the age of `_pending_since`), `lock` are the object's fields; `pc`, `dir`, `todo` where each thread is inside `poll_once` or a refresh; `disk`, `mtime`, `torn`, `stream` the sources (writes in one tick of the clock share an mtime); `raw`, `mart`, `published` the version of each item that reached a zone, `marks` the watermarks in `elt_model_runs`. `Poll`, `Mark`, `Due`, `Elapsed` are the parts of `poll_once` that other threads can separate; a refresh is `OpenDir`, `IngestFile`, `IngestDone`, `Rebuild` (each model moves its `Delta`, what is at or after its watermark or not in the mart yet, and adds its `RunRow`), `Compute`, `Report`, `Finish`, with `FailStage` (`FailRebuild` between any two statements of the models) and `ReportRaises` for its two ways of failing; `Restart` is `__init__` |
| `CheckpointedFeed` | what a consumer with durable checkpoints promises, however it is built | `sent`, `stored`, `start`, `mark`; an event may be stored twice, a checkpoint covers stored events only, and only a source without one starts over |
| `ChangeStream` | `mongo_change_stream.py` | An event is its position in the collection's history and a token the position it follows. `token` and `file` are the tokens in memory and on disk, `delay` and `waiting` the backoff. `Save` and `Write` are the truncation and the filling of the token file. `Feed` is the refinement mapping: the raw zone is the store, the token file the marks, the point where a stream was opened without a token the start |
| `MongoPoll` | `mongo_ingest.py`, with the processes that share its watermark file | `mark` is the content of the file and `markFile` whether it can be parsed, `copy` what a process has loaded of it; `Fetch`, `Store`, `LoadMarks`, `OpenMarks` (the truncation), `SaveMarks` (the filling) are the parts of `ingest_mongo_collection` that other processes can separate; `FailLoad` is the exception of a file that was left empty or garbled; `Stamp` and `Insert` are apart, so documents share stamps and appear in any order; `FeedOne` hands a document to a watcher or `MongoSink`. Its specification is `PollSpec` |
| `ModelRegistry` | `registry.py`, and the training flow as its client | `status` and `score` are the rows, `con` who holds the warehouse, `direction` how the model's versions are compared (`always` for the recommender, whose trainer skips the look-up of the active version: `SkipActive`); `Promote`/`Demote` and `Rollback`/`Restore` are the pairs of statements of one call |
| `AgentDecisions` | the five `decide()` functions | pure operators over a product, retailer or anomaly record; cents and hundredths instead of floats |
| `AgentFlow` | `agent_flow.py`, `enforce_constraints`, `act`, ticks | `Decide` per agent, `Resolve` (the proposals are sorted by `Precedence`, then claim their entity one after the other), one step per action that acts, `NextRound`, `LastRound`, `PersistAgent`, `PersistConflicts`. It EXTENDS `AgentDecisions`, so proposals are those the agents really make |
| `AlertDispatch` | `dispatcher.py`, `connect_with_retry` | one place per step of `dispatch_alert`; `table` is `monitoring.alert_events`; `holder` another process in the warehouse (`Refused`, then another attempt), or a connection of another mode in the same one (`Clashes`: no attempt more). Its specification is `AlertSpec` |
| `StreamGenerator` | `stream_generator.py` | `pending`, `index`, `kept` are the list, the walk and `still_pending`; the clock advances in `Sleep` and `SlowEmit` |
| `Detectors` | the eight detectors of `detector.py` | pure operators over the rows each one selects; quotients are compared by cross-multiplication, so nothing is rounded |
| `Monitoring` | the pass of `realtime_flow.py` 249-284: `metrics.py`, `schema_drift.py`, `detector.py`, one after the other | `sampled`, `seen`, `health` are the three state files, `known`, `current`, `at` a scan under way (a file is stat'ed, then read), `reports`, `rows`, `pages` the tables. It EXTENDS `Detectors`. `version` and `stamp` are a quarantine file's content and mtime: `StartPass` writes those of batch and event files again, as the refresh before each pass does, `OpenFile` and `FillFile` are other processes that truncate and fill them meanwhile, and writes in one tick of the clock share a stamp. `Generate` is the generator's beat |
| `Tenants` | `tenant_manager.py`, `auth_api.py`, `auth_models.py`, `tenant_ingest.py`, `tenant_elt.sql` | `at`, `call`, `saw`, `answer` are a request; one action per statement. Threads of the API interleave statement by statement, scripts hold the warehouse for a whole `with` block (`MidBlock`, `Free`) |
| `RateLimit` | the rate limiter of `auth_middleware.py` | pure operators: which of a client's requests get through, from the seconds they arrive at |
| `TwinAgents` | `digital_twin.py`, the three simulation agents, setups and tick hooks of `scenario_engine.py` | pure operators on a world: a twin with its agents and the number of random draws taken |
| `Counterfactuals` | `counterfactuals.py` | pure operators: the order set with or without some orders, its aggregates and differences, the twin the replay starts from |
| `Simulation` | `simulation_flow.py`, the run endpoints of `simulation_api.py`, `run_scenario`, `run_counterfactual` | one action per read or write of the warehouse, which is a connection of its own; `Rebuild` may come between any two. It EXTENDS the two modules above, so the numbers it writes are those the code computes |
| `*Proofs` | the theorems about the module of the name | `FeedProofs` is about `ChangeStream`, with the refinement of `CheckpointedFeed`, and `MongoPoll`; `MonitoringProofs` about `Monitoring` and `AlertDispatch`, two components that never share a step |
| `MC*` | instances for TLC | |

Abstractions used throughout. A file or document is an identity with a version number; content is
left out except for "does not parse". A floating-point metric is one of a few integers, or absent;
where arithmetic matters (prices, stock, baselines) fractions are whole numbers of hundredths. The
numbers of a seeded generator are a table that both branches read in the order of their draws.
A SQL statement is a step when another process, or a crash, can come between it and the next one,
and several of them are one step inside a connection that nobody else can enter and whose partial
effects nobody reads. History variables (`owed`, `noticed`, `base`, `checked`, `again`, `late`,
`repulled`, `cut`, `live`, `torn` of the registry, `calls`, `proposed`, `sent`, `clashed`, `log` and
`promised` of the generator, `blurred`, `fresh`, `lost`, `before`, the `parent` of a token) record what happened for the properties and never guard an action of the
program (`calls` bounds how many calls a person makes).

## 3. Runs

| Run (module) | What it asks | Bounds |
|---|---|---|
| `RealtimeFlow_cycles` (`MCRealtimeFlow`) | mutual exclusion, stage order, completeness of a successful cycle | a directory with a product and one with an order, the first written once and the second rewritten, a change-stream document with a later order, one `force_refresh` caller, one failure, one restart (6.8 million states) |
| `RealtimeFlow_live` (`MCRealtimeFlow`) | no lost wakeup; everything is published that neither the watermark nor a shared mtime hides | both files rewritten, the order's writes within a tick of the clock or not, one change-stream document, no failures (a failed cycle does lose work, see the next run) |
| `RealtimeFlow_retry` (`MCRealtimeFlow`) | expected violation: a failed cycle is retried | one failure |
| `ChangeStream_tokens` (`MCChangeStream`) | tokens against raw zone, replays, recovery, the refinement of `CheckpointedFeed` | two collections with two events each, two rejected `watch()` calls, one broken stream, one crash anywhere, backoff 1, 2, 3 |
| `MongoPoll_pull` (`MCMongoPoll`) | completeness of the polled collection, marks, no double pull, progress | a poller and a watcher of one collection, three documents over two collections, two stamps (ties and late arrivals happen), batches of one, two deaths |
| `ModelRegistry_training` (`ModelRegistry`) | one active version, promotions, rollbacks | one trainer of each direction, two calls by hand, three versions, three scores and none, two crashes (1,168,786 states) |
| `AgentFlow_rounds` (`MCAgentFlow`) | conflicts, limits, records | one product in eight states (sold out, free of charge and retired among them), one retailer in five, five lists of anomalies (one about a product the twin does not have and one of an unknown type), two rounds, two actions per agent, one failure |
| `AlertDispatch_records` (`MCAlertDispatch`) | record against channels, loss | two callers, all configurations, two attempts, one configuration that does not load, another writer and a reader in the same process |
| `StreamGenerator_events` (`StreamGenerator`) | forgotten events, lifecycle, pace and drain | three orders, two lags each, duration 9 s at an interval of 2 s, one slow emit, one emit that raises |
| `Monitoring_pass` (`MCMonitoring`) | what is seen, reported, counted and paged; that one monitor never stops the next | two passes over a calm and an alarming warehouse, one quarantine file that goes through four changes and is written by others during the scan, one retailer, two products, one event per process of the generator, one connection that stays locked, one crash (405,039 states) |
| `Tenants_requests` (`MCTenants`) | signups, addresses, tokens, schemas, suspension, facts, run rows | any three calls of every kind, one of them cut short; refresh tokens old and new; an empty inbox and three inbox files, two of one name; symmetry over the requests (3,040,144 states) |
| `Simulation_jobs` (`MCSimulation`) | records, isolation of branches and specs, stock, differences that add up | 15 jobs over every scenario and counterfactual type, two retailers and products, two builds of the warehouse, two rebuilds during a job, one refused connection |

Why these bounds are enough. Each is the least at which the interesting case and one more like it
happen: two directories so that one is globbed before and one after a write; a file's version
counts both the truncation and the filling of `write_text`, so a bound of 4 lets a file be
rewritten after a cycle, or a scan, has read it; an order older than the document's, so that it
falls behind the watermark before it is rewritten; one collection with two documents and two
stamps, so that a tie lies across the end of a batch and a document may come late; two collections so that a sweep passes one that is in backoff
to reach another, and a save writes a token it does not own; a batch of one so that every batch
ends inside a backlog; three versions so that a rollback can choose between two; two rounds so
that a second decision is made on the twin that the first one changed; two passes, and quarantine files that earlier processes
left, so that a file is scanned, written again and scanned again, with a crash or a torn state file
in between; three requests so that two may race
while a third changes what they have read; a rebuild before and one after each read of a job.
All scores, lags, configurations, product states and specs are chosen on both sides of each
threshold of the code. `MCMonitoring` also checks three operators (percentile, stockouts, a flat
history) against definitions over all small inputs, as assumptions TLC evaluates; `MCTenants` does
the same for the rate limiter: of all sequences of up to five requests in nine seconds, at a burst
of two and 25 a minute, it refuses exactly those with which some period would exceed the rate.
Deadlock is checked for `ChangeStream`, whose loop never stops; the other systems may really stop
(a main thread that died, a run that is over, a bound of calls that is used up). The `TypeOK` of
every module is proved (section 4), so the runs leave it out.

Fairness. `RealtimeFlow`: the main loop goes on (`run_forever` polls and sleeps a finite time),
a thread inside a refresh takes its next step, time passes, and a writer that truncated a file
fills it; weak fairness for each, none for producers, callers and failures. `ChangeStream`: the
loop of `run_forever`, the end of a backoff, and the supervisor that starts a dead process again.
`MongoPoll`: the scheduler runs the poller again and again, and a feeder's call that has begun goes
on. `Monitoring`: a pass that has begun goes on. No strong fairness anywhere, and none in the modules whose properties are all safety.

Every property of a passing run is violated by a plausible change of one definition, listed under
`mutants` in `PROJECT.json`.

## 4. What is proved

Each theorem holds for every value of the constants that its module's assumption admits (TLC
evaluates the assumptions on every run) and, where it says so, under one more hypothesis.

**`RealtimeFlowProofs`.** `TypeInvariant` (`TypeOK`), `AtMostOneRefresh` (`OneRefreshAtATime`),
`StagesStayInOrder` (`StagesInOrder`), `SuccessfulRefreshIsComplete` (`SuccessCoversBacklog`) and
`BacklogIsNoticed` (`BacklogHasWakeup`).
Mutual exclusion is inductive with `TypeOK`: only `Acquire` enters a refresh, and it requires the
lock to be free. Stage order needs that the raw zone is never newer than the disk and that a
document still in the stream is not ingested (`ZonesInv`): `Poll` and `IngestFile` are the only
writers of `raw`, and they must not lower a version that `mart` already has. A rebuild takes a row
from the raw zone, keeps it, or deletes it for the insert that follows (`MartRows`), and so does one
that fails between two statements. Completeness needs, for the thread inside a refresh, what is
already safe at each stage (`CycleProgress`): during ingestion every file of a directory that was
opened and is not in `todo` has reached the raw zone in the version that was owed or a later one;
afterwards the raw zone, then the marts, then the compute tables cover all that was owed, but for a
row that the mart has and that lies behind the watermark (`MartBehind`). A row the mart has not got
is loaded however old it is, so a late file is never what is held back: that is the second branch
of `Delta`, and without it the theorem fails. `LocalsClean` says that a thread outside a refresh
has no leftovers.
No lost wakeup is proved for the polling thread on its own, without injected stage failures and
restarts, the case `RealtimeFlow_live` is about; rewritten files, the watermark and mtimes that two
writes share are in it. Each of the three hypotheses is needed: a failed
cycle and a second thread's poll have their marker cleared by `Finish` (section 5), and a restart
takes the disk for seen. `WakeupInv` says which wakeup there is at each place: a poll that ends
without a marker leaves nothing behind unnoticed, a cycle owes all that the last scan noticed, and
one that fails, over a file that is torn, leaves that file still to be noticed, unless the clock
has disguised what became of it (`Unnoticed`). That a cycle which ends well published all it owed
and the watermark let pass is the completeness above (`EndsCovered`).

**`FeedProofs`, the watcher.** `TokensTyped` (`TypeOK`), `TokensFollowRaw` (`TokenNeverAheadOfRaw`),
`ReplaysAreBounded` (`ReplaysAreCrashes`) and `WatcherImplementsFeed` (`IsCheckpointedFeed`).
Tokens are copies of stream positions or of one another, so it is the stream that has to be
bounded: everything between the point where it was opened without a token (`base`) and its
position is in the raw zone, except the event in hand while the sweep is at `ingest`
(`StreamFollowsRaw`). `IdlePoll` and `Ingest` then copy a position that is covered, `Save` only
forgets, `Write` and `Restart` copy a token that is covered, and `OpenStream` either resumes from
a covered token or moves `base` to the end of the history, which no token has passed
(`TokensInHistory`).

Replays are a matter of counting: the events that were ingested twice, or still may be, lie in a
finite set no larger than the number of crashes (`PaidFor`). An event outside that set lies behind
every position it could be delivered from, the stream's, the token's and the file's (`Passed`); an
open, a rejected token and a broken stream keep it there (`NothingBecomesReplayable`), an ingested
event is soon there (`IngestKeepsPaidFor`), and of a crash only the event in hand, or the one
being saved, joins the set (`CrashPaysForOne`).

The refinement: every behaviour of `ChangeStream` is one of `CheckpointedFeed` under the mapping of
section 2. `Change` is `Publish`, `Ingest` is `Store`, a token file that is truncated or filled is
`Checkpoint`, a stream opened without a token is `StartOver`, all else stutters. Two facts beyond
the invariants above carry it: an event in hand is one that was published (`EventIsReal`), and
while the watcher sweeps, a collection without a token in memory has none in the file
(`TokenIsGone`). The second is what the immediate save after a rejected `watch()` is for; without
it `StartOver` has a checkpoint.

**`MonitoringProofs`, the dispatcher.** `AlertsTyped` (`AlertTypeOK`), `RecordsAreTrue` (`RowsTellTheOutcome`) and
`BusyWarehouseOnly` (`OnlyABusyWarehouseLosesAlerts`: a warehouse that was open elsewhere at every
attempt, or in another mode in the same process at one). A row is a copy of a call's results, so
the results have to agree with what was sent all along (`ResultsTellDeliveries`), channels not yet
tried have none (`UntriedHaveNone`), nothing was sent for alerts to come (`NothingAhead`), and an
alert's results are complete when it is written (`RecordedAtTheEnd`).

**`ModelRegistryProofs`.** `StatusIsHistory` (`TypeOK` and `StatusTellsHistory`): a version is
active, superseded or rolled back exactly if it was active once. `OneVersionIsActive`
(`OneActiveUnlessCrashed`) for callers that name versions that exist (`~StrayRequests`):
`OneActiveBetweenCalls` adds to the property what holds between the two statements of a call, the
version that is about to be demoted or restored. `PromotionsImprove` (`PromotionImproves`) and
`RollbacksAreSafe` (`RollbackIsSafe`) for a trainer on its own (`LoneTrainer`, and nobody called by
hand): `ReadsStillHold` says that what it read connections ago is still so. With two trainers both
are false (section 5), so the hypotheses are not there for the prover's convenience. A promotion
need not improve where versions are not compared, so `PromotionImproves` is about the directions
other than `always`; all else holds for that one too. `OneVersionIsActive` excepts only deaths
between two statements of one call (`torn`): a process that dies between its calls leaves the
registry sound.

**`FeedProofs`, the poller.** `MarksTell` (`PollTypeOK` and `MarkTellsWhatIsStored`), for documents
with any stamps that appear in any order: below the mark nothing is missing but what the strict
comparison cannot tell from a stored document (`Excused`), one that came late or one whose stamp a
stored one has. Every copy of the watermark file that any process holds is as sound as the file
itself (`MarksAreSound`), so a lost update may move a mark back but never past what is stored, and
one that is cut short loses the file, not its soundness. Advancing it needs that a batch is all
that is new up to its newest document (`NoGapBelow`, with `TakenWith`) and that it was stored
before (`BatchInHand`). `PulledOnlyOnce` (`PulledOnce`) needs a poller that has its collections to
itself (two pollers, each with the mark it loaded, pull the same batch; TLC finds that). As long as
no feeder has finished with a document, and so written the file (`Undisturbed`), what is stored is
not above its mark but for the batch in hand between `Store` and `SaveMarks`, what was in hand when
a run ended early, and what feeders hold; and the batch in hand lies above the mark
(`PollerIsAlone`).

**`MonitoringProofs`, the pass.** `MonitoringTyped` (`TypeOK`) and four properties, for any
snapshots, files and number of passes, with connections that stay locked, torn state files and
crashes. `RatesAddUp` (`NoEventCountedTwice`): what the generator has produced and no recorded
rate has counted (`fresh`) covers both the rate on its way to the table and what the next sample
would give (`RateIsFresh`, with `SampleIsTaken`: the sample saved is the one the rate was taken
at); a restart of the generator keeps that, and a lost sample or rate only leaves more uncounted.
`SeenFilesReported` (`SeenFilesAreReported`) and `RepeatsHaveAReason` (`RepeatsNeedALostStamp`)
share `DriftInv`, which is stated as `DriftIsTold`, for files that every refresh and any other
process truncate and fill again while the scan is at them, in a new tick of the clock or in that of
the last change. A step of the files is to a later version, under a new stamp or under an old one
that then counts as blurred if a scan had taken it (`FilesGoOn`). So stamps that were taken are
never ahead of the file's, and that is never ahead of its version (`StampsAreBehind`); what the scan
has the present stamp of is reported in the present version, or on its way (`ScannedAreReported`);
the stamp a row was read under is not ahead of the state file unless one was torn
(`ReportsAreSeen`), so that a file which is read again is read under a later stamp
(`RepeatsAreUnderNewStamps`). A scan gives a file one row at most, under the stamp it took before it
read it (`RowsAreOfThisScan`).
`PagesHaveRows` (`PagesReferToRows`): once the rows are written a pass turns only to what it wrote.

**`TenantsProofs`.** `TypeOK` and seven properties, for any number of requests, any inbox files and any
failures. All rest on `Ordered`: each call takes the statements of its own path (`OnPath`), and
what had ended when a request came in stays ended (`Timely`).

- `AddressesAreShared` (`OneAccountPerAddress`). A signup or join that has passed its look-up saw
  the address free, so any other account of that address is of a request that had not ended when
  it came in (`AddressWasFree`).
- `TokensRotate` (`RenewedOnce`). Requests pass the check, the revocation and the issue in that
  order (`OnTheirPath`), a token that was exchanged or given up is revoked for good
  (`SpentIsRevoked`), and a request that has passed the check came in before the token was spent
  (`WasUnspent`).
- `SignupsLeaveWholeTenants` (`SignupsAreWhole`). `SignupInv` says what a signup has left at each
  place of its path (`SignupTold`), and that an account belongs to a request which goes on to its
  token, in a tenant that exists (`AccountTold`); no statement of another request takes any of it
  back (`StoresGrow`).
- `HardDeletesTakeTheSchema` (`HardDeleteLeavesNoSchema`). A schema is named by its tenant's row or
  was left by an upgrade that did not come to its end (`SchemasTold`), and the record a deletion
  read is still right about that, or an upgrade came in meanwhile (`DeleteTold`).
- `TenantsTyped` (`TypeOK`). It needs the previous one's invariant, for schemas belong to tenants,
  and that a request about to issue a token has an account that exists (`RowsTyped`).
- `SuspensionsHold` (`SuspensionHolds`). A tenant whose suspension is over is active only if
  somebody made it so since (`SuspensionTold`), so whoever writes a file had found its tenant
  active, and all suspensions it came in after were taken back (`WritingTold`).
- `RunsDescribeTheirFiles` (`RunRowsDescribeTheirFiles`). An ingestion has left the end of its list
  (`PlacedTold`); for the files before it, row and file agree, or another ingestion overlaps and
  writes the same name (`IngestTold`); between calls a row agrees with its file, or two wrote it
  at once, or one stopped half way (`Settled`).
- `RebuildsAreComplete` (`RebuildIsComplete`). What an ingestion wrote lies where it was written
  unless another file of its name exists (`StoreInv`); an order of it is in the table a rebuild has
  loaded, then among the rows it has read, then in the facts, or another rebuild is between its two
  statements and puts it back (`RebuildTold`).

**`StreamGeneratorProofs`.** `TimeIsAlwaysKept` (`LoopKeepsTime`). Beats are due on a fixed grid and
the last one was not early (`OnTheGrid`), and a round of the drain begins before the deadline
(`RoundsBeginInTime`), so that only slow emits can take it past it.
`NothingIsLost` (`NoEventIsLost`): what was promised and not yet emitted is exactly what the list
still holds, the part the walk has kept and the part from its index on, each event once
(`Accounted`); the lemmas `KeepLeaves`, `TakeLeaves`, `GrowLeaves` and `SwapLeaves` say what each
move of a walk over a growing list does to that set. `GeneratorTyped` (`TypeOK`) rests on it too:
the index stays within the list, what was kept is behind it, and an event in the list is about an
order there is (`ListTyped`). `LivesAreInOrder` (`LifecycleInOrder`): each
entry of the log follows the one it waits for and by no less than its delay (`NotEarly`), and an
event that waits may be emitted when it is due and has not been before (`Awaited`).

**`AgentFlowProofs`.** `TypeCorrect` (`TypeOK`), `ConflictsSettled` (`ConflictsAreSettled`),
`SuccessesAreComplete` (`SuccessfulRunsAreComplete`) and `PricesWithinLimits`
(`PricesMoveWithinLimits`, an action property), for any twin, any open anomalies and any number of
rounds, limits and failures. All follow from one invariant, `FlowInv` (`FlowIsSettled`). What it
says of a round starts with what an agent proposes: every candidate has the sorts of an action and
names the price it was decided on (`SoundCandidates`), and capping and enumerating candidates
proposes none twice (`CollectedOK`). `sorted()` is a permutation of its input in the order of the
keys, whatever the keys (`PlacesArePermuted`, `SortedIsPermuted`); the resolution is a loop over
it, of which `Resolved` is the invariant: one winner per entity, which comes first (`Settled`), a
conflict per loser that names the winner, and nobody missing (`Accounted`). `SettledOK` carries
that from round to round, for rounds keep the identities of actions apart (`PhaseOK`). `SavedOK`
says of the rows what the persistence of an agent that succeeded has left. `LimitsOK` says that
what is still to act is within the limits of the price the product has now: no entity has two
actions, so no action moves the price another one was limited by; that is why the resolution
matters for the prices. A free product is the exception the property names: a quarter of nothing
is no limit.

**`SimulationProofs`.** `TypeCorrect` (`TypeOK`) and five properties, for any jobs, any builds of
the warehouse, and any number of rebuilds and of faults. Assumed are prices and stocks that are
absent or not negative (`contracts/product.schema.json`), and of a price change that its price is
positive (a demand curve has no value for another one).

- `RunRowsTell` (`RunRowsTellTheOutcome`). Where a job is tells what has been written for the spec
  it is at (`CurrentTold`); what was written for earlier specs is told by their rows, and nothing
  is there for later ones (`PastTold`).
- `BaselinesAreProjections` (`BaselinesAreTheProjection`). Every row is what the two branches of
  its scenario, or the two pasts of its counterfactual, compute from the twin that was loaded and
  from reads that some build of the warehouse answered (`ResultsInv`, with `Told`). The properties
  below need no more of the job: they are about all such rows.
- `DifferencesAddUp` (`DiffsAddUp`). Totals by key add up to the total over the orders, however
  the keys divide them, and the differences of totals to the difference.
- `StockIsAccounted` (`StockIsAccountedFor`). Every operation of the twin, every agent's step,
  every setup and every hook takes a world in which what is left of each product is what there was
  and came in, less what was sold (`Worlds`, with `Accounted`), to another such world; so does a
  run of any length (`StaysInside`), and the twins that runs start from are such worlds
  (`FreshTwin`).
- `NeutralScenarios` (`NeutralScenariosChangeNothing`). A neutral scenario leaves the world it is
  set up in as it is (`NeutralSetups`), so both branches are one run, and between equal ends
  nothing is predicted (`NothingIsPredicted`). A promotion that takes nothing off does change the
  world: its seller promotes. There the two runs are taken side by side: their sellers are
  `Alike`, all else is equal, and every trade, every tick and every undoing keeps that
  (`TradesAlike`, `TicksAlike`, `RunsAlike`).

Loops over data. The induction theorems of the library take an operator as a parameter, which the
provers cannot instantiate. In the modules these proofs are about, loops are recursive functions
over numbers or sets, and what holds of all values of such a function is proved by looking at the
least place where it would not (`LeastNumber`, `JoinedSteps`, `ResolutionSteps`,
`LoopsHaveValues`, `StaysInside`).

Only model-checked. Liveness (`EverythingPublished`, `EveryStreamRecovers`, `EveryDocumentPulled`,
`PassReachesTheDetectors`) depends on fairness and ENABLED, which the prover does not treat. What
three operators of `Detectors` and the one of `RateLimit` compute is compared with reference
definitions over small inputs (section 3), not proved.

## 5. Where code and documentation disagree

One disagreement has a run whose violation shows it:

1. a cycle with a failed stage is not retried (`realtime_flow.py:179` against its docstring):
   `RealtimeFlow_retry`.

The next ones are stated by a definition that TLC refutes after a change of a configuration:

2. any exception of `watch()` drops the resume token, and events are skipped
   (`mongo_change_stream.py:207`): `NoEventSkipped` in `ChangeStream_tokens` with `Watched <- One`,
   one rejection, `MaxCrashes = 0`, `TornSaves = FALSE`;
3. a crash inside `activate_model()` leaves two active versions (`registry.py:229`):
   `OneActiveVersion` in `ModelRegistry_training` with no operators and calls, two versions and two
   scores;
4. of the two actions for a stockout the second is rejected (`agent_flow.py:198`):
   `StockoutPagesAndRestocks` in `AgentFlow_rounds` with `ProductCases <- Stockouts`,
   `RetailerCases <- Thrivers`, `AnomalyCases <- Silence`, one round, eight actions, no failure;
5. a promotion writes to a strategy that both branches share (`scenario_engine.py:262`):
   `OverridesAreStanding` in `Simulation_jobs` with `Jobs <- SharedStrategyJobs`;
6. an outage of *d* ticks lasts *d* + 1 (`scenario_engine.py:282`): `OutageLastsItsDuration` in
   `Simulation_jobs`;
7. an order that is published and then rewritten keeps its old row in the mart once a later one has
   been loaded (`fact_orders.sql:41`, and the two event models): `RewritesArePublished` as an
   invariant of `RealtimeFlow_cycles`. The comment there calls the watermark "a reprocessing-volume
   optimization, not a correctness gate";
8. a document that shares its `updated_at` with one the previous batch ended at, or that is inserted
   after a later one, is never pulled (`mongo_ingest.py:167`): `EveryInsertIsPulled` as a property of
   `MongoPoll_pull`. `write_mongo.py` stamps whole datasets, and says that a later run picks
   every document up;
9. every refresh writes the quarantine files of batch and event files again, under the same name, so
   each drift scan processes them all again (`schema_drift.py:207`): `TreeIsNotReprocessed` as an
   invariant of `Monitoring_pass`. The docstring at 25-29 says they are skipped.

One is a defect that no documentation speaks of, and `EveryDocumentPulled` has to except it:

10. a watermark file that a process has truncated and not filled (`mongo_ingest.py:131`), or that two
    have filled at once, cannot be parsed (126), and nothing is pulled until somebody deletes it
    (`Broken`). `ChangeStream` meets the same write of its token file with a guarded load.

These are visible in an exception that a property has to make, or in the definition itself:

11. the seen file is saved before the drift events it stands for are written
    (`schema_drift.py:230`): `SeenFilesAreReported` excepts `lost`;
12. inbox files of one stem overwrite each other (`tenant_ingest.py:119`): `RebuildIsComplete`
    excepts them;
13. access is checked again for every file (`tenant_ingest.py:138`, against the docstring at 208);
14. a launched product of a new category shifts the random draws of one branch
    (`marketplace_agent.py:76`): `NeutralScenariosChangeNothing` leaves launches out.

Others were met while translating, and are part of the models:

- `_pending_since` is read twice in `poll_once` (164); a `force_refresh` that clears it in between
  ends `run_forever` with a TypeError. Nothing in the repository calls `force_refresh`.
- `force_refresh` clears the marker of work that arrived while it ran (301).
- Two writes of a file in one tick of the filesystem's clock share an mtime; the second is then
  neither noticed (`realtime_flow.py:134`) nor scanned for drift (`schema_drift.py:207`).
- A token file that was torn loads as no tokens (102-108); an idle poll moves the token in memory
  only, where a comment says it is persisted (240-244).
- Several processes share the watermark file: a feeder of the same collection moves the mark past
  documents nobody has pulled (`mongo_ingest.py` 182-193, 304).
- `activate_model` with an unknown version demotes the active one (229-230); the promotion gate and
  the activation are separate connections, so two trainers can replace a better version;
  `rollback_model` takes whatever is active.
- A malformed webhook URL raises past the console channel, the "guaranteed fallback"
  (`dispatcher.py` 186-188, 310); `dispatch_alert` "never raises", but loads its configuration
  outside the try (291); an unknown severity ranks lowest (145). A connection of another mode in the
  same process makes `duckdb.connect` raise what `connect_with_retry` does not retry.
- An alert that pages for a stockout is the one `act()` that can raise, and nothing isolates it
  (`agent_flow.py` 225).
- The price limit of 25% gives way to the minimum price (`agent_framework.py` 229-230).
- `stream_generator.py` stamps compressed lags (334, 345), where the comment at 109-118 speaks of
  realistic ones.
- Reads of a counterfactual that the lock keeps out come back empty, and the replay is recorded as
  a success over no orders (`counterfactuals.py` 191).

Hazards that no property covers, and why, carry a note in `PROJECT.json`; the list there also
leaves out a few that the models do show but nothing promises against: the two of `realtime_flow.py`
(164, and 148: an exception of the watcher's `poll_once` ends the loop), `agent_flow.py` 225,
readers during the rebuild (`load_duckdb.py` 118), the lineage edge of an alert (`dispatcher.py`
260), and a twin that cannot be loaded, which ends a whole simulation batch.

## 6. What is not modelled

- Row validation, Polars frames, features and model fitting: pure functions of their input, or
  numerical code.
- Of the SQL of the marts, all but what decides which rows are loaded: the watermark, the keys, the
  order of the statements and `elt_model_runs` are in `RealtimeFlow`, the columns and the joins are
  not. A file there holds one row, and a rewrite leaves its `order_ts` or `event_ts` as it is.
- API queries, frontend, exporters: they keep no state that the pipeline reads.
- Schedulers and scripts: they call the stages in the order of a refresh.
- Signing and parsing of access tokens, password hashes, the role checks: they keep no state. A
  client key of the rate limiter (a user or an address) is a model value.
- Storage and database adapters: they wrap vendor SDKs; their retry loops are bounded by a counter.
- In modelled components: the death of a process while it dispatches an alert, one `order_id` in
  two tenant files, a missing `elt_model_runs` table, a spec whose ticks and seed differ from the
  projection's, the order of rows and of float sums in a simulation; `score_reward()` and rationale texts, `elt_model_runs` rows of the
  training flow, standalone price and inventory events of the generator, alerts on stale
  heartbeats, metrics that only aggregate tables.

## 7. Plan

Done: `RealtimeFlow`, `ChangeStream`, `MongoPoll`, `ModelRegistry`, `AgentDecisions`, `AgentFlow`,
`AlertDispatch`, `StreamGenerator`; the abstract `CheckpointedFeed` with its refinement;
`Detectors` and `Monitoring`; `Tenants` and `RateLimit`; `TwinAgents`, `Counterfactuals`,
`Simulation`; proofs of every type invariant, every safety invariant, every action property and
the refinement that the passing runs check.

Left, in this order:

1. Composition of `RealtimeFlow` with `ChangeStream`: `poll_once()` calls the watcher, whose tokens
   should then follow the published tables, not only the raw zone.
2. A registry whose calls are atomic, implemented by `ModelRegistry` without crashes; the
   invariant for it is proved already (`OneActiveBetweenCalls`).
3. `Warehouse`: the non-transactional rebuild and its readers; `Storage`: retry and pool.
