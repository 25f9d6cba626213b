----------------------------- MODULE RealtimeFlow -----------------------------
(***************************************************************************)
(* orchestration/realtime_flow.py: the long-lived coordinator that detects *)
(* new source files and MongoDB change-stream documents, and refreshes the *)
(* warehouse and the Polars metrics on a debounced cadence, one refresh at *)
(* a time.                                                                 *)
(*                                                                         *)
(* Main is the thread of run_forever().  Callers are threads that use the  *)
(* public hook force_refresh().  A file's version stands for its content,  *)
(* its mtime for the clock tick it was last written in: writes of one tick *)
(* share it.  Version 0 is an absent file.  A file holds one row, which    *)
(* keeps its order_ts or event_ts when the file is rewritten.              *)
(***************************************************************************)
EXTENDS Integers, Sequences, FiniteSets

CONSTANTS
  Dirs,         \* the entity directories in ingestion order, each a set of files
  Docs,         \* documents that reach the change-stream watcher
  NModels,      \* the SQL models of the warehouse, numbered as they are run
  Dimensions,   \* the models that load every staged row; the others have a watermark
  ModelOf,      \* ModelOf[i]: the model that loads item i
  Time,         \* Time[i]: order_ts or event_ts of item i
  Callers,      \* threads that call force_refresh()
  Main,         \* the thread of run_forever()
  NoThread,     \* nobody holds _rebuild_lock
  OneTick,      \* bound: files two writes of which may fall in one tick of the clock
  MaxVersion,   \* bound: MaxVersion[f], versions file f goes through
  MaxFailures,  \* bound: injected stage failures
  MaxRestarts   \* bound: process restarts

Files == UNION {Dirs[k] : k \in DOMAIN Dirs}
Items == Files \cup Docs
Threads == Callers \cup {Main}
Models == 1..NModels

ASSUME ConstantsAssumption ==
  /\ Dirs \in Seq(SUBSET Files)
  /\ Main \notin Callers
  /\ NoThread \notin Threads
  /\ Files \cap Docs = {}
  /\ NModels \in Nat /\ Dimensions \subseteq Models
  /\ ModelOf \in [Items -> Models] /\ Time \in [Items -> Nat]
  /\ OneTick \subseteq Files
  /\ MaxVersion \in [Files -> Nat] /\ MaxFailures \in Nat /\ MaxRestarts \in Nat

VARIABLES
  disk,      \* disk[f]: version of source file f
  mtime,     \* mtime[f]: the version that was the first of its clock tick
  torn,      \* files being written: what is on disk does not parse
  stream,    \* documents the change stream has not handed to the watcher yet
  seen,      \* _seen: mtimes
  noticed,   \* history: noticed[f], version at the last scan that told f's mtime from _seen
  pending,   \* _pending_since: "none", set ("fresh") or set a debounce ago ("ripe")
  lock,      \* holder of _rebuild_lock
  pc,        \* where each thread is
  dir,       \* directories the thread's ingest stage has opened
  todo,      \* files of the open directory it has still to ingest
  raw,       \* raw[i]: version validated into the raw zone
  mart,      \* mart[i]: version of the row in the mart, 0 for none
  marks,     \* marks[m]: the high_watermark values of model m in elt_model_runs
  published, \* published[i]: version the compute tables were built from
  owed,      \* history: owed[t][i], version present when t took the lock
  failures, restarts

source == <<disk, mtime, torn, stream>>
known  == <<seen, noticed>>
zones  == <<raw, mart, marks, published>>
work   == <<dir, todo, owed>>
vars   == <<source, known, pending, lock, pc, work, zones, failures, restarts>>

Refreshing == {"ingest", "elt", "compute", "report", "done", "failed"}

TypeOK ==
  /\ disk \in [Files -> Nat] /\ mtime \in [Files -> Nat]
  /\ torn \in SUBSET Files
  /\ stream \in SUBSET Docs
  /\ seen \in [Files -> Nat] /\ noticed \in [Files -> Nat]
  /\ pending \in {"none", "fresh", "ripe"}
  /\ lock \in Threads \cup {NoThread}
  /\ pc \in [Threads -> Refreshing \cup {"idle", "mark", "due", "elapsed", "dead"}]
  /\ dir \in [Threads -> 0..Len(Dirs)]
  /\ todo \in [Threads -> SUBSET Files]
  /\ raw \in [Items -> Nat] /\ mart \in [Items -> Nat] /\ published \in [Items -> Nat]
  /\ marks \in [Models -> SUBSET Nat]
  /\ owed \in [Threads -> [Items -> Nat]]
  /\ failures \in 0..MaxFailures
  /\ restarts \in 0..MaxRestarts

Init ==
  /\ disk = [f \in Files |-> 0]
  /\ mtime = disk
  /\ torn = {}
  /\ stream = {}
  /\ seen = mtime
  /\ noticed = disk
  /\ pending = "none"
  /\ lock = NoThread
  /\ pc = [t \in Threads |-> "idle"]
  /\ dir = [t \in Threads |-> 0]
  /\ todo = [t \in Threads |-> {}]
  /\ raw = [i \in Items |-> 0]
  /\ mart = raw
  /\ marks = [m \in Models |-> {}]
  /\ published = raw
  /\ owed = [t \in Threads |-> raw]
  /\ failures = 0
  /\ restarts = 0

-----------------------------------------------------------------------------
(* The producers: people, stream_generator's file sink, MongoDB clients.    *)

\* The filesystem's clock ticks coarsely: a write may leave the mtime of the last.
Touch(f) ==
  \/ mtime' = [mtime EXCEPT ![f] = disk[f] + 1]
  \/ f \in OneTick /\ disk[f] # 0 /\ UNCHANGED mtime

\* Path.write_text truncates, then fills: two observable versions per write.
BeginWrite(f) ==
  /\ f \notin torn
  /\ disk[f] + 2 =< MaxVersion[f]
  /\ disk' = [disk EXCEPT ![f] = @ + 1]
  /\ Touch(f)
  /\ torn' = torn \cup {f}
  /\ UNCHANGED <<stream, known, pending, lock, pc, work, zones, failures, restarts>>

EndWrite(f) ==
  /\ f \in torn
  /\ disk' = [disk EXCEPT ![f] = @ + 1]
  /\ Touch(f)
  /\ torn' = torn \ {f}
  /\ UNCHANGED <<stream, known, pending, lock, pc, work, zones, failures, restarts>>

InsertDoc(d) ==
  /\ d \notin stream
  /\ raw[d] = 0
  /\ stream' = stream \cup {d}
  /\ UNCHANGED <<disk, mtime, torn, known, pending, lock, pc, work, zones, failures, restarts>>

\* The clock: debounce_seconds pass after the marker was set.
Ripen ==
  /\ pending = "fresh"
  /\ pending' = "ripe"
  /\ UNCHANGED <<source, known, lock, pc, work, zones, failures, restarts>>

-----------------------------------------------------------------------------
(* poll_once(), run by Main.                                                *)

Goto(t, label) == pc' = [pc EXCEPT ![t] = label]

ChangedFilesByNameOnly == {f \in Files : disk[f] # 0 /\ seen[f] = 0}
ChangedFiles == {f \in Files : disk[f] # 0 /\ seen[f] # mtime[f]}

\* What _detect_new_files leaves in _seen: the whole current scan.
Scan == mtime

\* The detection sweep: the file scan, then one watcher sweep that ingests the
\* documents D the change streams hand over now.
Poll ==
  /\ pc[Main] = "idle"
  /\ \E D \in SUBSET stream :
       /\ stream' = stream \ D
       /\ raw' = [i \in Items |-> IF i \in D THEN 1 ELSE raw[i]]
       /\ Goto(Main, IF ChangedFiles # {} \/ D # {} THEN "mark" ELSE "due")
  /\ seen' = Scan
  /\ noticed' = [f \in Files |-> IF seen[f] # mtime[f] THEN disk[f] ELSE noticed[f]]
  /\ UNCHANGED <<disk, mtime, torn, pending, lock, work, mart, marks, published, failures, restarts>>

Mark ==
  /\ pc[Main] = "mark"
  /\ pending' = IF pending = "none" THEN "fresh" ELSE pending
  /\ Goto(Main, "due")
  /\ UNCHANGED <<source, known, lock, work, zones, failures, restarts>>

\* The first read of _pending_since in the debounce test.
Due ==
  /\ pc[Main] = "due"
  /\ Goto(Main, IF pending = "none" THEN "idle" ELSE "elapsed")
  /\ UNCHANGED <<source, known, pending, lock, work, zones, failures, restarts>>

LockFreeUnchecked == TRUE
LockFree == lock = NoThread

PresentNow == [i \in Items |-> IF i \in Files THEN disk[i] ELSE raw[i]]

Acquire(t) ==
  /\ lock' = t
  /\ Goto(t, "ingest")
  /\ owed' = [owed EXCEPT ![t] = PresentNow]
  /\ UNCHANGED <<dir, todo>>

\* The second read: None by now is a TypeError that ends run_forever(); too
\* early goes back to sleep; late enough is _trigger_rebuild(), which returns at
\* once when the lock is taken and leaves the marker for a later poll.
Elapsed ==
  /\ pc[Main] = "elapsed"
  /\ \/ /\ pending = "none"
        /\ Goto(Main, "dead")
        /\ UNCHANGED <<lock, work>>
     \/ /\ pending = "fresh" \/ (pending = "ripe" /\ ~LockFree)
        /\ Goto(Main, "idle")
        /\ UNCHANGED <<lock, work>>
     \/ /\ pending = "ripe" /\ LockFree
        /\ Acquire(Main)
  /\ UNCHANGED <<source, known, pending, zones, failures, restarts>>

\* force_refresh(): no debounce; a taken lock makes it return without effect.
ForceRefresh(c) ==
  /\ pc[c] = "idle"
  /\ LockFree
  /\ Acquire(c)
  /\ UNCHANGED <<source, known, pending, zones, failures, restarts>>

-----------------------------------------------------------------------------
(* _run_rebuild_and_compute(), run by the holder of the lock.               *)

\* The glob of one entity directory is taken when the loop reaches it.
OpenDir(t) ==
  /\ pc[t] = "ingest" /\ todo[t] = {} /\ dir[t] < Len(Dirs)
  /\ dir' = [dir EXCEPT ![t] = @ + 1]
  /\ todo' = [todo EXCEPT ![t] = {f \in Dirs[dir[t] + 1] : disk[f] # 0}]
  /\ UNCHANGED <<source, known, pending, lock, pc, owed, zones, failures, restarts>>

\* A file that does not parse raises out of the ingest loop: the stage fails.
IngestFile(t, f) ==
  /\ pc[t] = "ingest" /\ f \in todo[t]
  /\ IF f \in torn
     THEN /\ Goto(t, "failed")
          /\ UNCHANGED <<todo, raw>>
     ELSE /\ raw' = [raw EXCEPT ![f] = disk[f]]
          /\ todo' = [todo EXCEPT ![t] = @ \ {f}]
          /\ UNCHANGED pc
  /\ UNCHANGED <<source, known, pending, lock, dir, owed, mart, marks, published, failures, restarts>>

AllOpenedButOne(t) == dir[t] >= Len(Dirs) - 1
AllOpened(t) == dir[t] = Len(Dirs)

IngestDone(t) ==
  /\ pc[t] = "ingest" /\ todo[t] = {} /\ AllOpened(t)
  /\ Goto(t, "elt")
  /\ UNCHANGED <<source, known, pending, lock, work, zones, failures, restarts>>

\* Some successful run of i's model has seen a later order_ts or event_ts.
BehindWatermark(i) ==
  /\ ModelOf[i] \notin Dimensions
  /\ \E h \in marks[ModelOf[i]] : Time[i] < h

\* The rows a model takes from staging: those at or after the watermark, and
\* those whose key the mart has not got.  Staging is all of the raw zone.
DeltaByWatermark(i) == raw[i] # 0 /\ ~BehindWatermark(i)
Delta(i) == raw[i] # 0 /\ (~BehindWatermark(i) \/ mart[i] = 0)

\* The run row a model adds: the latest time in its delta, none for an empty one.
RunRow(m) ==
  LET loaded == {Time[i] : i \in {j \in Items : ModelOf[j] = m /\ Delta(j)}}
  IN  {h \in loaded : \A k \in loaded : k =< h}

\* Each model deletes the rows of its delta from the mart, inserts them, and
\* appends its row to elt_model_runs; rows outside the delta stay as they were.
Rebuild(t) ==
  /\ pc[t] = "elt"
  /\ mart' = [i \in Items |-> IF Delta(i) THEN raw[i] ELSE mart[i]]
  /\ marks' = [m \in Models |-> marks[m] \cup RunRow(m)]
  /\ Goto(t, "compute")
  /\ UNCHANGED <<source, known, pending, lock, work, raw, published, failures, restarts>>

ComputeFromRaw == raw
ComputeInput == mart

Compute(t) ==
  /\ pc[t] = "compute"
  /\ published' = ComputeInput
  /\ Goto(t, "report")
  /\ UNCHANGED <<source, known, pending, lock, work, raw, mart, marks, failures, restarts>>

\* rebuilds_run, the lineage edge and the monitoring pass.
Report(t) ==
  /\ pc[t] = "report"
  /\ Goto(t, "done")
  /\ UNCHANGED <<source, known, pending, lock, work, zones, failures, restarts>>

\* A stage raises (a locked warehouse, a failing statement); the alert is
\* dispatched and the method returns normally.
StageRaises(t, stage) ==
  /\ failures < MaxFailures
  /\ failures' = failures + 1
  /\ pc[t] = stage
  /\ Goto(t, "failed")
  /\ UNCHANGED <<source, known, pending, lock, work, raw, restarts>>

FailIngest(t) == StageRaises(t, "ingest") /\ UNCHANGED <<mart, marks, published>>

\* Every statement commits on its own: the models before m are through, and m
\* has not begun, has deleted its rows, or has inserted them without a run row.
FailRebuild(t) ==
  /\ StageRaises(t, "elt")
  /\ \E m \in Models, reached \in {"nothing", "delete", "insert"} :
       /\ mart' = [i \in Items |->
            IF ~Delta(i) THEN mart[i]
            ELSE IF ModelOf[i] < m \/ (ModelOf[i] = m /\ reached = "insert") THEN raw[i]
            ELSE IF ModelOf[i] = m /\ reached = "delete" THEN 0
            ELSE mart[i]]
       /\ marks' = [k \in Models |-> IF k < m THEN marks[k] \cup RunRow(k) ELSE marks[k]]
  /\ UNCHANGED published

\* Some of the compute tables have been replaced.
FailCompute(t) ==
  /\ StageRaises(t, "compute")
  /\ \E S \in SUBSET Items :
       published' = [i \in Items |-> IF i \in S THEN mart[i] ELSE published[i]]
  /\ UNCHANGED <<mart, marks>>

FailStage(t) == FailIngest(t) \/ FailRebuild(t) \/ FailCompute(t)

\* The locals of a refresh are gone once its thread has left it.
LocalsDropped(T) ==
  /\ dir' = [t \in Threads |-> IF t \in T THEN 0 ELSE dir[t]]
  /\ todo' = [t \in Threads |-> IF t \in T THEN {} ELSE todo[t]]
  /\ owed' = [t \in Threads |-> IF t \in T THEN [i \in Items |-> 0] ELSE owed[t]]

NeverReleased == lock
ReleaseInFinally == NoThread

\* upsert_lineage_edges is not guarded: its exception passes through the
\* finally that releases the lock, and ends run_forever() when Main raised it.
ReportRaises(t) ==
  /\ failures < MaxFailures
  /\ failures' = failures + 1
  /\ pc[t] = "report"
  /\ lock' = ReleaseInFinally
  /\ Goto(t, IF t = Main THEN "dead" ELSE "idle")
  /\ LocalsDropped({t})
  /\ UNCHANGED <<source, known, pending, zones, restarts>>

\* _run_rebuild_and_compute() returned, after success or after a caught stage
\* failure alike: the marker is cleared and the lock released.
Finish(t) ==
  /\ pc[t] \in {"done", "failed"}
  /\ pending' = "none"
  /\ lock' = ReleaseInFinally
  /\ Goto(t, "idle")
  /\ LocalsDropped({t})
  /\ UNCHANGED <<source, known, zones, failures, restarts>>

\* The process dies anywhere and is started again: __init__ seeds _seen from
\* what is on disk and asks for no rebuild.
Restart ==
  /\ restarts < MaxRestarts
  /\ restarts' = restarts + 1
  /\ seen' = mtime
  /\ noticed' = disk
  /\ pending' = "none"
  /\ lock' = NoThread
  /\ pc' = [t \in Threads |-> "idle"]
  /\ LocalsDropped(Threads)
  /\ UNCHANGED <<source, zones, failures>>

-----------------------------------------------------------------------------
Refresh(t) ==
  \/ OpenDir(t) \/ IngestDone(t) \/ Rebuild(t) \/ Compute(t) \/ Report(t)
  \/ Finish(t)
  \/ \E f \in Files : IngestFile(t, f)

PollLoop == Poll \/ Mark \/ Due \/ Elapsed

Faults == Restart \/ \E t \in Threads : FailStage(t) \/ ReportRaises(t)

Next ==
  \/ \E f \in Files : BeginWrite(f) \/ EndWrite(f)
  \/ \E d \in Docs : InsertDoc(d)
  \/ Ripen
  \/ PollLoop
  \/ \E c \in Callers : ForceRefresh(c)
  \/ \E t \in Threads : Refresh(t)
  \/ Faults

Spec == Init /\ [][Next]_vars

\* Main loops without end and sleeps a finite time, a thread inside a refresh
\* runs on, time passes, and a writer finishes the file it opened.  Nobody is
\* obliged to write, to call force_refresh() or to fail.
Fairness ==
  /\ WF_vars(PollLoop)
  /\ WF_vars(Ripen)
  /\ \A t \in Threads : WF_vars(Refresh(t))
  /\ \A f \in Files : WF_vars(EndWrite(f))

FairSpec == Spec /\ Fairness

-----------------------------------------------------------------------------
(* Properties.                                                              *)

\* At most one ingest-rebuild-compute cycle runs at a time, whichever thread
\* started it, and exactly its runner holds _rebuild_lock.
OneRefreshAtATime ==
  /\ \A s, t \in Threads : pc[s] \in Refreshing /\ pc[t] \in Refreshing => s = t
  /\ \A t \in Threads : lock = t <=> pc[t] \in Refreshing

\* What the watermark keeps out of the marts: a row already published in some
\* version, of an order or event older than another its model has loaded.
HeldBack(i) == published[i] # 0 /\ BehindWatermark(i)

\* A cycle that ends without a failed stage has published every file and every
\* document that was there when it took the lock, late arrivals behind the
\* watermark included, although files are globbed directory by directory while
\* producers keep writing.  Only a rewrite of a published row may be held back.
SuccessCoversBacklog ==
  \A t \in Threads : pc[t] = "done" =>
    \A i \in Items : published[i] >= owed[t][i] \/ HeldBack(i)

\* The watermark filter decides how much is reprocessed, never what the marts
\* contain: what the comment in fact_orders.sql says of it.
RewritesArePublished ==
  \A t \in Threads : pc[t] = "done" => \A i \in Items : published[i] >= owed[t][i]

\* The compute tables never run ahead of the rows in the warehouse, nor the
\* warehouse ahead of the validated raw zone, even after stages that failed half
\* way, a model that has deleted its rows and not inserted them included.
StagesInOrder ==
  \A i \in Items : /\ published[i] =< raw[i] /\ mart[i] =< raw[i]
                   /\ mart[i] # 0 => published[i] =< mart[i]

Backlog ==
  \E i \in Items : /\ published[i] # (IF i \in Files THEN disk[i] ELSE raw[i])
                  /\ ~HeldBack(i)

\* A write in the clock tick of the version the scan noticed cannot be told from it.
Disguised(f) == seen[f] = mtime[f] /\ noticed[f] # disk[f]

\* As long as something on disk or in the raw zone is not published, and not held
\* back by the watermark, the flow has a reason to look again: a marker, a poll
\* or a refresh under way, a file whose change it has not seen yet or whose
\* writer has still to close it.  A file changed twice within a clock tick takes
\* the reason away, from itself and from what a failed cycle left with it.
BacklogHasWakeup ==
  Backlog => \/ pending # "none"
             \/ \E t \in Threads : pc[t] # "idle"
             \/ \E f \in Files : f \in torn \/ seen[f] # mtime[f] \/ Disguised(f)

\* A cycle in which a stage failed leaves its marker in place, so that the next
\* debounce window retries: what _run_rebuild_and_compute's docstring promises.
FailedCycleIsRetried ==
  [][\A t \in Threads : pc[t] = "failed" /\ pc'[t] # "failed" => pending' = pending]_vars

\* Once producers pause, everything they wrote ends up published, what the
\* watermark holds back and changes disguised by the clock apart.
EverythingPublished == <>[](Backlog => \E f \in Files : Disguised(f))
===============================================================================
