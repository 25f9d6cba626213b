-------------------------- MODULE RealtimeFlowProofs --------------------------
(***************************************************************************)
(* Proofs about RealtimeFlow for every set of files, documents and calling *)
(* threads, every assignment of rows to models, times and watermarks, with *)
(* stage failures, exceptions and restarts in play.                        *)
(***************************************************************************)
EXTENDS RealtimeFlow, TLAPS

\* The raw zone holds no version a file has not had.
RawBehindDisk == \A f \in Files : raw[f] =< disk[f]

\* What a cycle owes is bounded by what is there, and each stage it has passed
\* carries all of it: the ingest loop for the directories it is through with,
\* the rebuild for the whole raw zone but for what the watermark held back, the
\* computation for the whole warehouse.
Through(t, f) == f \notin todo[t] /\ \E k \in 1..dir[t] : f \in Dirs[k]

MartBehind(i) == mart[i] # 0 /\ BehindWatermark(i)

CycleProgress(t) ==
  /\ \A i \in Items : owed[t][i] =< PresentNow[i]
  /\ pc[t] = "ingest" => \A f \in Files : Through(t, f) => owed[t][f] =< raw[f]
  /\ pc[t] = "elt" => \A i \in Items : owed[t][i] =< raw[i]
  /\ pc[t] = "compute" => \A i \in Items : owed[t][i] =< mart[i] \/ MartBehind(i)
  /\ pc[t] \in {"report", "done"} => \A i \in Items : owed[t][i] =< published[i] \/ HeldBack(i)

\* A document is handed over by the change stream before it is in the raw zone.
StreamNotIngested == \A d \in stream : raw[d] = 0

ZonesInv == RawBehindDisk /\ StreamNotIngested /\ StagesInOrder

IInv == ZonesInv /\ \A t \in Threads : CycleProgress(t)

-----------------------------------------------------------------------------
\* The constants in the form the provers need.
LEMMA ConstantsTyped ==
  /\ Len(Dirs) \in Nat
  /\ \A k \in 1..Len(Dirs) : Dirs[k] \in SUBSET Files
  /\ \A f \in Files : \E k \in 1..Len(Dirs) : f \in Dirs[k]
  /\ Main \in Threads /\ NoThread \notin Threads
  /\ Files \subseteq Items /\ Docs \subseteq Items
  /\ \A i \in Items : ModelOf[i] \in Models /\ Time[i] \in Nat
BY ConstantsAssumption DEF Files, Items, Threads

\* What a model appends to elt_model_runs are times of rows.
LEMMA RunRowsTyped == \A m \in Models : RunRow(m) \in SUBSET Nat
BY ConstantsTyped DEF RunRow

\* Every reachable state is of the expected shape.
LEMMA TypeInvariant == Spec => []TypeOK
<1>1. Init => TypeOK
  BY ConstantsTyped, ConstantsAssumption DEF Init, TypeOK, Refreshing
<1>2. TypeOK /\ [Next]_vars => TypeOK'
  <2> SUFFICES ASSUME TypeOK, [Next]_vars PROVE TypeOK'
    OBVIOUS
  <2>a. Main \in Threads /\ Len(Dirs) \in Nat /\ MaxFailures \in Nat /\ MaxRestarts \in Nat
    BY ConstantsTyped, ConstantsAssumption
  <2>b. \A f \in Files : f \in Items
    BY ConstantsTyped
  <2>1. ASSUME NEW f \in Files, BeginWrite(f) \/ EndWrite(f) PROVE TypeOK'
    <3>1. disk' \in [Files -> Nat]
      <4>1. disk \in [Files -> Nat] /\ disk' = [disk EXCEPT ![f] = @ + 1]
        BY <2>1 DEF BeginWrite, EndWrite, TypeOK
      <4>2. QED
        BY <4>1
    <3>2. torn' \in SUBSET Files
      BY <2>1 DEF BeginWrite, EndWrite, TypeOK
    <3>3. UNCHANGED <<stream, known, pending, lock, pc, work, zones, failures, restarts>>
      BY <2>1 DEF BeginWrite, EndWrite
    <3>4. mtime' \in [Files -> Nat]
      BY <2>1 DEF BeginWrite, EndWrite, Touch, TypeOK
    <3>5. QED
      BY <3>1, <3>2, <3>3, <3>4 DEF TypeOK, known, work, zones, known
  <2>2. ASSUME NEW d \in Docs, InsertDoc(d) PROVE TypeOK'
    BY <2>2 DEF InsertDoc, TypeOK, work, zones, known
  <2>3. ASSUME Ripen \/ Mark \/ Due PROVE TypeOK'
    BY <2>a, <2>3 DEF Ripen, Mark, Due, Goto, TypeOK, source, work, zones, known
  <2>4. ASSUME Poll PROVE TypeOK'
    BY <2>a, <2>4 DEF Poll, ChangedFiles, Scan, Goto, TypeOK, work
  <2>5. ASSUME NEW t \in Threads, Acquire(t), UNCHANGED <<source, known, pending, zones, failures, restarts>>
        PROVE TypeOK'
    <3>1. PresentNow \in [Items -> Nat]
      BY DEF PresentNow, TypeOK, Items
    <3>2. QED
      BY <2>5, <3>1 DEF Acquire, Goto, TypeOK, source, zones, known, Refreshing
  <2>6. ASSUME Elapsed PROVE TypeOK'
    BY <2>a, <2>6, <2>5 DEF Elapsed, Goto, TypeOK, source, work, zones, known
  <2>7. ASSUME NEW c \in Callers, ForceRefresh(c) PROVE TypeOK'
    BY <2>7, <2>5 DEF ForceRefresh, Threads
  <2>8. ASSUME NEW t \in Threads, OpenDir(t) PROVE TypeOK'
    BY <2>a, <2>8, ConstantsTyped DEF OpenDir, TypeOK, source, zones, known
  <2>9. ASSUME NEW t \in Threads, NEW f \in Files, IngestFile(t, f) PROVE TypeOK'
    <3>0. /\ raw' = raw \/ raw' = [raw EXCEPT ![f] = disk[f]]
          /\ todo' = todo \/ todo' = [todo EXCEPT ![t] = @ \ {f}]
      BY <2>9 DEF IngestFile
    <3>1. raw' \in [Items -> Nat]
      BY <2>b, <3>0 DEF TypeOK
    <3>2. todo' \in [Threads -> SUBSET Files]
      <4>1. todo \in [Threads -> SUBSET Files] /\ todo[t] \ {f} \in SUBSET Files
        BY DEF TypeOK
      <4>2. QED
        BY <3>0, <4>1
    <3>3. pc' \in [Threads -> Refreshing \cup {"idle", "mark", "due", "elapsed", "dead"}]
      BY <2>9 DEF IngestFile, Goto, TypeOK, Refreshing
    <3>4. UNCHANGED <<source, known, pending, lock, dir, owed, mart, marks, published, failures, restarts>>
      BY <2>9 DEF IngestFile
    <3>5. QED
      BY <3>1, <3>2, <3>3, <3>4 DEF TypeOK, source, known
  <2>10. ASSUME NEW t \in Threads, IngestDone(t) \/ Rebuild(t) \/ Compute(t) \/ Report(t)
         PROVE TypeOK'
    <3>1. CASE IngestDone(t) \/ Report(t)
      BY <3>1 DEF IngestDone, Report, Goto, TypeOK, source, known, work, zones, Refreshing
    <3>2. CASE Rebuild(t)
      <4>1. mart' \in [Items -> Nat] /\ marks' \in [Models -> SUBSET Nat]
        BY <3>2, RunRowsTyped DEF Rebuild, TypeOK
      <4>2. QED
        BY <3>2, <4>1 DEF Rebuild, Goto, TypeOK, source, known, work, Refreshing
    <3>3. CASE Compute(t)
      BY <3>3 DEF Compute, ComputeInput, Goto, TypeOK, source, known, work, Refreshing
    <3>4. QED
      BY <2>10, <3>1, <3>2, <3>3
  <2>11. ASSUME NEW t \in Threads, Finish(t) \/ ReportRaises(t) PROVE TypeOK'
    <3>1. /\ pending' \in {"none", "fresh", "ripe"}
          /\ lock' \in Threads \cup {NoThread}
          /\ failures' \in 0..MaxFailures
      BY <2>11, ConstantsAssumption DEF Finish, ReportRaises, ReleaseInFinally, TypeOK
    <3>2. pc' \in [Threads -> Refreshing \cup {"idle", "mark", "due", "elapsed", "dead"}]
      BY <2>11 DEF Finish, ReportRaises, Goto, TypeOK
    <3>3. /\ dir' \in [Threads -> 0..Len(Dirs)]
          /\ todo' \in [Threads -> SUBSET Files]
          /\ owed' \in [Threads -> [Items -> Nat]]
      <4>1. LocalsDropped({t})
        BY <2>11 DEF Finish, ReportRaises
      <4>2. QED
        BY <2>a, <4>1 DEF LocalsDropped, TypeOK
    <3>4. UNCHANGED <<source, known, zones, restarts>>
      BY <2>11 DEF Finish, ReportRaises
    <3>5. QED
      BY <3>1, <3>2, <3>3, <3>4 DEF TypeOK, source, zones, known
  <2>12. ASSUME NEW t \in Threads, FailStage(t) PROVE TypeOK'
    <3>1. /\ failures' \in 0..MaxFailures
          /\ pc' \in [Threads -> Refreshing \cup {"idle", "mark", "due", "elapsed", "dead"}]
          /\ UNCHANGED <<source, known, pending, lock, work, raw, restarts>>
      <4>1. PICK stage \in {"ingest", "elt", "compute"} : StageRaises(t, stage)
        BY <2>12 DEF FailStage, FailIngest, FailRebuild, FailCompute
      <4>2. failures' = failures + 1 /\ failures < MaxFailures
        BY <4>1 DEF StageRaises
      <4>3. pc' = [pc EXCEPT ![t] = "failed"]
        BY <4>1 DEF StageRaises, Goto
      <4>4. UNCHANGED <<source, known, pending, lock, work, raw, restarts>>
        BY <4>1 DEF StageRaises
      <4>5. QED
        BY <2>a, <4>2, <4>3, <4>4 DEF TypeOK, Refreshing
    <3>2. mart' \in [Items -> Nat] /\ marks' \in [Models -> SUBSET Nat] /\ published' \in [Items -> Nat]
      <4>1. CASE FailIngest(t)
        BY <4>1 DEF FailIngest, TypeOK
      <4>2. CASE FailRebuild(t)
        BY <4>2, RunRowsTyped DEF FailRebuild, TypeOK
      <4>3. CASE FailCompute(t)
        BY <4>3 DEF FailCompute, TypeOK
      <4>4. QED
        BY <2>12, <4>1, <4>2, <4>3 DEF FailStage
    <3>3. QED
      BY <3>1, <3>2 DEF TypeOK, source, known, work
  <2>13. ASSUME Restart PROVE TypeOK'
    BY <2>a, <2>13 DEF Restart, LocalsDropped, TypeOK, source, zones, known
  <2>14. ASSUME UNCHANGED vars PROVE TypeOK'
    BY <2>14 DEF vars, TypeOK, source, work, zones, known
  <2>15. QED
    BY <2>1, <2>2, <2>3, <2>4, <2>6, <2>7, <2>8, <2>9, <2>10, <2>11, <2>12, <2>13, <2>14
       DEF Next, PollLoop, Refresh, Faults
<1>3. QED
  BY <1>1, <1>2, PTL DEF Spec

-----------------------------------------------------------------------------
\* A step keeps the lock and the set of refreshing threads, or a thread takes
\* the free lock as it enters a refresh, or gives it up as it leaves one.
LEMMA LockDiscipline == TypeOK /\ OneRefreshAtATime /\ [Next]_vars => OneRefreshAtATime'
<1> SUFFICES ASSUME TypeOK, OneRefreshAtATime, [Next]_vars PROVE OneRefreshAtATime'
  OBVIOUS
<1> DEFINE SameHolders ==
      lock' = lock /\ \A t \in Threads : pc'[t] \in Refreshing <=> pc[t] \in Refreshing
<1>a. pc \in [Threads -> Refreshing \cup {"idle", "mark", "due", "elapsed", "dead"}]
  BY DEF TypeOK
<1>b. Main \in Threads /\ NoThread \notin Threads
  BY ConstantsTyped
<1>0. SameHolders => OneRefreshAtATime'
  BY DEF OneRefreshAtATime
<1>1. ASSUME NEW t \in Threads, LockFree, Acquire(t) PROVE OneRefreshAtATime'
  <2>1. lock = NoThread /\ lock' = t /\ pc' = [pc EXCEPT ![t] = "ingest"]
    BY <1>1 DEF LockFree, Acquire, Goto
  <2>2. \A s \in Threads : pc[s] \notin Refreshing
    BY <2>1, <1>b DEF OneRefreshAtATime
  <2>3. QED
    BY <1>a, <2>1, <2>2 DEF OneRefreshAtATime, Refreshing
<1>2. ASSUME NEW t \in Threads, pc[t] \in Refreshing, lock' = NoThread,
             NEW l \in {"idle", "dead"}, pc' = [pc EXCEPT ![t] = l]
      PROVE  OneRefreshAtATime'
  BY <1>a, <1>b, <1>2 DEF OneRefreshAtATime, Refreshing
<1>3. ASSUME NEW t \in Threads, UNCHANGED lock, pc[t] \in Refreshing,
             NEW l \in Refreshing, pc' = [pc EXCEPT ![t] = l]
      PROVE  SameHolders
  BY <1>a, <1>3
<1>4. ASSUME UNCHANGED lock, pc[Main] \notin Refreshing,
             NEW l, l \notin Refreshing, pc' = [pc EXCEPT ![Main] = l]
      PROVE  SameHolders
  BY <1>a, <1>b, <1>4
<1>5. ASSUME UNCHANGED <<lock, pc>> PROVE SameHolders
  BY <1>5
<1>6. ASSUME NEW f \in Files, BeginWrite(f) \/ EndWrite(f) PROVE OneRefreshAtATime'
  BY <1>0, <1>5, <1>6 DEF BeginWrite, EndWrite
<1>7. ASSUME NEW d \in Docs, InsertDoc(d) PROVE OneRefreshAtATime'
  BY <1>0, <1>5, <1>7 DEF InsertDoc
<1>8. CASE Ripen
  BY <1>0, <1>5, <1>8 DEF Ripen
<1>9. CASE Poll \/ Mark \/ Due
  <2>1. UNCHANGED lock /\ pc[Main] \notin Refreshing
    BY <1>9 DEF Poll, Mark, Due, Refreshing
  <2>2. \E l \in {"idle", "mark", "due", "elapsed"} : pc' = [pc EXCEPT ![Main] = l]
    BY <1>9 DEF Poll, Mark, Due, Goto
  <2>3. QED
    BY <1>0, <1>4, <2>1, <2>2 DEF Refreshing
<1>10. CASE Elapsed
  <2>1. CASE LockFree /\ Acquire(Main)
    BY <1>1, <1>b, <2>1
  <2>2. CASE ~(LockFree /\ Acquire(Main))
    <3>1. UNCHANGED lock /\ pc[Main] \notin Refreshing
      BY <1>10, <2>2 DEF Elapsed, Refreshing
    <3>2. \E l \in {"idle", "dead"} : pc' = [pc EXCEPT ![Main] = l]
      BY <1>10, <2>2 DEF Elapsed, Goto
    <3>3. QED
      BY <1>0, <1>4, <3>1, <3>2 DEF Refreshing
  <2>3. QED
    BY <2>1, <2>2
<1>11. ASSUME NEW c \in Callers, ForceRefresh(c) PROVE OneRefreshAtATime'
  BY <1>1, <1>11 DEF ForceRefresh, Threads
<1>12. ASSUME NEW t \in Threads, OpenDir(t) PROVE OneRefreshAtATime'
  BY <1>0, <1>5, <1>12 DEF OpenDir
<1>13. ASSUME NEW t \in Threads, NEW f \in Files, IngestFile(t, f) PROVE OneRefreshAtATime'
  BY <1>0, <1>3, <1>5, <1>13 DEF IngestFile, Goto, Refreshing
<1>14. ASSUME NEW t \in Threads,
              IngestDone(t) \/ Rebuild(t) \/ Compute(t) \/ Report(t) \/ FailStage(t)
       PROVE OneRefreshAtATime'
  <2>1. UNCHANGED lock /\ pc[t] \in Refreshing
    BY <1>14 DEF IngestDone, Rebuild, Compute, Report, Refreshing, FailStage, FailIngest, FailRebuild,
                 FailCompute, StageRaises
  <2>2. \E l \in Refreshing : pc' = [pc EXCEPT ![t] = l]
    BY <1>14 DEF IngestDone, Rebuild, Compute, Report, Goto, Refreshing, FailStage, FailIngest,
                 FailRebuild, FailCompute, StageRaises
  <2>3. QED
    BY <1>0, <1>3, <2>1, <2>2
<1>15. ASSUME NEW t \in Threads, Finish(t) \/ ReportRaises(t) PROVE OneRefreshAtATime'
  <2>1. lock' = NoThread /\ pc[t] \in Refreshing
    BY <1>15 DEF Finish, ReportRaises, ReleaseInFinally, Refreshing
  <2>2. \E l \in {"idle", "dead"} : pc' = [pc EXCEPT ![t] = l]
    BY <1>15 DEF Finish, ReportRaises, Goto
  <2>3. QED
    BY <1>2, <2>1, <2>2
<1>16. CASE Restart
  BY <1>b, <1>16 DEF Restart, OneRefreshAtATime, Refreshing
<1>17. CASE UNCHANGED vars
  BY <1>0, <1>5, <1>17 DEF vars
<1>18. QED
  BY <1>6, <1>7, <1>8, <1>9, <1>10, <1>11, <1>12, <1>13, <1>14, <1>15, <1>16, <1>17
     DEF Next, PollLoop, Refresh, Faults

\* At most one refresh cycle runs at a time, for every number of threads.
THEOREM AtMostOneRefresh == Spec => []OneRefreshAtATime
<1>1. Init => OneRefreshAtATime
  BY ConstantsTyped DEF Init, OneRefreshAtATime, Refreshing
<1>2. QED
  BY <1>1, TypeInvariant, LockDiscipline, PTL DEF Spec

-----------------------------------------------------------------------------
\* No step takes a version back, on disk or in the raw zone.
Grown ==
  /\ \A f \in Files : disk[f] =< disk'[f]
  /\ \A i \in Items : raw[i] =< raw'[i]

\* A model moves the rows of its delta to the mart as they are, or loses them on
\* the way; every other row stays.
LEMMA MartRows ==
  ASSUME NEW t \in Threads, Rebuild(t) \/ FailRebuild(t), TypeOK
  PROVE  \A i \in Items : mart'[i] \in {mart[i], raw[i], 0}
<1>1. CASE Rebuild(t)
  BY <1>1 DEF Rebuild
<1>2. CASE FailRebuild(t)
  BY <1>2 DEF FailRebuild
<1>3. QED
  BY <1>1, <1>2

\* Every stage moves versions forward only, and from a zone that has them already.
LEMMA ZonesStep ==
  ASSUME TypeOK, ZonesInv, [Next]_vars
  PROVE  ZonesInv' /\ Grown
<1> USE DEF ZonesInv, RawBehindDisk, StreamNotIngested, StagesInOrder, Grown
<1>a. /\ disk \in [Files -> Nat] /\ stream \in SUBSET Docs
      /\ raw \in [Items -> Nat] /\ mart \in [Items -> Nat] /\ published \in [Items -> Nat]
  BY DEF TypeOK
<1>b. (\A f \in Files : f \in Items /\ f \notin Docs) /\ \A d \in Docs : d \in Items
  BY ConstantsTyped, ConstantsAssumption
<1>1. ASSUME UNCHANGED <<disk, stream, raw, mart, published>> PROVE ZonesInv' /\ Grown
  BY <1>a, <1>b, <1>1
<1>2. ASSUME NEW f \in Files, BeginWrite(f) \/ EndWrite(f) PROVE ZonesInv' /\ Grown
  <2>1. disk' = [disk EXCEPT ![f] = @ + 1] /\ UNCHANGED <<stream, raw, mart, published>>
    BY <1>2 DEF BeginWrite, EndWrite, zones
  <2>2. QED
    BY <1>a, <1>b, <2>1
<1>3. ASSUME NEW d \in Docs, InsertDoc(d) PROVE ZonesInv' /\ Grown
  BY <1>a, <1>b, <1>3 DEF InsertDoc, zones
<1>4. ASSUME Ripen \/ Mark \/ Due \/ Elapsed PROVE ZonesInv' /\ Grown
  BY <1>1, <1>4 DEF Ripen, Mark, Due, Elapsed, source, zones
<1>5. ASSUME Poll PROVE ZonesInv' /\ Grown
  <2>1. PICK D \in SUBSET stream :
          stream' = stream \ D /\ raw' = [i \in Items |-> IF i \in D THEN 1 ELSE raw[i]]
    BY <1>5 DEF Poll
  <2>2. UNCHANGED <<disk, mart, published>>
    BY <1>5 DEF Poll
  <2>3. \A i \in Items : raw[i] =< raw'[i]
    BY <1>a, <2>1
  <2>4. QED
    BY <1>a, <1>b, <2>1, <2>2, <2>3
<1>6. ASSUME NEW c \in Callers, ForceRefresh(c) PROVE ZonesInv' /\ Grown
  BY <1>1, <1>6 DEF ForceRefresh, source, zones
<1>7. ASSUME NEW t \in Threads, NEW f \in Files, IngestFile(t, f) PROVE ZonesInv' /\ Grown
  <2>1. UNCHANGED <<disk, stream, mart, published>> /\ (raw' = raw \/ raw' = [raw EXCEPT ![f] = disk[f]])
    BY <1>7 DEF IngestFile, source
  <2>2. \A i \in Items : raw[i] =< raw'[i]
    BY <1>a, <1>b, <2>1
  <2>3. QED
    BY <1>a, <1>b, <2>1, <2>2
<1>8. ASSUME NEW t \in Threads, OpenDir(t) \/ IngestDone(t) \/ Report(t) \/ Finish(t) \/ ReportRaises(t)
      PROVE  ZonesInv' /\ Grown
  BY <1>1, <1>8 DEF OpenDir, IngestDone, Report, Finish, ReportRaises, source, zones
<1>9. ASSUME NEW t \in Threads, Rebuild(t) \/ FailRebuild(t) PROVE ZonesInv' /\ Grown
  <2>1. UNCHANGED <<disk, stream, raw, published>>
    BY <1>9 DEF Rebuild, FailRebuild, StageRaises, source
  <2>2. \A i \in Items : mart'[i] \in {mart[i], raw[i], 0}
    BY <1>9, MartRows
  <2>3. \A i \in Items : mart'[i] =< raw[i] /\ (mart'[i] # 0 => published[i] =< mart'[i])
    BY <1>a, <2>2
  <2>4. QED
    BY <1>a, <1>b, <2>1, <2>3
<1>10. ASSUME NEW t \in Threads, FailIngest(t) \/ FailCompute(t) \/ Compute(t)
       PROVE  ZonesInv' /\ Grown
  <2>1. UNCHANGED <<disk, stream, raw, mart>>
    BY <1>10 DEF FailIngest, FailCompute, StageRaises, Compute, source
  <2>2. \A i \in Items : published'[i] \in {published[i], mart[i]}
    BY <1>10 DEF FailIngest, FailCompute, Compute, ComputeInput
  <2>3. \A i \in Items : published'[i] =< raw[i] /\ (mart[i] # 0 => published'[i] =< mart[i])
    BY <1>a, <2>2
  <2>4. QED
    BY <1>a, <1>b, <2>1, <2>3
<1>11. ASSUME Restart \/ UNCHANGED vars PROVE ZonesInv' /\ Grown
  BY <1>1, <1>11 DEF Restart, vars, source, zones
<1>12. QED
  BY <1>2, <1>3, <1>4, <1>5, <1>6, <1>7, <1>8, <1>9, <1>10, <1>11
     DEF Next, PollLoop, Refresh, Faults, FailStage

\* The warehouse stages never overtake each other, through every fault.
THEOREM StagesStayInOrder == Spec => []StagesInOrder
<1>1. Init => ZonesInv
  BY ConstantsTyped DEF Init, ZonesInv, RawBehindDisk, StreamNotIngested, StagesInOrder
<1>2. TypeOK /\ ZonesInv /\ [Next]_vars => ZonesInv'
  BY ZonesStep
<1>3. ZonesInv => StagesInOrder
  BY DEF ZonesInv
<1>4. QED
  BY <1>1, <1>2, <1>3, TypeInvariant, PTL DEF Spec

-----------------------------------------------------------------------------
\* Versions on disk and in the raw zone only grow and nobody else moves a mart
\* during a refresh, so what a thread has covered stays covered while other
\* threads, producers and the clock move.
LEMMA CarriedOver ==
  ASSUME TypeOK, TypeOK', ZonesInv, Grown, NEW s \in Threads, CycleProgress(s),
         UNCHANGED <<owed[s], todo[s], dir[s]>>,
         pc[s] \in Refreshing => UNCHANGED <<mart, marks, published>>,
         pc'[s] = pc[s] \/ pc'[s] \notin {"ingest", "elt", "compute", "report", "done"}
  PROVE  CycleProgress(s)'
<1>a. /\ \A i \in Items : owed[s][i] \in Nat /\ raw[i] \in Nat /\ raw'[i] \in Nat
      /\ \A f \in Files : disk[f] \in Nat /\ disk'[f] \in Nat /\ f \in Items
  <2>1. \A f \in Files : f \in Items
    BY ConstantsTyped
  <2>2. \A i \in Items : owed[s][i] \in Nat /\ raw[i] \in Nat /\ raw'[i] \in Nat
    BY DEF TypeOK
  <2>3. \A f \in Files : disk[f] \in Nat /\ disk'[f] \in Nat
    BY DEF TypeOK
  <2>4. QED
    BY <2>1, <2>2, <2>3
<1>1. \A i \in Items : owed'[s][i] =< PresentNow'[i]
  BY <1>a DEF CycleProgress, PresentNow, Grown
<1>2. \A f \in Files : Through(s, f)' <=> Through(s, f)
  BY DEF Through
<1>3. CASE pc'[s] = pc[s]
  <2>1. \A i \in Items : owed'[s][i] = owed[s][i] /\ raw[i] =< raw'[i]
    BY DEF Grown
  <2>2. pc[s] = "ingest" => \A f \in Files : Through(s, f) => owed[s][f] =< raw'[f]
    BY <1>a, <2>1 DEF CycleProgress
  <2>3. pc[s] = "elt" => \A i \in Items : owed[s][i] =< raw'[i]
    BY <1>a, <2>1 DEF CycleProgress
  <2>4. pc[s] \in Refreshing =>
          \A i \in Items : (MartBehind(i)' <=> MartBehind(i)) /\ (HeldBack(i)' <=> HeldBack(i))
    BY DEF MartBehind, HeldBack, BehindWatermark
  <2>5. pc[s] = "compute" => \A i \in Items : owed[s][i] =< mart'[i] \/ MartBehind(i)'
    BY <2>4 DEF CycleProgress, Refreshing
  <2>6. pc[s] \in {"report", "done"} =>
          \A i \in Items : owed[s][i] =< published'[i] \/ HeldBack(i)'
    BY <2>4 DEF CycleProgress, Refreshing
  <2>7. QED
    BY <1>1, <1>2, <1>3, <2>1, <2>2, <2>3, <2>5, <2>6 DEF CycleProgress
<1>4. CASE pc'[s] # pc[s]
  BY <1>1, <1>4 DEF CycleProgress
<1>5. QED
  BY <1>3, <1>4

\* The thread that takes the lock owes what is there, and is through with nothing.
LEMMA CycleStarts ==
  ASSUME TypeOK, NEW t \in Threads, Acquire(t), UNCHANGED <<disk, raw>>, dir[t] = 0
  PROVE  CycleProgress(t)'
<1>1. /\ pc'[t] = "ingest" /\ dir'[t] = 0
      /\ owed'[t] = PresentNow /\ PresentNow' = PresentNow
  BY DEF Acquire, Goto, TypeOK, PresentNow
<1>2. \A f \in Files : ~Through(t, f)'
  BY <1>1 DEF Through
<1>3. \A i \in Items : PresentNow[i] \in Nat
  BY DEF PresentNow, TypeOK, Items
<1>4. QED
  BY <1>1, <1>2, <1>3 DEF CycleProgress

\* Outside a refresh a thread has no directory open.
LocalsClean == \A t \in Threads : pc[t] \notin Refreshing => dir[t] = 0

\* Leaving a refresh, by its end, an exception or a restart, forgets the directory.
LEMMA LocalsStep == TypeOK /\ LocalsClean /\ [Next]_vars => LocalsClean'
<1> SUFFICES ASSUME TypeOK, LocalsClean, [Next]_vars, NEW s \in Threads, pc'[s] \notin Refreshing
             PROVE  dir'[s] = 0
  BY DEF LocalsClean
<1>a. dir \in [Threads -> 0..Len(Dirs)] /\ pc \in [Threads -> Refreshing \cup {"idle", "mark", "due", "elapsed", "dead"}]
  BY DEF TypeOK
<1>b. Main \in Threads
  BY ConstantsTyped
<1>1. ASSUME UNCHANGED dir, pc[s] \notin Refreshing PROVE dir'[s] = 0
  BY <1>1 DEF LocalsClean
<1>2. ASSUME UNCHANGED dir, NEW t \in Threads, NEW l \in Refreshing, pc' = [pc EXCEPT ![t] = l]
      PROVE  dir'[s] = 0
  BY <1>a, <1>1, <1>2
<1>3. ASSUME UNCHANGED dir, pc[Main] \notin Refreshing, NEW l, pc' = [pc EXCEPT ![Main] = l]
      PROVE  dir'[s] = 0
  BY <1>a, <1>b, <1>1, <1>3
<1>4. ASSUME NEW f \in Files, BeginWrite(f) \/ EndWrite(f) PROVE dir'[s] = 0
  BY <1>1, <1>4 DEF BeginWrite, EndWrite, work
<1>5. ASSUME NEW d \in Docs, InsertDoc(d) PROVE dir'[s] = 0
  BY <1>1, <1>5 DEF InsertDoc, work
<1>6. ASSUME Ripen \/ UNCHANGED vars PROVE dir'[s] = 0
  BY <1>1, <1>6 DEF Ripen, vars, work
<1>7. ASSUME Poll \/ Mark \/ Due PROVE dir'[s] = 0
  <2>1. UNCHANGED dir /\ pc[Main] \notin Refreshing /\ \E l : pc' = [pc EXCEPT ![Main] = l]
    BY <1>7 DEF Poll, Mark, Due, Goto, work, Refreshing
  <2>2. QED
    BY <1>3, <2>1
<1>8. ASSUME NEW t \in Threads, Acquire(t) PROVE dir'[s] = 0
  BY <1>2, <1>8 DEF Acquire, Goto, Refreshing
<1>9. ASSUME Elapsed PROVE dir'[s] = 0
  <2>1. CASE Acquire(Main)
    BY <1>b, <1>8, <2>1
  <2>2. CASE ~Acquire(Main)
    <3>1. UNCHANGED dir /\ pc[Main] \notin Refreshing /\ \E l : pc' = [pc EXCEPT ![Main] = l]
      BY <1>9, <2>2 DEF Elapsed, Goto, work, Refreshing
    <3>2. QED
      BY <1>3, <3>1
  <2>3. QED
    BY <2>1, <2>2
<1>10. ASSUME NEW c \in Callers, ForceRefresh(c) PROVE dir'[s] = 0
  BY <1>8, <1>10 DEF ForceRefresh, Threads
<1>11. ASSUME NEW t \in Threads, OpenDir(t) PROVE dir'[s] = 0
  BY <1>a, <1>11 DEF OpenDir, LocalsClean, Refreshing
<1>12. ASSUME NEW t \in Threads, NEW f \in Files, IngestFile(t, f) PROVE dir'[s] = 0
  BY <1>a, <1>1, <1>2, <1>12 DEF IngestFile, Goto, Refreshing
<1>13. ASSUME NEW t \in Threads,
              IngestDone(t) \/ Rebuild(t) \/ Compute(t) \/ Report(t) \/ FailStage(t)
       PROVE dir'[s] = 0
  <2>1. UNCHANGED dir /\ \E l \in Refreshing : pc' = [pc EXCEPT ![t] = l]
    BY <1>13 DEF IngestDone, Rebuild, Compute, Report, FailStage, FailIngest, FailRebuild,
                 FailCompute, StageRaises, Goto, Refreshing, work
  <2>2. QED
    BY <1>2, <2>1
<1>14. ASSUME NEW t \in Threads, Finish(t) \/ ReportRaises(t) PROVE dir'[s] = 0
  <2>1. LocalsDropped({t}) /\ \E l : pc' = [pc EXCEPT ![t] = l]
    BY <1>14 DEF Finish, ReportRaises, Goto
  <2>2. CASE s = t
    BY <2>1, <2>2 DEF LocalsDropped
  <2>3. CASE s # t
    BY <1>a, <2>1, <2>3 DEF LocalsDropped, LocalsClean
  <2>4. QED
    BY <2>2, <2>3
<1>15. ASSUME Restart PROVE dir'[s] = 0
  BY <1>15 DEF Restart, LocalsDropped
<1>16. QED
  BY <1>4, <1>5, <1>6, <1>7, <1>9, <1>10, <1>11, <1>12, <1>13, <1>14, <1>15
     DEF Next, PollLoop, Refresh, Faults

\* Every step of a thread inside its refresh carries what the cycle owes one
\* stage further.
LEMMA OwnStep ==
  ASSUME TypeOK, TypeOK', ZonesInv, Grown, NEW t \in Threads, CycleProgress(t),
         \/ OpenDir(t) \/ IngestDone(t) \/ Rebuild(t) \/ Compute(t) \/ Report(t)
         \/ FailStage(t) \/ \E f \in Files : IngestFile(t, f)
  PROVE  CycleProgress(t)'
<1>c. \A i \in Items : PresentNow'[i] \in Nat
  BY DEF PresentNow, TypeOK, Items
<1>d. \A f \in Files : f \in Items
  BY ConstantsTyped
<1>a. /\ \A i \in Items : owed[t][i] \in Nat /\ raw[i] \in Nat /\ raw'[i] \in Nat
      /\ \A f \in Files : f \in Items /\ disk[f] \in Nat
      /\ pc \in [Threads -> Refreshing \cup {"idle", "mark", "due", "elapsed", "dead"}]
      /\ dir \in [Threads -> 0..Len(Dirs)] /\ todo \in [Threads -> SUBSET Files]
  BY <1>d DEF TypeOK
<1>b. UNCHANGED owed
  BY DEF OpenDir, IngestDone, Rebuild, Compute, Report, FailStage, FailIngest, FailRebuild,
         FailCompute, StageRaises, IngestFile, work
<1>1. \A i \in Items : owed'[t][i] =< PresentNow'[i]
  <2>1. \A i \in Items : PresentNow[i] =< PresentNow'[i] /\ PresentNow[i] \in Nat
    BY DEF PresentNow, Grown, TypeOK, Items
  <2>2. QED
    BY <1>a, <1>b, <1>c, <2>1 DEF CycleProgress
<1>2. ASSUME OpenDir(t) PROVE CycleProgress(t)'
  <2>1. /\ UNCHANGED <<pc, raw>> /\ pc[t] = "ingest" /\ todo[t] = {} /\ dir[t] < Len(Dirs)
        /\ dir'[t] = dir[t] + 1 /\ todo'[t] = {f \in Dirs[dir[t] + 1] : disk[f] # 0}
    BY <1>2, <1>a DEF OpenDir, zones
  <2>2. ASSUME NEW f \in Files, Through(t, f)' PROVE owed[t][f] =< raw[f]
    <3>1. PICK k \in 1..dir'[t] : f \in Dirs[k]
      BY <2>2 DEF Through
    <3>2. CASE k = dir[t] + 1
      <4>1. disk[f] = 0
        BY <2>1, <2>2, <3>1, <3>2 DEF Through
      <4>2. owed[t][f] =< disk[f]
        BY <1>a DEF CycleProgress, PresentNow
      <4>3. QED
        BY <1>a, <4>1, <4>2
    <3>3. CASE k # dir[t] + 1
      <4>1. k \in 1..dir[t]
        BY <1>a, <2>1, <3>1, <3>3
      <4>2. Through(t, f)
        BY <2>1, <3>1, <4>1 DEF Through
      <4>3. QED
        BY <2>1, <4>2 DEF CycleProgress
    <3>4. QED
      BY <3>2, <3>3
  <2>3. QED
    BY <1>1, <1>b, <2>1, <2>2 DEF CycleProgress
<1>3. ASSUME NEW f \in Files, IngestFile(t, f) PROVE CycleProgress(t)'
  <2>1. CASE f \in torn
    <3>1. pc'[t] = "failed"
      BY <1>3, <1>a, <2>1 DEF IngestFile, Goto
    <3>2. QED
      BY <1>1, <3>1 DEF CycleProgress
  <2>2. CASE f \notin torn
    <3>1. /\ UNCHANGED <<pc, dir>> /\ pc[t] = "ingest"
          /\ raw' = [raw EXCEPT ![f] = disk[f]] /\ todo'[t] = todo[t] \ {f}
      BY <1>3, <1>a, <2>2 DEF IngestFile
    <3>2. ASSUME NEW g \in Files, Through(t, g)' PROVE owed[t][g] =< raw'[g]
      <4>1. CASE g = f
        <5>1. raw'[g] = disk[g]
          BY <1>a, <3>1, <4>1 DEF TypeOK
        <5>2. QED
          BY <5>1 DEF CycleProgress, PresentNow, Items
      <4>2. CASE g # f
        <5>1. Through(t, g)
          BY <3>1, <3>2, <4>2 DEF Through
        <5>2. QED
          BY <1>a, <3>1, <5>1 DEF CycleProgress, Grown
      <4>3. QED
        BY <4>1, <4>2
    <3>3. QED
      BY <1>1, <1>b, <3>1, <3>2 DEF CycleProgress
  <2>3. QED
    BY <2>1, <2>2
<1>4. ASSUME IngestDone(t) PROVE CycleProgress(t)'
  <2>1. /\ UNCHANGED raw /\ pc[t] = "ingest" /\ todo[t] = {} /\ dir[t] = Len(Dirs) /\ pc'[t] = "elt"
    BY <1>4, <1>a DEF IngestDone, AllOpened, Goto, zones
  <2>2. \A f \in Files : owed[t][f] =< raw[f]
    <3>1. \A f \in Files : Through(t, f)
      BY <2>1, ConstantsTyped DEF Through
    <3>2. QED
      BY <2>1, <3>1 DEF CycleProgress
  <2>3. \A i \in Items : owed[t][i] =< raw[i]
    <3>1. \A i \in Items \ Files : owed[t][i] =< raw[i]
      BY DEF CycleProgress, PresentNow
    <3>2. QED
      BY <2>2, <3>1
  <2>4. QED
    BY <1>1, <1>b, <2>1, <2>3 DEF CycleProgress
<1>5. ASSUME Rebuild(t) PROVE CycleProgress(t)'
  <2>1. /\ pc[t] = "elt" /\ pc'[t] = "compute"
        /\ \A i \in Items : mart'[i] = IF Delta(i) THEN raw[i] ELSE mart[i]
        /\ \A m \in Models : marks[m] \subseteq marks'[m]
    BY <1>5, <1>a DEF Rebuild, Goto
  <2>2. ASSUME NEW i \in Items PROVE owed[t][i] =< mart'[i] \/ MartBehind(i)'
    <3>1. owed[t][i] =< raw[i]
      BY <2>1 DEF CycleProgress
    <3>2. CASE Delta(i) \/ raw[i] = 0
      BY <1>a, <2>1, <3>1, <3>2 DEF TypeOK
    <3>3. CASE ~Delta(i) /\ raw[i] # 0
      <4>1. BehindWatermark(i) /\ mart'[i] # 0
        BY <2>1, <3>3 DEF Delta
      <4>2. BehindWatermark(i)'
        BY <2>1, <4>1, ConstantsTyped DEF BehindWatermark
      <4>3. QED
        BY <4>1, <4>2 DEF MartBehind
    <3>4. QED
      BY <3>2, <3>3
  <2>3. QED
    BY <1>1, <1>b, <2>1, <2>2 DEF CycleProgress
<1>6. ASSUME Compute(t) PROVE CycleProgress(t)'
  <2>1. /\ pc[t] = "compute" /\ published' = mart /\ UNCHANGED <<mart, marks>> /\ pc'[t] = "report"
    BY <1>6, <1>a DEF Compute, ComputeInput, Goto
  <2>2. \A i \in Items : owed[t][i] =< published'[i] \/ HeldBack(i)'
    BY <2>1 DEF CycleProgress, MartBehind, HeldBack, BehindWatermark
  <2>3. QED
    BY <1>1, <1>b, <2>1, <2>2 DEF CycleProgress
<1>7. ASSUME Report(t) PROVE CycleProgress(t)'
  <2>1. pc[t] = "report" /\ UNCHANGED <<marks, published>> /\ pc'[t] = "done"
    BY <1>7, <1>a DEF Report, Goto, zones
  <2>2. QED
    BY <1>1, <1>b, <2>1 DEF CycleProgress, HeldBack, BehindWatermark
<1>8. ASSUME FailStage(t) PROVE CycleProgress(t)'
  <2>1. pc'[t] = "failed"
    BY <1>8, <1>a DEF FailStage, FailIngest, FailRebuild, FailCompute, StageRaises, Goto
  <2>2. QED
    BY <1>1, <2>1 DEF CycleProgress
<1>9. QED
  BY <1>2, <1>3, <1>4, <1>5, <1>6, <1>7, <1>8

\* A thread whose locals were dropped owes nothing.
LEMMA LeftRefresh ==
  ASSUME TypeOK', NEW s \in Threads, owed'[s] = [i \in Items |-> 0], pc'[s] \in {"idle", "dead"}
  PROVE  CycleProgress(s)'
<1>1. \A i \in Items : PresentNow'[i] \in Nat
  BY DEF TypeOK, PresentNow, Items
<1>2. QED
  BY <1>1 DEF CycleProgress

\* The other threads' cycles are carried over; the stepping thread's advances.
LEMMA CycleStep ==
  ASSUME TypeOK, TypeOK', OneRefreshAtATime, LocalsClean, IInv, [Next]_vars
  PROVE  \A s \in Threads : CycleProgress(s)'
<1> SUFFICES ASSUME NEW s \in Threads PROVE CycleProgress(s)'
  OBVIOUS
<1>a. ZonesInv /\ Grown /\ \A t \in Threads : CycleProgress(t)
  BY ZonesStep DEF IInv
<1>b. /\ owed \in [Threads -> [Items -> Nat]] /\ todo \in [Threads -> SUBSET Files]
      /\ dir \in [Threads -> 0..Len(Dirs)]
      /\ pc \in [Threads -> Refreshing \cup {"idle", "mark", "due", "elapsed", "dead"}]
  BY DEF TypeOK
<1>c. Main \in Threads
  BY ConstantsTyped
<1>1. ASSUME UNCHANGED <<owed, todo, dir, mart, marks, published>>,
             pc'[s] = pc[s] \/ pc'[s] \notin {"ingest", "elt", "compute", "report", "done"}
      PROVE  CycleProgress(s)'
  BY <1>a, <1>1, CarriedOver
<1>2. ASSUME UNCHANGED <<work, mart, marks, published>>, NEW l \in {"idle", "mark", "due", "elapsed", "dead"},
             pc' = [pc EXCEPT ![Main] = l]
      PROVE  CycleProgress(s)'
  BY <1>1, <1>b, <1>2 DEF work
<1>3. ASSUME NEW f \in Files, BeginWrite(f) \/ EndWrite(f) PROVE CycleProgress(s)'
  BY <1>1, <1>3 DEF BeginWrite, EndWrite, work, zones
<1>4. ASSUME NEW d \in Docs, InsertDoc(d) PROVE CycleProgress(s)'
  BY <1>1, <1>4 DEF InsertDoc, work, zones
<1>5. ASSUME Ripen \/ UNCHANGED vars PROVE CycleProgress(s)'
  BY <1>1, <1>5 DEF Ripen, vars, work, zones
<1>6. ASSUME Poll \/ Mark \/ Due PROVE CycleProgress(s)'
  <2>1. /\ UNCHANGED <<work, mart, marks, published>>
        /\ \E l \in {"idle", "mark", "due", "elapsed"} : pc' = [pc EXCEPT ![Main] = l]
    BY <1>6 DEF Poll, Mark, Due, Goto, zones
  <2>2. QED
    BY <1>2, <2>1
<1>7. ASSUME NEW t \in Threads, Acquire(t), UNCHANGED <<disk, zones>>, pc[t] \notin Refreshing
      PROVE  CycleProgress(s)'
  <2>1. CASE s = t
    BY <1>7, <2>1, CycleStarts DEF LocalsClean, zones
  <2>2. CASE s # t
    <3>1. UNCHANGED <<owed[s], todo[s], dir[s], mart, marks, published>> /\ pc'[s] = pc[s]
      BY <1>7, <1>b, <2>2 DEF Acquire, Goto, zones
    <3>2. QED
      BY <1>a, <3>1, CarriedOver
  <2>3. QED
    BY <2>1, <2>2
<1>8. ASSUME Elapsed PROVE CycleProgress(s)'
  <2>1. UNCHANGED <<disk, zones>> /\ pc[Main] \notin Refreshing
    BY <1>8 DEF Elapsed, source, Refreshing
  <2>2. CASE Acquire(Main)
    BY <1>7, <1>c, <2>1, <2>2
  <2>3. CASE ~Acquire(Main)
    <3>1. UNCHANGED work /\ \E l \in {"idle", "dead"} : pc' = [pc EXCEPT ![Main] = l]
      BY <1>8, <2>3 DEF Elapsed, Goto
    <3>2. QED
      BY <1>2, <2>1, <3>1 DEF zones
  <2>4. QED
    BY <2>2, <2>3
<1>9. ASSUME NEW c \in Callers, ForceRefresh(c) PROVE CycleProgress(s)'
  <2>1. UNCHANGED <<disk, zones>> /\ pc[c] \notin Refreshing /\ Acquire(c) /\ c \in Threads
    BY <1>9 DEF ForceRefresh, source, Refreshing, Threads
  <2>2. QED
    BY <1>7, <2>1
<1>10. ASSUME NEW t \in Threads,
              \/ OpenDir(t) \/ IngestDone(t) \/ Rebuild(t) \/ Compute(t) \/ Report(t)
              \/ FailStage(t) \/ \E f \in Files : IngestFile(t, f)
       PROVE CycleProgress(s)'
  <2>1. CASE s = t
    BY <1>a, <1>10, <2>1, OwnStep
  <2>2. CASE s # t
    <3>1. UNCHANGED <<owed[s], todo[s], dir[s]>>
      BY <1>10, <1>b, <2>2 DEF OpenDir, IngestDone, Rebuild, Compute, Report, FailStage, FailIngest,
                               FailRebuild, FailCompute, StageRaises, IngestFile, work
    <3>2. pc'[s] = pc[s]
      BY <1>10, <1>b, <2>2 DEF OpenDir, IngestDone, Rebuild, Compute, Report, FailStage, FailIngest,
                               FailRebuild, FailCompute, StageRaises, IngestFile, Goto
    <3>3. pc[t] \in Refreshing
      BY <1>10 DEF OpenDir, IngestDone, Rebuild, Compute, Report, FailStage, FailIngest,
                   FailRebuild, FailCompute, StageRaises, IngestFile, Refreshing
    <3>4. pc[s] \notin Refreshing
      BY <2>2, <3>3 DEF OneRefreshAtATime
    <3>5. QED
      BY <1>a, <3>1, <3>2, <3>4, CarriedOver
  <2>3. QED
    BY <2>1, <2>2
<1>11. ASSUME NEW t \in Threads, Finish(t) \/ ReportRaises(t) PROVE CycleProgress(s)'
  <2>1. LocalsDropped({t}) /\ \E l \in {"idle", "dead"} : pc' = [pc EXCEPT ![t] = l]
    BY <1>11 DEF Finish, ReportRaises, Goto
  <2>2. CASE s = t
    <3>1. owed'[s] = [i \in Items |-> 0] /\ pc'[s] \in {"idle", "dead"}
      BY <1>b, <2>1, <2>2 DEF LocalsDropped
    <3>2. QED
      BY <3>1, LeftRefresh
  <2>3. CASE s # t
    <3>1. UNCHANGED <<owed[s], todo[s], dir[s], mart, marks, published>> /\ pc'[s] = pc[s]
      BY <1>b, <1>11, <2>1, <2>3 DEF LocalsDropped, Finish, ReportRaises, zones
    <3>2. QED
      BY <1>a, <3>1, CarriedOver
  <2>4. QED
    BY <2>2, <2>3
<1>12. ASSUME Restart PROVE CycleProgress(s)'
  <2>1. owed'[s] = [i \in Items |-> 0] /\ pc'[s] = "idle"
    BY <1>12 DEF Restart, LocalsDropped
  <2>2. QED
    BY <2>1, LeftRefresh
<1>13. QED
  BY <1>3, <1>4, <1>5, <1>6, <1>8, <1>9, <1>10, <1>11, <1>12
     DEF Next, PollLoop, Refresh, Faults

\* What a cycle owes and has carried is right at the start ...
LEMMA CycleInvInitially == Init => LocalsClean /\ IInv
<1>1. Init => ZonesInv
  BY ConstantsTyped DEF Init, ZonesInv, RawBehindDisk, StreamNotIngested, StagesInOrder
<1>2. Init => LocalsClean /\ \A t \in Threads : CycleProgress(t)
  BY DEF Init, LocalsClean, CycleProgress, PresentNow, Items
<1>3. QED
  BY <1>1, <1>2 DEF IInv

\* ... and stays right in every step.
LEMMA CycleInvIsKept ==
  TypeOK /\ TypeOK' /\ OneRefreshAtATime /\ LocalsClean /\ IInv /\ [Next]_vars
  => LocalsClean' /\ IInv'
<1> SUFFICES ASSUME TypeOK, TypeOK', OneRefreshAtATime, LocalsClean, IInv, [Next]_vars
             PROVE  LocalsClean' /\ IInv'
  OBVIOUS
<1>1. LocalsClean'
  BY LocalsStep
<1>2. ZonesInv'
  BY ZonesStep DEF IInv
<1>3. \A t \in Threads : CycleProgress(t)'
  BY CycleStep
<1>4. QED
  BY <1>1, <1>2, <1>3 DEF IInv

\* A refresh that succeeds has published everything that was there when it
\* started, late arrivals behind the watermark included, whatever producers,
\* other threads, half-run models and faults did before and meanwhile; only the
\* rewrite of a row already published can be held back by the watermark.
THEOREM SuccessfulRefreshIsComplete == Spec => []SuccessCoversBacklog
<1>1. Init => LocalsClean /\ IInv
  BY CycleInvInitially
<1>2. /\ TypeOK /\ TypeOK' /\ OneRefreshAtATime /\ LocalsClean /\ IInv /\ [Next]_vars
      => LocalsClean' /\ IInv'
  BY CycleInvIsKept
<1>3. IInv /\ TypeOK => SuccessCoversBacklog
  <2> SUFFICES ASSUME TypeOK, NEW t \in Threads, CycleProgress(t), pc[t] = "done", NEW i \in Items
               PROVE  published[i] >= owed[t][i] \/ HeldBack(i)
    BY DEF IInv, SuccessCoversBacklog
  <2>1. (owed[t][i] =< published[i] \/ HeldBack(i)) /\ owed[t][i] \in Nat /\ published[i] \in Nat
    BY DEF CycleProgress, TypeOK
  <2>2. QED
    BY <2>1
<1>4. QED
  BY <1>1, <1>2, <1>3, TypeInvariant, AtMostOneRefresh, PTL DEF Spec
-----------------------------------------------------------------------------
(* Why the flow looks again.  With the polling thread alone, no injected     *)
(* stage failure and no restart, what is still unpublished always has a      *)
(* wakeup; each of the three takes one away (Finish clears the marker of     *)
(* another thread's poll or of a failed cycle, Restart starts from disk).    *)

\* The next poll will find a change of f, or its writer has still to make one, or
\* the clock has disguised it.
Unnoticed(f) == f \in torn \/ seen[f] # mtime[f] \/ noticed[f] # disk[f]

\* The inductive invariant.  What the scan noticed never runs ahead of the disk; a poll that
\* ends without a marker leaves nothing behind unnoticed; a cycle owes all that
\* the last poll saw; and a cycle fails only over a file still to be noticed.
WakeupInv ==
  /\ \A f \in Files : noticed[f] =< disk[f]
  /\ \A f \in Files : disk[f] = 0 => seen[f] = 0 /\ mtime[f] = 0
  /\ pc[Main] \in {"idle", "due"} /\ pending = "none" /\ Backlog => \E f \in Files : Unnoticed(f)
  /\ pc[Main] \in Refreshing =>
       /\ \A f \in Files : noticed[f] =< owed[Main][f]
       /\ \A d \in Docs : owed[Main][d] = raw[d]
  /\ pc[Main] = "failed" => \E f \in Files : Unnoticed(f)

\* A cycle that ends well leaves unpublished only what has changed unnoticed.
LEMMA EndsCovered ==
  ASSUME TypeOK, IInv, WakeupInv, pc[Main] = "done", Backlog
  PROVE  \E f \in Files : Unnoticed(f)
<1>a. Main \in Threads /\ Files \subseteq Items /\ pc[Main] \in Refreshing
  BY ConstantsTyped DEF Refreshing
<1>b. CycleProgress(Main) /\ StagesInOrder /\ RawBehindDisk
  BY <1>a DEF IInv, ZonesInv
<1>1. PICK i \in Items : published[i] # (IF i \in Files THEN disk[i] ELSE raw[i]) /\ ~HeldBack(i)
  BY DEF Backlog
<1>2. /\ owed[Main][i] =< published[i] /\ published[i] =< raw[i]
      /\ owed[Main][i] \in Nat /\ published[i] \in Nat /\ raw[i] \in Nat
  BY <1>a, <1>b, <1>1 DEF CycleProgress, StagesInOrder, TypeOK
<1>3. i \in Files
  <2>1. ASSUME i \in Docs PROVE FALSE
    <3>1. owed[Main][i] = raw[i] /\ i \notin Files
      BY <1>a, <2>1, ConstantsAssumption DEF WakeupInv
    <3>2. QED
      BY <1>1, <1>2, <3>1
  <2>2. QED
    BY <2>1 DEF Items
<1>4. /\ raw[i] =< disk[i] /\ noticed[i] =< owed[Main][i]
      /\ disk[i] \in Nat /\ noticed[i] \in Nat
  BY <1>a, <1>b, <1>3 DEF RawBehindDisk, WakeupInv, TypeOK
<1>5. noticed[i] # disk[i]
  BY <1>1, <1>2, <1>3, <1>4
<1>6. QED
  BY <1>3, <1>5 DEF Unnoticed

\* No step of the lone polling thread or of a producer loses a wakeup.
LEMMA WakeupIsKept ==
  ASSUME Callers = {}, MaxFailures = 0, MaxRestarts = 0,
         TypeOK, TypeOK', IInv, WakeupInv, [Next]_vars
  PROVE  WakeupInv'
<1>a. Main \in Threads /\ Threads = {Main} /\ Files \subseteq Items
  BY ConstantsTyped DEF Threads
<1>b. /\ disk \in [Files -> Nat] /\ seen \in [Files -> Nat]
      /\ mtime \in [Files -> Nat] /\ noticed \in [Files -> Nat]
      /\ pc \in [Threads -> Refreshing \cup {"idle", "mark", "due", "elapsed", "dead"}]
      /\ \A i \in Items : raw[i] \in Nat /\ mart[i] \in Nat /\ published[i] \in Nat
  BY DEF TypeOK
<1>c. ~FailStage(Main) /\ ~ReportRaises(Main) /\ ~Restart
  <2>1. ~(failures < MaxFailures) /\ ~(restarts < MaxRestarts)
    BY DEF TypeOK
  <2>2. QED
    BY <2>1 DEF FailStage, FailIngest, FailRebuild, FailCompute, StageRaises, ReportRaises, Restart
<1>1. ASSUME NEW f \in Files, BeginWrite(f) \/ EndWrite(f) PROVE WakeupInv'
  <2>1. /\ disk' = [disk EXCEPT ![f] = @ + 1] /\ UNCHANGED <<seen, noticed, pending, pc, owed, raw>>
        /\ mtime' = [mtime EXCEPT ![f] = disk[f] + 1] \/ mtime' = mtime
    BY <1>1 DEF BeginWrite, EndWrite, Touch, known, work, zones
  <2>2. disk'[f] = disk[f] + 1 /\ \A g \in Files : g # f => disk'[g] = disk[g]
    BY <1>b, <2>1
  <2>3. Unnoticed(f)'
    BY <1>b, <2>1, <2>2 DEF Unnoticed, WakeupInv
  <2>4. \A g \in Files : noticed[g] =< disk'[g]
    BY <1>b, <2>2 DEF WakeupInv
  <2>5. \A g \in Files : disk'[g] = 0 => seen[g] = 0 /\ mtime'[g] = 0
    BY <1>b, <2>1, <2>2 DEF WakeupInv
  <2>6. QED
    BY <2>1, <2>3, <2>4, <2>5 DEF WakeupInv
<1>2. ASSUME UNCHANGED <<disk, mtime, torn, known, raw, marks, published, owed>>,
             \/ UNCHANGED <<pc, pending>>
             \/ pc'[Main] = "elapsed"
             \/ pc'[Main] \in {"idle", "due"} /\ pending' # "none"
             \/ pc[Main] = "due" /\ pc'[Main] = "idle" /\ UNCHANGED pending
             \/ pc'[Main] = "dead"
             \/ pc[Main] \in Refreshing /\ pc'[Main] \in Refreshing \ {"failed"}
      PROVE  WakeupInv'
  <2>1. (Backlog' <=> Backlog) /\ \A f \in Files : Unnoticed(f)' <=> Unnoticed(f)
    BY <1>2 DEF Backlog, HeldBack, BehindWatermark, Unnoticed, known
  <2>2. QED
    BY <1>2, <2>1 DEF WakeupInv, Refreshing, known
<1>3. ASSUME NEW d \in Docs, InsertDoc(d) PROVE WakeupInv'
  BY <1>2, <1>3 DEF InsertDoc, work, zones
<1>4. CASE Ripen
  <2>1. UNCHANGED <<disk, mtime, torn, known, raw, marks, published, owed, pc>> /\ pending' # "none"
    BY <1>4 DEF Ripen, source, work, zones
  <2>2. \A f \in Files : Unnoticed(f)' <=> Unnoticed(f)
    BY <2>1 DEF Unnoticed, known
  <2>3. QED
    BY <2>1, <2>2 DEF WakeupInv, known
<1>5. CASE Poll
  <2>1. PICK D \in SUBSET stream :
          /\ raw' = [i \in Items |-> IF i \in D THEN 1 ELSE raw[i]]
          /\ pc' = [pc EXCEPT ![Main] = IF ChangedFiles # {} \/ D # {} THEN "mark" ELSE "due"]
    BY <1>5 DEF Poll, Goto
  <2>2. /\ pc[Main] = "idle" /\ seen' = mtime /\ UNCHANGED <<disk, mtime, torn, pending, marks, published>>
        /\ \A f \in Files : noticed'[f] = IF seen[f] # mtime[f] THEN disk[f] ELSE noticed[f]
    BY <1>5 DEF Poll, Scan
  <2>3. /\ \A f \in Files : noticed'[f] =< disk'[f]
        /\ \A f \in Files : disk'[f] = 0 => seen'[f] = 0 /\ mtime'[f] = 0
    BY <1>b, <2>2 DEF WakeupInv
  <2>4. CASE ChangedFiles # {} \/ D # {}
    <3>1. pc'[Main] = "mark"
      BY <1>a, <1>b, <2>1, <2>4
    <3>2. QED
      BY <2>3, <3>1 DEF WakeupInv, Refreshing
  <2>5. CASE ChangedFiles = {} /\ D = {}
    <3>1. pc'[Main] = "due"
      BY <1>a, <1>b, <2>1, <2>5
    <3>2. \A f \in Files : seen[f] = mtime[f]
      BY <1>b, <2>5 DEF ChangedFiles, WakeupInv
    <3>3. \A f \in Files : Unnoticed(f)' <=> Unnoticed(f)
      BY <2>2, <3>2 DEF Unnoticed
    <3>4. \A i \in Items : raw'[i] = raw[i]
      BY <2>1, <2>5
    <3>5. Backlog' <=> Backlog
      BY <2>2, <3>4 DEF Backlog, HeldBack, BehindWatermark
    <3>6. QED
      BY <2>2, <2>3, <3>1, <3>3, <3>5 DEF WakeupInv, Refreshing
  <2>6. QED
    BY <2>4, <2>5
<1>6. CASE Mark
  <2>1. /\ UNCHANGED <<disk, mtime, torn, known, raw, marks, published, owed>>
        /\ pc'[Main] = "due" /\ pending' # "none"
    BY <1>6, <1>a, <1>b DEF Mark, Goto, source, work, zones
  <2>2. QED
    BY <1>2, <2>1
<1>7. CASE Due
  <2>1. UNCHANGED <<disk, mtime, torn, known, raw, marks, published, owed, pending>>
    BY <1>7 DEF Due, source, work, zones
  <2>2. pc[Main] = "due" /\ pc'[Main] = IF pending = "none" THEN "idle" ELSE "elapsed"
    BY <1>7, <1>a, <1>b DEF Due, Goto
  <2>3. QED
    BY <1>2, <2>1, <2>2
<1>8. CASE Elapsed
  <2>1. UNCHANGED <<disk, mtime, torn, known, raw, marks, published, pending>>
    BY <1>8 DEF Elapsed, source, zones, known
  <2>2. CASE Acquire(Main)
    <3>1. pc'[Main] = "ingest" /\ owed'[Main] = PresentNow
      BY <1>a, <1>b, <2>2 DEF Acquire, Goto, TypeOK
    <3>2. \A f \in Files : owed'[Main][f] = disk[f]
      BY <1>a, <3>1 DEF PresentNow
    <3>3. \A d \in Docs : owed'[Main][d] = raw[d]
      BY <3>1, ConstantsAssumption, ConstantsTyped DEF PresentNow
    <3>4. QED
      BY <1>b, <2>1, <3>1, <3>2, <3>3 DEF WakeupInv, Refreshing, known
  <2>3. CASE ~Acquire(Main)
    <3>1. UNCHANGED work /\ \/ pending = "none" /\ Goto(Main, "dead")
                            \/ pending \in {"fresh", "ripe"} /\ Goto(Main, "idle")
      BY <1>8, <2>3 DEF Elapsed
    <3>2. UNCHANGED owed /\ UNCHANGED pending
      BY <2>1, <3>1 DEF work
    <3>3. pc'[Main] = "dead" \/ (pc'[Main] = "idle" /\ pending # "none")
      BY <1>a, <1>b, <3>1 DEF Goto
    <3>4. QED
      BY <1>2, <2>1, <3>2, <3>3
  <2>4. QED
    BY <2>2, <2>3
<1>9. CASE OpenDir(Main)
  BY <1>2, <1>9 DEF OpenDir, source, zones
<1>10. CASE IngestDone(Main) \/ Report(Main)
  <2>1. UNCHANGED <<disk, mtime, torn, known, raw, marks, published, owed>>
    BY <1>10 DEF IngestDone, Report, source, work, zones
  <2>2. pc[Main] \in Refreshing /\ pc'[Main] \in Refreshing \ {"failed"}
    BY <1>10, <1>a, <1>b DEF IngestDone, Report, Goto, Refreshing
  <2>3. QED
    BY <1>2, <2>1, <2>2
<1>11. CASE Rebuild(Main) \/ Compute(Main)
  <2>1. UNCHANGED <<disk, mtime, torn, known, raw, owed>>
    BY <1>11 DEF Rebuild, Compute, source, work
  <2>2. pc[Main] \in Refreshing /\ pc'[Main] \in {"compute", "report"}
    BY <1>11, <1>a, <1>b DEF Rebuild, Compute, Goto, Refreshing
  <2>3. QED
    BY <2>1, <2>2 DEF WakeupInv, Refreshing, known
<1>12. ASSUME NEW f \in Files, IngestFile(Main, f) PROVE WakeupInv'
  <2>1. /\ pc[Main] = "ingest" /\ UNCHANGED <<disk, mtime, torn, known, pending, owed>>
        /\ raw' = raw \/ raw' = [raw EXCEPT ![f] = disk[f]]
    BY <1>12 DEF IngestFile, source
  <2>2. \A d \in Docs : raw'[d] = raw[d]
    <3>1. raw \in [Items -> Nat] /\ \A d \in Docs : d \in Items /\ d # f
      BY ConstantsAssumption, ConstantsTyped DEF TypeOK
    <3>2. QED
      BY <2>1, <3>1
  <2>3. pc'[Main] = "ingest" \/ (pc'[Main] = "failed" /\ f \in torn)
    BY <1>12, <1>a, <1>b, <2>1 DEF IngestFile, Goto
  <2>4. QED
    BY <2>1, <2>2, <2>3 DEF WakeupInv, Unnoticed, Refreshing, known
<1>13. CASE Finish(Main)
  <2>1. /\ UNCHANGED <<disk, mtime, torn, known, raw, marks, published>> /\ pc[Main] \in {"done", "failed"}
        /\ pc'[Main] = "idle"
    BY <1>13, <1>a, <1>b DEF Finish, Goto, source, zones
  <2>2. Backlog => \E f \in Files : Unnoticed(f)
    BY <2>1, EndsCovered DEF WakeupInv
  <2>3. (Backlog' <=> Backlog) /\ \A f \in Files : Unnoticed(f)' <=> Unnoticed(f)
    BY <2>1 DEF Backlog, HeldBack, BehindWatermark, Unnoticed, known
  <2>4. QED
    BY <2>1, <2>2, <2>3 DEF WakeupInv, Refreshing, known
<1>14. CASE UNCHANGED vars
  BY <1>2, <1>14 DEF vars, source, work, zones
<1>15. QED
  BY <1>a, <1>c, <1>1, <1>3, <1>4, <1>5, <1>6, <1>7, <1>8, <1>9, <1>10, <1>11, <1>12, <1>13, <1>14
     DEF Next, PollLoop, Refresh, Faults

\* When run_forever() is the only thread that refreshes, and no stage is made to
\* fail and the process not restarted, nothing stays unpublished without a
\* reason to look again: every set of files and documents, every interleaving
\* of writers, half-written files included.
THEOREM BacklogIsNoticed ==
  ASSUME Callers = {}, MaxFailures = 0, MaxRestarts = 0
  PROVE  Spec => []BacklogHasWakeup
<1>1. Init => IInv /\ LocalsClean /\ WakeupInv
  <2>1. Init => IInv /\ LocalsClean
    BY CycleInvInitially
  <2>2. Init => WakeupInv
    BY ConstantsTyped DEF Init, WakeupInv, Backlog, Refreshing
  <2>3. QED
    BY <2>1, <2>2
<1>2. /\ TypeOK /\ TypeOK' /\ OneRefreshAtATime /\ LocalsClean /\ IInv /\ WakeupInv /\ [Next]_vars
      => LocalsClean' /\ IInv' /\ WakeupInv'
  BY CycleInvIsKept, WakeupIsKept
<1>3. WakeupInv => BacklogHasWakeup
  <2>1. Main \in Threads
    BY ConstantsTyped
  <2>2. QED
    BY <2>1 DEF WakeupInv, BacklogHasWakeup, Unnoticed, Disguised
<1>4. QED
  BY <1>1, <1>2, <1>3, TypeInvariant, AtMostOneRefresh, PTL DEF Spec
===============================================================================
