------------------------------- MODULE MongoPoll -------------------------------
(***************************************************************************)
(* ingestion/mongo_ingest.py: the incremental pull of MongoDB collections  *)
(* by an updated_at watermark, and ingest_mongo_collection(), which the    *)
(* change-stream watcher and stream_generator's MongoSink also call with a *)
(* document of their own.  All of them read, change and write back one     *)
(* watermark file.                                                         *)
(***************************************************************************)
EXTENDS Integers, Sequences, FiniteSets, FiniteSetsExt

CONSTANTS
  Order,       \* the collections, in the order of config/mongo.yaml
  Docs,        \* document versions
  CollectionOf,\* CollectionOf[d]: where d is inserted
  Pollers,     \* processes of orchestration/mongo_flow.py
  Feeders,     \* processes that ingest single documents as they see them
  Fed,         \* the collections whose documents the feeders see
  BatchSize,   \* batch_size
  MaxStamp,    \* bound: values of updated_at
  MaxDeaths    \* bound: processes that die

PolledCollections == {Order[j] : j \in DOMAIN Order}
Processes == Pollers \cup Feeders

ASSUME PollAssumption ==
  /\ Order \in Seq(PolledCollections) /\ Order # <<>>
  /\ CollectionOf \in [Docs -> PolledCollections]
  /\ Pollers \cap Feeders = {} /\ Fed \subseteq PolledCollections
  /\ BatchSize \in Nat \ {0} /\ MaxStamp \in Nat /\ MaxDeaths \in Nat

VARIABLES
  stamp,   \* stamp[d]: updated_at of d, 0 while nobody has stamped it
  present, \* the documents in MongoDB
  handed,  \* the documents whose change has been handed to a feeder
  late,    \* history: inserted after a document of its collection with a higher stamp
  mark,    \* the watermarks last written to the file; 0: no watermark yet
  markFile,\* "whole", "empty" (opened for writing), or "garbled": not JSON
  landed,  \* documents with a run in the raw zone
  at,      \* at[p]: "idle", "fetched", "stored", "loaded", "saving"
  turn,    \* turn[p]: the collection ingest_all_mongo_collections() is at
  batch,   \* batch[p]: the documents in hand
  copy,    \* copy[p]: the watermarks _advance_watermark() has loaded
  repulled,\* history: documents a poller pulled although they were stored
  cut,     \* history: documents in hand when a process died or its run raised
  deaths

mongo   == <<stamp, present, handed, late>>
job     == <<at, turn, batch, copy>>
pollHistory == <<repulled, cut, deaths>>
pollVars == <<mongo, mark, markFile, landed, job, pollHistory>>

Stamps == 1..MaxStamp
NoMarks == [c \in PolledCollections |-> 0]

PollTypeOK ==
  /\ stamp \in [Docs -> 0..MaxStamp]
  /\ present \in SUBSET Docs
  /\ handed \in SUBSET Docs
  /\ late \in SUBSET Docs
  /\ mark \in [PolledCollections -> 0..MaxStamp]
  /\ markFile \in {"whole", "empty", "garbled"}
  /\ landed \in SUBSET Docs
  /\ at \in [Processes -> {"idle", "fetched", "stored", "loaded", "saving"}]
  /\ turn \in [Processes -> DOMAIN Order]
  /\ batch \in [Processes -> SUBSET Docs]
  /\ copy \in [Processes -> [PolledCollections -> 0..MaxStamp]]
  /\ repulled \in SUBSET Docs
  /\ cut \in SUBSET Docs
  /\ deaths \in 0..MaxDeaths

PollInit ==
  /\ stamp = [d \in Docs |-> 0]
  /\ present = {}
  /\ handed = {}
  /\ late = {}
  /\ mark = NoMarks
  /\ markFile = "whole"
  /\ landed = {}
  /\ at = [p \in Processes |-> "idle"]
  /\ turn = [p \in Processes |-> 1]
  /\ batch = [p \in Processes |-> {}]
  /\ copy = [p \in Processes |-> NoMarks]
  /\ repulled = {}
  /\ cut = {}
  /\ deaths = 0

InCollection(c) == {d \in Docs : CollectionOf[d] = c}

-----------------------------------------------------------------------------
(* Writers stamp a document when they build it and insert it later: several  *)
(* share a tick of the clock, and they appear in any order.                  *)

Stamp(d) ==
  /\ stamp[d] = 0
  /\ \E s \in Stamps : stamp' = [stamp EXCEPT ![d] = s]
  /\ UNCHANGED <<present, handed, late, mark, markFile, landed, job, pollHistory>>

Insert(d) ==
  /\ stamp[d] # 0 /\ d \notin present
  /\ present' = present \cup {d}
  /\ late' = IF \E e \in present \cap InCollection(CollectionOf[d]) : stamp[e] > stamp[d]
             THEN late \cup {d} ELSE late
  /\ UNCHANGED <<stamp, handed, mark, markFile, landed, job, pollHistory>>

-----------------------------------------------------------------------------
(* ingest_all_mongo_collections() and ingest_mongo_collection().            *)

NewerOrEqual(c) == {d \in present \cap InCollection(c) : stamp[d] >= mark[c]}
Newer(c) == {d \in present \cap InCollection(c) : stamp[d] > mark[c]}

\* find().sort(updated_at).limit(batch_size); equal stamps come in any order.
Pages(c) ==
  {S \in SUBSET Newer(c) :
     /\ Cardinality(S) = IF Cardinality(Newer(c)) < BatchSize THEN Cardinality(Newer(c)) ELSE BatchSize
     /\ \A d \in S, e \in Newer(c) \ S : stamp[d] =< stamp[e]}

NextTurn(p) == turn' = [turn EXCEPT ![p] = (@ % Len(Order)) + 1]
Goto(p, place) == at' = [at EXCEPT ![p] = place]
HandsEmpty(p) ==
  /\ batch' = [batch EXCEPT ![p] = {}]
  /\ copy' = [copy EXCEPT ![p] = NoMarks]

\* What is left of a run that ends early: nothing that p had in memory.  A change
\* that a feeder had not finished with is handed out again.
RunEnds(p) ==
  /\ cut' = cut \cup batch[p]
  /\ handed' = IF p \in Feeders THEN handed \ batch[p] ELSE handed
  /\ Goto(p, "idle")
  /\ turn' = [turn EXCEPT ![p] = 1]
  /\ HandsEmpty(p)
  /\ UNCHANGED <<stamp, present, late, mark, markFile, landed, repulled>>

\* fetch_documents(); an empty pull goes on to the next collection.
Fetch(p) ==
  /\ at[p] = "idle" /\ markFile = "whole"
  /\ \E S \in Pages(Order[turn[p]]) :
       /\ batch' = [batch EXCEPT ![p] = S]
       /\ repulled' = repulled \cup (S \cap landed)
       /\ IF S = {} THEN NextTurn(p) /\ UNCHANGED at
                    ELSE Goto(p, "fetched") /\ UNCHANGED turn
  /\ UNCHANGED <<mongo, mark, markFile, landed, copy, cut, deaths>>

\* A change-stream watcher is handed a document of a collection it watches
\* (change_streams.collections), or MongoSink has just inserted it: once, or
\* again when the feeder died before it had finished with it.
FeedOne(p, d) ==
  /\ at[p] = "idle"
  /\ d \in present \ handed /\ CollectionOf[d] \in Fed
  /\ handed' = handed \cup {d}
  /\ batch' = [batch EXCEPT ![p] = {d}]
  /\ Goto(p, "fetched")
  /\ UNCHANGED <<stamp, present, late, mark, markFile, landed, turn, copy, pollHistory>>

\* Source, valid and quarantine files, metadata and lineage.
Store(p) ==
  /\ at[p] = "fetched"
  /\ landed' = landed \cup batch[p]
  /\ Goto(p, "stored")
  /\ UNCHANGED <<mongo, mark, markFile, turn, batch, copy, pollHistory>>

\* _load_watermarks() in _advance_watermark().
LoadMarks(p) ==
  /\ at[p] = "stored" /\ markFile = "whole"
  /\ copy' = [copy EXCEPT ![p] = mark]
  /\ Goto(p, "loaded")
  /\ UNCHANGED <<mongo, mark, markFile, landed, turn, batch, pollHistory>>

\* json.loads() of an empty or garbled file: nobody catches what it raises.
FailLoad(p) ==
  /\ \/ at[p] = "idle" /\ p \in Pollers
     \/ at[p] = "stored"
  /\ markFile # "whole"
  /\ RunEnds(p)
  /\ UNCHANGED deaths

HighestSeen(p) == Max({stamp[d] : d \in present})
Highest(p) == Max({stamp[d] : d \in batch[p]})
CollectionInHand(p) == CollectionOf[CHOOSE d \in batch[p] : TRUE]

\* _save_watermarks(): write_text() opens the file, which empties it ...
OpenMarks(p) ==
  /\ at[p] = "loaded"
  /\ markFile' = "empty"
  /\ Goto(p, "saving")
  /\ UNCHANGED <<mongo, mark, landed, turn, batch, copy, pollHistory>>

\* ... and fills it.  Text over what another process has written into it since
\* leaves the end of the longer one.
SaveMarks(p) ==
  /\ at[p] = "saving"
  /\ mark' = [copy[p] EXCEPT ![CollectionInHand(p)] = Highest(p)]
  /\ \/ markFile' = "whole"
     \/ markFile # "empty" /\ markFile' = "garbled"
  /\ Goto(p, "idle")
  /\ IF p \in Pollers THEN NextTurn(p) ELSE UNCHANGED turn
  /\ HandsEmpty(p)
  /\ UNCHANGED <<mongo, landed, pollHistory>>

\* The process dies, or another step raises and ends its run; it is scheduled again.
Crash(p) ==
  /\ deaths < MaxDeaths
  /\ deaths' = deaths + 1
  /\ at[p] # "idle"
  /\ RunEnds(p)

-----------------------------------------------------------------------------
IngestStep(p) == Store(p) \/ LoadMarks(p) \/ FailLoad(p) \/ OpenMarks(p) \/ SaveMarks(p)
Poll(p) == Fetch(p) \/ IngestStep(p)

PollNext ==
  \/ \E d \in Docs : Stamp(d) \/ Insert(d)
  \/ \E p \in Pollers : Poll(p)
  \/ \E p \in Feeders : IngestStep(p) \/ \E d \in Docs : FeedOne(p, d)
  \/ \E p \in Processes : Crash(p)

PollSpec == PollInit /\ [][PollNext]_pollVars

\* The scheduler of config/mongo.yaml runs the poller again and again, and a call
\* of ingest_mongo_collection() that has begun goes on.
FairPollSpec ==
  /\ PollSpec
  /\ \A p \in Pollers : WF_pollVars(Poll(p))
  /\ \A p \in Feeders : WF_pollVars(IngestStep(p))

-----------------------------------------------------------------------------
(* Properties.                                                              *)

\* What the strict "updated_at > watermark" cannot tell from a stored document: one
\* that appeared after a newer one, or that shares its stamp with a stored one.
Excused(d) ==
  \/ d \in late
  \/ \E e \in landed \ {d} : CollectionOf[e] = CollectionOf[d] /\ stamp[e] = stamp[d]

\* A pull asks only for documents above the watermark: in a collection that only
\* the poller ingests, whatever is in MongoDB at or below it is in the raw zone, or
\* it would never be pulled; the only ones missing are late or tie with a stored
\* one.  Feeders of other collections write the same file from copies they loaded
\* earlier, processes die or fail anywhere, inside a save too, and batches end in
\* the middle of the backlog.
PolledCollectionsAreComplete ==
  \A d \in present :
    CollectionOf[d] \notin Fed /\ stamp[d] =< mark[CollectionOf[d]] => d \in landed \/ Excused(d)

\* The watermark never claims a document nobody has stored, although processes
\* that overlap or die overwrite each other's file.
MarkIsStored ==
  \A c \in PolledCollections : mark[c] # 0 => \E d \in landed \cap InCollection(c) : stamp[d] = mark[c]

\* The watermark stands exactly behind what was taken: of what is at or below it only
\* late documents and ties are missing, and the document it stands at is stored.
MarkTellsWhatIsStored == PolledCollectionsAreComplete /\ MarkIsStored

\* Repeated pulls only pull new documents (governance/lineage.md): as long as no
\* feeder has finished with a document, and so written the watermark file, what is
\* pulled a second time was in the hands of a feeder or of a run that was cut short.
PulledOnce ==
  handed \subseteq UNION {batch[p] : p \in Feeders} => repulled \subseteq cut \cup handed

\* The watermark file cannot be parsed, and nobody is left who will write it.
Broken == markFile # "whole" /\ \A p \in Processes : at[p] \notin {"loaded", "saving"}

\* Every document of a collection that only the poller ingests reaches the raw
\* zone, however often another process resets its watermark: unless it is late, ties
\* with a stored one, or the watermark file was left empty or garbled.
EveryDocumentPulled ==
  \A d \in Docs : CollectionOf[d] \notin Fed /\ d \in present ~> d \in landed \/ Excused(d) \/ Broken

\* "A subsequent mongo_ingest run picks it up" (synthetic/write_mongo.py): every
\* document inserted into such a collection, without exception, reaches the raw zone.
\* The code does not keep this: ties, late inserts and torn watermark files refute it.
EveryInsertIsPulled == \A d \in Docs : CollectionOf[d] \notin Fed /\ d \in present ~> d \in landed
===============================================================================
