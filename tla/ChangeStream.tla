----------------------------- MODULE ChangeStream -----------------------------
(***************************************************************************)
(* ingestion/mongo_change_stream.py: the watcher that turns MongoDB change *)
(* events into raw-zone runs, with one resume token and one backoff per    *)
(* collection, all tokens kept in one JSON file.                           *)
(*                                                                         *)
(* An event is its position in the collection's change history; a resume   *)
(* token is the position of the last event delivered before it.            *)
(***************************************************************************)
EXTENDS Integers, Sequences, FiniteSets

CONSTANTS
  Watched,       \* the watched collections, in the order of config/mongo.yaml
  Initial, Mult, Longest,  \* backoff_initial_seconds, _multiplier, _max_seconds
  MaxEvents,     \* bound: events per collection
  MaxRejections, \* bound: watch() calls that raise
  MaxBreaks,     \* bound: try_next() calls that raise
  MaxCrashes,    \* bound: exceptions out of the ingestion, and process deaths
  TornSaves      \* may the process die while the token file is being written?

NoToken == -1
Closed == -1

Collections == {Watched[k] : k \in DOMAIN Watched}

ASSUME ConstantsAssumption ==
  /\ Watched \in Seq(STRING) /\ Watched # <<>>
  /\ \A j, k \in DOMAIN Watched : Watched[j] = Watched[k] => j = k
  /\ {Initial, Mult, Longest} \subseteq Nat \ {0} /\ Initial =< Longest
  /\ {MaxEvents, MaxRejections, MaxBreaks, MaxCrashes} \subseteq Nat
  /\ TornSaves \in BOOLEAN

VARIABLES
  history, \* history[c]: number of events collection c has had (kept by MongoDB)
  file,    \* the resume-token file; an unreadable file loads like an empty one
  token,   \* resume_tokens
  stream,  \* stream[c]: position of the open change stream, or Closed
  delay,   \* backoff_delay
  waiting, \* collections whose next_attempt_at is not over yet
  k,       \* the handle the sweep is at
  pc,      \* "sweep", "ingest", "save", "write"; in close() "close", "closing"; "down"
  raw,     \* raw[c]: events whose run, or delete record, is in the raw zone
  base,    \* history: where the stream was opened without a token last
  checked, \* history: the first token of the collection that reached the file
  again,   \* history: events that entered the raw zone twice
  rejections, breaks, crashes

tokens == <<file, token>>
links  == <<stream, delay, waiting>>
ghosts == <<base, checked, again>>
faults == <<rejections, breaks, crashes>>
vars   == <<history, tokens, links, k, pc, raw, ghosts, faults>>

Positions == 0..MaxEvents

TypeOK ==
  /\ history \in [Collections -> Positions]
  /\ file \in [Collections -> Positions \cup {NoToken}]
  /\ token \in [Collections -> Positions \cup {NoToken}]
  /\ stream \in [Collections -> Positions \cup {Closed}]
  /\ delay \in [Collections -> {0} \cup Initial..Longest]
  /\ waiting \in SUBSET Collections
  /\ k \in DOMAIN Watched
  /\ pc \in {"sweep", "ingest", "save", "write", "close", "closing", "down"}
  /\ raw \in [Collections -> SUBSET Positions]
  /\ base \in [Collections -> Positions]
  /\ checked \in [Collections -> Positions \cup {NoToken}]
  /\ again \in [Collections -> SUBSET Positions]
  /\ rejections \in 0..MaxRejections
  /\ breaks \in 0..MaxBreaks
  /\ crashes \in 0..MaxCrashes

NoTokens == [c \in Collections |-> NoToken]
NoStreams == [c \in Collections |-> Closed]

Init ==
  /\ history = [c \in Collections |-> 0]
  /\ file = NoTokens /\ token = NoTokens
  /\ stream = NoStreams
  /\ delay = [c \in Collections |-> 0]
  /\ waiting = {}
  /\ k = 1 /\ pc = "sweep"
  /\ raw = [c \in Collections |-> {}]
  /\ base = [c \in Collections |-> 0]
  /\ checked = NoTokens
  /\ again = [c \in Collections |-> {}]
  /\ rejections = 0 /\ breaks = 0 /\ crashes = 0

-----------------------------------------------------------------------------
(* The environment.                                                         *)

Change(c) ==
  /\ history[c] < MaxEvents
  /\ history' = [history EXCEPT ![c] = @ + 1]
  /\ UNCHANGED <<tokens, links, k, pc, raw, ghosts, faults>>

\* The clock reaches next_attempt_at.
Wait(c) ==
  /\ c \in waiting
  /\ waiting' = waiting \ {c}
  /\ UNCHANGED <<history, tokens, stream, delay, k, pc, raw, ghosts, faults>>

-----------------------------------------------------------------------------
(* poll_once(): handle by handle.                                           *)

This == Watched[k]
FirstHandle == k' = 1
NextHandle == k' = (k % Len(Watched)) + 1

BackedOff(d) == IF d = 0 THEN Initial
                ELSE IF d * Mult < Longest THEN d * Mult ELSE Longest

\* _backoff()
Backoff(c) ==
  /\ stream' = [stream EXCEPT ![c] = Closed]
  /\ delay' = [delay EXCEPT ![c] = BackedOff(@)]
  /\ waiting' = waiting \cup {c}

Skip ==
  /\ pc = "sweep" /\ stream[This] = Closed /\ This \in waiting
  /\ NextHandle
  /\ UNCHANGED <<history, tokens, links, pc, raw, ghosts, faults>>

Attempting == pc = "sweep" /\ stream[This] = Closed /\ This \notin waiting

\* watch() succeeds: after the token when there is one, from now on otherwise.
OpenStream ==
  /\ Attempting
  /\ stream' = [stream EXCEPT ![This] = IF token[This] = NoToken THEN history[This] ELSE token[This]]
  /\ base' = [base EXCEPT ![This] = IF token[This] = NoToken THEN history[This] ELSE @]
  /\ delay' = [delay EXCEPT ![This] = 0]
  /\ UNCHANGED <<history, tokens, waiting, k, pc, raw, checked, again, faults>>

OpenFailsUnsaved ==
  /\ Attempting
  /\ rejections < MaxRejections
  /\ rejections' = rejections + 1
  /\ Backoff(This)
  /\ token' = [token EXCEPT ![This] = NoToken]
  /\ NextHandle
  /\ UNCHANGED <<history, file, pc, raw, ghosts, breaks, crashes>>

\* watch() raises, whatever the reason: a token is dropped and the file saved.
OpenFails ==
  /\ Attempting
  /\ rejections < MaxRejections
  /\ rejections' = rejections + 1
  /\ Backoff(This)
  /\ IF token[This] = NoToken
     THEN NextHandle /\ UNCHANGED <<token, pc>>
     ELSE /\ token' = [token EXCEPT ![This] = NoToken]
          /\ pc' = "save"
          /\ UNCHANGED k
  /\ UNCHANGED <<history, file, raw, ghosts, breaks, crashes>>

StreamBreaks ==
  /\ pc = "sweep" /\ stream[This] # Closed
  /\ breaks < MaxBreaks
  /\ breaks' = breaks + 1
  /\ Backoff(This)
  /\ NextHandle
  /\ UNCHANGED <<history, tokens, pc, raw, ghosts, rejections, crashes>>

\* try_next() has nothing: the token moves in memory only.
IdlePoll ==
  /\ pc = "sweep" /\ stream[This] # Closed /\ stream[This] = history[This]
  /\ token' = [token EXCEPT ![This] = stream[This]]
  /\ NextHandle
  /\ UNCHANGED <<history, file, links, pc, raw, ghosts, faults>>

DeliverCheckpointed ==
  /\ pc = "sweep" /\ stream[This] # Closed /\ stream[This] < history[This]
  /\ stream' = [stream EXCEPT ![This] = @ + 1]
  /\ token' = stream'
  /\ pc' = "ingest"
  /\ UNCHANGED <<history, file, delay, waiting, k, raw, ghosts, faults>>

\* try_next() hands over the next event.
Deliver ==
  /\ pc = "sweep" /\ stream[This] # Closed /\ stream[This] < history[This]
  /\ stream' = [stream EXCEPT ![This] = @ + 1]
  /\ pc' = "ingest"
  /\ UNCHANGED <<history, tokens, delay, waiting, k, raw, ghosts, faults>>

WriteRaw(c, e) ==
  /\ raw' = [raw EXCEPT ![c] = @ \cup {e}]
  /\ again' = [again EXCEPT ![c] = @ \cup ({e} \cap raw[c])]

TokenForgotten(c) == token
TokenAfter(c) == [token EXCEPT ![c] = stream[c]]

\* ingest_mongo_collection() and the lineage edge, or _handle_delete(); an event
\* without a document counts as handled.
Ingest ==
  /\ pc = "ingest"
  /\ WriteRaw(This, stream[This])
  /\ token' = TokenAfter(This)
  /\ pc' = "save"
  /\ UNCHANGED <<history, file, links, k, base, checked, faults>>

\* _save_resume_tokens(): write_text() truncates the file, then fills it.
Save ==
  /\ pc \in {"save", "close"}
  /\ file' = NoTokens
  /\ pc' = IF pc = "save" THEN "write" ELSE "closing"
  /\ UNCHANGED <<history, token, links, k, raw, ghosts, faults>>

Write ==
  /\ pc \in {"write", "closing"}
  /\ file' = token
  /\ checked' = [c \in Collections |-> IF checked[c] = NoToken THEN token[c] ELSE checked[c]]
  /\ IF pc = "closing"
     THEN pc' = "down" /\ UNCHANGED k
     ELSE pc' = "sweep" /\ NextHandle
  /\ UNCHANGED <<history, token, links, raw, base, again, faults>>

-----------------------------------------------------------------------------
(* Shutdown, failures and restart.                                          *)

\* A shutdown request, or the duration cap, at the top of a sweep: close().
Stop ==
  /\ crashes < MaxCrashes
  /\ crashes' = crashes + 1
  /\ pc = "sweep" /\ k = 1
  /\ pc' = "close"
  /\ UNCHANGED <<history, tokens, links, k, raw, ghosts, rejections, breaks>>

\* The ingestion raises, before or after the raw files are written: poll_once()
\* does not catch it, and run_forever() closes the watcher and ends.
IngestRaises ==
  /\ crashes < MaxCrashes
  /\ crashes' = crashes + 1
  /\ pc = "ingest"
  /\ WriteRaw(This, stream[This]) \/ UNCHANGED <<raw, again>>
  /\ pc' = "close"
  /\ UNCHANGED <<history, tokens, links, k, base, checked, rejections, breaks>>

Die ==
  /\ crashes < MaxCrashes
  /\ crashes' = crashes + 1
  /\ pc # "down" /\ (TornSaves \/ pc \notin {"write", "closing"})
  /\ pc' = "down"
  /\ UNCHANGED <<history, tokens, links, k, raw, ghosts, rejections, breaks>>

\* __init__()
Restart ==
  /\ pc = "down"
  /\ token' = file
  /\ stream' = NoStreams
  /\ delay' = [c \in Collections |-> 0]
  /\ waiting' = {}
  /\ k' = 1 /\ pc' = "sweep"
  /\ UNCHANGED <<history, file, raw, ghosts, faults>>

-----------------------------------------------------------------------------
PollOnce == Skip \/ OpenStream \/ IdlePoll \/ Deliver \/ Ingest \/ Save \/ Write
Failures == OpenFails \/ StreamBreaks \/ Stop \/ IngestRaises \/ Die

Next ==
  \/ \E c \in Collections : Change(c) \/ Wait(c)
  \/ PollOnce
  \/ Failures
  \/ Restart

Spec == Init /\ [][Next]_vars

\* The loop of run_forever() goes on, a backoff runs out, and whoever supervises
\* the process starts it again.
FairSpec ==
  /\ Spec
  /\ WF_vars(PollOnce) /\ WF_vars(Restart)
  /\ \A c \in Collections : WF_vars(Wait(c))

-----------------------------------------------------------------------------
(* Properties.                                                              *)

\* A resume token, in memory or on disk, never runs ahead of the raw zone: every
\* event since the stream was last opened without a token is in the raw zone
\* before the token moves past it, through broken streams and crashes anywhere.
TokenNeverAheadOfRaw ==
  \A c \in Collections : \A e \in Positions :
    base[c] < e /\ (e =< token[c] \/ e =< file[c]) => e \in raw[c]

\* Events are ingested again only because the process died or its ingestion
\* raised, one event each time: the one in hand, or being saved.  No broken
\* stream, rejected token, torn file or reconnection replays anything.
ReplaysAreCrashes ==
  Cardinality({w \in Collections \X Positions : w[2] \in again[w[1]]}) =< crashes

\* Whatever failed, and however long its backoff grew, every collection is
\* watched again and catches up with its changes once failures stop.
EveryStreamRecovers == \A c \in Collections : <>[](stream[c] = history[c])

\* The watcher is a checkpointed feed: the raw zone is the store, the token file
\* the checkpoints.  Events are replayed and tokens withdrawn, but no checkpoint
\* runs ahead of the store, and a stream is opened at the end of the history only
\* for a collection whose token is gone from the file too.
Feed == INSTANCE CheckpointedFeed WITH
  Sources <- Collections, NoMark <- NoToken,
  sent <- history, stored <- raw, start <- base, mark <- file

IsCheckpointedFeed == Feed!Spec

\* Once a token of the collection has reached the file, no later event is ever
\* skipped: "a restart resumes watching from where it left off instead of
\* re-processing or silently missing events" (module docstring).
NoEventSkipped ==
  \A c \in Collections : \A e \in Positions :
    checked[c] # NoToken /\ checked[c] < e /\ e =< token[c] => e \in raw[c]
===============================================================================
