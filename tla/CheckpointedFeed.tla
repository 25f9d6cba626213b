--------------------------- MODULE CheckpointedFeed ---------------------------
(***************************************************************************)
(* What a consumer with durable checkpoints promises its sources, however  *)
(* it is built: an event may be stored more than once, but a checkpoint    *)
(* covers only stored events, and events are passed over only by a source  *)
(* that has no checkpoint.  ChangeStream implements it.                    *)
(***************************************************************************)
EXTENDS Integers

CONSTANTS Sources, NoMark

VARIABLES
  sent,   \* sent[c]: number of events source c has published
  stored, \* stored[c]: the events of c in the store
  start,  \* start[c]: the position from which c is followed
  mark    \* mark[c]: the durable checkpoint of c, or NoMark

vars == <<sent, stored, start, mark>>

Init ==
  /\ sent = [c \in Sources |-> 0]
  /\ stored = [c \in Sources |-> {}]
  /\ start = [c \in Sources |-> 0]
  /\ mark = [c \in Sources |-> NoMark]

Publish(c) ==
  /\ sent' = [sent EXCEPT ![c] = @ + 1]
  /\ UNCHANGED <<stored, start, mark>>

Store(c) ==
  /\ \E e \in 1..sent[c] : stored' = [stored EXCEPT ![c] = @ \cup {e}]
  /\ UNCHANGED <<sent, start, mark>>

\* Every event since the start up to position m is in the store.
Covered(c, m) == m =< sent[c] /\ \A e \in 1..m : start[c] < e => e \in stored[c]

\* All checkpoints are written together; any of them may be withdrawn.
Checkpoint ==
  /\ mark' \in [Sources -> Nat \cup {NoMark}]
  /\ \A c \in Sources : mark'[c] = NoMark \/ Covered(c, mark'[c])
  /\ UNCHANGED <<sent, stored, start>>

\* A source without a checkpoint is followed from now on.
StartOver(c) ==
  /\ mark[c] = NoMark
  /\ start' = [start EXCEPT ![c] = sent[c]]
  /\ UNCHANGED <<sent, stored, mark>>

Next ==
  \/ Checkpoint
  \/ \E c \in Sources : Publish(c) \/ Store(c) \/ StartOver(c)

Spec == Init /\ [][Next]_vars
===============================================================================
