------------------------------ MODULE FeedProofs ------------------------------
(***************************************************************************)
(* Proofs about the two feeds from MongoDB: about ChangeStream for every   *)
(* list of watched collections, every backoff policy and every number of   *)
(* events, failures and crashes, torn token files included, and about      *)
(* MongoPoll for any collections, documents, pollers, feeders and batch    *)
(* size, and any number of processes that die.                             *)
(***************************************************************************)
EXTENDS ChangeStream, MongoPoll, TLAPS, FiniteSetTheorems, WellFoundedInduction

\* No token, no stream and no starting point lies beyond the collection's history.
TokensInHistory ==
  \A c \in Collections :
    token[c] =< history[c] /\ file[c] =< history[c] /\ stream[c] =< history[c] /\ base[c] =< history[c]

\* While the watcher runs, what its streams have delivered is in the raw zone,
\* the event in hand excepted.
InHand(c, e) == pc = "ingest" /\ c = This /\ e = stream[c]
StreamFollowsRaw ==
  pc \in {"sweep", "ingest", "save", "write"} =>
    \A c \in Collections : \A e \in Positions :
      base[c] < e /\ e =< stream[c] => e \in raw[c] \/ InHand(c, e)

\* An event is in hand only while its stream is open.
EventInHand == pc = "ingest" => stream[This] # Closed

IInv == TokensInHistory /\ StreamFollowsRaw /\ TokenNeverAheadOfRaw

-----------------------------------------------------------------------------
\* The constants in the form the provers need.
LEMMA ConstantsTyped ==
  /\ Len(Watched) \in Nat \ {0} /\ DOMAIN Watched = 1..Len(Watched)
  /\ Initial \in Nat \ {0} /\ Mult \in Nat \ {0} /\ Longest \in Nat \ {0} /\ Initial =< Longest
  /\ MaxEvents \in Nat /\ MaxRejections \in Nat /\ MaxBreaks \in Nat /\ MaxCrashes \in Nat
BY ConstantsAssumption

\* poll_once() stays inside its list of handles.
LEMMA SweepStaysOnHandles ==
  ASSUME k \in DOMAIN Watched
  PROVE  This \in Collections /\ (k % Len(Watched)) + 1 \in DOMAIN Watched /\ 1 \in DOMAIN Watched
<1>1. \A n \in Nat \ {0} : \A j \in 1..n : (j % n) + 1 \in 1..n
  OBVIOUS
<1>2. (k % Len(Watched)) + 1 \in DOMAIN Watched /\ 1 \in DOMAIN Watched
  BY <1>1, ConstantsTyped
<1>3. This \in Collections
  BY DEF This, Collections
<1>4. QED
  BY <1>2, <1>3

\* A backoff never leaves its range, whatever the multiplier.
LEMMA BackoffStaysInRange ==
  ASSUME NEW d \in {0} \cup Initial..Longest
  PROVE  BackedOff(d) \in {0} \cup Initial..Longest
<1>1. CASE d = 0
  BY <1>1, ConstantsTyped DEF BackedOff
<1>2. CASE d # 0
  <2>1. d \in Nat /\ Initial =< d
    BY <1>2, ConstantsTyped
  <2>2. d * Mult \in Nat /\ d =< d * Mult
    <3>1. \A m \in Nat \ {0} : d * m \in Nat /\ d =< d * m
      BY <2>1
    <3>2. QED
      BY <3>1, ConstantsTyped
  <2>3. QED
    BY <1>2, <2>1, <2>2, ConstantsTyped DEF BackedOff
<1>3. QED
  BY <1>1, <1>2

-----------------------------------------------------------------------------
\* Every reachable state is of the expected shape, and an event in hand comes
\* from an open stream.
THEOREM TokensTyped == Spec => [](TypeOK /\ EventInHand)
<1>1. Init => TypeOK /\ EventInHand
  BY ConstantsTyped DEF Init, TypeOK, EventInHand, NoTokens, NoStreams, Positions, NoToken, Closed
<1>2. TypeOK /\ EventInHand /\ [Next]_vars => TypeOK'
  <2> SUFFICES ASSUME TypeOK, EventInHand, [Next]_vars PROVE TypeOK'
    OBVIOUS
  <2> USE DEF vars, tokens, links, ghosts, faults
  <2>a. /\ This \in Collections /\ 1 \in DOMAIN Watched
        /\ NextHandle => k' \in DOMAIN Watched
    BY SweepStaysOnHandles DEF TypeOK, NextHandle
  <2>b. \A c \in Collections : history[c] \in Positions
    BY DEF TypeOK
  <2>1. ASSUME NEW c \in Collections, Change(c) PROVE TypeOK'
    <3>1. history[c] + 1 \in Positions
      BY <2>1, <2>b, ConstantsTyped DEF Change, Positions
    <3>2. history' \in [Collections -> Positions]
      BY <2>1, <3>1 DEF Change, TypeOK
    <3>3. QED
      BY <2>1, <3>2 DEF Change, TypeOK
  <2>2. ASSUME NEW c \in Collections, Wait(c) PROVE TypeOK'
    BY <2>2 DEF Wait, TypeOK
  <2>3. ASSUME Skip PROVE TypeOK'
    BY <2>a, <2>3 DEF Skip, TypeOK
  <2>4. ASSUME OpenStream PROVE TypeOK'
    <3>1. /\ stream' \in [Collections -> Positions \cup {Closed}]
          /\ base' \in [Collections -> Positions]
      BY <2>a, <2>4 DEF OpenStream, TypeOK, NoToken, Closed
    <3>2. delay' \in [Collections -> {0} \cup Initial..Longest]
      BY <2>4 DEF OpenStream, TypeOK
    <3>3. UNCHANGED <<history, tokens, waiting, k, pc, raw, checked, again, faults>>
      BY <2>4 DEF OpenStream
    <3>4. QED
      BY <3>1, <3>2, <3>3 DEF TypeOK
  <2>5. ASSUME Backoff(This)
        PROVE  /\ stream' \in [Collections -> Positions \cup {Closed}]
               /\ delay' \in [Collections -> {0} \cup Initial..Longest]
               /\ waiting' \in SUBSET Collections
    <3>1. BackedOff(delay[This]) \in {0} \cup Initial..Longest
      BY <2>a, BackoffStaysInRange DEF TypeOK
    <3>2. QED
      BY <2>a, <2>5, <3>1 DEF Backoff, TypeOK
  <2>6. ASSUME OpenFails PROVE TypeOK'
    <3>1. /\ token' \in [Collections -> Positions \cup {NoToken}]
          /\ pc' \in {"sweep", "ingest", "save", "write", "close", "closing", "down"}
          /\ k' \in DOMAIN Watched
      BY <2>a, <2>6 DEF OpenFails, Attempting, TypeOK
    <3>2. rejections' \in 0..MaxRejections
      BY <2>6, ConstantsTyped DEF OpenFails, TypeOK
    <3>3. UNCHANGED <<history, file, raw, ghosts, breaks, crashes>>
      BY <2>6 DEF OpenFails
    <3>4. Backoff(This)
      BY <2>6 DEF OpenFails
    <3>5. QED
      BY <2>5, <3>1, <3>2, <3>3, <3>4 DEF TypeOK
  <2>7. ASSUME StreamBreaks PROVE TypeOK'
    <3>1. Backoff(This) /\ k' \in DOMAIN Watched
      BY <2>a, <2>7 DEF StreamBreaks
    <3>2. breaks' \in 0..MaxBreaks
      BY <2>7, ConstantsTyped DEF StreamBreaks, TypeOK
    <3>3. UNCHANGED <<history, tokens, pc, raw, ghosts, rejections, crashes>>
      BY <2>7 DEF StreamBreaks
    <3>4. QED
      BY <2>5, <3>1, <3>2, <3>3 DEF TypeOK
  <2>8. ASSUME IdlePoll PROVE TypeOK'
    <3>1. token' \in [Collections -> Positions \cup {NoToken}] /\ k' \in DOMAIN Watched
      BY <2>a, <2>b, <2>8 DEF IdlePoll, TypeOK
    <3>2. QED
      BY <2>8, <3>1 DEF IdlePoll, TypeOK
  <2>9. ASSUME Deliver PROVE TypeOK'
    <3>1. stream[This] + 1 \in Positions
      BY <2>a, <2>b, <2>9, ConstantsTyped DEF Deliver, TypeOK, Positions, Closed
    <3>2. stream' \in [Collections -> Positions \cup {Closed}]
      BY <2>9, <3>1 DEF Deliver, TypeOK
    <3>3. QED
      BY <2>9, <3>2 DEF Deliver, TypeOK
  <2>10. ASSUME Ingest \/ IngestRaises PROVE TypeOK'
    <3>0. pc = "ingest"
      BY <2>10 DEF Ingest, IngestRaises
    <3>1. stream[This] \in Positions
      BY <2>a, <3>0 DEF EventInHand, TypeOK
    <3>2. /\ raw' = raw \/ raw' = [raw EXCEPT ![This] = @ \cup {stream[This]}]
          /\ again' = again \/ again' = [again EXCEPT ![This] = @ \cup ({stream[This]} \cap raw[This])]
          /\ token' = token \/ token' = [token EXCEPT ![This] = stream[This]]
          /\ pc' \in {"save", "close"}
          /\ UNCHANGED <<history, file, links, k, base, checked, rejections, breaks>>
      BY <2>10 DEF Ingest, IngestRaises, WriteRaw, TokenAfter
    <3>3. crashes' \in 0..MaxCrashes
      BY <2>10, ConstantsTyped DEF Ingest, IngestRaises, TypeOK
    <3>4. raw' \in [Collections -> SUBSET Positions] /\ again' \in [Collections -> SUBSET Positions]
      BY <2>a, <3>1, <3>2 DEF TypeOK
    <3>5. token' \in [Collections -> Positions \cup {NoToken}]
      BY <2>a, <3>1, <3>2 DEF TypeOK
    <3>6. QED
      BY <3>2, <3>3, <3>4, <3>5 DEF TypeOK
  <2>11. ASSUME Save PROVE TypeOK'
    BY <2>11 DEF Save, TypeOK, NoTokens
  <2>12. ASSUME Write PROVE TypeOK'
    <3>1. checked' \in [Collections -> Positions \cup {NoToken}]
      BY <2>12 DEF Write, TypeOK
    <3>2. pc' \in {"down", "sweep"} /\ k' \in DOMAIN Watched /\ file' = token
      BY <2>a, <2>12 DEF Write, TypeOK
    <3>3. UNCHANGED <<history, token, links, raw, base, again, faults>>
      BY <2>12 DEF Write
    <3>4. QED
      BY <3>1, <3>2, <3>3 DEF TypeOK
  <2>13. ASSUME Stop \/ Die PROVE TypeOK'
    <3>1. crashes' \in 0..MaxCrashes
      BY <2>13, ConstantsTyped DEF Stop, Die, TypeOK
    <3>2. QED
      BY <2>13, <3>1 DEF Stop, Die, TypeOK
  <2>14. ASSUME Restart PROVE TypeOK'
    BY <2>a, <2>14, ConstantsTyped DEF Restart, TypeOK, NoStreams
  <2>15. CASE UNCHANGED vars
    BY <2>15 DEF TypeOK
  <2>16. QED
    BY <2>1, <2>2, <2>3, <2>4, <2>6, <2>7, <2>8, <2>9, <2>10, <2>11, <2>12, <2>13, <2>14, <2>15
       DEF Next, PollOnce, Failures
<1>3. TypeOK /\ EventInHand /\ [Next]_vars => EventInHand'
  <2> SUFFICES ASSUME TypeOK, EventInHand, [Next]_vars, pc' = "ingest" PROVE stream'[This'] # Closed
    BY DEF EventInHand
  <2>1. CASE Deliver
    <3>1. k' = k /\ stream' = [stream EXCEPT ![This] = @ + 1] /\ stream[This] # Closed
      BY <2>1 DEF Deliver
    <3>2. This \in Collections /\ stream[This] \in Positions
      BY <3>1, SweepStaysOnHandles DEF TypeOK
    <3>3. stream'[This] = stream[This] + 1 /\ This' = This
      BY <3>1, <3>2 DEF TypeOK, This
    <3>4. QED
      BY <3>2, <3>3 DEF Positions, Closed
  <2>2. CASE \/ UNCHANGED vars
             \/ \E c \in Collections : Change(c) \/ Wait(c)
    <3>1. UNCHANGED <<pc, k, stream>>
      BY <2>2 DEF Change, Wait, vars, links
    <3>2. QED
      BY <3>1 DEF EventInHand, This
  <2>3. CASE OpenStream \/ IdlePoll \/ Skip \/ OpenFails \/ StreamBreaks \/ Ingest \/ Save \/ Write
    BY <2>3 DEF OpenStream, Attempting, IdlePoll, Skip, OpenFails, StreamBreaks, Ingest, Save, Write
  <2>4. CASE Stop \/ IngestRaises \/ Die \/ Restart
    BY <2>4 DEF Stop, IngestRaises, Die, Restart
  <2>5. QED
    BY <2>1, <2>2, <2>3, <2>4 DEF Next, PollOnce, Failures
<1>4. QED
  BY <1>1, <1>2, <1>3, PTL DEF Spec

-----------------------------------------------------------------------------
\* Positions and tokens can be compared.
LEMMA PositionsAreNumbers ==
  ASSUME TypeOK, NEW c \in Collections
  PROVE  /\ history[c] \in Nat /\ base[c] \in Nat
         /\ token[c] \in Int /\ file[c] \in Int /\ stream[c] \in Int
<1>1. Positions \subseteq Nat /\ Positions \cup {NoToken} \subseteq Int /\ Closed = NoToken
  BY ConstantsTyped DEF Positions, NoToken, Closed
<1>2. /\ history[c] \in Positions /\ base[c] \in Positions
      /\ token[c] \in Positions \cup {NoToken} /\ file[c] \in Positions \cup {NoToken}
      /\ stream[c] \in Positions \cup {Closed}
  BY DEF TypeOK
<1>3. QED
  BY <1>1, <1>2

\* Tokens, streams and starting points are copies of one another, of the current
\* end of the history, or one step closer to it.
LEMMA HistoryStep ==
  ASSUME TypeOK, TypeOK', EventInHand, TokensInHistory, [Next]_vars
  PROVE  TokensInHistory'
<1> USE DEF vars, tokens, links, ghosts, faults
<1>a. This \in Collections
  BY SweepStaysOnHandles DEF TypeOK
<1> SUFFICES ASSUME NEW c \in Collections
             PROVE  /\ token'[c] =< history'[c] /\ file'[c] =< history'[c]
                    /\ stream'[c] =< history'[c] /\ base'[c] =< history'[c]
  BY DEF TokensInHistory
<1>b. /\ history[c] \in Nat /\ base[c] \in Nat
      /\ token[c] \in Int /\ file[c] \in Int /\ stream[c] \in Int
  BY PositionsAreNumbers
<1>c. token[c] =< history[c] /\ file[c] =< history[c] /\ stream[c] =< history[c] /\ base[c] =< history[c]
  BY DEF TokensInHistory
<1>1. ASSUME NEW d \in Collections, Change(d)
      PROVE  history'[c] \in {history[c], history[c] + 1} /\ UNCHANGED <<token, file, stream, base>>
  BY <1>1 DEF Change, TypeOK
<1>2. ASSUME OpenStream
      PROVE  /\ stream'[c] \in {stream[c], history[c], token[c]} /\ base'[c] \in {base[c], history[c]}
             /\ UNCHANGED <<history, token, file>>
  BY <1>2, <1>a DEF OpenStream, TypeOK
<1>3. ASSUME OpenFails \/ StreamBreaks
      PROVE  /\ stream'[c] \in {stream[c], -1} /\ token'[c] \in {token[c], -1}
             /\ UNCHANGED <<history, file, base>>
  BY <1>3, <1>a DEF OpenFails, StreamBreaks, Backoff, TypeOK, NoToken, Closed
<1>4. ASSUME IdlePoll \/ Ingest
      PROVE  token'[c] \in {token[c], stream[c]} /\ UNCHANGED <<history, file, stream, base>>
  BY <1>4, <1>a DEF IdlePoll, Ingest, TokenAfter, TypeOK
<1>5. ASSUME Deliver
      PROVE  /\ stream'[c] = stream[c] \/ (stream[c] < history[c] /\ stream'[c] = stream[c] + 1)
             /\ UNCHANGED <<history, token, file, base>>
  BY <1>5, <1>a DEF Deliver, TypeOK
<1>6. ASSUME Save \/ Write \/ Restart
      PROVE  /\ file'[c] \in {token[c], file[c], -1} /\ token'[c] \in {token[c], file[c]}
             /\ stream'[c] \in {stream[c], -1} /\ UNCHANGED <<history, base>>
  BY <1>6 DEF Save, Write, Restart, NoTokens, NoStreams, NoToken, Closed
<1>7. ASSUME \/ \E d \in Collections : Wait(d)
             \/ Skip \/ Stop \/ IngestRaises \/ Die \/ UNCHANGED vars
      PROVE  UNCHANGED <<history, token, file, stream, base>>
  BY <1>7 DEF Wait, Skip, Stop, IngestRaises, Die
<1>8. CASE \E d \in Collections : Change(d)
  BY <1>b, <1>c, <1>1, <1>8
<1>9. CASE OpenStream \/ IdlePoll \/ Ingest \/ Deliver
  BY <1>b, <1>c, <1>2, <1>4, <1>5, <1>9
<1>10. CASE OpenFails \/ StreamBreaks \/ Save \/ Write \/ Restart
  BY <1>b, <1>c, <1>3, <1>6, <1>10
<1>11. QED
  BY <1>c, <1>7, <1>8, <1>9, <1>10 DEF Next, PollOnce, Failures

\* What a running stream has delivered stays covered: it is opened behind a
\* covered token or at the new starting point, and moves on by one event, which
\* is then in hand until it is ingested.
LEMMA FollowStep ==
  ASSUME TypeOK, TokensInHistory, StreamFollowsRaw, TokenNeverAheadOfRaw, [Next]_vars
  PROVE  StreamFollowsRaw'
<1> USE DEF vars, tokens, links, ghosts, faults
<1>a. This \in Collections
  BY SweepStaysOnHandles DEF TypeOK
<1> SUFFICES ASSUME pc' \in {"sweep", "ingest", "save", "write"},
                    NEW c \in Collections, NEW e \in Positions, base'[c] < e, e =< stream'[c]
             PROVE  e \in raw'[c] \/ InHand(c, e)'
  BY DEF StreamFollowsRaw, Positions
<1>b. /\ history[c] \in Nat /\ base[c] \in Nat /\ token[c] \in Int /\ stream[c] \in Int /\ e \in Nat
  BY PositionsAreNumbers, ConstantsTyped DEF Positions
<1>c. ASSUME pc \in {"sweep", "save", "write"}, base[c] < e, e =< stream[c] PROVE e \in raw[c]
  BY <1>c DEF StreamFollowsRaw, InHand
<1>1. CASE \/ \E d \in Collections : Change(d) \/ Wait(d)
           \/ Skip \/ UNCHANGED vars
  <2>1. UNCHANGED <<stream, pc, raw, base>> /\ (pc = "ingest" => k' = k)
    BY <1>1 DEF Change, Wait, Skip
  <2>2. QED
    BY <2>1 DEF StreamFollowsRaw, InHand, This
<1>2. CASE OpenStream
  <2>1. pc = "sweep" /\ UNCHANGED <<token, raw>>
    BY <1>2 DEF OpenStream, Attempting
  <2>2. CASE c # This
    <3>1. stream'[c] = stream[c] /\ base'[c] = base[c]
      BY <1>2, <2>2 DEF OpenStream, TypeOK
    <3>2. QED
      BY <1>c, <2>1, <3>1
  <2>3. CASE c = This /\ token[c] = NoToken
    <3>1. stream'[c] = history[c] /\ base'[c] = history[c]
      BY <1>2, <2>3 DEF OpenStream, TypeOK
    <3>2. QED
      BY <1>b, <3>1
  <2>4. CASE c = This /\ token[c] # NoToken
    <3>1. stream'[c] = token[c] /\ base'[c] = base[c]
      BY <1>2, <2>4 DEF OpenStream, TypeOK
    <3>2. QED
      BY <2>1, <3>1 DEF TokenNeverAheadOfRaw
  <2>5. QED
    BY <2>2, <2>3, <2>4
<1>3. CASE OpenFails \/ StreamBreaks
  <2>1. pc = "sweep" /\ UNCHANGED <<raw, base>> /\ stream'[c] \in {stream[c], -1}
    BY <1>3, <1>a DEF OpenFails, StreamBreaks, Attempting, Backoff, TypeOK, Closed
  <2>2. stream'[c] = stream[c]
    BY <1>b, <2>1
  <2>3. QED
    BY <1>c, <2>1, <2>2
<1>4. CASE IdlePoll \/ Save \/ Write
  <2>1. pc \in {"sweep", "save", "write"} /\ UNCHANGED <<stream, raw, base>>
    BY <1>4 DEF IdlePoll, Save, Write
  <2>2. QED
    BY <1>c, <2>1
<1>5. CASE Deliver
  <2>1. pc = "sweep" /\ pc' = "ingest" /\ UNCHANGED <<k, raw, base>>
    BY <1>5 DEF Deliver
  <2>2. CASE c # This
    <3>1. stream'[c] = stream[c]
      BY <1>5, <2>2 DEF Deliver, TypeOK
    <3>2. QED
      BY <1>c, <2>1, <3>1
  <2>3. CASE c = This
    <3>1. stream'[c] = stream[c] + 1
      BY <1>5, <2>3 DEF Deliver, TypeOK
    <3>2. CASE e =< stream[c]
      BY <1>c, <2>1, <3>2
    <3>3. CASE e = stream'[c]
      BY <2>1, <2>3, <3>3 DEF InHand, This
    <3>4. QED
      BY <1>b, <3>1, <3>2, <3>3
  <2>4. QED
    BY <2>2, <2>3
<1>6. CASE Ingest
  <2>1. pc = "ingest" /\ UNCHANGED <<stream, base>> /\ raw' = [raw EXCEPT ![This] = @ \cup {stream[This]}]
    BY <1>6 DEF Ingest, WriteRaw
  <2>2. e \in raw[c] \/ (c = This /\ e = stream[c])
    BY <2>1 DEF StreamFollowsRaw, InHand
  <2>3. QED
    BY <1>a, <2>1, <2>2 DEF TypeOK
<1>7. CASE Restart
  <2>1. stream'[c] = -1
    BY <1>7 DEF Restart, NoStreams, Closed
  <2>2. QED
    BY <1>b, <2>1
<1>8. CASE Stop \/ IngestRaises \/ Die
  BY <1>8 DEF Stop, IngestRaises, Die
<1>9. QED
  BY <1>1, <1>2, <1>3, <1>4, <1>5, <1>6, <1>7, <1>8 DEF Next, PollOnce, Failures

\* Tokens are copied from streams that have nothing in hand, or from one another.
LEMMA TokensStep ==
  ASSUME TypeOK, TokensInHistory, StreamFollowsRaw, TokenNeverAheadOfRaw, [Next]_vars
  PROVE  TokenNeverAheadOfRaw'
<1> USE DEF vars, tokens, links, ghosts, faults
<1>a. This \in Collections
  BY SweepStaysOnHandles DEF TypeOK
<1> SUFFICES ASSUME NEW c \in Collections, NEW e \in Positions,
                    base'[c] < e, e =< token'[c] \/ e =< file'[c]
             PROVE  e \in raw'[c]
  BY DEF TokenNeverAheadOfRaw, Positions
<1>b. /\ history[c] \in Nat /\ base[c] \in Nat /\ token[c] \in Int /\ file[c] \in Int
      /\ stream[c] \in Int /\ e \in Nat
  BY PositionsAreNumbers, ConstantsTyped DEF Positions
<1>c. ASSUME base[c] < e, e =< token[c] \/ e =< file[c] PROVE e \in raw[c]
  BY <1>c DEF TokenNeverAheadOfRaw
<1>1. CASE \/ \E d \in Collections : Change(d) \/ Wait(d)
           \/ Skip \/ StreamBreaks \/ Deliver \/ Stop \/ Die \/ UNCHANGED vars
  <2>1. UNCHANGED <<token, file, raw, base>>
    BY <1>1 DEF Change, Wait, Skip, StreamBreaks, Deliver, Stop, Die
  <2>2. QED
    BY <1>c, <2>1
<1>2. CASE OpenStream
  <2>1. base'[c] \in {base[c], history[c]} /\ UNCHANGED <<token, file, raw>>
    BY <1>2, <1>a DEF OpenStream, TypeOK
  <2>2. token[c] =< history[c] /\ file[c] =< history[c]
    BY DEF TokensInHistory
  <2>3. base'[c] = base[c]
    BY <1>b, <2>1, <2>2
  <2>4. QED
    BY <1>c, <2>1, <2>3
<1>3. CASE OpenFails \/ Save \/ Write \/ Restart
  <2>1. /\ token'[c] \in {token[c], file[c], -1} /\ file'[c] \in {token[c], file[c], -1}
        /\ UNCHANGED <<raw, base>>
    BY <1>3, <1>a DEF OpenFails, Save, Write, Restart, NoTokens, NoToken, TypeOK
  <2>2. QED
    BY <1>b, <1>c, <2>1
<1>4. CASE IdlePoll \/ Ingest
  <2>1. /\ token'[c] \in {token[c], stream[c]} /\ UNCHANGED <<file, base>>
        /\ raw[c] \subseteq raw'[c] /\ pc \in {"sweep", "ingest"}
        /\ pc = "ingest" /\ c = This => stream[c] \in raw'[c]
    BY <1>4, <1>a DEF IdlePoll, Ingest, TokenAfter, WriteRaw, TypeOK
  <2>2. CASE e =< token[c] \/ e =< file[c]
    BY <1>c, <2>1, <2>2
  <2>3. CASE e =< stream[c]
    <3>1. e \in raw[c] \/ InHand(c, e)
      BY <2>1, <2>3 DEF StreamFollowsRaw
    <3>2. QED
      BY <2>1, <3>1 DEF InHand
  <2>4. QED
    BY <2>1, <2>2, <2>3
<1>5. CASE IngestRaises
  <2>1. raw[c] \subseteq raw'[c] /\ UNCHANGED <<token, file, base>>
    BY <1>5, <1>a DEF IngestRaises, WriteRaw, TypeOK
  <2>2. QED
    BY <1>c, <2>1
<1>6. QED
  BY <1>1, <1>2, <1>3, <1>4, <1>5 DEF Next, PollOnce, Failures

\* Nothing has happened yet.
LEMMA IInvInitially == Init => IInv
<1> SUFFICES ASSUME Init, NEW c \in Collections
             PROVE  token[c] = -1 /\ file[c] = -1 /\ stream[c] = -1 /\ history[c] = 0 /\ base[c] = 0
  BY ConstantsTyped DEF IInv, TokensInHistory, StreamFollowsRaw, TokenNeverAheadOfRaw, Positions
<1>1. QED
  BY DEF Init, NoTokens, NoStreams, NoToken, Closed

\* Every step keeps it.
LEMMA IInvIsKept ==
  /\ TypeOK /\ EventInHand /\ (TypeOK /\ EventInHand)' /\ IInv /\ [Next]_vars
  => IInv'
BY HistoryStep, FollowStep, TokensStep DEF IInv

\* No token, in memory or on disk, ever runs ahead of the raw zone, whatever
\* breaks and whenever the watcher dies.
THEOREM TokensFollowRaw == Spec => []TokenNeverAheadOfRaw
<1>1. IInv => TokenNeverAheadOfRaw
  BY DEF IInv
<1>2. QED
  BY <1>1, IInvInitially, IInvIsKept, TokensTyped, PTL DEF Spec

-----------------------------------------------------------------------------
(* Replays.                                                                 *)

RawInHistory == \A c \in Collections : \A e \in raw[c] : e =< history[c]

\* The event of the handle's stream is on its way to the token file.
BeingSaved(c, e) == pc = "save" /\ c = This /\ e = stream[c]

\* An event of the raw zone lies behind every position it could be delivered from: that
\* of the open stream, of the token, and of the token a restart would find.
Passed(c, e) ==
  /\ pc \in {"sweep", "ingest", "save", "write"} /\ stream[c] # Closed => e =< stream[c] /\ ~InHand(c, e)
  /\ pc # "down" /\ token[c] # NoToken => e =< token[c]
  /\ file[c] # NoToken => e =< file[c] \/ BeingSaved(c, e)

\* The events in S are all that were ingested twice or still can be, and each of them
\* was paid for with a crash.
PaidFor(S) ==
  /\ S \subseteq Collections \X Positions
  /\ IsFiniteSet(S) /\ Cardinality(S) =< crashes
  /\ \A c \in Collections : \A e \in again[c] : <<c, e>> \in S
  /\ \A c \in Collections : \A e \in raw[c] : <<c, e>> \in S \/ Passed(c, e)

ReplaysPaidFor == RawInHistory /\ \E S \in SUBSET (Collections \X Positions) : PaidFor(S)

\* Events enter the raw zone after they have happened.
LEMMA RawStaysInHistory ==
  ASSUME TypeOK, EventInHand, TokensInHistory, RawInHistory, [Next]_vars
  PROVE  RawInHistory'
<1> USE DEF vars, tokens, links, ghosts, faults
<1>a. This \in Collections
  BY SweepStaysOnHandles DEF TypeOK
<1> SUFFICES ASSUME NEW c \in Collections, NEW e \in raw'[c] PROVE e =< history'[c]
  BY DEF RawInHistory
<1>b. history[c] \in Nat /\ \A x \in raw[c] : x \in Nat /\ x =< history[c]
  BY PositionsAreNumbers, ConstantsTyped DEF TypeOK, RawInHistory, Positions
<1>1. CASE Ingest \/ IngestRaises
  <2>1. history' = history /\ (e \in raw[c] \/ (c = This /\ e = stream[c]))
    BY <1>1, <1>a DEF Ingest, IngestRaises, WriteRaw, TypeOK
  <2>2. QED
    BY <1>b, <2>1 DEF TokensInHistory
<1>2. CASE raw' = raw /\ history' = history
  BY <1>2, <1>b
<1>3. CASE \E d \in Collections : Change(d)
  <2>1. raw' = raw /\ history'[c] \in {history[c], history[c] + 1}
    BY <1>3 DEF Change, TypeOK
  <2>2. QED
    BY <1>b, <2>1
<1>4. \/ Ingest \/ IngestRaises \/ (raw' = raw /\ history' = history)
      \/ \E d \in Collections : Change(d)
  BY DEF Next, PollOnce, Failures, Wait, Skip, OpenStream, IdlePoll, Deliver, Save, Write, OpenFails,
     StreamBreaks, Stop, Die, Restart
<1>5. QED
  BY <1>1, <1>2, <1>3, <1>4

\* Without a crash no event becomes replayable: streams are opened and tokens saved at
\* positions behind which it lies already, and go forward from there.
LEMMA NothingBecomesReplayable ==
  ASSUME TypeOK, EventInHand, TokensInHistory, RawInHistory, [Next]_vars, ~Stop, ~IngestRaises, ~Die,
         NEW c \in Collections, NEW e \in raw[c], Passed(c, e)
  PROVE  Passed(c, e)'
<1> USE DEF vars, tokens, links, ghosts, faults
<1>a. This \in Collections
  BY SweepStaysOnHandles DEF TypeOK
<1>b. /\ history[c] \in Nat /\ token[c] \in Int /\ file[c] \in Int /\ stream[c] \in Int
      /\ e \in Nat /\ e =< history[c]
  BY PositionsAreNumbers, ConstantsTyped DEF TypeOK, RawInHistory, Positions
<1>1. CASE \/ \E d \in Collections : Change(d) \/ Wait(d)
           \/ Skip \/ UNCHANGED vars
  <2>1. UNCHANGED <<token, file, stream, pc>> /\ (pc \in {"ingest", "save"} => k' = k)
    BY <1>1 DEF Change, Wait, Skip
  <2>2. QED
    BY <2>1 DEF Passed, InHand, BeingSaved, This
<1>2. CASE OpenStream
  <2>1. pc = "sweep" /\ UNCHANGED <<token, file, pc>>
    BY <1>2 DEF OpenStream, Attempting
  <2>2. \/ c # This /\ stream'[c] = stream[c]
        \/ token[c] = NoToken /\ stream'[c] = history[c]
        \/ token[c] # NoToken /\ stream'[c] = token[c]
    BY <1>2, <1>a DEF OpenStream, TypeOK
  <2>3. QED
    BY <1>b, <2>1, <2>2 DEF Passed, InHand, BeingSaved
<1>3. CASE OpenFails \/ StreamBreaks
  <2>1. pc = "sweep" /\ pc' \in {"sweep", "save"} /\ UNCHANGED file
    BY <1>3 DEF OpenFails, StreamBreaks, Attempting
  <2>2. stream'[c] \in {stream[c], Closed} /\ token'[c] \in {token[c], NoToken}
    BY <1>3, <1>a DEF OpenFails, StreamBreaks, Backoff, TypeOK
  <2>3. QED
    BY <1>b, <2>1, <2>2 DEF Passed, InHand, BeingSaved
<1>4. CASE IdlePoll
  <2>1. pc = "sweep" /\ UNCHANGED <<file, stream, pc>> /\ stream[This] # Closed
    BY <1>4 DEF IdlePoll
  <2>2. token'[c] = token[c] \/ (c = This /\ token'[c] = stream[c])
    BY <1>4, <1>a DEF IdlePoll, TypeOK
  <2>3. QED
    BY <2>1, <2>2 DEF Passed, InHand, BeingSaved
<1>5. CASE Deliver
  <2>1. pc = "sweep" /\ pc' = "ingest" /\ UNCHANGED <<token, file, k>> /\ stream[This] # Closed
    BY <1>5 DEF Deliver
  <2>2. (c # This /\ stream'[c] = stream[c]) \/ (c = This /\ stream'[c] = stream[c] + 1)
    BY <1>5, <1>a DEF Deliver, TypeOK
  <2>3. QED
    BY <1>b, <2>1, <2>2 DEF Passed, InHand, BeingSaved, This
<1>6. CASE Ingest
  <2>1. pc = "ingest" /\ pc' = "save" /\ UNCHANGED <<file, stream, k>> /\ stream[This] # Closed
    BY <1>6 DEF Ingest, EventInHand
  <2>2. token'[c] = token[c] \/ (c = This /\ token'[c] = stream[c])
    BY <1>6, <1>a DEF Ingest, TokenAfter, TypeOK
  <2>3. QED
    BY <2>1, <2>2 DEF Passed, InHand, BeingSaved, This
<1>7. CASE Save
  BY <1>7 DEF Save, NoTokens, Passed, InHand, BeingSaved
<1>8. CASE Write
  BY <1>8 DEF Write, Passed, InHand, BeingSaved
<1>9. CASE Restart
  BY <1>9 DEF Restart, NoStreams, Passed, InHand, BeingSaved
<1>10. QED
  BY <1>1, <1>2, <1>3, <1>4, <1>5, <1>6, <1>7, <1>8, <1>9 DEF Next, PollOnce, Failures

\* Only an event that could be delivered again is ingested again, and one that is
\* ingested is passed by its stream and its token, and soon by the file.
LEMMA IngestKeepsPaidFor ==
  ASSUME TypeOK, EventInHand, TokensInHistory, RawInHistory, Ingest,
         NEW S \in SUBSET (Collections \X Positions), PaidFor(S)
  PROVE  PaidFor(S)'
<1>a. This \in Collections
  BY SweepStaysOnHandles DEF TypeOK
<1>b. stream[This] \in Positions /\ stream[This] # Closed
  BY <1>a DEF Ingest, EventInHand, TypeOK
<1>1. /\ pc = "ingest" /\ pc' = "save" /\ UNCHANGED <<file, stream, k, crashes>>
      /\ raw' = [raw EXCEPT ![This] = @ \cup {stream[This]}]
      /\ again' = [again EXCEPT ![This] = @ \cup ({stream[This]} \cap raw[This])]
      /\ token' = [token EXCEPT ![This] = stream[This]]
  BY DEF Ingest, WriteRaw, TokenAfter, links, faults
<1>2. stream[This] \in raw[This] => <<This, stream[This]>> \in S
  BY <1>a, <1>b, <1>1 DEF PaidFor, Passed, InHand
<1>3. \A c \in Collections : \A e \in again'[c] : <<c, e>> \in S
  BY <1>a, <1>1, <1>2 DEF PaidFor, TypeOK
<1>4. ASSUME NEW c \in Collections, NEW e \in raw'[c], <<c, e>> \notin S PROVE Passed(c, e)'
  <2>1. CASE e \in raw[c]
    BY <1>4, <2>1, NothingBecomesReplayable DEF PaidFor, Next, PollOnce, Ingest, Stop, IngestRaises, Die
  <2>2. CASE e \notin raw[c]
    <3>1. c = This /\ e = stream[This] /\ token'[c] = stream[c] /\ This' = This
      BY <1>a, <1>1, <2>2 DEF TypeOK, This
    <3>2. stream[c] =< stream[c]
      BY <3>1, PositionsAreNumbers
    <3>3. QED
      BY <1>1, <3>1, <3>2 DEF Passed, InHand, BeingSaved
  <2>3. QED
    BY <2>1, <2>2
<1>5. QED
  BY <1>1, <1>3, <1>4 DEF PaidFor

\* A crash makes one event replayable at most: the one in hand or being saved.
LEMMA CrashPaysForOne ==
  ASSUME TypeOK, EventInHand, TokensInHistory, RawInHistory, Stop \/ IngestRaises \/ Die,
         NEW S \in SUBSET (Collections \X Positions), PaidFor(S)
  PROVE  \E T \in SUBSET (Collections \X Positions) : PaidFor(T)'
<1>a. This \in Collections
  BY SweepStaysOnHandles DEF TypeOK
<1>x. PICK T \in SUBSET (Collections \X Positions) :
        T = S \cup ({<<This, stream[This]>>} \cap (Collections \X Positions))
  OBVIOUS
<1>1. /\ pc' \in {"close", "down"} /\ pc # "down"
      /\ UNCHANGED <<token, file, stream, k>> /\ crashes' = crashes + 1
  BY DEF Stop, IngestRaises, Die, tokens, links
<1>2. /\ IsFiniteSet(T)
      /\ Cardinality(T) =< crashes + 1
  <2>1. IsFiniteSet(S) /\ Cardinality(S) \in Nat /\ Cardinality(S) =< crashes /\ crashes \in Nat
    BY FS_CardinalityType, ConstantsTyped DEF PaidFor, TypeOK
  <2>2. CASE T = S
    BY <2>1, <2>2
  <2>3. CASE T # S
    <3>1. T = S \cup {<<This, stream[This]>>} /\ <<This, stream[This]>> \notin S
      BY <1>x, <2>3
    <3>2. IsFiniteSet(T) /\ Cardinality(T) = Cardinality(S) + 1
      BY <2>1, <3>1, FS_AddElement
    <3>3. QED
      BY <2>1, <3>2
  <2>4. QED
    BY <2>2, <2>3
<1>3. /\ raw' = raw /\ again' = again
      \/ /\ pc = "ingest"
         /\ raw' = [raw EXCEPT ![This] = @ \cup {stream[This]}]
         /\ again' = [again EXCEPT ![This] = @ \cup ({stream[This]} \cap raw[This])]
  BY DEF Stop, IngestRaises, Die, WriteRaw, ghosts
<1>4. /\ S \subseteq T
      /\ pc = "ingest" => <<This, stream[This]>> \in T
      /\ stream[This] \in Positions => <<This, stream[This]>> \in T
  BY <1>a, <1>x DEF EventInHand, TypeOK
<1>5. ASSUME NEW c \in Collections, NEW e \in again'[c] PROVE <<c, e>> \in T
  <2>1. e \in again[c] \/ (pc = "ingest" /\ c = This /\ e = stream[This])
    BY <1>a, <1>3, <1>5 DEF TypeOK
  <2>2. QED
    BY <1>4, <1>5, <2>1 DEF PaidFor
<1>6. ASSUME NEW c \in Collections, NEW e \in raw'[c], <<c, e>> \notin T PROVE Passed(c, e)'
  <2>1. e \in raw[c] /\ Passed(c, e)
    BY <1>a, <1>3, <1>4, <1>6 DEF PaidFor, TypeOK
  <2>2. ~BeingSaved(c, e)
    BY <1>4, <1>6, <2>1 DEF BeingSaved, TypeOK
  <2>3. QED
    BY <1>1, <2>1, <2>2 DEF Passed, InHand, BeingSaved
<1>7. PaidFor(T)'
  BY <1>1, <1>2, <1>5, <1>6 DEF PaidFor
<1>8. QED
  BY <1>7

\* Every replayed event has cost a crash, for any number of collections, events,
\* rejected tokens, broken streams and torn token files.
THEOREM ReplaysAreBounded == Spec => []ReplaysAreCrashes
<1>1. Init => ReplaysPaidFor
  <2> SUFFICES ASSUME Init PROVE PaidFor({}) /\ RawInHistory
    BY DEF ReplaysPaidFor
  <2>1. \A c \in Collections : raw[c] = {} /\ again[c] = {}
    BY DEF Init
  <2>2. IsFiniteSet({}) /\ Cardinality({}) = 0 /\ crashes = 0
    BY FS_EmptySet DEF Init
  <2>3. QED
    BY <2>1, <2>2 DEF PaidFor, RawInHistory
<1>2. TypeOK /\ EventInHand /\ TokensInHistory /\ ReplaysPaidFor /\ [Next]_vars => ReplaysPaidFor'
  <2> SUFFICES ASSUME TypeOK, EventInHand, TokensInHistory, ReplaysPaidFor, [Next]_vars
               PROVE  \E T \in SUBSET (Collections \X Positions) : PaidFor(T)'
    BY RawStaysInHistory DEF ReplaysPaidFor, Positions
  <2>1. PICK S \in SUBSET (Collections \X Positions) : PaidFor(S)
    BY DEF ReplaysPaidFor
  <2>2. RawInHistory
    BY DEF ReplaysPaidFor
  <2>3. CASE Stop \/ IngestRaises \/ Die
    BY <2>1, <2>2, <2>3, CrashPaysForOne
  <2>4. CASE Ingest
    BY <2>1, <2>2, <2>4, IngestKeepsPaidFor
  <2>5. CASE ~Stop /\ ~IngestRaises /\ ~Die /\ ~Ingest
    <3>1. UNCHANGED <<raw, again, crashes>>
      BY <2>5 DEF Next, PollOnce, Failures, Change, Wait, Skip, OpenStream, IdlePoll, Deliver, Save, Write,
         OpenFails, StreamBreaks, Restart, vars, ghosts, faults
    <3>2. \A c \in Collections : \A e \in raw[c] : Passed(c, e) => Passed(c, e)'
      BY <2>2, <2>5, NothingBecomesReplayable
    <3>3. PaidFor(S)'
      BY <2>1, <3>1, <3>2 DEF PaidFor, Positions
    <3>4. QED
      BY <3>3
  <2>6. QED
    BY <2>3, <2>4, <2>5
<1>3. TypeOK /\ ReplaysPaidFor => ReplaysAreCrashes
  <2> SUFFICES ASSUME TypeOK, ReplaysPaidFor PROVE ReplaysAreCrashes
    OBVIOUS
  <2> DEFINE W == {w \in Collections \X Positions : w[2] \in again[w[1]]}
  <2>1. PICK S \in SUBSET (Collections \X Positions) : PaidFor(S)
    BY DEF ReplaysPaidFor
  <2>2. W \subseteq S
    BY <2>1 DEF PaidFor
  <2>3. /\ IsFiniteSet(S) /\ Cardinality(S) \in Nat /\ Cardinality(S) =< crashes /\ crashes \in Nat
        /\ Cardinality(W) \in Nat /\ Cardinality(W) =< Cardinality(S)
    BY <2>1, <2>2, FS_CardinalityType, FS_Subset, ConstantsTyped DEF PaidFor, TypeOK
  <2>4. QED
    BY <2>3 DEF ReplaysAreCrashes
<1>4. IInv => TokensInHistory
  BY DEF IInv
<1>5. QED
  BY <1>1, <1>2, <1>3, <1>4, IInvInitially, IInvIsKept, TokensTyped, PTL DEF Spec

-----------------------------------------------------------------------------
(* The checkpointed feed: the watcher's initial states are the feed's, and  *)
(* each of its steps is a step of the feed or leaves the feed alone.        *)

\* The event in hand is one that the collection has had.
EventIsReal == pc = "ingest" => stream[This] > 0

\* While the watcher sweeps, a collection without a token has none in the file.
TokenIsGone == pc = "sweep" => \A c \in Collections : token[c] = NoToken => file[c] = NoToken

\* The watcher has an event in hand only while the stream has moved past one.
LEMMA EventStaysReal ==
  ASSUME TypeOK, EventIsReal, [Next]_vars
  PROVE  EventIsReal'
<1> USE DEF vars, tokens, links, ghosts, faults
<1> SUFFICES ASSUME pc' = "ingest" PROVE stream'[This'] > 0
  BY DEF EventIsReal
<1>0. This \in Collections
  BY SweepStaysOnHandles DEF TypeOK
<1>1. CASE Deliver
  <2>1. stream[This] \in Nat /\ stream'[This] = stream[This] + 1 /\ This' = This
    BY <1>0, <1>1, ConstantsTyped DEF Deliver, TypeOK, Positions, Closed, This
  <2>2. QED
    BY <2>1
<1>2. CASE pc = "ingest" /\ UNCHANGED <<stream, k>>
  BY <1>2 DEF EventIsReal, This
<1>3. \/ Deliver
      \/ pc = "ingest" /\ UNCHANGED <<stream, k>>
  BY ConstantsTyped DEF Next, PollOnce, Failures, Change, Wait, Skip, OpenStream, IdlePoll, Ingest, Save, Write,
         OpenFails, StreamBreaks, Stop, IngestRaises, Die, Restart, Attempting
<1>4. QED
  BY <1>1, <1>2, <1>3

\* A token that watch() rejected is gone from the file before the sweep goes on.
LEMMA TokenStaysGone ==
  ASSUME TypeOK, TokenIsGone, [Next]_vars
  PROVE  TokenIsGone'
<1> USE DEF vars, tokens, links, ghosts, faults
<1> SUFFICES ASSUME pc' = "sweep", NEW c \in Collections, token'[c] = NoToken PROVE file'[c] = NoToken
  BY DEF TokenIsGone
<1>1. CASE Write \/ Restart
  BY <1>1 DEF Write, Restart
<1>2. CASE IdlePoll
  <2>1. This \in Collections
    BY SweepStaysOnHandles DEF TypeOK
  <2>2. stream[This] # NoToken /\ token'[This] = stream[This] /\ file' = file
    BY <1>2, <2>1 DEF IdlePoll, TypeOK, NoToken, Closed
  <2>3. c # This /\ token'[c] = token[c]
    BY <1>2, <2>1, <2>2 DEF IdlePoll, TypeOK
  <2>4. QED
    BY <1>2, <2>2, <2>3 DEF IdlePoll, TokenIsGone
<1>3. CASE pc = "sweep" /\ UNCHANGED <<token, file>>
  BY <1>3 DEF TokenIsGone
<1>4. \/ Write \/ Restart \/ IdlePoll
      \/ pc = "sweep" /\ UNCHANGED <<token, file>>
  BY DEF Next, PollOnce, Failures, Change, Wait, Skip, OpenStream, Deliver, Ingest, Save,
         OpenFails, StreamBreaks, Stop, IngestRaises, Die, Attempting
<1>5. QED
  BY <1>1, <1>2, <1>3, <1>4

\* A token that the file may hold is a checkpoint of the feed.
LEMMA TokenIsCovered ==
  ASSUME TypeOK, TokensInHistory, TokenNeverAheadOfRaw, NEW c \in Collections
  PROVE  /\ token[c] \in Nat \cup {NoToken}
         /\ token[c] = NoToken \/ Feed!Covered(c, token[c])
<1>1. /\ token[c] \in Positions \cup {NoToken} /\ token[c] =< history[c]
      /\ history[c] \in Positions /\ Positions \subseteq Nat
  BY ConstantsTyped DEF TypeOK, TokensInHistory, Positions
<1>2. ASSUME token[c] \in Positions, NEW e \in 1..token[c], base[c] < e PROVE e \in raw[c]
  BY <1>1, <1>2, ConstantsTyped DEF TokenNeverAheadOfRaw, Positions
<1>3. QED
  BY <1>1, <1>2 DEF Feed!Covered

\* Every step of the watcher is a step of the feed, or none.
LEMMA WatcherStepIsFeedStep ==
  ASSUME TypeOK, IInv, EventIsReal, TokenIsGone, [Next]_vars
  PROVE  [Feed!Next]_(Feed!vars)
<1> USE DEF vars, tokens, links, ghosts, faults
<1>0. This \in Collections
  BY SweepStaysOnHandles DEF TypeOK
<1>1. ASSUME NEW c \in Collections, Change(c) PROVE Feed!Publish(c)
  BY <1>1 DEF Change, Feed!Publish
<1>2. ASSUME OpenStream PROVE Feed!StartOver(This) \/ UNCHANGED Feed!vars
  <2>1. CASE token[This] = NoToken
    <3>1. file[This] = NoToken
      BY <1>0, <1>2, <2>1 DEF OpenStream, Attempting, TokenIsGone
    <3>2. base' = [base EXCEPT ![This] = history[This]]
      BY <1>2, <2>1 DEF OpenStream
    <3>3. QED
      BY <1>2, <3>1, <3>2 DEF OpenStream, Feed!StartOver
  <2>2. CASE token[This] # NoToken
    <3>1. base' = base
      BY <1>0, <1>2, <2>2 DEF OpenStream, TypeOK
    <3>2. QED
      BY <1>2, <3>1 DEF OpenStream, Feed!vars
  <2>3. QED
    BY <2>1, <2>2
<1>3. ASSUME pc = "ingest", WriteRaw(This, stream[This]), UNCHANGED <<history, file, base>>
      PROVE Feed!Store(This)
  <2>1. stream[This] \in 1..history[This]
    <3>1. stream[This] \in Positions \cup {Closed} /\ history[This] \in Positions
      BY <1>0 DEF TypeOK
    <3>2. stream[This] > 0 /\ stream[This] =< history[This]
      BY <1>0, <1>3 DEF EventIsReal, IInv, TokensInHistory
    <3>3. QED
      BY <3>1, <3>2, ConstantsTyped DEF Positions, Closed
  <2>2. QED
    BY <1>3, <2>1 DEF WriteRaw, Feed!Store
<1>4. ASSUME Save PROVE Feed!Checkpoint
  <2>1. file' = [c \in Collections |-> NoToken] /\ UNCHANGED <<history, raw, base>>
    BY <1>4 DEF Save, NoTokens
  <2>2. QED
    BY <2>1 DEF Feed!Checkpoint
<1>5. ASSUME Write PROVE Feed!Checkpoint
  <2>1. file' = token /\ UNCHANGED <<history, raw, base>>
    BY <1>5 DEF Write
  <2>2. \A c \in Collections :
          /\ token[c] \in Nat \cup {NoToken}
          /\ token[c] = NoToken \/ Feed!Covered(c, token[c])
    BY TokenIsCovered DEF IInv
  <2>3. token \in [Collections -> Nat \cup {NoToken}]
    BY <2>2 DEF TypeOK
  <2>4. QED
    BY <2>1, <2>2, <2>3 DEF Feed!Checkpoint
<1>6. \/ \E c \in Collections : Change(c)
      \/ OpenStream \/ Save \/ Write
      \/ pc = "ingest" /\ WriteRaw(This, stream[This]) /\ UNCHANGED <<history, file, base>>
      \/ UNCHANGED <<history, raw, base, file>>
  BY DEF Next, PollOnce, Failures, Wait, Skip, IdlePoll, Deliver, Ingest,
         OpenFails, StreamBreaks, Stop, IngestRaises, Die, Restart
<1>7. QED
  BY <1>0, <1>1, <1>2, <1>3, <1>4, <1>5, <1>6 DEF Feed!Next, Feed!vars

\* The watcher implements the checkpointed feed, for any collections, events,
\* rejections, broken streams, torn token files and crashes.
THEOREM WatcherImplementsFeed == Spec => IsCheckpointedFeed
<1>1. Init => Feed!Init
  BY DEF Init, Feed!Init, NoTokens
<1>2. Init => EventIsReal /\ TokenIsGone
  BY DEF Init, EventIsReal, TokenIsGone
<1>3. TypeOK /\ EventIsReal /\ TokenIsGone /\ [Next]_vars => (EventIsReal /\ TokenIsGone)'
  BY EventStaysReal, TokenStaysGone
<1>4. TypeOK /\ IInv /\ EventIsReal /\ TokenIsGone /\ [Next]_vars => [Feed!Next]_(Feed!vars)
  BY WatcherStepIsFeedStep
<1>5. QED
  BY <1>1, <1>2, <1>3, <1>4, IInvInitially, IInvIsKept, TokensTyped, PTL DEF Spec, IsCheckpointedFeed, Feed!Spec

-----------------------------------------------------------------------------
(* The poller of the same collections (MongoPoll).                          *)

\* The highest stamp of a batch is that of one of its documents.
LEMMA HighestIsAStamp ==
  ASSUME PollTypeOK, NEW p \in Processes, batch[p] # {}
  PROVE  /\ Highest(p) \in 0..MaxStamp
         /\ \E d \in batch[p] : Highest(p) = stamp[d]
         /\ \A d \in batch[p] : stamp[d] =< Highest(p)
<1> DEFINE T == {stamp[d] : d \in batch[p]}
           U == {MaxStamp - s : s \in T}
<1>1. batch[p] \subseteq Docs /\ T \subseteq 0..MaxStamp /\ MaxStamp \in Nat /\ T # {}
  BY PollAssumption DEF PollTypeOK
<1>2. U \subseteq Nat /\ U # {}
  <2> HIDE DEF T
  <2>0. \A s \in 0..MaxStamp : MaxStamp - s \in Nat
    BY <1>1
  <2>1. \A s \in T : MaxStamp - s \in Nat
    BY <1>1, <2>0
  <2>2. \A u \in U : u \in Nat
    BY <2>1
  <2>3. QED
    BY <1>1, <2>2
<1>3. PICK n \in U : \A m \in U : n =< m
  <2> HIDE DEF T, U
  <2>1. PICK n \in U : \A m \in U : <<m, n>> \notin OpToRel(<, Nat)
    BY <1>2, WFMin, NatLessThanWellFounded
  <2>2. \A m \in U : m \in Nat /\ n \in Nat
    BY <1>2
  <2>a. \A i, j \in Nat : i < j => <<i, j>> \in OpToRel(<, Nat)
    BY Zenon DEF OpToRel
  <2>3. \A m \in U : ~(m < n)
    BY <2>1, <2>2, <2>a
  <2>4. QED
    BY <2>2, <2>3
<1>4. PICK x \in T : n = MaxStamp - x
  BY <1>3
<1>5. \A y \in T : x >= y
  <2>1. ASSUME NEW y \in T PROVE x >= y
    <3>1. MaxStamp - x =< MaxStamp - y
      BY <1>3, <1>4
    <3>2. x \in Int /\ y \in Int
      BY <1>1
    <3>3. QED
      BY <1>1, <3>1, <3>2
  <2>2. QED
    BY <2>1
<1>6. Max(T) \in T /\ \A y \in T : Max(T) >= y
  BY <1>5 DEF Max
<1>7. Highest(p) = Max(T)
  BY DEF Highest
<1>8. \A y \in T : y =< Max(T)
  <2>1. Max(T) \in Int /\ \A y \in T : y \in Int
    BY <1>1, <1>6
  <2>2. QED
    BY <1>6, <2>1
<1> HIDE DEF U
<1>9. Highest(p) \in 0..MaxStamp
  BY <1>1, <1>6, <1>7
<1>10. \E d \in batch[p] : Highest(p) = stamp[d]
  BY <1>6, <1>7
<1>11. QED
  BY <1>7, <1>8, <1>9, <1>10

-----------------------------------------------------------------------------
(* The invariant.                                                           *)

\* A document is in MongoDB with its stamp.
Stamped == \A d \in present : stamp[d] # 0

\* What a process has in hand comes from one collection, and only what was in MongoDB
\* gets into its hands and into the raw zone.
BatchInHand ==
  /\ landed \subseteq present
  /\ \A p \in Processes :
       /\ batch[p] \subseteq present
       /\ at[p] # "idle" => batch[p] # {}
       /\ \A d, e \in batch[p] : CollectionOf[d] = CollectionOf[e]
       /\ at[p] \in {"stored", "loaded", "saving"} => batch[p] \subseteq landed

\* A mark stands at a stored document, and behind it nothing of a collection that only
\* the pollers ingest is missing but late documents and ties.
Sound(c, m) ==
  /\ m # 0 => \E d \in landed \cap InCollection(c) : stamp[d] = m
  /\ c \notin Fed => \A d \in present \cap InCollection(c) : stamp[d] =< m => d \in landed \/ Excused(d)

\* The process has a copy of the file in memory.
HasCopy(p) == at[p] \in {"loaded", "saving"}

MarksAreSound ==
  /\ \A c \in PolledCollections : Sound(c, mark[c])
  /\ \A p \in Processes : HasCopy(p) => \A c \in PolledCollections : Sound(c, copy[p][c])

\* d needs no further pull once S is stored: it is in S, late, or ties with one of S.
TakenWith(d, S) ==
  \/ d \in S \/ d \in late
  \/ \E e \in S \ {d} : CollectionOf[e] = CollectionOf[d] /\ stamp[e] = stamp[d]

\* A batch takes everything up to its newest document that is not stored yet.
NoGapBelow ==
  \A p \in Processes : \A e \in batch[p] : CollectionOf[e] \notin Fed =>
    \A d \in present : CollectionOf[d] = CollectionOf[e] /\ stamp[d] =< stamp[e] =>
      TakenWith(d, landed \cup batch[p])

MarkInv == Stamped /\ BatchInHand /\ MarksAreSound /\ NoGapBelow

\* The poller goes round its list of collections.
LEMMA TurnGoesRound ==
  \A i \in DOMAIN Order : (i % Len(Order)) + 1 \in DOMAIN Order
<1>1. Len(Order) \in Nat /\ Len(Order) > 0 /\ DOMAIN Order = 1..Len(Order)
  BY PollAssumption
<1>2. \A n \in Nat : n > 0 => \A i \in 1..n : (i % n) + 1 \in 1..n
  OBVIOUS
<1>3. QED
  BY <1>1, <1>2

\* The next collection of a process is one of the list.
LEMMA NextTurnIsATurn ==
  ASSUME PollTypeOK, NEW p \in Processes, NextTurn(p)
  PROVE  turn' \in [Processes -> DOMAIN Order]
<1> DEFINE n == (turn[p] % Len(Order)) + 1
<1>1. n \in DOMAIN Order
  BY TurnGoesRound DEF PollTypeOK
<1>2. turn' = [turn EXCEPT ![p] = n]
  BY DEF NextTurn
<1> HIDE DEF n
<1>3. QED
  BY <1>1, <1>2 DEF PollTypeOK

\* Every variable stays in its type.
LEMMA MongoTyped ==
  ASSUME PollTypeOK, BatchInHand, [PollNext]_pollVars
  PROVE  PollTypeOK'
<1> USE PollAssumption DEF PollTypeOK, Goto, Processes, mongo, job, pollHistory
<1>1. ASSUME NEW d \in Docs, Stamp(d) \/ Insert(d) PROVE PollTypeOK'
  <2>1. CASE Stamp(d)
    <3>1. PICK s \in Stamps : stamp' = [stamp EXCEPT ![d] = s]
      BY <2>1 DEF Stamp
    <3>2. stamp' \in [Docs -> 0..MaxStamp]
      BY <3>1 DEF Stamps
    <3>3. QED
      BY <2>1, <3>2 DEF Stamp
  <2>2. CASE Insert(d)
    BY <2>2 DEF Insert
  <2>3. QED
    BY <1>1, <2>1, <2>2
<1>2. ASSUME NEW p \in Pollers, Fetch(p) PROVE PollTypeOK'
  <2>1. PICK S \in Pages(Order[turn[p]]) :
          /\ batch' = [batch EXCEPT ![p] = S]
          /\ repulled' = repulled \cup (S \cap landed)
          /\ IF S = {} THEN NextTurn(p) /\ UNCHANGED at ELSE Goto(p, "fetched") /\ UNCHANGED turn
    BY <1>2 DEF Fetch
  <2>2. S \in SUBSET Docs
    BY <2>1 DEF Pages, Newer
  <2>3. turn' \in [Processes -> DOMAIN Order]
    BY <2>1, NextTurnIsATurn
  <2>4. QED
    BY <1>2, <2>1, <2>2, <2>3 DEF Fetch
<1>3. ASSUME NEW p \in Processes, Store(p) \/ LoadMarks(p) \/ OpenMarks(p) PROVE PollTypeOK'
  BY <1>3 DEF Store, LoadMarks, OpenMarks
<1>4. ASSUME NEW p \in Processes, SaveMarks(p) PROVE PollTypeOK'
  <2>1. batch[p] # {}
    BY <1>4 DEF BatchInHand, SaveMarks
  <2>2. Highest(p) \in 0..MaxStamp
    BY <2>1, HighestIsAStamp
  <2>3. turn' \in [Processes -> DOMAIN Order]
    BY <1>4, NextTurnIsATurn DEF SaveMarks
  <2>4. mark' \in [PolledCollections -> 0..MaxStamp]
    <3>1. copy[p] \in [PolledCollections -> 0..MaxStamp]
      OBVIOUS
    <3>2. mark' = [copy[p] EXCEPT ![CollectionInHand(p)] = Highest(p)]
      BY <1>4 DEF SaveMarks
    <3>3. QED
      BY ONLY <2>2, <3>1, <3>2
  <2>5. NoMarks \in [PolledCollections -> 0..MaxStamp]
    BY DEF NoMarks
  <2>6. UNCHANGED <<stamp, present, handed, late, landed, repulled, cut, deaths>>
    BY <1>4 DEF SaveMarks
  <2>7. /\ at' \in [Processes -> {"idle", "fetched", "stored", "loaded", "saving"}]
        /\ batch' \in [Processes -> SUBSET Docs] /\ markFile' \in {"whole", "empty", "garbled"}
    BY <1>4 DEF SaveMarks, HandsEmpty
  <2>8. copy' \in [Processes -> [PolledCollections -> 0..MaxStamp]]
    BY <1>4, <2>5 DEF SaveMarks, HandsEmpty
  <2>9. QED
    BY <2>3, <2>4, <2>6, <2>7, <2>8
<1>5. ASSUME NEW p \in Feeders, NEW d \in Docs, FeedOne(p, d) PROVE PollTypeOK'
  BY <1>5 DEF FeedOne
<1>6. ASSUME NEW p \in Processes, Crash(p) \/ FailLoad(p) PROVE PollTypeOK'
  <2>1. 1 \in DOMAIN Order
    OBVIOUS
  <2>2. deaths' \in 0..MaxDeaths
    BY <1>6 DEF Crash, FailLoad
  <2>3. RunEnds(p)
    BY <1>6 DEF Crash, FailLoad
  <2>4. QED
    BY <2>1, <2>2, <2>3 DEF RunEnds, HandsEmpty, NoMarks
<1>7. CASE UNCHANGED pollVars
  BY <1>7 DEF pollVars
<1>8. QED
  BY <1>1, <1>2, <1>3, <1>4, <1>5, <1>6, <1>7 DEF PollNext, Poll, IngestStep

-----------------------------------------------------------------------------
\* A mark that is sound stays so while documents are stored, stamped and inserted: what
\* appears behind it is late or ties with the document it stands at.
LEMMA SoundStaysSound ==
  ASSUME PollTypeOK, NEW c \in PolledCollections, NEW m \in 0..MaxStamp, Sound(c, m),
         landed \subseteq present, landed \subseteq landed', late \subseteq late',
         \A d \in present : stamp'[d] = stamp[d],
         \A d \in present' \ present : d \in Docs /\ stamp'[d] \in Nat \ {0},
         \A d \in present' \ present, e \in present :
           CollectionOf[d] = CollectionOf[e] /\ stamp[e] > stamp'[d] => d \in late'
  PROVE  Sound(c, m)'
<1>1. landed \subseteq Docs /\ present \subseteq Docs /\ m \in Nat /\ stamp \in [Docs -> Nat]
  BY PollAssumption DEF PollTypeOK
<1>2. m # 0 => \E d \in landed' \cap InCollection(c) : stamp'[d] = m
  BY <1>1 DEF Sound
<1>3. ASSUME c \notin Fed, NEW d \in present' \cap InCollection(c), stamp'[d] =< m
      PROVE  d \in landed' \/ Excused(d)'
  <2>1. CASE d \in present
    <3>1. d \in landed \/ Excused(d)
      BY <1>3, <2>1 DEF Sound
    <3>2. QED
      BY <1>1, <2>1, <3>1 DEF Excused
  <2>2. CASE d \notin present
    <3>1. m # 0 /\ stamp'[d] \in Nat
      BY <1>1, <1>3, <2>2
    <3>2. PICK e \in landed \cap InCollection(c) : stamp[e] = m
      BY <3>1 DEF Sound
    <3>3. CollectionOf[d] = CollectionOf[e] /\ e \in present /\ e # d /\ stamp'[e] = m
      BY <1>3, <2>2, <3>2 DEF InCollection
    <3>4. CASE stamp'[d] = m
      BY <3>2, <3>3, <3>4 DEF Excused
    <3>5. CASE stamp'[d] # m
      <4>1. stamp[e] > stamp'[d]
        BY <1>1, <1>3, <3>1, <3>2, <3>5
      <4>2. QED
        BY <2>2, <3>3, <4>1 DEF Excused
    <3>6. QED
      BY <3>4, <3>5
  <2>3. QED
    BY <2>1, <2>2
<1>4. QED
  BY <1>2, <1>3 DEF Sound, InCollection

\* The writers' steps.
LEMMA WritersKeepMarkInv ==
  ASSUME PollTypeOK, MarkInv, NEW d \in Docs, Stamp(d) \/ Insert(d)
  PROVE  MarkInv'
<1> USE DEF PollTypeOK
<1>0. /\ UNCHANGED <<mark, landed, job>> /\ present \subseteq present' /\ late \subseteq late'
      /\ present \subseteq Docs /\ stamp \in [Docs -> Nat]
  BY PollAssumption DEF Stamp, Insert
<1>1. \A e \in present : stamp'[e] = stamp[e]
  BY DEF Stamp, Insert, MarkInv, Stamped
<1>2. \A x \in present' \ present : x = d /\ stamp' = stamp /\ stamp[d] # 0
  BY DEF Stamp, Insert
<1>3. \A x \in present' \ present, e \in present :
        CollectionOf[x] = CollectionOf[e] /\ stamp[e] > stamp'[x] => x \in late'
  <2> SUFFICES ASSUME NEW e \in present, d \in present' \ present, CollectionOf[d] = CollectionOf[e],
                      stamp[e] > stamp[d]
               PROVE  d \in late'
    BY <1>2
  <2>1. Insert(d)
    BY DEF Stamp
  <2>2. e \in present \cap InCollection(CollectionOf[d])
    BY <1>0 DEF InCollection
  <2>3. QED
    BY <2>1, <2>2 DEF Insert
<1>4. \A x \in present' \ present : x \in Docs /\ stamp'[x] \in Nat \ {0}
  BY <1>0, <1>2
<1>5. Stamped'
  BY <1>1, <1>4 DEF MarkInv, Stamped
<1>6. BatchInHand'
  BY <1>0 DEF job, MarkInv, BatchInHand
<1>7. MarksAreSound'
  <2>1. \A c \in PolledCollections, m \in 0..MaxStamp : Sound(c, m) => Sound(c, m)'
    BY <1>0, <1>1, <1>3, <1>4, SoundStaysSound DEF MarkInv, BatchInHand
  <2>2. \A c \in PolledCollections : mark[c] \in 0..MaxStamp
    OBVIOUS
  <2>3. \A p \in Processes : \A c \in PolledCollections : copy[p][c] \in 0..MaxStamp
    OBVIOUS
  <2>4. UNCHANGED <<mark, copy, at>>
    BY <1>0 DEF job
  <2>5. QED
    BY <2>1, <2>2, <2>3, <2>4 DEF MarkInv, MarksAreSound, HasCopy
<1>8. NoGapBelow'
  <2> SUFFICES ASSUME NEW p \in Processes, NEW e \in batch[p], CollectionOf[e] \notin Fed,
                      NEW x \in present', CollectionOf[x] = CollectionOf[e], stamp'[x] =< stamp'[e]
               PROVE  TakenWith(x, landed \cup batch[p])'
    BY <1>0 DEF job, NoGapBelow
  <2>1. e \in present /\ stamp'[e] = stamp[e] /\ stamp[e] \in Nat
    BY <1>0, <1>1 DEF MarkInv, BatchInHand
  <2>2. landed \cup batch[p] \subseteq present /\ UNCHANGED <<landed, batch>>
    BY <1>0 DEF job, MarkInv, BatchInHand
  <2>3. CASE x \in present
    <3>1. TakenWith(x, landed \cup batch[p])
      BY <1>1, <2>1, <2>3 DEF MarkInv, NoGapBelow
    <3>2. QED
      BY <1>0, <1>1, <2>2, <2>3, <3>1 DEF TakenWith
  <2>4. CASE x \notin present
    <3>1. CASE stamp'[x] = stamp'[e]
      BY <2>1, <2>2, <2>4, <3>1 DEF TakenWith
    <3>2. CASE stamp'[x] # stamp'[e]
      <4>1. stamp'[x] \in Nat
        BY <1>4, <2>4
      <4>2. \A i, j \in Nat : i =< j /\ i # j => j > i
        OBVIOUS
      <4>3. stamp[e] > stamp'[x]
        BY <2>1, <3>2, <4>1, <4>2
      <4>4. QED
        BY <1>3, <2>1, <2>4, <4>3 DEF TakenWith
    <3>3. QED
      BY <3>1, <3>2
  <2>5. QED
    BY <2>3, <2>4
<1>9. QED
  BY <1>5, <1>6, <1>7, <1>8 DEF MarkInv

-----------------------------------------------------------------------------
\* The steps of the processes: they stamp and insert nothing.

\* A mark that is sound stays so while the raw zone only grows.
LEMMA MarksStaySound ==
  ASSUME MarksAreSound, UNCHANGED <<stamp, present, late, mark>>, landed \subseteq landed',
         \A q \in Processes : HasCopy(q)' => HasCopy(q) /\ copy'[q] = copy[q]
  PROVE  MarksAreSound'
<1>1. \A c, m : Sound(c, m) => Sound(c, m)'
  BY DEF Sound, InCollection, Excused
<1>2. \A c \in PolledCollections : Sound(c, mark[c])'
  <2>1. SUFFICES ASSUME NEW c \in PolledCollections, NEW m, m = mark[c] PROVE Sound(c, m)'
    BY DEF Sound
  <2>2. QED
    BY <1>1, <2>1 DEF MarksAreSound
<1>3. \A q \in Processes : HasCopy(q)' => \A c \in PolledCollections : Sound(c, copy[q][c])'
  <2>1. SUFFICES ASSUME NEW q \in Processes, HasCopy(q)', NEW c \in PolledCollections, NEW m, m = copy[q][c]
                 PROVE  Sound(c, copy[q][c])'
    OBVIOUS
  <2>2. Sound(c, m)' /\ copy'[q][c] = m
    BY <1>1, <2>1 DEF MarksAreSound
  <2>3. QED
    BY <2>2 DEF Sound
<1>4. QED
  BY <1>2, <1>3 DEF MarksAreSound

\* A batch is all that is newer than the mark, up to its newest document, but for ties.
LEMMA FetchKeepsMarkInv ==
  ASSUME PollTypeOK, MarkInv, NEW p \in Pollers, Fetch(p)
  PROVE  MarkInv'
<1> USE DEF PollTypeOK
<1> DEFINE c == Order[turn[p]]
<1>1. PICK S \in Pages(c) : /\ batch' = [batch EXCEPT ![p] = S]
                            /\ IF S = {} THEN UNCHANGED at ELSE Goto(p, "fetched")
  BY DEF Fetch
<1>2. at[p] = "idle" /\ p \in Processes /\ UNCHANGED <<stamp, present, late, mark, landed, copy>>
  BY DEF Fetch, mongo, Processes
<1>3. /\ S \subseteq present \cap InCollection(c)
      /\ \A d \in S : stamp[d] > mark[c]
      /\ \A d \in S, e \in Newer(c) \ S : stamp[d] =< stamp[e]
  BY DEF Pages, Newer
<1>4. Stamped'
  BY <1>2 DEF MarkInv, Stamped
<1>5. BatchInHand'
  <2> SUFFICES ASSUME NEW q \in Processes
               PROVE  /\ batch'[q] \subseteq present
                      /\ at'[q] # "idle" => batch'[q] # {}
                      /\ \A d, e \in batch'[q] : CollectionOf[d] = CollectionOf[e]
                      /\ at'[q] \in {"stored", "loaded", "saving"} => batch'[q] \subseteq landed
    BY <1>2 DEF MarkInv, BatchInHand
  <2>1. CASE q # p
    BY <1>1, <2>1 DEF Goto, MarkInv, BatchInHand
  <2>2. CASE q = p
    <3>1. batch'[q] = S /\ (S = {} => at'[q] = "idle") /\ at'[q] \in {"idle", "fetched"}
      BY <1>1, <1>2, <2>2 DEF Goto
    <3>2. \A d, e \in S : CollectionOf[d] = CollectionOf[e]
      BY <1>3 DEF InCollection
    <3>3. QED
      BY <1>3, <3>1, <3>2
  <2>3. QED
    BY <2>1, <2>2
<1>6. MarksAreSound'
  <2>1. \A q \in Processes : HasCopy(q)' => HasCopy(q) /\ copy'[q] = copy[q]
    BY <1>1, <1>2 DEF Goto, HasCopy
  <2>2. QED
    BY <1>2, <2>1, MarksStaySound DEF MarkInv
<1>7. NoGapBelow'
  <2> SUFFICES ASSUME NEW q \in Processes, NEW e \in batch'[q], CollectionOf[e] \notin Fed,
                      NEW d \in present, CollectionOf[d] = CollectionOf[e], stamp[d] =< stamp[e]
               PROVE  TakenWith(d, landed \cup batch[q])'
    BY <1>2 DEF NoGapBelow
  <2>1. CASE q # p
    <3>1. batch'[q] = batch[q]
      BY <1>1, <2>1
    <3>2. TakenWith(d, landed \cup batch[q])
      BY <3>1 DEF MarkInv, NoGapBelow
    <3>3. QED
      BY <1>2, <3>1, <3>2 DEF TakenWith
  <2>2. CASE q = p
    <3>1. batch'[q] = S /\ e \in S /\ CollectionOf[e] = c /\ c \in PolledCollections /\ c \notin Fed
      BY <1>1, <1>2, <1>3, <2>2, PollAssumption DEF InCollection
    <3>2. CASE stamp[d] > mark[c]
      <4>1. d \in Newer(c)
        BY <3>1, <3>2 DEF Newer, InCollection
      <4>2. CASE d \notin S
        <5>1. stamp[e] =< stamp[d] /\ stamp[d] \in Nat /\ stamp[e] \in Nat
          BY <1>3, <3>1, <4>1, <4>2, PollAssumption
        <5>2. \A i, j \in Nat : i =< j /\ j =< i => i = j
          OBVIOUS
        <5>3. stamp[e] = stamp[d] /\ e # d /\ e \in S
          BY <3>1, <4>2, <5>1, <5>2
        <5>4. QED
          BY <1>2, <3>1, <5>3 DEF TakenWith
      <4>3. CASE d \in S
        BY <3>1, <4>3 DEF TakenWith
      <4>4. QED
        BY <4>2, <4>3
    <3>3. CASE ~(stamp[d] > mark[c])
      <4>1. stamp[d] \in Nat /\ mark[c] \in Nat
        BY <3>1, PollAssumption
      <4>2. stamp[d] =< mark[c]
        BY <3>3, <4>1
      <4>3. Sound(c, mark[c]) /\ d \in present \cap InCollection(c)
        BY <3>1 DEF MarkInv, MarksAreSound, InCollection
      <4>4. d \in landed \/ Excused(d)
        BY <3>1, <4>2, <4>3 DEF Sound
      <4>5. QED
        BY <1>2, <4>4 DEF TakenWith, Excused
    <3>4. QED
      BY <3>2, <3>3
  <2>3. QED
    BY <2>1, <2>2
<1>8. QED
  BY <1>4, <1>5, <1>6, <1>7 DEF MarkInv

\* What a watcher or MongoSink brings is of a collection nobody polls.
LEMMA FeedKeepsMarkInv ==
  ASSUME PollTypeOK, MarkInv, NEW p \in Feeders, NEW x \in Docs, FeedOne(p, x)
  PROVE  MarkInv'
<1> USE DEF PollTypeOK
<1>1. /\ batch' = [batch EXCEPT ![p] = {x}] /\ at' = [at EXCEPT ![p] = "fetched"]
      /\ x \in present /\ CollectionOf[x] \in Fed
      /\ p \in Processes /\ UNCHANGED <<stamp, present, late, mark, landed, copy>>
  BY DEF FeedOne, Goto, Processes
<1>2. Stamped'
  BY <1>1 DEF MarkInv, Stamped
<1>3. BatchInHand'
  BY <1>1 DEF MarkInv, BatchInHand
<1>4. MarksAreSound'
  <2>1. \A q \in Processes : HasCopy(q)' => HasCopy(q) /\ copy'[q] = copy[q]
    BY <1>1 DEF HasCopy
  <2>2. QED
    BY <1>1, <2>1, MarksStaySound DEF MarkInv
<1>5. NoGapBelow'
  <2> SUFFICES ASSUME NEW q \in Processes, NEW e \in batch'[q], CollectionOf[e] \notin Fed,
                      NEW d \in present, CollectionOf[d] = CollectionOf[e], stamp[d] =< stamp[e]
               PROVE  TakenWith(d, landed \cup batch[q])'
    BY <1>1 DEF NoGapBelow
  <2>1. batch'[q] = batch[q]
    BY <1>1
  <2>2. TakenWith(d, landed \cup batch[q])
    BY <2>1 DEF MarkInv, NoGapBelow
  <2>3. QED
    BY <1>1, <2>1, <2>2 DEF TakenWith
<1>6. QED
  BY <1>2, <1>3, <1>4, <1>5 DEF MarkInv

\* Storing a batch puts into the raw zone what was in hand.
LEMMA StoreKeepsMarkInv ==
  ASSUME PollTypeOK, MarkInv, NEW p \in Processes, Store(p)
  PROVE  MarkInv'
<1> USE DEF PollTypeOK
<1>1. /\ landed' = landed \cup batch[p] /\ at' = [at EXCEPT ![p] = "stored"]
      /\ UNCHANGED <<stamp, present, late, mark, batch, copy>> /\ at[p] = "fetched"
  BY DEF Store, Goto, mongo
<1>2. Stamped'
  BY <1>1 DEF MarkInv, Stamped
<1>3. BatchInHand'
  BY <1>1 DEF MarkInv, BatchInHand
<1>4. MarksAreSound'
  <2>1. \A q \in Processes : HasCopy(q)' => HasCopy(q) /\ copy'[q] = copy[q]
    BY <1>1 DEF HasCopy
  <2>2. QED
    BY <1>1, <2>1, MarksStaySound DEF MarkInv
<1>5. NoGapBelow'
  BY <1>1 DEF MarkInv, NoGapBelow, TakenWith
<1>6. QED
  BY <1>2, <1>3, <1>4, <1>5 DEF MarkInv

\* A copy of the watermark file is as sound as the file; opening it for writing changes
\* neither.
LEMMA LoadKeepsMarkInv ==
  ASSUME PollTypeOK, MarkInv, NEW p \in Processes, LoadMarks(p) \/ OpenMarks(p)
  PROVE  MarkInv'
<1> USE DEF PollTypeOK
<1>1. /\ UNCHANGED <<stamp, present, late, mark, batch, landed>>
      /\ \/ at[p] = "stored" /\ at' = [at EXCEPT ![p] = "loaded"] /\ copy' = [copy EXCEPT ![p] = mark]
         \/ at[p] = "loaded" /\ at' = [at EXCEPT ![p] = "saving"] /\ copy' = copy
  BY DEF LoadMarks, OpenMarks, Goto, mongo
<1>2. Stamped'
  BY <1>1 DEF MarkInv, Stamped
<1>3. BatchInHand'
  BY <1>1 DEF MarkInv, BatchInHand
<1>4. MarksAreSound'
  <2>1. \A c, m : Sound(c, m)' <=> Sound(c, m)
    BY <1>1 DEF Sound, InCollection, Excused
  <2>2. \A c \in PolledCollections : Sound(c, mark[c])
    BY DEF MarkInv, MarksAreSound
  <2>3. \A q \in Processes : HasCopy(q)' => \A c \in PolledCollections : Sound(c, copy'[q][c])
    BY <1>1, <2>2 DEF MarkInv, MarksAreSound, HasCopy
  <2>4. QED
    BY <1>1, <2>1, <2>2, <2>3 DEF MarksAreSound
<1>5. NoGapBelow'
  BY <1>1 DEF MarkInv, NoGapBelow, TakenWith
<1>6. QED
  BY <1>2, <1>3, <1>4, <1>5 DEF MarkInv

\* A saved mark is the newest document of the batch that was just stored, and the marks
\* written back with it were sound when they were loaded and have stayed so.
LEMMA SaveKeepsMarkInv ==
  ASSUME PollTypeOK, MarkInv, NEW p \in Processes, SaveMarks(p)
  PROVE  MarkInv'
<1> USE DEF PollTypeOK
<1>1. /\ mark' = [copy[p] EXCEPT ![CollectionInHand(p)] = Highest(p)]
      /\ at' = [at EXCEPT ![p] = "idle"] /\ at[p] = "saving"
      /\ batch' = [batch EXCEPT ![p] = {}] /\ copy' = [copy EXCEPT ![p] = NoMarks]
      /\ UNCHANGED <<stamp, present, late, landed>>
  BY DEF SaveMarks, HandsEmpty, Goto, mongo
<1>2. Stamped'
  BY <1>1 DEF MarkInv, Stamped
<1>3. BatchInHand'
  BY <1>1 DEF MarkInv, BatchInHand
<1>4. MarksAreSound'
  <2>1. \A c, m : Sound(c, m)' <=> Sound(c, m)
    BY <1>1 DEF Sound, InCollection, Excused
  <2>2. batch[p] # {} /\ batch[p] \subseteq landed
    BY <1>1 DEF MarkInv, BatchInHand
  <2>3. PICK e \in batch[p] : Highest(p) = stamp[e]
    BY <2>2, HighestIsAStamp
  <2>4. \A d \in batch[p] : CollectionOf[d] = CollectionInHand(p)
    BY <2>2 DEF CollectionInHand, MarkInv, BatchInHand
  <2>5. Sound(CollectionInHand(p), Highest(p))
    <3>1. e \in landed \cap InCollection(CollectionInHand(p))
      BY <2>2, <2>3, <2>4 DEF InCollection
    <3>2. ASSUME CollectionInHand(p) \notin Fed, NEW d \in present \cap InCollection(CollectionInHand(p)),
                 stamp[d] =< Highest(p)
          PROVE  d \in landed \/ Excused(d)
      <4>1. TakenWith(d, landed \cup batch[p])
        BY <2>3, <2>4, <3>2 DEF MarkInv, NoGapBelow, InCollection
      <4>2. landed \cup batch[p] = landed
        BY <2>2
      <4>3. QED
        BY <4>1, <4>2 DEF TakenWith, Excused
    <3>3. QED
      BY <2>3, <3>1, <3>2 DEF Sound
  <2>6. \A c \in PolledCollections : Sound(c, mark'[c])
    <3>1. \A c \in PolledCollections : Sound(c, copy[p][c])
      BY <1>1 DEF MarkInv, MarksAreSound, HasCopy
    <3>2. \A c \in PolledCollections : mark'[c] = IF c = CollectionInHand(p) THEN Highest(p) ELSE copy[p][c]
      <4>1. copy[p] \in [PolledCollections -> 0..MaxStamp]
        OBVIOUS
      <4>2. QED
        BY ONLY <1>1, <4>1
    <3>3. QED
      BY <2>5, <3>1, <3>2
  <2>7. \A q \in Processes : HasCopy(q)' => HasCopy(q) /\ copy'[q] = copy[q]
    BY <1>1 DEF HasCopy
  <2>8. QED
    BY <2>1, <2>6, <2>7 DEF MarkInv, MarksAreSound
<1>5. NoGapBelow'
  BY <1>1 DEF MarkInv, NoGapBelow, TakenWith
<1>6. QED
  BY <1>2, <1>3, <1>4, <1>5 DEF MarkInv

\* A run that ends early drops the batch and the copy, and touches neither the file nor
\* the raw zone.
LEMMA EndKeepsMarkInv ==
  ASSUME PollTypeOK, MarkInv, NEW p \in Processes, RunEnds(p)
  PROVE  MarkInv'
<1> USE DEF PollTypeOK
<1>1. /\ at' = [at EXCEPT ![p] = "idle"] /\ batch' = [batch EXCEPT ![p] = {}]
      /\ copy' = [copy EXCEPT ![p] = NoMarks] /\ UNCHANGED <<stamp, present, late, mark, landed>>
  BY DEF RunEnds, HandsEmpty, Goto
<1>2. Stamped'
  BY <1>1 DEF MarkInv, Stamped
<1>3. BatchInHand'
  BY <1>1 DEF MarkInv, BatchInHand
<1>4. MarksAreSound'
  <2>1. \A q \in Processes : HasCopy(q)' => HasCopy(q) /\ copy'[q] = copy[q]
    BY <1>1 DEF HasCopy
  <2>2. QED
    BY <1>1, <2>1, MarksStaySound DEF MarkInv
<1>5. NoGapBelow'
  BY <1>1 DEF MarkInv, NoGapBelow, TakenWith
<1>6. QED
  BY <1>2, <1>3, <1>4, <1>5 DEF MarkInv

\* The watermark tells what is stored: for any interleaving of pollers and feeders that
\* overwrite each other's file and die inside a save, any batch size, any number of
\* deaths and any stamps, shared and late ones included.
THEOREM MarksTell == PollSpec => [](PollTypeOK /\ MarkTellsWhatIsStored)
<1>1. PollInit => PollTypeOK /\ MarkInv
  <2> SUFFICES ASSUME PollInit PROVE PollTypeOK /\ MarkInv
    OBVIOUS
  <2>1. PollTypeOK
    BY PollAssumption DEF PollInit, PollTypeOK, NoMarks
  <2>2. Stamped /\ BatchInHand /\ NoGapBelow
    BY DEF PollInit, Stamped, BatchInHand, NoGapBelow
  <2>3. MarksAreSound
    BY DEF PollInit, MarksAreSound, Sound, NoMarks, HasCopy
  <2>4. QED
    BY <2>1, <2>2, <2>3 DEF MarkInv
<1>2. PollTypeOK /\ MarkInv /\ [PollNext]_pollVars => PollTypeOK' /\ MarkInv'
  <2> SUFFICES ASSUME PollTypeOK, MarkInv, [PollNext]_pollVars PROVE MarkInv'
    BY MongoTyped DEF MarkInv
  <2>1. CASE UNCHANGED pollVars
    BY <2>1 DEF pollVars, mongo, job, MarkInv, Stamped, BatchInHand, MarksAreSound, Sound, HasCopy, Excused,
                NoGapBelow, TakenWith, InCollection
  <2>2. \A p \in Processes : Crash(p) \/ FailLoad(p) => RunEnds(p)
    BY DEF Crash, FailLoad
  <2>3. QED
    BY <2>1, <2>2, WritersKeepMarkInv, FetchKeepsMarkInv, FeedKeepsMarkInv, StoreKeepsMarkInv, LoadKeepsMarkInv,
       SaveKeepsMarkInv, EndKeepsMarkInv DEF PollNext, Poll, IngestStep, Processes
<1>3. PollTypeOK /\ MarkInv => MarkTellsWhatIsStored
  <2> SUFFICES ASSUME PollTypeOK, MarkInv PROVE MarkTellsWhatIsStored
    OBVIOUS
  <2>1. \A c \in PolledCollections : Sound(c, mark[c])
    BY DEF MarkInv, MarksAreSound
  <2>2. MarkIsStored
    BY <2>1 DEF MarkIsStored, Sound
  <2>3. PolledCollectionsAreComplete
    <3> SUFFICES ASSUME NEW d \in present, CollectionOf[d] \notin Fed, stamp[d] =< mark[CollectionOf[d]]
                 PROVE  d \in landed \/ Excused(d)
      BY DEF PolledCollectionsAreComplete
    <3>1. d \in Docs /\ CollectionOf[d] \in PolledCollections
      BY PollAssumption DEF PollTypeOK
    <3>2. QED
      BY <2>1, <3>1 DEF Sound, InCollection
  <2>4. QED
    BY <2>2, <2>3 DEF MarkTellsWhatIsStored
<1>4. QED
  BY <1>1, <1>2, <1>3, PTL DEF PollSpec

-----------------------------------------------------------------------------
(* A single poller.                                                         *)

\* No feeder has finished with a document.
Undisturbed == handed \subseteq UNION {batch[p] : p \in Feeders}

\* A feeder has in hand what was handed to it, and to it alone.
FeedersHold ==
  \A p \in Feeders :
    /\ batch[p] \subseteq handed
    /\ at[p] = "idle" => batch[p] = {}
    /\ \A q \in Feeders : q # p => batch[p] \cap batch[q] = {}

\* A poller on its own finds the file as it left it: the mark covers what is stored but
\* the batch in hand, what was cut short and what feeders hold, and the batch lies above
\* the mark.
PollerIsAlone ==
  /\ repulled \subseteq cut \cup handed
  /\ \A p \in Pollers : HasCopy(p) => copy[p] = mark
  /\ \A p \in Pollers : at[p] # "idle" => \A d \in batch[p] : stamp[d] > mark[CollectionOf[d]]
  /\ \A d \in landed : \/ stamp[d] =< mark[CollectionOf[d]]
                       \/ d \in cut \cup handed
                       \/ \E p \in Pollers : at[p] \in {"stored", "loaded", "saving"} /\ d \in batch[p]

PullInv == Stamped /\ FeedersHold /\ (Undisturbed => PollerIsAlone)

\* What the processes have in hand is in MongoDB, whatever order documents appear in.
LEMMA InHandIsKept ==
  ASSUME PollTypeOK, BatchInHand, [PollNext]_pollVars
  PROVE  BatchInHand'
<1> USE DEF PollTypeOK, BatchInHand, Goto, Processes, mongo, job, HandsEmpty
<1>1. ASSUME NEW d \in Docs, Stamp(d) \/ Insert(d) PROVE BatchInHand'
  BY <1>1 DEF Stamp, Insert
<1>2. ASSUME NEW p \in Pollers, Fetch(p) PROVE BatchInHand'
  BY <1>2 DEF Fetch, Pages, Newer, InCollection
<1>3. ASSUME NEW p \in Processes, Store(p) \/ LoadMarks(p) \/ OpenMarks(p) PROVE BatchInHand'
  BY <1>3 DEF Store, LoadMarks, OpenMarks
<1>4. ASSUME NEW p \in Processes, SaveMarks(p) \/ RunEnds(p) PROVE BatchInHand'
  BY <1>4 DEF SaveMarks, RunEnds
<1>5. ASSUME NEW p \in Feeders, NEW d \in Docs, FeedOne(p, d) PROVE BatchInHand'
  BY <1>5 DEF FeedOne
<1>6. CASE UNCHANGED pollVars
  BY <1>6 DEF pollVars
<1>7. QED
  BY <1>1, <1>2, <1>3, <1>4, <1>5, <1>6 DEF PollNext, Poll, IngestStep, Crash, FailLoad

\* A pull takes nothing that is stored, but what was cut short or is in a feeder's hands.
LEMMA FetchKeepsPullInv ==
  ASSUME \A p, q \in Pollers : p = q, PollTypeOK, BatchInHand, PullInv, NEW p \in Pollers, Fetch(p)
  PROVE  PullInv'
<1> USE DEF PollTypeOK, Processes
<1>1. PICK S \in Pages(Order[turn[p]]) :
        /\ batch' = [batch EXCEPT ![p] = S] /\ repulled' = repulled \cup (S \cap landed)
        /\ at' = at \/ at' = [at EXCEPT ![p] = "fetched"]
  BY DEF Fetch, Goto
<1>2. /\ at[p] = "idle" /\ UNCHANGED <<stamp, present, handed, mark, landed, copy, cut>>
      /\ p \notin Feeders
  BY PollAssumption DEF Fetch, mongo
<1>3. S \subseteq present /\ \A d \in S : stamp[d] > mark[CollectionOf[d]]
  BY DEF Pages, Newer, InCollection
<1>4. \A d \in S : d \in Docs /\ stamp[d] \in Nat /\ mark[CollectionOf[d]] \in Nat
  BY <1>3, PollAssumption
<1>5. \A q \in Feeders : batch'[q] = batch[q] /\ at'[q] = at[q]
  BY <1>1, <1>2
<1>6. ASSUME Undisturbed PROVE PollerIsAlone'
  <2>1. PollerIsAlone
    BY <1>6 DEF PullInv
  <2>2. \A d \in landed : stamp[d] =< mark[CollectionOf[d]] \/ d \in cut \cup handed
    <3>1. \A q \in Pollers : q = p /\ at[q] = "idle"
      BY <1>2
    <3>2. QED
      BY <2>1, <3>1 DEF PollerIsAlone
  <2>3. S \cap landed \subseteq cut \cup handed
    BY <1>3, <1>4, <2>2
  <2>4. QED
    BY <1>1, <1>2, <1>3, <2>1, <2>2, <2>3 DEF PollerIsAlone, HasCopy
<1>7. Undisturbed' => Undisturbed
  BY <1>2, <1>5 DEF Undisturbed
<1>8. QED
  BY <1>2, <1>5, <1>6, <1>7 DEF PullInv, Stamped, FeedersHold

\* A batch that is stored is in the hands of the poller, or of a feeder, until the mark is
\* saved; the copy of the file stays the file.
LEMMA StoreKeepsPullInv ==
  ASSUME PollTypeOK, BatchInHand, PullInv, NEW p \in Processes, Store(p) \/ LoadMarks(p) \/ OpenMarks(p)
  PROVE  PullInv'
<1> USE DEF PollTypeOK, Processes
<1>1. /\ UNCHANGED <<stamp, present, handed, mark, batch, repulled, cut>> /\ at[p] # "idle"
      /\ \/ at[p] = "fetched" /\ at' = [at EXCEPT ![p] = "stored"] /\ landed' = landed \cup batch[p] /\ copy' = copy
         \/ at[p] = "stored" /\ at' = [at EXCEPT ![p] = "loaded"] /\ landed' = landed /\ copy' = [copy EXCEPT ![p] = mark]
         \/ at[p] = "loaded" /\ at' = [at EXCEPT ![p] = "saving"] /\ landed' = landed /\ copy' = copy
  BY DEF Store, LoadMarks, OpenMarks, Goto, mongo, pollHistory
<1>2. ASSUME Undisturbed PROVE PollerIsAlone'
  <2>1. PollerIsAlone
    BY <1>2 DEF PullInv
  <2>2. \A q \in Pollers : HasCopy(q)' => copy'[q] = mark
    BY <1>1, <2>1 DEF PollerIsAlone, HasCopy
  <2>3. ASSUME NEW d \in landed'
        PROVE  \/ stamp[d] =< mark[CollectionOf[d]] \/ d \in cut \cup handed
               \/ \E q \in Pollers : at'[q] \in {"stored", "loaded", "saving"} /\ d \in batch[q]
    <3>1. CASE d \in landed
      BY <1>1, <2>1, <3>1 DEF PollerIsAlone
    <3>2. CASE d \notin landed
      <4>1. d \in batch[p] /\ at'[p] = "stored"
        BY <1>1, <2>3, <3>2
      <4>2. p \in Feeders => d \in handed
        BY <4>1 DEF PullInv, FeedersHold
      <4>3. QED
        BY <4>1, <4>2
    <3>3. QED
      BY <3>1, <3>2
  <2>4. QED
    BY <1>1, <2>1, <2>2, <2>3 DEF PollerIsAlone
<1>3. FeedersHold'
  BY <1>1 DEF PullInv, FeedersHold
<1>4. QED
  BY <1>1, <1>2, <1>3 DEF PullInv, Stamped, Undisturbed

\* A feeder that saves has finished with its document.  The poller's mark moves up to the
\* newest document of its batch, and the batch is out of hand.
LEMMA SaveKeepsPullInv ==
  ASSUME \A p, q \in Pollers : p = q, PollTypeOK, BatchInHand, PullInv, NEW p \in Processes, SaveMarks(p)
  PROVE  PullInv'
<1> USE DEF PollTypeOK, Processes
<1>1. /\ mark' = [copy[p] EXCEPT ![CollectionInHand(p)] = Highest(p)]
      /\ at' = [at EXCEPT ![p] = "idle"] /\ at[p] = "saving"
      /\ batch' = [batch EXCEPT ![p] = {}] /\ copy' = [copy EXCEPT ![p] = NoMarks]
      /\ UNCHANGED <<stamp, present, handed, landed, repulled, cut>>
  BY DEF SaveMarks, HandsEmpty, Goto, mongo, pollHistory
<1>2. FeedersHold'
  BY <1>1 DEF PullInv, FeedersHold
<1>3. ASSUME Undisturbed' PROVE p \in Pollers /\ Undisturbed
  <2>1. ASSUME p \in Feeders PROVE FALSE
    <3>1. PICK d \in batch[p] : d \in handed
      BY <1>1, <2>1 DEF BatchInHand, PullInv, FeedersHold
    <3>2. PICK q \in Feeders : d \in batch'[q]
      BY <1>1, <1>3, <3>1 DEF Undisturbed
    <3>3. q # p /\ d \in batch[q]
      BY <1>1, <3>2
    <3>4. QED
      BY <2>1, <3>1, <3>3 DEF PullInv, FeedersHold
  <2>2. \A q \in Feeders : batch'[q] = batch[q]
    BY <1>1, <2>1
  <2>3. QED
    BY <1>1, <1>3, <2>1, <2>2 DEF Undisturbed
<1>4. ASSUME Undisturbed, p \in Pollers PROVE PollerIsAlone'
  <2>1. PollerIsAlone /\ copy[p] = mark
    BY <1>1, <1>4 DEF PullInv, PollerIsAlone, HasCopy
  <2>2. batch[p] # {} /\ \A d \in batch[p] : CollectionOf[d] = CollectionInHand(p) /\ d \in Docs
    BY <1>1 DEF BatchInHand, CollectionInHand
  <2>3. /\ Highest(p) \in Nat
        /\ \A d \in batch[p] : stamp[d] =< Highest(p)
    BY <2>2, HighestIsAStamp, PollAssumption
  <2>4. \A c \in PolledCollections : mark'[c] = IF c = CollectionInHand(p) THEN Highest(p) ELSE mark[c]
    BY <1>1, <2>1
  <2>5. mark[CollectionInHand(p)] < Highest(p) /\ mark[CollectionInHand(p)] \in Nat
    <3>1. PICK d \in batch[p] : stamp[d] > mark[CollectionInHand(p)]
      BY <1>1, <1>4, <2>1, <2>2 DEF PollerIsAlone
    <3>2. stamp[d] \in Nat /\ mark[CollectionInHand(p)] \in Nat /\ stamp[d] =< Highest(p)
      BY <2>2, <2>3, <3>1, PollAssumption
    <3>3. QED
      BY <2>3, <3>1, <3>2
  <2>6. ASSUME NEW d \in landed PROVE stamp[d] =< mark'[CollectionOf[d]] \/ d \in cut \cup handed
    <3>1. d \in Docs /\ stamp[d] \in Nat /\ CollectionOf[d] \in PolledCollections
      BY PollAssumption
    <3>2. CASE d \in batch[p]
      BY <2>2, <2>3, <2>4, <3>1, <3>2
    <3>3. CASE d \notin batch[p] /\ d \notin cut \cup handed
      <4>1. stamp[d] =< mark[CollectionOf[d]]
        BY <1>4, <2>1, <3>3 DEF PollerIsAlone
      <4>2. CASE CollectionOf[d] = CollectionInHand(p)
        <5>1. mark'[CollectionOf[d]] = Highest(p) /\ stamp[d] =< mark[CollectionInHand(p)]
          BY <2>4, <3>1, <4>1, <4>2
        <5>2. QED
          BY <2>3, <2>5, <3>1, <5>1
      <4>3. CASE CollectionOf[d] # CollectionInHand(p)
        BY <2>4, <3>1, <4>1, <4>3
      <4>4. QED
        BY <4>2, <4>3
    <3>4. QED
      BY <3>2, <3>3
  <2>7. \A q \in Pollers : at'[q] = "idle"
    BY <1>1, <1>4
  <2>8. QED
    BY <1>1, <2>1, <2>6, <2>7 DEF PollerIsAlone, HasCopy
<1>5. QED
  BY <1>1, <1>2, <1>3, <1>4 DEF PullInv, Stamped

\* What was in hand when a run ended early counts as cut short.
LEMMA EndKeepsPullInv ==
  ASSUME PollTypeOK, BatchInHand, PullInv, NEW p \in Processes, RunEnds(p)
  PROVE  PullInv'
<1> USE DEF PollTypeOK, Processes
<1>1. /\ at' = [at EXCEPT ![p] = "idle"] /\ batch' = [batch EXCEPT ![p] = {}]
      /\ copy' = [copy EXCEPT ![p] = NoMarks] /\ cut' = cut \cup batch[p]
      /\ handed' = IF p \in Feeders THEN handed \ batch[p] ELSE handed
      /\ UNCHANGED <<stamp, present, mark, landed, repulled>>
  BY DEF RunEnds, HandsEmpty, Goto
<1>2. handed \subseteq handed' \cup batch[p] /\ cut \cup handed \subseteq cut' \cup handed'
  BY <1>1
<1>3. FeedersHold'
  BY <1>1 DEF PullInv, FeedersHold
<1>4. ASSUME Undisturbed' PROVE Undisturbed
  <2>1. SUFFICES ASSUME NEW d \in handed PROVE \E q \in Feeders : d \in batch[q]
    BY DEF Undisturbed
  <2>2. CASE d \in handed'
    BY <1>1, <1>4, <2>2 DEF Undisturbed
  <2>3. CASE d \notin handed'
    BY <1>1, <2>3
  <2>4. QED
    BY <2>2, <2>3
<1>5. ASSUME Undisturbed PROVE PollerIsAlone'
  <2>1. PollerIsAlone
    BY <1>5 DEF PullInv
  <2>2. ASSUME NEW d \in landed, ~(stamp[d] =< mark[CollectionOf[d]]), d \notin cut' \cup handed'
        PROVE  \E q \in Pollers : at'[q] \in {"stored", "loaded", "saving"} /\ d \in batch'[q]
    <3>1. PICK q \in Pollers : at[q] \in {"stored", "loaded", "saving"} /\ d \in batch[q]
      BY <1>2, <2>1, <2>2 DEF PollerIsAlone
    <3>2. q # p
      BY <1>1, <2>2, <3>1
    <3>3. QED
      BY <1>1, <3>1, <3>2
  <2>3. \A q \in Pollers : /\ HasCopy(q)' => HasCopy(q) /\ copy'[q] = copy[q]
                           /\ at'[q] # "idle" => at[q] # "idle" /\ batch'[q] = batch[q]
    BY <1>1 DEF HasCopy
  <2>4. QED
    BY <1>1, <1>2, <2>1, <2>2, <2>3 DEF PollerIsAlone
<1>6. QED
  BY <1>1, <1>3, <1>4, <1>5 DEF PullInv, Stamped

\* A feeder is handed a document that no feeder holds.
LEMMA FeedKeepsPullInv ==
  ASSUME PollTypeOK, BatchInHand, PullInv, NEW p \in Feeders, NEW d \in Docs, FeedOne(p, d)
  PROVE  PullInv'
<1> USE DEF PollTypeOK, Processes
<1>1. /\ batch' = [batch EXCEPT ![p] = {d}] /\ at' = [at EXCEPT ![p] = "fetched"] /\ at[p] = "idle"
      /\ handed' = handed \cup {d} /\ d \notin handed /\ p \notin Pollers
      /\ UNCHANGED <<stamp, present, mark, landed, copy, repulled, cut>>
  BY PollAssumption DEF FeedOne, Goto, pollHistory
<1>2. batch[p] = {}
  BY <1>1 DEF PullInv, FeedersHold
<1>3. FeedersHold'
  BY <1>1 DEF PullInv, FeedersHold
<1>4. ASSUME Undisturbed' PROVE Undisturbed
  <2>1. SUFFICES ASSUME NEW x \in handed PROVE \E q \in Feeders : x \in batch[q]
    BY DEF Undisturbed
  <2>2. PICK q \in Feeders : x \in batch'[q]
    BY <1>1, <1>4 DEF Undisturbed
  <2>3. QED
    BY <1>1, <2>2
<1>5. PollerIsAlone => PollerIsAlone'
  <2>1. \A q \in Pollers : at'[q] = at[q] /\ batch'[q] = batch[q]
    BY <1>1
  <2>2. QED
    BY <1>1, <2>1 DEF PollerIsAlone, HasCopy
<1>6. QED
  BY <1>1, <1>3, <1>4, <1>5 DEF PullInv, Stamped

\* A poller that has the collections to itself pulls no document twice but what was in hand
\* when a run ended early, for any documents, batch size, deaths and order of stamps, as
\* long as no feeder finishes with a document.
THEOREM PulledOnlyOnce ==
  ASSUME \A p, q \in Pollers : p = q
  PROVE  PollSpec => []PulledOnce
<1>1. PollInit => PollTypeOK /\ BatchInHand /\ PullInv
  <2> SUFFICES ASSUME PollInit PROVE PollTypeOK /\ BatchInHand /\ PullInv
    OBVIOUS
  <2>1. PollTypeOK
    BY PollAssumption DEF PollInit, PollTypeOK, NoMarks
  <2>2. BatchInHand /\ PullInv
    BY DEF PollInit, BatchInHand, PullInv, Stamped, FeedersHold, PollerIsAlone, HasCopy, Processes
  <2>3. QED
    BY <2>1, <2>2
<1>2. PollTypeOK /\ BatchInHand /\ PullInv /\ [PollNext]_pollVars => PullInv'
  <2> SUFFICES ASSUME PollTypeOK, BatchInHand, PullInv, [PollNext]_pollVars PROVE PullInv'
    OBVIOUS
  <2>1. ASSUME NEW d \in Docs, Stamp(d) PROVE PullInv'
    <3>1. /\ \A e \in present : stamp'[e] = stamp[e]
          /\ UNCHANGED <<present, handed, mark, landed, job, repulled, cut>>
      BY <2>1 DEF Stamp, PollTypeOK, PullInv, Stamped, pollHistory
    <3>2. landed \subseteq present /\ \A p \in Processes : batch[p] \subseteq present
      BY DEF BatchInHand
    <3>3. QED
      BY <3>1, <3>2 DEF PullInv, Stamped, FeedersHold, PollerIsAlone, HasCopy, Undisturbed, job, Processes
  <2>2. ASSUME NEW d \in Docs, Insert(d) PROVE PullInv'
    BY <2>2 DEF Insert, PullInv, Stamped, FeedersHold, PollerIsAlone, HasCopy, Undisturbed, job, pollHistory
  <2>3. \A p \in Processes : Crash(p) \/ FailLoad(p) => RunEnds(p)
    BY DEF Crash, FailLoad
  <2>4. CASE UNCHANGED pollVars
    BY <2>4 DEF pollVars, mongo, job, pollHistory, PullInv, Stamped, FeedersHold, PollerIsAlone, HasCopy, Undisturbed
  <2>5. QED
    BY <2>1, <2>2, <2>3, <2>4, FeedKeepsPullInv, FetchKeepsPullInv, StoreKeepsPullInv, SaveKeepsPullInv,
       EndKeepsPullInv DEF PollNext, Poll, IngestStep, Processes
<1>3. PullInv => PulledOnce
  BY DEF PullInv, PollerIsAlone, Undisturbed, PulledOnce
<1>4. QED
  BY <1>1, <1>2, <1>3, MongoTyped, InHandIsKept, PTL DEF PollSpec
================================================================================
