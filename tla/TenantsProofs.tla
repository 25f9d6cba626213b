----------------------------- MODULE TenantsProofs -----------------------------
(****************************************************************************)
(* Proofs about Tenants, for any number of requests, any calls and any      *)
(* failures: its accounts, its refresh tokens, what a signup leaves, its    *)
(* schemas and their deletion, its types, suspension, the runs and their    *)
(* files, and the rebuilds.  All of them rest on Ordered: which statements  *)
(* each call takes, and which calls were over when another came in.         *)
(****************************************************************************)
EXTENDS Tenants, TLAPS

\* What the proofs need of the types of the requests' variables.
Shape ==
  /\ at = [r \in Requests |-> at[r]] /\ answer = [r \in Requests |-> answer[r]]
  /\ call \in [Requests -> Calls \cup {None}]
  /\ before \in [Requests -> SUBSET Requests]

\* What each request has seen end before it came in has ended, and stays so.
EndedBefore ==
  /\ \A r \in Requests : \A s \in before[r] : Ended(s)
  /\ \A r \in Requests : r \notin before[r]

\* A step of a request that is under way moves that request alone.
Moves(r) ==
  /\ at[r] \notin {"idle", "done"}
  /\ at' = [at EXCEPT ![r] = at'[r]] /\ at'[r] # "idle"
  /\ answer' = [answer EXCEPT ![r] = answer'[r]]
  /\ UNCHANGED <<call, before>>

\* A statement of a request moves that request only.
LEMMA StepMoves ==
  ASSUME Shape, NEW r \in Requests, Step(r) \/ Fails(r)
  PROVE  Moves(r)
<1> USE DEF Shape, Moves, Goto, Answer, Keep, Note
<1>1. CASE InsertTenant(r) \/ CreatedEdge(r) \/ ReadMetadata(r) \/ WriteMetadata(r) \/ ReadInvite(r)
  BY <1>1 DEF InsertTenant, CreatedEdge, ReadMetadata, WriteMetadata, ReadInvite
<1>2. CASE FindEmail(r) \/ InsertUser(r) \/ IssueToken(r) \/ FindUser(r) \/ CheckToken(r) \/ Revoke(r)
  BY <1>2 DEF FindEmail, InsertUser, IssueToken, FindUser, CheckToken, Revoke
<1>3. CASE GetTenant(r) \/ SetStatus(r) \/ DropSchema(r) \/ CreateSchema(r) \/ RecordSchema(r)
  BY <1>3 DEF GetTenant, SetStatus, DropSchema, CreateSchema, RecordSchema
<1>4. CASE CheckDirectory(r) \/ CheckActive(r) \/ OpenValid(r) \/ WriteValid(r) \/ RecordRun(r) \/ IngestEdges(r)
  BY <1>4 DEF CheckDirectory, CheckActive, OpenValid, WriteValid, RecordRun, IngestEdges
<1>5. CASE DropTable(r) \/ LoadFiles(r) \/ DeleteFacts(r) \/ InsertFacts(r)
  BY <1>5 DEF DropTable, LoadFiles, DeleteFacts, InsertFacts
<1>6. CASE Fails(r)
  BY <1>6 DEF Fails
<1>7. QED
  BY <1>1, <1>2, <1>3, <1>4, <1>5, <1>6 DEF Step

\* Every statement but three leaves the accounts and the tokens alone.
LEMMA OthersLeaveAccounts ==
  ASSUME NEW r \in Requests, Step(r) \/ Fails(r)
  PROVE  /\ UNCHANGED users \/ InsertUser(r)
         /\ UNCHANGED tokens \/ IssueToken(r) \/ Revoke(r)
<1> USE DEF accounts
<1>1. CASE InsertTenant(r) \/ CreatedEdge(r) \/ ReadMetadata(r) \/ WriteMetadata(r) \/ ReadInvite(r)
  BY <1>1 DEF InsertTenant, CreatedEdge, ReadMetadata, WriteMetadata, ReadInvite
<1>2. CASE FindEmail(r) \/ InsertUser(r) \/ IssueToken(r) \/ FindUser(r) \/ CheckToken(r) \/ Revoke(r)
  BY <1>2 DEF FindEmail, InsertUser, IssueToken, FindUser, CheckToken, Revoke
<1>3. CASE GetTenant(r) \/ SetStatus(r) \/ DropSchema(r) \/ CreateSchema(r) \/ RecordSchema(r)
  BY <1>3 DEF GetTenant, SetStatus, DropSchema, CreateSchema, RecordSchema
<1>4. CASE CheckDirectory(r) \/ CheckActive(r) \/ OpenValid(r) \/ WriteValid(r) \/ RecordRun(r) \/ IngestEdges(r)
  BY <1>4 DEF CheckDirectory, CheckActive, OpenValid, WriteValid, RecordRun, IngestEdges
<1>5. CASE DropTable(r) \/ LoadFiles(r) \/ DeleteFacts(r) \/ InsertFacts(r)
  BY <1>5 DEF DropTable, LoadFiles, DeleteFacts, InsertFacts
<1>6. CASE Fails(r)
  BY <1>6 DEF Fails
<1>7. QED
  BY <1>1, <1>2, <1>3, <1>4, <1>5, <1>6 DEF Step

\* The requests' variables keep their shape, and what has ended stays ended.
Timely == Shape /\ EndedBefore

\* No request has begun.
LEMMA TimelyInitially == Init => Timely
BY DEF Init, Timely, Shape, EndedBefore

\* Requests come, go on and end; what was over when another began stays over.
LEMMA TimelyIsKept == Timely /\ [Next]_vars => Timely'
<1> SUFFICES ASSUME Timely, [Next]_vars PROVE Timely'
  OBVIOUS
<1> USE DEF Timely, Shape, EndedBefore, Ended
<1>1. ASSUME NEW r \in Requests, Receive(r) PROVE Timely'
  <2>1. PICK c \in Calls : call' = [call EXCEPT ![r] = c] /\ at' = [at EXCEPT ![r] = Opening[c.op]]
    BY <1>1 DEF Receive
  <2>3. before' = [before EXCEPT ![r] = {s \in Requests : Ended(s)}] /\ UNCHANGED answer
    BY <1>1 DEF Receive
  <2>4. at[r] = "idle"
    BY <1>1 DEF Receive
  <2>5. Shape'
    BY <2>1, <2>3
  <2>6. EndedBefore'
    BY <2>1, <2>3, <2>4
  <2>7. QED
    BY <2>5, <2>6
<1>2. ASSUME NEW r \in Requests, Step(r) \/ Fails(r) PROVE Timely'
  <2>1. Moves(r)
    BY <1>2, StepMoves
  <2>2. QED
    BY <2>1 DEF Moves
<1>3. CASE UNCHANGED vars
  BY <1>3 DEF vars
<1>4. QED
  BY <1>1, <1>2, <1>3 DEF Next

-----------------------------------------------------------------------------
(* Accounts.                                                                *)

AccountsTold ==
  /\ \A u \in DOMAIN users : u \in Requests => at[u] # "idle"
  /\ \A u, v \in DOMAIN users : u # v /\ u \notin Requests => v \in Requests
  /\ OneAccountPerAddress

\* Whoever has the address of an account about to be inserted ran at the same time.
AddressWasFree ==
  \A r \in Requests : at[r] = "insert_user" =>
    \A u \in DOMAIN users : users[u].email = call[r].email => u \in Requests \ before[r]

\* Only create_user()'s look-up leads to its insert.
LEMMA OnlyFindEmailLeadsToInsert ==
  ASSUME Shape, NEW r \in Requests, Step(r) \/ Fails(r), at'[r] = "insert_user"
  PROVE  ~HasAccount(r) /\ UNCHANGED users
<1> USE DEF Shape, Goto, Answer
<1>1. CASE InsertTenant(r) \/ CreatedEdge(r) \/ ReadMetadata(r) \/ WriteMetadata(r) \/ ReadInvite(r)
  BY <1>1 DEF InsertTenant, CreatedEdge, ReadMetadata, WriteMetadata, ReadInvite
<1>2. CASE FindEmail(r)
  BY <1>2 DEF FindEmail, accounts
<1>3. CASE InsertUser(r) \/ IssueToken(r) \/ FindUser(r) \/ CheckToken(r) \/ Revoke(r)
  BY <1>3 DEF InsertUser, IssueToken, FindUser, CheckToken, Revoke
<1>4. CASE GetTenant(r) \/ SetStatus(r) \/ DropSchema(r) \/ CreateSchema(r) \/ RecordSchema(r)
  BY <1>4 DEF GetTenant, SetStatus, DropSchema, CreateSchema, RecordSchema
<1>5. CASE CheckDirectory(r) \/ CheckActive(r) \/ OpenValid(r) \/ WriteValid(r) \/ RecordRun(r) \/ IngestEdges(r)
  BY <1>5 DEF CheckDirectory, CheckActive, OpenValid, WriteValid, RecordRun, IngestEdges
<1>6. CASE DropTable(r) \/ LoadFiles(r) \/ DeleteFacts(r) \/ InsertFacts(r) \/ Fails(r)
  BY <1>6 DEF DropTable, LoadFiles, DeleteFacts, InsertFacts, Fails
<1>7. QED
  BY <1>1, <1>2, <1>3, <1>4, <1>5, <1>6 DEF Step

\* Two accounts share an address only when the calls that made them overlapped, for
\* any number of signups and joins.
THEOREM AddressesAreShared == Spec => []OneAccountPerAddress
<1> DEFINE Inv == AccountsTold /\ AddressWasFree
<1>1. Init => Inv
  <2> SUFFICES ASSUME Init PROVE Inv
    OBVIOUS
  <2>1. DOMAIN users = {FirstUser} /\ FirstUser \notin Requests /\ \A r \in Requests : at[r] = "idle"
    BY TenantsAssumption DEF Init
  <2>2. QED
    BY <2>1 DEF AccountsTold, AddressWasFree, OneAccountPerAddress
<1>2. Timely /\ Inv /\ [Next]_vars => Inv'
  <2> SUFFICES ASSUME Timely, Inv, [Next]_vars PROVE Inv'
    OBVIOUS
  <2> USE DEF Timely, Shape, EndedBefore, Ended, AccountsTold, OneAccountPerAddress, Overlap
  <2>1. ASSUME NEW r \in Requests, Receive(r) PROVE Inv'
    <3>1. PICK c \in Calls : call' = [call EXCEPT ![r] = c] /\ at' = [at EXCEPT ![r] = Opening[c.op]]
      BY <2>1 DEF Receive
    <3>2. Opening[c.op] # "insert_user" /\ Opening[c.op] # "idle"
      BY TenantsAssumption DEF Opening, ApiOps, OperatorOps
    <3>3. at[r] = "idle" /\ UNCHANGED users /\ before' = [before EXCEPT ![r] = {s \in Requests : Ended(s)}]
      BY <2>1 DEF Receive, accounts
    <3>4. r \notin DOMAIN users
      BY <3>3
    <3>5. AccountsTold'
      BY <3>1, <3>2, <3>3, <3>4
    <3>6. AddressWasFree'
      BY <3>1, <3>2, <3>3 DEF AddressWasFree
    <3>7. QED
      BY <3>5, <3>6
  <2>2. ASSUME NEW r \in Requests, Moves(r), UNCHANGED users, at'[r] = "insert_user" => ~HasAccount(r)
        PROVE  Inv'
    <3>1. AccountsTold'
      BY <2>2 DEF Moves
    <3>2. AddressWasFree'
      BY <2>2 DEF Moves, AddressWasFree, HasAccount
    <3>3. QED
      BY <3>1, <3>2
  <2>3. ASSUME NEW r \in Requests, InsertUser(r) PROVE Inv'
    <3>1. Moves(r) /\ at[r] = "insert_user" /\ at'[r] = "issue_token"
      BY <2>3, StepMoves DEF Step, InsertUser, Goto
    <3>2. /\ DOMAIN users' = DOMAIN users \cup {r} /\ users'[r].email = call[r].email
          /\ \A u \in DOMAIN users \ {r} : users'[u] = users[u]
      BY <2>3 DEF InsertUser, Put
    <3>3. \A u \in DOMAIN users \ {r} : users[u].email = call[r].email => u \in Requests /\ Overlap(u, r)
      BY <3>1 DEF AddressWasFree
    <3>4. OneAccountPerAddress'
      <4> SUFFICES ASSUME NEW u \in DOMAIN users', NEW v \in DOMAIN users', u # v, users'[u].email = users'[v].email
                   PROVE  u \in Requests /\ v \in Requests /\ Overlap(u, v)
        BY <3>1 DEF Moves
      <4>1. CASE u = r
        BY <3>2, <3>3, <4>1
      <4>2. CASE v = r
        BY <3>2, <3>3, <4>2
      <4>3. CASE u # r /\ v # r
        BY <3>2, <4>3
      <4>4. QED
        BY <4>1, <4>2, <4>3
    <3>5. AccountsTold'
      BY <3>1, <3>2, <3>4 DEF Moves
    <3>6. AddressWasFree'
      <4> SUFFICES ASSUME NEW q \in Requests, at'[q] = "insert_user",
                          NEW u \in DOMAIN users', users'[u].email = call[q].email
                   PROVE  u \in Requests \ before[q]
        BY <3>1 DEF Moves, AddressWasFree
      <4>1. q # r /\ at[q] = "insert_user"
        BY <3>1 DEF Moves
      <4>2. CASE u = r
        BY <3>1, <4>2
      <4>3. CASE u # r
        BY <3>2, <4>1, <4>3 DEF AddressWasFree
      <4>4. QED
        BY <4>2, <4>3
    <3>7. QED
      BY <3>5, <3>6
  <2>4. ASSUME NEW r \in Requests, Step(r) \/ Fails(r) PROVE Inv'
    BY <2>2, <2>3, <2>4, StepMoves, OthersLeaveAccounts, OnlyFindEmailLeadsToInsert
  <2>5. CASE UNCHANGED vars
    BY <2>5 DEF vars, AddressWasFree
  <2>6. QED
    BY <2>1, <2>4, <2>5 DEF Next
<1>3. QED
  BY <1>1, <1>2, TimelyInitially, TimelyIsKept, PTL DEF Spec, AccountsTold

-----------------------------------------------------------------------------
(* Refresh tokens.                                                          *)

Rotations == {"refresh", "logout"}
Revoked(k) == tokens[k].revoked = TRUE
SpentBy(s, k) == Succeeded(s) /\ call[s].op \in Rotations /\ call[s].token = k
UnderWay(r) == at[r] \notin {"idle", "done"}

\* The calls that exchange and give up tokens take no other path than theirs, and
\* present tokens that exist or that nobody will issue.
OnTheirPath ==
  \A r \in Requests :
    /\ UnderWay(r) /\ call[r].op = "refresh" => at[r] \in {"check_token", "revoke", "issue_token"}
    /\ UnderWay(r) /\ call[r].op = "logout" => at[r] = "revoke"
    /\ at[r] \in {"check_token", "revoke"} => call[r].op \in Rotations
    /\ at[r] # "idle" /\ call[r].op \in Rotations => call[r].token \in DOMAIN tokens \/ call[r].token \notin Requests

TokensTold ==
  /\ \A k \in DOMAIN tokens : DOMAIN tokens[k] = {"user", "parent", "revoked"}
  /\ \A k \in DOMAIN tokens \cap Requests :
       /\ at[k] = "done"
       /\ tokens[k].parent # None => call[k].op = "refresh" /\ call[k].token = tokens[k].parent

\* A token that was exchanged or given up, or that is about to be replaced, is revoked.
SpentIsRevoked ==
  \A s \in Requests : \A k \in DOMAIN tokens :
    SpentBy(s, k) \/ (at[s] = "issue_token" /\ call[s].op = "refresh" /\ call[s].token = k) => Revoked(k)

\* When a refresh has found its token valid, none that ended before had spent it.
WasUnspent ==
  \A r \in Requests : at[r] \in {"revoke", "issue_token"} /\ call[r].op = "refresh" =>
    \A s \in before[r] : ~SpentBy(s, call[r].token)

\* Refreshes and logouts execute the statements of refresh() and logout() only.
LEMMA RotationSteps ==
  ASSUME OnTheirPath, NEW r \in Requests, call[r].op \in Rotations, Step(r)
  PROVE  CheckToken(r) \/ Revoke(r) \/ IssueToken(r)
<1> SUFFICES at[r] \in {"check_token", "revoke", "issue_token"} => CheckToken(r) \/ Revoke(r) \/ IssueToken(r)
  <2>1. UnderWay(r)
    <3>1. ASSUME at[r] \in {"idle", "done"} PROVE FALSE
      BY <3>1 DEF Step, InsertTenant, CreatedEdge, ReadMetadata, WriteMetadata, ReadInvite, FindEmail, InsertUser,
         IssueToken, FindUser, CheckToken, Revoke, GetTenant, SetStatus, DropSchema, CreateSchema, RecordSchema,
         CheckDirectory, CheckActive, OpenValid, WriteValid, RecordRun, IngestEdges, DropTable, LoadFiles,
         DeleteFacts, InsertFacts
    <3>2. QED
      BY <3>1 DEF UnderWay
  <2>2. QED
    BY <2>1 DEF OnTheirPath, Rotations
<1>1. QED
  BY DEF Step, InsertTenant, CreatedEdge, ReadMetadata, WriteMetadata, ReadInvite, FindEmail, InsertUser, FindUser,
     GetTenant, SetStatus, DropSchema, CreateSchema, RecordSchema, CheckDirectory, CheckActive, OpenValid,
     WriteValid, RecordRun, IngestEdges, DropTable, LoadFiles, DeleteFacts, InsertFacts

\* Nothing else leads to the statements of refresh() and logout().
LEMMA NoOtherWayIn ==
  ASSUME Shape, NEW r \in Requests, Step(r), ~CheckToken(r), ~Revoke(r)
  PROVE  at'[r] \notin {"check_token", "revoke"}
<1> USE DEF Shape, Goto, Answer
<1>1. CASE InsertTenant(r) \/ CreatedEdge(r) \/ ReadMetadata(r) \/ WriteMetadata(r) \/ ReadInvite(r)
  BY <1>1 DEF InsertTenant, CreatedEdge, ReadMetadata, WriteMetadata, ReadInvite
<1>2. CASE FindEmail(r) \/ InsertUser(r) \/ IssueToken(r) \/ FindUser(r)
  BY <1>2 DEF FindEmail, InsertUser, IssueToken, FindUser
<1>3. CASE GetTenant(r) \/ SetStatus(r) \/ DropSchema(r) \/ CreateSchema(r) \/ RecordSchema(r)
  BY <1>3 DEF GetTenant, SetStatus, DropSchema, CreateSchema, RecordSchema
<1>4. CASE CheckDirectory(r) \/ CheckActive(r) \/ OpenValid(r) \/ WriteValid(r) \/ RecordRun(r) \/ IngestEdges(r)
  BY <1>4 DEF CheckDirectory, CheckActive, OpenValid, WriteValid, RecordRun, IngestEdges
<1>5. CASE DropTable(r) \/ LoadFiles(r) \/ DeleteFacts(r) \/ InsertFacts(r)
  BY <1>5 DEF DropTable, LoadFiles, DeleteFacts, InsertFacts
<1>6. QED
  BY <1>1, <1>2, <1>3, <1>4, <1>5 DEF Step

Rotation == OnTheirPath /\ TokensTold /\ SpentIsRevoked /\ WasUnspent /\ RenewedOnce

\* A request that is neither a refresh nor a logout, or one of those that fails, and
\* that issues no token.
LEMMA BystandersKeepRotation ==
  ASSUME Timely, Rotation, NEW r \in Requests, Moves(r), UNCHANGED tokens,
         at'[r] \notin {"check_token", "revoke"},
         call[r].op \in Rotations => at'[r] = "done" /\ answer'[r] # 200
  PROVE  Rotation'
<1> USE DEF Moves, Timely, Shape
<1>1. \A k : \A s \in Requests : SpentBy(s, k)' => SpentBy(s, k)
  BY DEF SpentBy, Succeeded, Ended, Rotations
<1>2. \A s \in Requests : s # r => at'[s] = at[s]
  OBVIOUS
<1>3. OnTheirPath'
  BY DEF Rotation, OnTheirPath, UnderWay, Rotations
<1>4. TokensTold'
  BY DEF Rotation, TokensTold
<1>5. SpentIsRevoked'
  BY <1>1, <1>2 DEF Rotation, SpentIsRevoked, Revoked, Rotations
<1>6. WasUnspent'
  BY <1>1, <1>2 DEF Rotation, WasUnspent, Rotations
<1>7. RenewedOnce'
  <2> SUFFICES ASSUME NEW k \in DOMAIN tokens \cap Requests, NEW s \in Requests \ {k},
                      tokens[k].parent # None, SpentBy(s, tokens[k].parent)
               PROVE  s \notin before[k]
    BY <1>1 DEF RenewedOnce, SpentBy, Rotations
  <2>1. QED
    BY DEF Rotation, RenewedOnce, SpentBy, Rotations
<1>8. QED
  BY <1>3, <1>4, <1>5, <1>6, <1>7 DEF Rotation

\* A request that arrives presents a token and spends none.
LEMMA ReceiveKeepsRotation ==
  ASSUME Timely, Rotation, NEW r \in Requests, Receive(r)
  PROVE  Rotation'
<1> USE DEF Timely, Shape
<1>1. PICK c \in Calls : Presentable(c) /\ call' = [call EXCEPT ![r] = c] /\ at' = [at EXCEPT ![r] = Opening[c.op]]
  BY DEF Receive
<1>2. at[r] = "idle" /\ UNCHANGED <<tokens, answer>> /\ before' = [before EXCEPT ![r] = {s \in Requests : Ended(s)}]
  BY DEF Receive, accounts
<1>3. /\ Opening[c.op] \notin {"idle", "done", "issue_token"}
      /\ c.op = "refresh" => Opening[c.op] = "check_token"
      /\ c.op = "logout" => Opening[c.op] = "revoke"
      /\ Opening[c.op] \in {"check_token", "revoke"} => c.op \in Rotations
  BY TenantsAssumption DEF Rotations, Opening, ApiOps, OperatorOps
<1>4. \A s \in Requests : s # r => at'[s] = at[s] /\ call'[s] = call[s] /\ before'[s] = before[s]
  BY <1>1, <1>2
<1>5. \A k : \A s \in Requests : SpentBy(s, k)' => s # r /\ SpentBy(s, k)
  BY <1>1, <1>2, <1>3 DEF SpentBy, Succeeded, Ended
<1>6. OnTheirPath'
  BY <1>1, <1>2, <1>3, <1>4 DEF Rotation, OnTheirPath, UnderWay, Rotations, Presentable
<1>7. TokensTold'
  BY <1>2, <1>4 DEF Rotation, TokensTold
<1>8. SpentIsRevoked'
  BY <1>1, <1>2, <1>3, <1>4, <1>5 DEF Rotation, SpentIsRevoked, Revoked
<1>9. WasUnspent'
  <2> SUFFICES ASSUME NEW q \in Requests, at'[q] \in {"revoke", "issue_token"}, call'[q].op = "refresh",
                      NEW s \in before'[q], SpentBy(s, call[q].token)'
               PROVE  FALSE
    BY DEF WasUnspent
  <2>1. q # r
    BY <1>1, <1>3
  <2>2. s \in before[q] /\ s \in Requests /\ call'[q] = call[q]
    BY <1>4, <2>1
  <2>3. s # r /\ SpentBy(s, call[q].token)
    BY <1>5, <2>2
  <2>4. QED
    BY <1>4, <2>1, <2>2, <2>3 DEF Rotation, WasUnspent
<1>10. RenewedOnce'
  <2> SUFFICES ASSUME NEW k \in DOMAIN tokens \cap Requests, NEW s \in Requests \ {k},
                      tokens[k].parent # None, SpentBy(s, tokens[k].parent)'
               PROVE  s \notin before'[k]
    BY <1>2 DEF RenewedOnce, SpentBy, Rotations
  <2>1. k # r
    BY <1>2 DEF Rotation, TokensTold
  <2>2. s # r /\ SpentBy(s, tokens[k].parent)
    BY <1>2, <1>5
  <2>3. s \notin before[k]
    BY <2>2 DEF Rotation, RenewedOnce, SpentBy, Rotations
  <2>4. QED
    BY <1>4, <2>1, <2>3
<1>11. QED
  BY <1>6, <1>7, <1>8, <1>9, <1>10 DEF Rotation

\* The check of /auth/refresh only lets pass a token that was not revoked then.
LEMMA CheckTokenKeepsRotation ==
  ASSUME Timely, Rotation, NEW r \in Requests, CheckToken(r), call[r].op \in Rotations
  PROVE  Rotation'
<1> USE DEF Timely, Shape
<1>0. Moves(r) /\ UNCHANGED tokens /\ at[r] = "check_token"
  BY StepMoves DEF Step, CheckToken, accounts
<1>1. CASE at'[r] = "done"
  <2>1. answer'[r] # 200
    BY <1>1 DEF CheckToken, Answer, Goto, Note
  <2>2. QED
    BY <1>0, <1>1, <2>1, BystandersKeepRotation
<1>2. CASE at'[r] # "done"
  <2>1. at'[r] = "revoke" /\ answer' = answer /\ call[r].token \in DOMAIN tokens /\ ~Revoked(call[r].token)
    BY <1>0, <1>2 DEF CheckToken, Answer, Goto, Note, ValidToken, Revoked
  <2> USE <1>0 DEF Moves
  <2>2. \A k : \A s \in Requests : SpentBy(s, k)' => s # r /\ SpentBy(s, k)
    BY <2>1 DEF SpentBy, Succeeded, Ended
  <2>3. \A s \in Requests : ~SpentBy(s, call[r].token)
    BY <2>1 DEF Rotation, SpentIsRevoked
  <2>4. OnTheirPath'
    BY <2>1 DEF Rotation, OnTheirPath, UnderWay, Rotations
  <2>5. TokensTold'
    BY <2>1 DEF Rotation, TokensTold
  <2>6. SpentIsRevoked'
    BY <2>1, <2>2 DEF Rotation, SpentIsRevoked, Revoked
  <2>7. WasUnspent'
    BY <2>1, <2>2, <2>3 DEF Rotation, WasUnspent
  <2>8. RenewedOnce'
    <3> SUFFICES ASSUME NEW k \in DOMAIN tokens \cap Requests, NEW s \in Requests \ {k},
                        tokens[k].parent # None, SpentBy(s, tokens[k].parent)'
                 PROVE  s \notin before[k]
      BY DEF RenewedOnce, SpentBy, Rotations
    <3>1. SpentBy(s, tokens[k].parent)
      BY <2>2
    <3>2. QED
      BY <3>1 DEF Rotation, RenewedOnce, SpentBy, Rotations
  <2>9. QED
    BY <2>4, <2>5, <2>6, <2>7, <2>8 DEF Rotation
<1>3. QED
  BY <1>1, <1>2

\* A revocation, by a renewal or a logout, is final.
LEMMA RevokeKeepsRotation ==
  ASSUME Timely, Rotation, NEW r \in Requests, Revoke(r), call[r].op \in Rotations
  PROVE  Rotation'
<1> USE DEF Timely, Shape
<1>0. Moves(r) /\ at[r] = "revoke"
  BY StepMoves DEF Step, Revoke
<1> DEFINE q == call[r].token
<1>1. /\ DOMAIN tokens' = DOMAIN tokens
      /\ \A k \in DOMAIN tokens : /\ DOMAIN tokens'[k] = {"user", "parent", "revoked"}
                                  /\ tokens'[k].parent = tokens[k].parent
                                  /\ Revoked(k) \/ k = q => tokens'[k].revoked = TRUE
  BY DEF Revoke, Revoked, Rotation, TokensTold
<1>2. /\ call[r].op = "refresh" => at'[r] = "issue_token" /\ answer' = answer
      /\ call[r].op = "logout" => at'[r] = "done"
  BY DEF Revoke, Answer, Goto, Rotations
<1> USE <1>0 DEF Moves
<1>3. ASSUME NEW s \in Requests, NEW k, SpentBy(s, k)'
      PROVE  SpentBy(s, k) \/ (s = r /\ k = q /\ call[r].op = "logout")
  <2>1. CASE s = r
    BY <1>2, <1>3, <2>1 DEF SpentBy, Succeeded, Ended, Rotations
  <2>2. CASE s # r
    <3>1. at'[s] = at[s] /\ answer'[s] = answer[s]
      BY <2>2
    <3>2. QED
      BY <1>3, <3>1 DEF SpentBy, Succeeded, Ended
  <2>3. QED
    BY <2>1, <2>2
<1>4. \A s \in Requests : at'[s] = "issue_token" => at[s] = "issue_token" \/ (s = r /\ call[r].op = "refresh")
  BY <1>2 DEF Rotations
<1> HIDE DEF q
<1>5. OnTheirPath'
  BY <1>1, <1>2 DEF Rotation, OnTheirPath, UnderWay, Rotations
<1>6. TokensTold'
  BY <1>1 DEF Rotation, TokensTold
<1>7. SpentIsRevoked'
  <2> SUFFICES ASSUME NEW s \in Requests, NEW k \in DOMAIN tokens',
                      SpentBy(s, k)' \/ (at'[s] = "issue_token" /\ call[s].op = "refresh" /\ call[s].token = k)
               PROVE  Revoked(k)'
    BY DEF SpentIsRevoked
  <2>1. k = q \/ Revoked(k)
    BY <1>1, <1>3, <1>4 DEF Rotation, SpentIsRevoked, q
  <2>2. QED
    BY <1>1, <2>1 DEF Revoked
<1>8. WasUnspent'
  <2> SUFFICES ASSUME NEW p \in Requests, at'[p] \in {"revoke", "issue_token"}, call[p].op = "refresh",
                      NEW s \in before[p], SpentBy(s, call[p].token)'
               PROVE  FALSE
    BY DEF WasUnspent
  <2>1. at[p] \in {"revoke", "issue_token"}
    BY <1>2
  <2>2. s \in Requests /\ Ended(s)
    BY DEF EndedBefore
  <2>3. SpentBy(s, call[p].token)
    BY <1>3, <2>2 DEF Ended
  <2>4. QED
    BY <2>1, <2>3 DEF Rotation, WasUnspent
<1>9. RenewedOnce'
  <2> SUFFICES ASSUME NEW k \in DOMAIN tokens \cap Requests, NEW s \in Requests \ {k},
                      tokens[k].parent # None, SpentBy(s, tokens[k].parent)'
               PROVE  s \notin before[k]
    BY <1>1 DEF RenewedOnce, SpentBy, Rotations
  <2>1. CASE SpentBy(s, tokens[k].parent)
    BY <2>1 DEF Rotation, RenewedOnce, SpentBy, Rotations
  <2>2. CASE s = r
    BY <2>2 DEF EndedBefore, Ended
  <2>3. tokens'[k].parent = tokens[k].parent
    BY <1>1
  <2>4. SpentBy(s, tokens[k].parent) \/ s = r
    BY <1>3, <2>3
  <2>5. QED
    BY <2>1, <2>2, <2>4
<1>10. QED
  BY <1>5, <1>6, <1>7, <1>8, <1>9 DEF Rotation

\* A token is new when it is issued, and a renewal issues it after its own revocation.
LEMMA IssueTokenKeepsRotation ==
  ASSUME Timely, Rotation, NEW r \in Requests, IssueToken(r)
  PROVE  Rotation'
<1> USE DEF Timely, Shape
<1>0. Moves(r) /\ at[r] = "issue_token" /\ at'[r] = "done" /\ answer'[r] = 200
  BY StepMoves DEF Step, IssueToken, Answer
<1>1. /\ r \notin DOMAIN tokens /\ DOMAIN tokens' = DOMAIN tokens \cup {r}
      /\ \A k \in DOMAIN tokens : tokens'[k] = tokens[k]
      /\ DOMAIN tokens'[r] = {"user", "parent", "revoked"}
      /\ tokens'[r].parent = IF call[r].op = "refresh" THEN call[r].token ELSE None
  BY <1>0 DEF IssueToken, Put, Rotation, TokensTold
<1>2. call[r].op # "logout"
  BY <1>0 DEF Rotation, OnTheirPath, UnderWay
<1> USE <1>0 DEF Moves
<1>3. \A k : \A s \in Requests :
       SpentBy(s, k)' => SpentBy(s, k) \/ (s = r /\ k = call[r].token /\ call[r].op = "refresh")
  BY <1>2 DEF SpentBy, Succeeded, Ended, Rotations
<1>4. \A s \in Requests : UnderWay(s)' => s # r
  BY DEF UnderWay
<1>a. \A s \in Requests : s # r => at'[s] = at[s] /\ answer'[s] = answer[s]
  OBVIOUS
<1>b. \A s \in Requests : at[s] # "idle" /\ call[s].op \in Rotations => call[s].token # r
  BY <1>1 DEF Rotation, OnTheirPath
<1>5. OnTheirPath'
  BY <1>1, <1>4, <1>a DEF Rotation, OnTheirPath, UnderWay
<1>6. TokensTold'
  BY <1>1, <1>a DEF Rotation, TokensTold
<1>7. SpentIsRevoked'
  <2> SUFFICES ASSUME NEW s \in Requests, NEW k \in DOMAIN tokens',
                      SpentBy(s, k)' \/ (at'[s] = "issue_token" /\ call[s].op = "refresh" /\ call[s].token = k)
               PROVE  Revoked(k)'
    BY DEF SpentIsRevoked
  <2>1. SpentBy(s, k) \/ (at[s] = "issue_token" /\ call[s].op = "refresh" /\ call[s].token = k)
    BY <1>3, <1>a
  <2>2. k # r
    BY <1>b, <2>1 DEF SpentBy, Succeeded, Ended, Rotations
  <2>3. k \in DOMAIN tokens /\ Revoked(k)
    BY <1>1, <2>1, <2>2 DEF Rotation, SpentIsRevoked
  <2>4. QED
    BY <1>1, <2>3 DEF Revoked
<1>8. WasUnspent'
  <2> SUFFICES ASSUME NEW p \in Requests, at'[p] \in {"revoke", "issue_token"}, call[p].op = "refresh",
                      NEW s \in before[p], SpentBy(s, call[p].token)'
               PROVE  FALSE
    BY DEF WasUnspent
  <2>1. p # r /\ s \in Requests /\ s # r
    BY DEF EndedBefore, Ended
  <2>2. SpentBy(s, call[p].token)
    BY <1>3, <2>1
  <2>3. QED
    BY <1>a, <2>1, <2>2 DEF Rotation, WasUnspent
<1>9. RenewedOnce'
  <2> SUFFICES ASSUME NEW k \in DOMAIN tokens' \cap Requests, NEW s \in Requests \ {k},
                      tokens'[k].parent # None, SpentBy(s, tokens[k].parent)'
               PROVE  s \notin before[k]
    BY DEF RenewedOnce, SpentBy, Rotations
  <2>1. CASE s = r
    BY <2>1 DEF EndedBefore, Ended
  <2>2. CASE s # r
    <3>1. SpentBy(s, tokens'[k].parent)
      BY <1>a, <2>2 DEF SpentBy, Succeeded, Ended
    <3>2. CASE k = r
      <4>1. call[r].op = "refresh" /\ tokens'[k].parent = call[r].token
        BY <1>1, <3>2
      <4>2. QED
        BY <3>1, <3>2, <4>1 DEF Rotation, WasUnspent
    <3>3. CASE k # r
      BY <1>1, <3>1, <3>3 DEF Rotation, RenewedOnce, SpentBy, Rotations
    <3>4. QED
      BY <3>2, <3>3
  <2>3. QED
    BY <2>1, <2>2
<1>10. QED
  BY <1>5, <1>6, <1>7, <1>8, <1>9 DEF Rotation

\* Rotation of refresh tokens: one that was exchanged or given up is not exchanged by
\* a call that comes in later, along chains of any length and with any failures.
THEOREM TokensRotate == Spec => []RenewedOnce
<1>1. Init => Rotation
  <2> SUFFICES ASSUME Init PROVE Rotation
    OBVIOUS
  <2>1. /\ DOMAIN tokens = {FirstToken} /\ FirstToken \notin Requests
        /\ DOMAIN tokens[FirstToken] = {"user", "parent", "revoked"}
        /\ \A r \in Requests : at[r] = "idle"
    BY TenantsAssumption DEF Init
  <2>2. QED
    BY <2>1 DEF Rotation, OnTheirPath, TokensTold, SpentIsRevoked, WasUnspent, RenewedOnce, SpentBy, Succeeded,
       Ended, UnderWay
<1>2. Timely /\ Rotation /\ [Next]_vars => Rotation'
  <2> SUFFICES ASSUME Timely, Rotation, [Next]_vars PROVE Rotation'
    OBVIOUS
  <2>1. ASSUME NEW r \in Requests, Step(r), call[r].op \in Rotations PROVE Rotation'
    <3>1. CheckToken(r) \/ Revoke(r) \/ IssueToken(r)
      BY <2>1, RotationSteps DEF Rotation
    <3>2. QED
      BY <2>1, <3>1, CheckTokenKeepsRotation, RevokeKeepsRotation, IssueTokenKeepsRotation
  <2>2. ASSUME NEW r \in Requests, Step(r), call[r].op \notin Rotations PROVE Rotation'
    <3>1. ~Revoke(r) /\ ~CheckToken(r)
      BY <2>2 DEF Revoke, CheckToken, Rotation, OnTheirPath
    <3>2. at'[r] \notin {"check_token", "revoke"}
      BY <2>2, <3>1, NoOtherWayIn DEF Timely
    <3>3. QED
      BY <2>2, <3>1, <3>2, StepMoves, OthersLeaveAccounts, BystandersKeepRotation, IssueTokenKeepsRotation
         DEF Timely
  <2>3. ASSUME NEW r \in Requests, Fails(r) PROVE Rotation'
    <3>1. Moves(r)
      BY <2>3, StepMoves DEF Timely
    <3>2. UNCHANGED tokens /\ at'[r] = "done" /\ answer'[r] = 500
      BY <2>3 DEF Fails, accounts, Timely, Shape
    <3>3. QED
      BY <3>1, <3>2, BystandersKeepRotation
  <2>4. CASE UNCHANGED vars
    BY <2>4 DEF vars, Rotation, OnTheirPath, TokensTold, SpentIsRevoked, WasUnspent, RenewedOnce, SpentBy, Succeeded,
       Ended, UnderWay, Revoked
  <2>5. QED
    BY <2>1, <2>2, <2>3, <2>4, ReceiveKeepsRotation DEF Next
<1>3. QED
  BY <1>1, <1>2, TimelyInitially, TimelyIsKept, PTL DEF Spec, Rotation
-----------------------------------------------------------------------------
(* Each call takes its own path, and each store is written by few statements. *)

Path ==
  [signup |-> {"insert_tenant", "created_edge", "read_metadata", "write_metadata", "find_email", "insert_user",
               "issue_token"},
   join |-> {"read_invite", "find_email", "insert_user", "issue_token"},
   login |-> {"find_user", "issue_token"},
   refresh |-> {"check_token", "revoke", "issue_token"}, logout |-> {"revoke"},
   status |-> {"set_status"}, delete |-> {"get_tenant", "set_status", "drop_schema"},
   upgrade |-> {"get_tenant", "create_schema", "record_schema"},
   ingest |-> {"check_directory", "check_active", "open_valid", "write_valid", "record_run", "ingest_edges"},
   rebuild |-> {"drop_table", "load_files", "delete_facts", "insert_facts"}]

\* A request under way is at a statement of its call; what it has read is its own.
OnPath ==
  /\ \A r \in Requests : at[r] # "idle" => call[r] \in Calls
  /\ \A r \in Requests : UnderWay(r) => at[r] \in Path[call[r].op]
  /\ saw = [r \in Requests |-> saw[r]]

Ordered == Timely /\ OnPath

\* Where a request stands tells the statement it executes.
LEMMA StepAt ==
  ASSUME NEW r \in Requests, Step(r)
  PROVE  /\ at[r] = "insert_tenant" => InsertTenant(r)
         /\ at[r] = "created_edge" => CreatedEdge(r)
         /\ at[r] = "read_metadata" => ReadMetadata(r)
         /\ at[r] = "write_metadata" => WriteMetadata(r)
         /\ at[r] = "read_invite" => ReadInvite(r)
         /\ at[r] = "find_email" => FindEmail(r)
         /\ at[r] = "insert_user" => InsertUser(r)
         /\ at[r] = "issue_token" => IssueToken(r)
         /\ at[r] = "find_user" => FindUser(r)
         /\ at[r] = "check_token" => CheckToken(r)
         /\ at[r] = "revoke" => Revoke(r)
         /\ at[r] = "get_tenant" => GetTenant(r)
         /\ at[r] = "set_status" => SetStatus(r)
         /\ at[r] = "drop_schema" => DropSchema(r)
         /\ at[r] = "create_schema" => CreateSchema(r)
         /\ at[r] = "record_schema" => RecordSchema(r)
         /\ at[r] = "check_directory" => CheckDirectory(r)
         /\ at[r] = "check_active" => CheckActive(r)
         /\ at[r] = "open_valid" => OpenValid(r)
         /\ at[r] = "write_valid" => WriteValid(r)
         /\ at[r] = "record_run" => RecordRun(r)
         /\ at[r] = "ingest_edges" => IngestEdges(r)
         /\ at[r] = "drop_table" => DropTable(r)
         /\ at[r] = "load_files" => LoadFiles(r)
         /\ at[r] = "delete_facts" => DeleteFacts(r)
         /\ at[r] = "insert_facts" => InsertFacts(r)
<1>1. /\ InsertTenant(r) => at[r] = "insert_tenant"
      /\ CreatedEdge(r) => at[r] = "created_edge"
      /\ ReadMetadata(r) => at[r] = "read_metadata"
      /\ WriteMetadata(r) => at[r] = "write_metadata"
      /\ ReadInvite(r) => at[r] = "read_invite"
  BY DEF InsertTenant, CreatedEdge, ReadMetadata, WriteMetadata, ReadInvite
<1>2. /\ FindEmail(r) => at[r] = "find_email"
      /\ InsertUser(r) => at[r] = "insert_user"
      /\ IssueToken(r) => at[r] = "issue_token"
      /\ FindUser(r) => at[r] = "find_user"
      /\ CheckToken(r) => at[r] = "check_token"
      /\ Revoke(r) => at[r] = "revoke"
  BY DEF FindEmail, InsertUser, IssueToken, FindUser, CheckToken, Revoke
<1>3. /\ GetTenant(r) => at[r] = "get_tenant"
      /\ SetStatus(r) => at[r] = "set_status"
      /\ DropSchema(r) => at[r] = "drop_schema"
      /\ CreateSchema(r) => at[r] = "create_schema"
      /\ RecordSchema(r) => at[r] = "record_schema"
  BY DEF GetTenant, SetStatus, DropSchema, CreateSchema, RecordSchema
<1>4. /\ CheckDirectory(r) => at[r] = "check_directory"
      /\ CheckActive(r) => at[r] = "check_active"
      /\ OpenValid(r) => at[r] = "open_valid"
      /\ WriteValid(r) => at[r] = "write_valid"
      /\ RecordRun(r) => at[r] = "record_run"
      /\ IngestEdges(r) => at[r] = "ingest_edges"
  BY DEF CheckDirectory, CheckActive, OpenValid, WriteValid, RecordRun, IngestEdges
<1>5. /\ DropTable(r) => at[r] = "drop_table"
      /\ LoadFiles(r) => at[r] = "load_files"
      /\ DeleteFacts(r) => at[r] = "delete_facts"
      /\ InsertFacts(r) => at[r] = "insert_facts"
  BY DEF DropTable, LoadFiles, DeleteFacts, InsertFacts
<1>6. QED
  BY <1>1, <1>2, <1>3, <1>4, <1>5 DEF Step

\* The statements that write the tenants, their schemas and the warehouse.
LEMMA OthersLeaveTheRest ==
  ASSUME NEW r \in Requests, Step(r) \/ Fails(r)
  PROVE  /\ UNCHANGED tenants \/ InsertTenant(r) \/ WriteMetadata(r) \/ SetStatus(r) \/ RecordSchema(r)
         /\ UNCHANGED schemas \/ DropSchema(r) \/ CreateSchema(r)
         /\ UNCHANGED files \/ OpenValid(r) \/ WriteValid(r)
         /\ UNCHANGED runs \/ RecordRun(r)
         /\ UNCHANGED edges \/ CreatedEdge(r) \/ IngestEdges(r)
         /\ UNCHANGED raw \/ DropTable(r) \/ LoadFiles(r)
         /\ UNCHANGED facts \/ DeleteFacts(r) \/ InsertFacts(r)
<1> USE DEF tenancy, data
<1>1. CASE InsertTenant(r) \/ CreatedEdge(r) \/ ReadMetadata(r) \/ WriteMetadata(r) \/ ReadInvite(r)
  BY <1>1 DEF InsertTenant, CreatedEdge, ReadMetadata, WriteMetadata, ReadInvite
<1>2. CASE FindEmail(r) \/ InsertUser(r) \/ IssueToken(r) \/ FindUser(r) \/ CheckToken(r) \/ Revoke(r)
  BY <1>2 DEF FindEmail, InsertUser, IssueToken, FindUser, CheckToken, Revoke
<1>3. CASE GetTenant(r) \/ SetStatus(r) \/ DropSchema(r) \/ CreateSchema(r) \/ RecordSchema(r)
  BY <1>3 DEF GetTenant, SetStatus, DropSchema, CreateSchema, RecordSchema
<1>4. CASE CheckDirectory(r) \/ CheckActive(r) \/ OpenValid(r) \/ WriteValid(r) \/ RecordRun(r) \/ IngestEdges(r)
  BY <1>4 DEF CheckDirectory, CheckActive, OpenValid, WriteValid, RecordRun, IngestEdges
<1>5. CASE DropTable(r) \/ LoadFiles(r) \/ DeleteFacts(r) \/ InsertFacts(r)
  BY <1>5 DEF DropTable, LoadFiles, DeleteFacts, InsertFacts
<1>6. CASE Fails(r)
  BY <1>6 DEF Fails
<1>7. QED
  BY <1>1, <1>2, <1>3, <1>4, <1>5, <1>6 DEF Step

\* Nobody reads for another.
LEMMA OthersReadNothing ==
  ASSUME OnPath, NEW r \in Requests, Step(r) \/ Fails(r)
  PROVE  saw' = [saw EXCEPT ![r] = saw'[r]]
<1>a. saw = [q \in Requests |-> saw[q]]
  BY DEF OnPath
<1>b. UNCHANGED saw \/ \E seen : saw' = [saw EXCEPT ![r] = seen]
  <2> USE DEF Keep, Note
  <2>1. CASE InsertTenant(r) \/ CreatedEdge(r) \/ ReadMetadata(r) \/ WriteMetadata(r) \/ ReadInvite(r)
    BY <2>1 DEF InsertTenant, CreatedEdge, ReadMetadata, WriteMetadata, ReadInvite
  <2>2. CASE FindEmail(r) \/ InsertUser(r) \/ IssueToken(r) \/ FindUser(r) \/ CheckToken(r) \/ Revoke(r)
    BY <2>2 DEF FindEmail, InsertUser, IssueToken, FindUser, CheckToken, Revoke
  <2>3. CASE GetTenant(r) \/ SetStatus(r) \/ DropSchema(r) \/ CreateSchema(r) \/ RecordSchema(r)
    BY <2>3 DEF GetTenant, SetStatus, DropSchema, CreateSchema, RecordSchema
  <2>4. CASE CheckDirectory(r) \/ CheckActive(r) \/ OpenValid(r) \/ WriteValid(r) \/ RecordRun(r) \/ IngestEdges(r)
    BY <2>4 DEF CheckDirectory, CheckActive, OpenValid, WriteValid, RecordRun, IngestEdges
  <2>5. CASE DropTable(r) \/ LoadFiles(r) \/ DeleteFacts(r) \/ InsertFacts(r)
    BY <2>5 DEF DropTable, LoadFiles, DeleteFacts, InsertFacts
  <2>6. CASE Fails(r)
    BY <2>6 DEF Fails
  <2>7. QED
    BY <2>1, <2>2, <2>3, <2>4, <2>5, <2>6 DEF Step
<1>c. QED
  BY <1>a, <1>b

\* A call leads from each of its statements to another of its own, or ends.
LEMMA PathIsKept ==
  ASSUME Ordered, NEW r \in Requests, Step(r)
  PROVE  at'[r] \in Path[call[r].op] \cup {"done"}
<1> USE DEF Timely, Shape, Goto, Answer, Path
<1>a. at[r] \in Path[call[r].op] /\ call[r].op \in ApiOps \cup OperatorOps
  <2>1. Moves(r)
    BY StepMoves DEF Ordered
  <2>2. QED
    BY <2>1, TenantsAssumption DEF Moves, UnderWay, Ordered, OnPath
<1>1. CASE InsertTenant(r) \/ CreatedEdge(r) \/ ReadMetadata(r) \/ WriteMetadata(r) \/ ReadInvite(r)
  BY <1>1, <1>a DEF Ordered, ApiOps, OperatorOps, InsertTenant, CreatedEdge, ReadMetadata, WriteMetadata, ReadInvite
<1>2. CASE FindEmail(r) \/ InsertUser(r) \/ IssueToken(r) \/ FindUser(r) \/ CheckToken(r) \/ Revoke(r)
  BY <1>2, <1>a DEF Ordered, ApiOps, OperatorOps, FindEmail, InsertUser, IssueToken, FindUser, CheckToken, Revoke
<1>b. MustDrop(r) => call[r].op = "delete"
  BY DEF MustDrop
<1>3. CASE GetTenant(r) \/ SetStatus(r) \/ DropSchema(r) \/ CreateSchema(r) \/ RecordSchema(r)
  <2>a. at = [q \in Requests |-> at[q]]
    BY DEF Ordered
  <2>1. CASE GetTenant(r)
    <3>1. \/ Answer(r, 404)
          \/ call[r].op = "delete" /\ Goto(r, "set_status")
          \/ call[r].op # "delete" /\ Goto(r, "create_schema")
      BY <2>1 DEF GetTenant
    <3>2. at[r] = "get_tenant"
      BY <2>1 DEF GetTenant
    <3>3. QED
      BY <1>a, <2>a, <3>1, <3>2 DEF ApiOps, OperatorOps
  <2>2. CASE SetStatus(r)
    <3>1. Answer(r, 200) \/ (call[r].op = "delete" /\ Goto(r, "drop_schema"))
      BY <1>b, <2>2 DEF SetStatus
    <3>2. QED
      BY <2>a, <3>1
  <2>3. CASE DropSchema(r) \/ RecordSchema(r)
    BY <2>a, <2>3 DEF DropSchema, RecordSchema
  <2>4. CASE CreateSchema(r)
    <3>1. at[r] = "create_schema" /\ Goto(r, "record_schema")
      BY <2>4 DEF CreateSchema
    <3>2. QED
      BY <1>a, <2>a, <3>1 DEF ApiOps, OperatorOps
  <2>5. QED
    BY <1>3, <2>1, <2>2, <2>3, <2>4
<1>4. CASE CheckDirectory(r) \/ CheckActive(r) \/ OpenValid(r) \/ WriteValid(r) \/ RecordRun(r) \/ IngestEdges(r)
  <2>1. at[r] \in {"check_directory", "check_active", "open_valid", "write_valid", "record_run", "ingest_edges"}
    BY <1>4 DEF CheckDirectory, CheckActive, OpenValid, WriteValid, RecordRun, IngestEdges
  <2>2. call[r].op = "ingest"
    BY <1>a, <2>1 DEF ApiOps, OperatorOps
  <2>a. at = [q \in Requests |-> at[q]]
    BY DEF Ordered
  <2>3. CASE CheckDirectory(r)
    <3>1. Answer(r, 500) \/ Answer(r, 200) \/ Goto(r, "check_active")
      BY <2>3 DEF CheckDirectory
    <3>2. QED
      BY <2>a, <2>2, <3>1
  <2>4. CASE CheckActive(r)
    BY <2>a, <2>2, <2>4 DEF CheckActive
  <2>5. CASE OpenValid(r) \/ WriteValid(r) \/ RecordRun(r)
    BY <2>a, <2>2, <2>5 DEF OpenValid, WriteValid, RecordRun
  <2>6. CASE IngestEdges(r)
    BY <2>a, <2>2, <2>6 DEF IngestEdges
  <2>7. QED
    BY <1>4, <2>3, <2>4, <2>5, <2>6
<1>5. CASE DropTable(r) \/ LoadFiles(r) \/ DeleteFacts(r) \/ InsertFacts(r)
  BY <1>5, <1>a DEF Ordered, ApiOps, OperatorOps, DropTable, LoadFiles, DeleteFacts, InsertFacts
<1>6. QED
  BY <1>1, <1>2, <1>3, <1>4, <1>5 DEF Step

\* What has come in, where it is and what ended before stay in order.
LEMMA OrderedInitially == Init => Ordered
BY TimelyInitially DEF Init, Ordered, OnPath, UnderWay

\* And every step keeps them so.
LEMMA OrderedIsKept == Ordered /\ [Next]_vars => Ordered'
<1> SUFFICES ASSUME Ordered, [Next]_vars PROVE Ordered'
  OBVIOUS
<1>0. Timely'
  BY TimelyIsKept DEF Ordered
<1> USE DEF Ordered, Timely, Shape, OnPath, UnderWay
<1>1. ASSUME NEW r \in Requests, Receive(r) PROVE OnPath'
  <2>1. PICK c \in Calls : call' = [call EXCEPT ![r] = c] /\ at' = [at EXCEPT ![r] = Opening[c.op]]
    BY <1>1 DEF Receive
  <2>2. Opening[c.op] \in Path[c.op]
    BY TenantsAssumption DEF Opening, Path, ApiOps, OperatorOps
  <2>3. UNCHANGED saw
    BY <1>1 DEF Receive
  <2>4. QED
    BY <2>1, <2>2, <2>3
<1>2. ASSUME NEW r \in Requests, Step(r) \/ Fails(r) PROVE OnPath'
  <2>1. Moves(r) /\ saw' = [saw EXCEPT ![r] = saw'[r]]
    BY <1>2, StepMoves, OthersReadNothing
  <2>2. at'[r] \in Path[call[r].op] \cup {"done"}
    BY <1>2, PathIsKept DEF Fails
  <2>3. QED
    BY <2>1, <2>2 DEF Moves
<1>3. CASE UNCHANGED vars
  <2>1. UNCHANGED <<at, call, saw>>
    BY <1>3 DEF vars
  <2>2. QED
    BY <1>0, <2>1
<1>4. QED
  BY <1>0, <1>1, <1>2, <1>3 DEF Next

\* Where each statement leads.
LEMMA StepLeads ==
  ASSUME Ordered, NEW r \in Requests
  PROVE  /\ InsertTenant(r) => at'[r] = "created_edge"
         /\ CreatedEdge(r) => at'[r] = "read_metadata"
         /\ ReadMetadata(r) => at'[r] = "write_metadata"
         /\ WriteMetadata(r) => at'[r] = "find_email"
         /\ ReadInvite(r) => at'[r] \in {"find_email", "done"}
         /\ FindEmail(r) => at'[r] \in {"insert_user", "done"}
         /\ InsertUser(r) => at'[r] = "issue_token"
         /\ IssueToken(r) => at'[r] = "done"
         /\ FindUser(r) => at'[r] \in {"issue_token", "done"}
         /\ CheckToken(r) => at'[r] \in {"revoke", "done"}
         /\ Revoke(r) => at'[r] \in {"issue_token", "done"}
         /\ GetTenant(r) => at'[r] \in {"set_status", "create_schema", "done"}
         /\ SetStatus(r) => at'[r] \in {"drop_schema", "done"}
         /\ DropSchema(r) => at'[r] = "done"
         /\ CreateSchema(r) => at'[r] = "record_schema"
         /\ RecordSchema(r) => at'[r] = "done"
         /\ CheckDirectory(r) => at'[r] \in {"check_active", "done"}
         /\ CheckActive(r) => at'[r] \in {"open_valid", "done"}
         /\ OpenValid(r) => at'[r] = "write_valid"
         /\ WriteValid(r) => at'[r] = "record_run"
         /\ RecordRun(r) => at'[r] = "ingest_edges"
         /\ IngestEdges(r) => at'[r] \in {"check_active", "done"}
         /\ DropTable(r) => at'[r] = "load_files"
         /\ LoadFiles(r) => at'[r] \in {"delete_facts", "done"}
         /\ DeleteFacts(r) => at'[r] \in {"insert_facts", "done"}
         /\ InsertFacts(r) => at'[r] = "done"
<1>a. at = [q \in Requests |-> at[q]]
  BY DEF Ordered, Timely, Shape
<1> USE DEF Goto, Answer
<1>1. /\ InsertTenant(r) => at'[r] = "created_edge"
      /\ CreatedEdge(r) => at'[r] = "read_metadata"
      /\ ReadMetadata(r) => at'[r] = "write_metadata"
      /\ WriteMetadata(r) => at'[r] = "find_email"
      /\ ReadInvite(r) => at'[r] \in {"find_email", "done"}
  BY <1>a DEF InsertTenant, CreatedEdge, ReadMetadata, WriteMetadata, ReadInvite
<1>2. /\ FindEmail(r) => at'[r] \in {"insert_user", "done"}
      /\ InsertUser(r) => at'[r] = "issue_token"
      /\ IssueToken(r) => at'[r] = "done"
  BY <1>a DEF FindEmail, InsertUser, IssueToken
<1>3. /\ FindUser(r) => at'[r] \in {"issue_token", "done"}
      /\ CheckToken(r) => at'[r] \in {"revoke", "done"}
      /\ Revoke(r) => at'[r] \in {"issue_token", "done"}
  BY <1>a DEF FindUser, CheckToken, Revoke
<1>4. /\ GetTenant(r) => at'[r] \in {"set_status", "create_schema", "done"}
  BY <1>a DEF GetTenant
<1>5. /\ SetStatus(r) => at'[r] \in {"drop_schema", "done"}
  BY <1>a DEF SetStatus
<1>6. /\ DropSchema(r) => at'[r] = "done"
      /\ CreateSchema(r) => at'[r] = "record_schema"
      /\ RecordSchema(r) => at'[r] = "done"
  BY <1>a DEF DropSchema, CreateSchema, RecordSchema
<1>7. /\ CheckDirectory(r) => at'[r] \in {"check_active", "done"}
      /\ CheckActive(r) => at'[r] \in {"open_valid", "done"}
      /\ OpenValid(r) => at'[r] = "write_valid"
  BY <1>a DEF CheckDirectory, CheckActive, OpenValid
<1>8. /\ WriteValid(r) => at'[r] = "record_run"
      /\ RecordRun(r) => at'[r] = "ingest_edges"
      /\ IngestEdges(r) => at'[r] \in {"check_active", "done"}
  BY <1>a DEF WriteValid, RecordRun, IngestEdges
<1>9. /\ DropTable(r) => at'[r] = "load_files"
      /\ LoadFiles(r) => at'[r] \in {"delete_facts", "done"}
      /\ DeleteFacts(r) => at'[r] \in {"insert_facts", "done"}
      /\ InsertFacts(r) => at'[r] = "done"
  BY <1>a DEF DropTable, LoadFiles, DeleteFacts, InsertFacts
<1>10. QED
  BY <1>1, <1>2, <1>3, <1>4, <1>5, <1>6, <1>7, <1>8, <1>9

\* Which statements end a call well, and which refuses an account.
LEMMA StepAnswers ==
  ASSUME Ordered, NEW r \in Requests, Step(r) \/ Fails(r), at'[r] = "done"
  PROVE  /\ answer'[r] = 200 => \/ IssueToken(r) \/ Revoke(r) \/ SetStatus(r) \/ DropSchema(r) \/ RecordSchema(r)
                                \/ CheckDirectory(r) \/ IngestEdges(r) \/ InsertFacts(r)
         /\ answer'[r] = 400 => FindEmail(r)
<1>a. answer = [q \in Requests |-> answer[q]] /\ at = [q \in Requests |-> at[q]]
  BY DEF Ordered, Timely, Shape
<1> USE DEF Goto, Answer
<1>1. CASE InsertTenant(r) \/ CreatedEdge(r) \/ ReadMetadata(r) \/ WriteMetadata(r) \/ ReadInvite(r)
  BY <1>1, <1>a DEF InsertTenant, CreatedEdge, ReadMetadata, WriteMetadata, ReadInvite
<1>2. CASE InsertUser(r) \/ FindUser(r) \/ CheckToken(r)
  BY <1>2, <1>a DEF InsertUser, FindUser, CheckToken
<1>3. CASE FindEmail(r) \/ IssueToken(r) \/ Revoke(r)
  BY <1>3, <1>a DEF FindEmail, IssueToken, Revoke
<1>4. CASE GetTenant(r) \/ CreateSchema(r)
  BY <1>4, <1>a DEF GetTenant, CreateSchema
<1>5. CASE SetStatus(r)
  BY <1>5, <1>a DEF SetStatus
<1>6. CASE DropSchema(r) \/ RecordSchema(r)
  BY <1>6, <1>a DEF DropSchema, RecordSchema
<1>7. CASE CheckDirectory(r) \/ IngestEdges(r)
  BY <1>7, <1>a DEF CheckDirectory, IngestEdges
<1>8. CASE CheckActive(r) \/ OpenValid(r) \/ WriteValid(r) \/ RecordRun(r)
  BY <1>8, <1>a DEF CheckActive, OpenValid, WriteValid, RecordRun
<1>9. CASE DropTable(r) \/ LoadFiles(r) \/ DeleteFacts(r) \/ InsertFacts(r)
  BY <1>9, <1>a DEF DropTable, LoadFiles, DeleteFacts, InsertFacts
<1>10. CASE Fails(r)
  BY <1>10, <1>a DEF Fails
<1>11. QED
  BY <1>1, <1>2, <1>3, <1>4, <1>5, <1>6, <1>7, <1>8, <1>9, <1>10 DEF Step

\* No call begins twice.
LEMMA NeverReopened ==
  ASSUME Ordered, NEW r \in Requests, Step(r) \/ Fails(r)
  PROVE  at'[r] \notin {"idle", "insert_tenant", "check_directory", "get_tenant", "drop_table"}
<1>1. CASE Step(r)
  BY <1>1, StepLeads DEF Step
<1>2. CASE Fails(r)
  BY <1>2 DEF Fails, Ordered, Timely, Shape
<1>3. QED
  BY <1>1, <1>2

-----------------------------------------------------------------------------
(* Signups.                                                                 *)

\* The rows of the tenants and the tokens, and where the tenants come from.
RowsTold ==
  /\ \A t \in DOMAIN tenants : DOMAIN tenants[t] = {"status", "schema", "invite"}
  /\ \A k \in DOMAIN tokens : DOMAIN tokens[k] = {"user", "parent", "revoked"}
  /\ FirstTenant \in DOMAIN tenants
  /\ \A t \in DOMAIN tenants : t = FirstTenant \/ (t \in Requests /\ at[t] \notin {"idle", "insert_tenant"})

\* Rows are added and changed in place, but never removed, and a row that is not
\* the request's own keeps what makes a signup whole.
Grows(r) ==
  /\ DOMAIN tenants \subseteq DOMAIN tenants'
  /\ \A t \in DOMAIN tenants' : t \in DOMAIN tenants \/ (t = r /\ InsertTenant(r))
  /\ \A t \in DOMAIN tenants \ {r} : tenants'[t].invite = tenants[t].invite
  /\ edges \subseteq edges'
  /\ DOMAIN users \subseteq DOMAIN users' /\ \A u \in DOMAIN users' : u \in DOMAIN users \/ (u = r /\ InsertUser(r))
  /\ \A u \in DOMAIN users \ {r} : users'[u] = users[u]
  /\ DOMAIN tokens \subseteq DOMAIN tokens' /\ \A k \in DOMAIN tokens \ {r} : tokens'[k].user = tokens[k].user

\* The tenants' rows after a statement.
LEMMA TenantRows ==
  ASSUME RowsTold, NEW r \in Requests, Step(r) \/ Fails(r)
  PROVE  /\ DOMAIN tenants \subseteq DOMAIN tenants'
         /\ \A t \in DOMAIN tenants' : t \in DOMAIN tenants \/ (t = r /\ InsertTenant(r))
         /\ \A t \in DOMAIN tenants' : DOMAIN tenants'[t] = {"status", "schema", "invite"}
         /\ \A t \in DOMAIN tenants \ {r} : tenants'[t].invite = tenants[t].invite
<1>a. \A t \in DOMAIN tenants : DOMAIN tenants[t] = {"status", "schema", "invite"}
  BY DEF RowsTold
<1>1. CASE UNCHANGED tenants
  BY <1>a, <1>1
<1>2. CASE InsertTenant(r)
  BY <1>a, <1>2 DEF InsertTenant, Put
<1>3. CASE WriteMetadata(r)
  <2>1. tenants' = [tenants EXCEPT ![r].invite = r]
    BY <1>3 DEF WriteMetadata
  <2>2. QED
    BY <1>a, <2>1
<1>4. CASE SetStatus(r)
  <2>1. tenants' = [t \in DOMAIN tenants |->
                     IF t = call[r].tenant THEN [tenants[t] EXCEPT !.status = call[r].to] ELSE tenants[t]]
    BY <1>4 DEF SetStatus
  <2>2. QED
    BY <1>a, <2>1
<1>5. CASE RecordSchema(r)
  <2>1. tenants' = [tenants EXCEPT ![call[r].tenant].schema = TRUE]
    BY <1>5 DEF RecordSchema
  <2>2. QED
    BY <1>a, <2>1
<1>6. QED
  BY <1>1, <1>2, <1>3, <1>4, <1>5, OthersLeaveTheRest

\* Every statement only adds to the stores.
LEMMA StoresGrow ==
  ASSUME Ordered, RowsTold, NEW r \in Requests, Step(r) \/ Fails(r)
  PROVE  Grows(r) /\ RowsTold'
<1>1. edges \subseteq edges'
  BY OthersLeaveTheRest DEF CreatedEdge, IngestEdges
<1>2. /\ DOMAIN users \subseteq DOMAIN users'
      /\ \A u \in DOMAIN users' : u \in DOMAIN users \/ (u = r /\ InsertUser(r))
      /\ \A u \in DOMAIN users \ {r} : users'[u] = users[u]
  <2>1. CASE UNCHANGED users
    BY <2>1
  <2>2. CASE InsertUser(r)
    BY <2>2 DEF InsertUser, Put
  <2>3. QED
    BY <2>1, <2>2, OthersLeaveAccounts
<1>3. /\ DOMAIN tokens \subseteq DOMAIN tokens'
      /\ \A k \in DOMAIN tokens \ {r} : tokens'[k].user = tokens[k].user
      /\ \A k \in DOMAIN tokens' : DOMAIN tokens'[k] = {"user", "parent", "revoked"}
  <2>a. \A k \in DOMAIN tokens : DOMAIN tokens[k] = {"user", "parent", "revoked"}
    BY DEF RowsTold
  <2>1. CASE UNCHANGED tokens
    BY <2>a, <2>1
  <2>2. CASE IssueToken(r)
    BY <2>a, <2>2 DEF IssueToken, Put
  <2>3. CASE Revoke(r)
    <3>1. tokens' = [k \in DOMAIN tokens |->
                      IF k = call[r].token THEN [tokens[k] EXCEPT !.revoked = TRUE] ELSE tokens[k]]
      BY <2>3 DEF Revoke
    <3>2. QED
      BY <2>a, <3>1
  <2>4. QED
    BY <2>1, <2>2, <2>3, OthersLeaveAccounts
<1>4. \A t \in DOMAIN tenants' : t = FirstTenant \/ (t \in Requests /\ at'[t] \notin {"idle", "insert_tenant"})
  <2>1. Moves(r) /\ at'[r] \notin {"idle", "insert_tenant"}
    BY StepMoves, NeverReopened DEF Ordered, Timely
  <2>2. \A t \in DOMAIN tenants : t = FirstTenant \/ (t \in Requests /\ at'[t] \notin {"idle", "insert_tenant"})
    BY <2>1 DEF Moves, RowsTold, Ordered, Timely, Shape
  <2>3. QED
    BY <2>1, <2>2, TenantRows
<1>5. RowsTold'
  BY <1>3, <1>4, TenantRows DEF RowsTold
<1>6. QED
  BY <1>1, <1>2, <1>3, <1>5, TenantRows DEF Grows

HasTenant(r) == at[r] \in {"created_edge", "read_metadata", "write_metadata", "find_email", "insert_user", "issue_token"}
HasEdge(r) == at[r] \in {"read_metadata", "write_metadata", "find_email", "insert_user", "issue_token"}
HasInvite(r) == at[r] \in {"find_email", "insert_user", "issue_token"}

\* What a signup has done when it has come so far.
SignupTold(r) ==
  /\ HasTenant(r) => r \in DOMAIN tenants
  /\ HasEdge(r) => <<"created", r>> \in edges
  /\ HasInvite(r) => tenants[r].invite = r
  /\ at[r] = "issue_token" => saw[r].user = r /\ r \in DOMAIN users /\ users[r].tenant = r
  /\ Succeeded(r) => /\ r \in DOMAIN users /\ users[r].tenant = r
                     /\ r \in DOMAIN tenants /\ tenants[r].invite = r
                     /\ <<"created", r>> \in edges
                     /\ r \in DOMAIN tokens /\ tokens[r].user = r

\* An account is made by a request that goes on to its token, in a tenant there is.
AccountTold(r) ==
  /\ r \in DOMAIN users => at[r] \in {"issue_token", "done"} /\ (at[r] = "done" => answer[r] # 400)
  /\ call[r].op = "join" /\ at[r] \in {"find_email", "insert_user"} => call[r].tenant \in DOMAIN tenants

SignupInv ==
  /\ RowsTold
  /\ \A r \in Requests : (at[r] # "idle" /\ call[r].op = "signup" => SignupTold(r)) /\ AccountTold(r)
  /\ \A u \in DOMAIN users : users[u].tenant \in DOMAIN tenants

\* Other requests take nothing from a signup.
LEMMA OthersKeepSignups ==
  ASSUME Ordered, RowsTold, NEW s \in Requests, Step(s) \/ Fails(s), NEW r \in Requests, r # s
  PROVE  /\ SignupTold(r) => SignupTold(r)'
         /\ AccountTold(r) => AccountTold(r)'
<1>1. Moves(s) /\ saw' = [saw EXCEPT ![s] = saw'[s]] /\ Grows(s)
  BY StepMoves, OthersReadNothing, StoresGrow DEF Ordered, Timely
<1>2. at'[r] = at[r] /\ answer'[r] = answer[r] /\ call'[r] = call[r] /\ saw'[r] = saw[r]
  BY <1>1 DEF Moves, Ordered, Timely, Shape, OnPath
<1>3. SignupTold(r) => SignupTold(r)'
  BY <1>1, <1>2 DEF SignupTold, HasTenant, HasEdge, HasInvite, Succeeded, Ended, Grows
<1>4. AccountTold(r) => AccountTold(r)'
  BY <1>1, <1>2 DEF AccountTold, Grows
<1>5. QED
  BY <1>3, <1>4

\* Every statement of a signup takes it one step further.
LEMMA SignupGoesOn ==
  ASSUME Ordered, RowsTold, NEW r \in Requests, Step(r) \/ Fails(r), call[r].op = "signup", SignupTold(r)
  PROVE  SignupTold(r)'
<1>a. Moves(r) /\ Grows(r)
  BY StepMoves, StoresGrow DEF Ordered, Timely
<1>b. answer = [q \in Requests |-> answer[q]] /\ at = [q \in Requests |-> at[q]] /\ saw = [q \in Requests |-> saw[q]]
  BY DEF Ordered, Timely, Shape, OnPath
<1> USE DEF HasTenant, HasEdge, HasInvite
<1>1. CASE Fails(r)
  BY <1>1, <1>b DEF Fails, SignupTold, Succeeded, Ended
<1>2. CASE Step(r)
  <2>1. at[r] \in Path.signup
    BY <1>a DEF Moves, UnderWay, Ordered, OnPath, Path
  <2>2. CASE InsertTenant(r)
    <3>1. at'[r] = "created_edge" /\ r \in DOMAIN tenants'
      BY <2>2, StepLeads DEF InsertTenant, Put
    <3>2. QED
      BY <3>1 DEF SignupTold, Succeeded, Ended
  <2>3. CASE CreatedEdge(r)
    <3>1. at'[r] = "read_metadata" /\ at[r] = "created_edge" /\ <<"created", r>> \in edges'
      BY <2>3, StepLeads DEF CreatedEdge
    <3>2. QED
      BY <1>a, <3>1 DEF SignupTold, Succeeded, Ended, Grows
  <2>4. CASE ReadMetadata(r)
    <3>1. at'[r] = "write_metadata" /\ at[r] = "read_metadata"
      BY <2>4, StepLeads DEF ReadMetadata
    <3>2. QED
      BY <1>a, <3>1 DEF SignupTold, Succeeded, Ended, Grows
  <2>5. CASE WriteMetadata(r)
    <3>1. at'[r] = "find_email" /\ at[r] = "write_metadata" /\ tenants' = [tenants EXCEPT ![r].invite = r]
      BY <2>5, StepLeads DEF WriteMetadata
    <3>2. r \in DOMAIN tenants /\ <<"created", r>> \in edges
      BY <3>1 DEF SignupTold
    <3>3. DOMAIN tenants[r] = {"status", "schema", "invite"}
      BY <3>2 DEF RowsTold
    <3>4. tenants'[r].invite = r
      BY <3>1, <3>2, <3>3
    <3>5. QED
      BY <1>a, <3>1, <3>2, <3>4 DEF SignupTold, Succeeded, Ended, Grows
  <2>6. CASE FindEmail(r)
    <3>1. /\ at'[r] = "insert_user" \/ (at'[r] = "done" /\ answer'[r] = 400)
          /\ at[r] = "find_email" /\ UNCHANGED tenants
      BY <2>6, <1>b DEF FindEmail, Goto, Answer, tenancy
    <3>2. QED
      BY <1>a, <3>1 DEF SignupTold, Succeeded, Ended, Grows
  <2>7. CASE InsertUser(r)
    <3>1. at'[r] = "issue_token" /\ at[r] = "insert_user" /\ UNCHANGED tenants
      BY <2>7, StepLeads DEF InsertUser, tenancy
    <3>2. saw'[r].user = r
      BY <2>7, <1>b DEF InsertUser, Note
    <3>3. r \in DOMAIN users' /\ users'[r].tenant = r
      BY <2>7 DEF InsertUser, Put
    <3>4. QED
      BY <1>a, <3>1, <3>2, <3>3 DEF SignupTold, Succeeded, Ended, Grows
  <2>8. CASE IssueToken(r)
    <3>1. at'[r] = "done" /\ at[r] = "issue_token" /\ UNCHANGED <<tenants, users>>
      BY <2>8, StepLeads DEF IssueToken, tenancy
    <3>2. r \in DOMAIN tokens' /\ tokens'[r].user = saw[r].user
      BY <2>8 DEF IssueToken, Put
    <3>3. QED
      BY <1>a, <3>1, <3>2 DEF SignupTold, Succeeded, Ended, Grows
  <2>9. QED
    BY <1>2, <2>1, <2>2, <2>3, <2>4, <2>5, <2>6, <2>7, <2>8, StepAt DEF Path
<1>3. QED
  BY <1>1, <1>2

\* Whoever has an account did not refuse itself, and the tenant it names exists.
LEMMA AccountGoesOn ==
  ASSUME Ordered, RowsTold, NEW r \in Requests, Step(r) \/ Fails(r), AccountTold(r)
  PROVE  AccountTold(r)'
<1>a. Moves(r) /\ Grows(r)
  BY StepMoves, StoresGrow DEF Ordered, Timely
<1>b. answer = [q \in Requests |-> answer[q]] /\ at = [q \in Requests |-> at[q]]
  BY DEF Ordered, Timely, Shape
<1>1. ASSUME r \in DOMAIN users'
      PROVE  at'[r] \in {"issue_token", "done"} /\ (at'[r] = "done" => answer'[r] # 400)
  <2>1. CASE InsertUser(r)
    BY <2>1, StepLeads
  <2>2. CASE ~InsertUser(r)
    <3>1. r \in DOMAIN users /\ at[r] = "issue_token"
      BY <1>a, <1>1, <2>2 DEF Grows, AccountTold, Moves
    <3>2. CASE Fails(r)
      BY <1>b, <3>2 DEF Fails
    <3>3. CASE Step(r)
      <4>1. IssueToken(r)
        BY <3>1, <3>3, StepAt
      <4>2. at'[r] = "done" /\ answer'[r] = 200
        BY <1>b, <4>1 DEF IssueToken, Answer
      <4>3. QED
        BY <4>2
    <3>4. QED
      BY <3>2, <3>3
  <2>3. QED
    BY <2>1, <2>2
<1>2. ASSUME call[r].op = "join", at'[r] \in {"find_email", "insert_user"}
      PROVE  call[r].tenant \in DOMAIN tenants'
  <2>1. Step(r) /\ at[r] \in Path.join
    BY <1>a, <1>b, <1>2 DEF Fails, Moves, UnderWay, Ordered, OnPath, Path
  <2>2. CASE ReadInvite(r)
    <3>1. call[r].tenant \in DOMAIN tenants
      BY <1>2, <1>b, <2>2 DEF ReadInvite, Answer
    <3>2. QED
      BY <1>a, <3>1 DEF Grows
  <2>3. CASE FindEmail(r)
    <3>1. at[r] = "find_email"
      BY <2>3 DEF FindEmail
    <3>2. QED
      BY <1>2, <1>a, <3>1 DEF AccountTold, Grows
  <2>4. CASE InsertUser(r) \/ IssueToken(r)
    BY <1>2, <2>4, StepLeads
  <2>5. QED
    BY <2>1, <2>2, <2>3, <2>4, StepAt DEF Path
<1>3. QED
  BY <1>a, <1>1, <1>2 DEF AccountTold, Moves

\* A signup that answers 200 leaves everything it promises, whatever runs meanwhile
\* and whatever fails; one that refuses leaves no account.
THEOREM SignupsLeaveWholeTenants == Spec => []SignupsAreWhole
<1>1. Init => SignupInv
  <2> SUFFICES ASSUME Init PROVE SignupInv
    OBVIOUS
  <2>1. /\ \A r \in Requests : at[r] = "idle"
        /\ DOMAIN users = {FirstUser} /\ users[FirstUser].tenant = FirstTenant /\ FirstUser \notin Requests
    BY TenantsAssumption DEF Init
  <2>2. DOMAIN tokens = {FirstToken} /\ DOMAIN tokens[FirstToken] = {"user", "parent", "revoked"}
    BY DEF Init
  <2>3. DOMAIN tenants = {FirstTenant} /\ DOMAIN tenants[FirstTenant] = {"status", "schema", "invite"}
    BY DEF Init
  <2>4. RowsTold
    BY <2>2, <2>3 DEF RowsTold
  <2>5. QED
    BY <2>1, <2>3, <2>4 DEF SignupInv, AccountTold
<1>2. Ordered /\ SignupInv /\ [Next]_vars => SignupInv'
  <2> SUFFICES ASSUME Ordered, SignupInv, [Next]_vars PROVE SignupInv'
    OBVIOUS
  <2>a. /\ RowsTold
        /\ \A r \in Requests : (at[r] # "idle" /\ call[r].op = "signup" => SignupTold(r)) /\ AccountTold(r)
        /\ \A u \in DOMAIN users : users[u].tenant \in DOMAIN tenants
    BY DEF SignupInv
  <2>1. ASSUME NEW r \in Requests, Receive(r) PROVE SignupInv'
    <3>1. PICK c \in Calls : call' = [call EXCEPT ![r] = c] /\ at' = [at EXCEPT ![r] = Opening[c.op]]
      BY <2>1 DEF Receive
    <3>2. /\ Opening[c.op] \notin {"idle", "done", "issue_token", "find_email", "insert_user"}
          /\ c.op = "signup" => Opening[c.op] = "insert_tenant"
      BY TenantsAssumption DEF Opening, ApiOps, OperatorOps
    <3>3. at[r] = "idle" /\ UNCHANGED <<tenants, users, tokens, edges, saw, answer>>
      BY <2>1 DEF Receive, tenancy, accounts
    <3>4. /\ at'[r] = Opening[c.op] /\ call'[r] = c
          /\ \A s \in Requests : s # r => at'[s] = at[s] /\ call'[s] = call[s]
      BY <3>1 DEF Ordered, Timely, Shape
    <3>5. r \notin DOMAIN users /\ (r = FirstTenant \/ r \notin DOMAIN tenants)
      BY <2>a, <3>3 DEF AccountTold, RowsTold
    <3>6. RowsTold'
      BY <2>a, <3>2, <3>3, <3>4, <3>5, TenantsAssumption DEF RowsTold
    <3>7. c.op = "signup" => SignupTold(r)'
      BY <3>2, <3>4 DEF SignupTold, HasTenant, HasEdge, HasInvite, Succeeded, Ended
    <3>8. AccountTold(r)'
      BY <3>2, <3>3, <3>4, <3>5 DEF AccountTold
    <3>9. ASSUME NEW s \in Requests, s # r
          PROVE  (SignupTold(s) => SignupTold(s)') /\ (AccountTold(s) => AccountTold(s)')
      BY <3>3, <3>4, <3>9 DEF SignupTold, AccountTold, HasTenant, HasEdge, HasInvite, Succeeded, Ended
    <3>10. QED
      BY <2>a, <3>3, <3>4, <3>6, <3>7, <3>8, <3>9 DEF SignupInv
  <2>2. ASSUME NEW r \in Requests, Step(r) \/ Fails(r) PROVE SignupInv'
    <3>1. Moves(r) /\ Grows(r) /\ RowsTold'
      BY <2>a, <2>2, StepMoves, StoresGrow DEF Ordered, Timely
    <3>2. ASSUME NEW s \in Requests
          PROVE  (at'[s] # "idle" /\ call'[s].op = "signup" => SignupTold(s)') /\ AccountTold(s)'
      <4>1. CASE s = r
        BY <2>a, <2>2, <3>1, <4>1, SignupGoesOn, AccountGoesOn DEF Moves
      <4>2. CASE s # r
        <5>1. at'[s] = at[s] /\ call' = call
          BY <3>1, <4>2 DEF Moves, Ordered, Timely, Shape
        <5>2. QED
          BY <2>a, <2>2, <4>2, <5>1, OthersKeepSignups
      <4>3. QED
        BY <4>1, <4>2
    <3>3. ASSUME NEW u \in DOMAIN users' PROVE users'[u].tenant \in DOMAIN tenants'
      <4>1. CASE u \in DOMAIN users /\ ~(u = r /\ InsertUser(r))
        <5>1. users'[u] = users[u]
          <6>1. CASE u # r
            BY <3>1, <4>1, <6>1 DEF Grows
          <6>2. CASE u = r
            BY <2>2, <4>1, <6>2, OthersLeaveAccounts
          <6>3. QED
            BY <6>1, <6>2
        <5>2. QED
          BY <2>a, <3>1, <4>1, <5>1 DEF Grows
      <4>2. CASE u = r /\ InsertUser(r)
        <5>1. users'[r].tenant = (IF call[r].op = "signup" THEN r ELSE call[r].tenant) /\ at[r] = "insert_user"
          BY <4>2 DEF InsertUser, Put
        <5>2. call[r].op \in {"signup", "join"}
          BY <5>1, TenantsAssumption DEF Ordered, OnPath, UnderWay, Path, ApiOps, OperatorOps
        <5>3. call[r].op = "signup" => r \in DOMAIN tenants
          BY <2>a, <5>1 DEF SignupTold, HasTenant
        <5>4. call[r].op = "join" => call[r].tenant \in DOMAIN tenants
          BY <2>a, <5>1 DEF AccountTold
        <5>5. QED
          BY <3>1, <4>2, <5>1, <5>2, <5>3, <5>4 DEF Grows
      <4>3. QED
        BY <3>1, <4>1, <4>2 DEF Grows
    <3>4. QED
      BY <3>1, <3>2, <3>3 DEF SignupInv
  <2>3. CASE UNCHANGED vars
    <3>1. UNCHANGED <<tenants, users, tokens, edges, saw, answer, at, call>>
      BY <2>3 DEF vars
    <3>2. RowsTold'
      BY <2>a, <3>1 DEF RowsTold
    <3>3. \A r \in Requests : (SignupTold(r)' <=> SignupTold(r)) /\ (AccountTold(r)' <=> AccountTold(r))
      BY <3>1 DEF SignupTold, AccountTold, HasTenant, HasEdge, HasInvite, Succeeded, Ended
    <3>4. QED
      BY <2>a, <3>1, <3>2, <3>3 DEF SignupInv
  <2>4. QED
    BY <2>1, <2>2, <2>3 DEF Next
<1>3. SignupInv => SignupsAreWhole
  <2> SUFFICES ASSUME SignupInv PROVE SignupsAreWhole
    OBVIOUS
  <2>1. ASSUME NEW r \in Ops("signup")
        PROVE  /\ Succeeded(r) => /\ r \in DOMAIN users /\ users[r].tenant = r
                                  /\ r \in DOMAIN tenants /\ tenants[r].invite = r
                                  /\ <<"created", r>> \in edges
                                  /\ r \in DOMAIN tokens /\ tokens[r].user = r
               /\ Ended(r) /\ answer[r] = 400 => r \notin DOMAIN users
    <3>1. r \in Requests /\ SignupTold(r) /\ AccountTold(r)
      BY DEF Ops, SignupInv
    <3>2. QED
      BY <3>1 DEF SignupTold, AccountTold, Ended
  <2>2. QED
    BY <2>1 DEF SignupsAreWhole, SignupInv
<1>4. QED
  BY <1>1, <1>2, <1>3, OrderedInitially, OrderedIsKept, PTL DEF Spec

-----------------------------------------------------------------------------
(* Schemas and hard deletion.                                               *)

Upgrades(s, t) == at[s] # "idle" /\ call[s].op = "upgrade" /\ call[s].tenant = t
DeletesHard(r) == at[r] # "idle" /\ call[r].op = "delete" /\ call[r].hard
Recorded(t) == t \in DOMAIN tenants /\ tenants[t].schema = TRUE

\* The schema is gone, or an upgrade came later or failed half way.
Excused(r) ==
  call[r].tenant \in schemas =>
    \E s \in Requests : Upgrades(s, call[r].tenant) /\ (s \notin before[r] \/ ~Succeeded(s))

\* A schema belongs to a tenant whose row names it, or was left by an upgrade that
\* did not come to the end.
SchemasTold ==
  \A t \in schemas :
    t \in DOMAIN tenants /\ (Recorded(t) \/ \E s \in Requests : Upgrades(s, t) /\ ~Succeeded(s))

\* What a deletion or an upgrade has seen still holds.
DeleteTold(r) ==
  /\ call[r].op \in {"delete", "upgrade"} /\ at[r] \in {"set_status", "drop_schema", "create_schema", "record_schema"}
       => call[r].tenant \in DOMAIN tenants
  /\ DeletesHard(r) /\ at[r] = "set_status" =>
       IF saw[r].tenant.schema THEN Recorded(call[r].tenant) ELSE Excused(r)
  /\ call[r].op = "delete" /\ at[r] = "drop_schema" => Recorded(call[r].tenant)
  /\ DeletesHard(r) /\ Succeeded(r) => Excused(r)

DeleteInv == RowsTold /\ SchemasTold /\ \A r \in Requests : at[r] # "idle" => DeleteTold(r)

\* A tenant's row never loses the name of its schema.
LEMMA RecordsStay ==
  ASSUME Ordered, RowsTold, NEW r \in Requests, Step(r) \/ Fails(r), NEW t, Recorded(t)
  PROVE  Recorded(t)'
<1>a. t \in DOMAIN tenants /\ tenants[t].schema = TRUE /\ DOMAIN tenants[t] = {"status", "schema", "invite"}
  BY DEF Recorded, RowsTold
<1>1. CASE UNCHANGED tenants
  BY <1>a, <1>1 DEF Recorded
<1>2. CASE InsertTenant(r)
  <2>1. t # r
    BY <1>a, <1>2, TenantsAssumption DEF RowsTold, InsertTenant
  <2>2. QED
    BY <1>a, <1>2, <2>1 DEF InsertTenant, Put, Recorded
<1>3. CASE WriteMetadata(r)
  <2>1. tenants' = [tenants EXCEPT ![r].invite = r]
    BY <1>3 DEF WriteMetadata
  <2>2. QED
    BY <1>a, <2>1 DEF Recorded
<1>4. CASE SetStatus(r)
  <2>1. tenants' = [u \in DOMAIN tenants |->
                     IF u = call[r].tenant THEN [tenants[u] EXCEPT !.status = call[r].to] ELSE tenants[u]]
    BY <1>4 DEF SetStatus
  <2>2. QED
    BY <1>a, <2>1 DEF Recorded
<1>5. CASE RecordSchema(r)
  <2>1. tenants' = [tenants EXCEPT ![call[r].tenant].schema = TRUE]
    BY <1>5 DEF RecordSchema
  <2>2. QED
    BY <1>a, <2>1 DEF Recorded
<1>6. QED
  BY <1>1, <1>2, <1>3, <1>4, <1>5, OthersLeaveTheRest

\* A new schema has its upgrade to answer for it.
LEMMA ExcusesStay ==
  ASSUME Ordered, NEW s \in Requests, Step(s) \/ Fails(s), NEW r \in Requests, Excused(r)
  PROVE  Excused(r)'
<1>a. Moves(s)
  BY StepMoves DEF Ordered, Timely
<1>b. UNCHANGED <<call, before>> /\ \A q \in Requests : q # s => at'[q] = at[q] /\ answer'[q] = answer[q]
  BY <1>a DEF Moves, Ordered, Timely, Shape
<1>c. at[s] \notin {"idle", "done"} /\ at'[s] # "idle" /\ \A q \in Requests : s \notin before[q]
  BY <1>a DEF Moves, Ordered, Timely, EndedBefore, Ended
<1>1. CASE call[r].tenant \in schemas
  <2>1. PICK q \in Requests : Upgrades(q, call[r].tenant) /\ (q \notin before[r] \/ ~Succeeded(q))
    BY <1>1 DEF Excused
  <2>2. Upgrades(q, call[r].tenant)' /\ (q \notin before'[r] \/ ~Succeeded(q)')
    BY <1>b, <1>c, <2>1 DEF Upgrades, Succeeded, Ended
  <2>3. QED
    BY <1>b, <2>2 DEF Excused
<1>2. CASE call[r].tenant \notin schemas
  <2>1. CASE CreateSchema(s)
    <3>1. schemas' = schemas \cup {call[s].tenant} /\ at[s] = "create_schema"
      BY <2>1 DEF CreateSchema
    <3>2. call[s].op = "upgrade"
      BY <3>1, TenantsAssumption DEF Ordered, OnPath, UnderWay, Path, ApiOps, OperatorOps
    <3>3. QED
      BY <1>2, <1>b, <1>c, <3>1, <3>2 DEF Excused, Upgrades
  <2>2. CASE DropSchema(s) \/ UNCHANGED schemas
    BY <1>2, <1>b, <2>2 DEF Excused, DropSchema
  <2>3. QED
    BY <2>1, <2>2, OthersLeaveTheRest
<1>3. QED
  BY <1>1, <1>2

\* Schemas are made and unmade as their tenants' rows say.
LEMMA SchemasGoOn ==
  ASSUME Ordered, DeleteInv, NEW r \in Requests, Step(r) \/ Fails(r)
  PROVE  SchemasTold'
<1>a. Moves(r)
  BY StepMoves DEF Ordered, Timely
<1>b. UNCHANGED call /\ \A q \in Requests : q # r => at'[q] = at[q] /\ answer'[q] = answer[q]
  BY <1>a DEF Moves, Ordered, Timely, Shape
<1>c. at[r] \notin {"idle", "done"} /\ at'[r] # "idle" /\ DOMAIN tenants \subseteq DOMAIN tenants'
  BY <1>a, TenantRows DEF Moves, DeleteInv
<1>d. RowsTold /\ SchemasTold /\ DeleteTold(r)
  BY <1>c DEF DeleteInv
<1>1. SUFFICES ASSUME NEW t \in schemas'
               PROVE  t \in DOMAIN tenants' /\ (Recorded(t)' \/ \E s \in Requests : Upgrades(s, t)' /\ ~Succeeded(s)')
  BY DEF SchemasTold
<1>2. CASE t \in schemas
  <2>1. t \in DOMAIN tenants /\ (Recorded(t) \/ \E s \in Requests : Upgrades(s, t) /\ ~Succeeded(s))
    BY <1>2, <1>d DEF SchemasTold
  <2>2. CASE Recorded(t)
    BY <1>c, <1>d, <2>1, <2>2, RecordsStay
  <2>3. ASSUME NEW s \in Requests, Upgrades(s, t), ~Succeeded(s)
        PROVE  Recorded(t)' \/ (Upgrades(s, t)' /\ ~Succeeded(s)')
    <3>1. Upgrades(s, t)'
      BY <1>b, <1>c, <2>3 DEF Upgrades
    <3>2. CASE Succeeded(s)'
      <4>1. s = r /\ at'[r] = "done" /\ answer'[r] = 200
        BY <1>b, <2>3, <3>2 DEF Succeeded, Ended
      <4>2. call[r].op = "upgrade" /\ call[r].tenant = t /\ at[r] \in Path.upgrade
        BY <1>c, <2>3, <4>1 DEF Upgrades, Ordered, OnPath, UnderWay, Path
      <4>3. RecordSchema(r)
        <5>1. \/ IssueToken(r) \/ Revoke(r) \/ SetStatus(r) \/ DropSchema(r) \/ RecordSchema(r)
              \/ CheckDirectory(r) \/ IngestEdges(r) \/ InsertFacts(r)
          BY <4>1, StepAnswers
        <5>2. QED
          BY <4>2, <5>1 DEF Path, IssueToken, Revoke, SetStatus, DropSchema, CheckDirectory, IngestEdges, InsertFacts
      <4>4. tenants' = [tenants EXCEPT ![t].schema = TRUE]
        BY <4>2, <4>3 DEF RecordSchema
      <4>5. DOMAIN tenants[t] = {"status", "schema", "invite"}
        BY <1>d, <2>1 DEF RowsTold
      <4>6. QED
        BY <2>1, <4>4, <4>5 DEF Recorded
    <3>3. QED
      BY <3>1, <3>2
  <2>4. QED
    BY <1>c, <2>1, <2>2, <2>3
<1>3. CASE t \notin schemas
  <2>1. CreateSchema(r) /\ t = call[r].tenant
    BY <1>1, <1>3, OthersLeaveTheRest DEF DropSchema, CreateSchema
  <2>2. at[r] = "create_schema" /\ at'[r] = "record_schema"
    BY <2>1, StepLeads DEF CreateSchema
  <2>3. call[r].op = "upgrade"
    BY <2>2, TenantsAssumption DEF Ordered, OnPath, UnderWay, Path, ApiOps, OperatorOps
  <2>4. t \in DOMAIN tenants
    BY <1>d, <2>1, <2>2, <2>3 DEF DeleteTold
  <2>5. QED
    BY <1>b, <1>c, <2>1, <2>2, <2>3, <2>4 DEF Upgrades, Succeeded, Ended
<1>4. QED
  BY <1>2, <1>3

\* A deletion acts on what it has seen, and what it has seen still holds.
LEMMA DeletionGoesOn ==
  ASSUME Ordered, DeleteInv, NEW r \in Requests, Step(r) \/ Fails(r)
  PROVE  DeleteTold(r)'
<1>a. Moves(r)
  BY StepMoves DEF Ordered, Timely
<1>b. UNCHANGED <<call, before>> /\ at[r] \notin {"idle", "done"} /\ at'[r] # "idle"
      /\ DOMAIN tenants \subseteq DOMAIN tenants'
  BY <1>a, TenantRows DEF Moves, DeleteInv
<1>c. RowsTold /\ SchemasTold /\ DeleteTold(r)
  BY <1>b DEF DeleteInv
<1>d. at[r] \in Path[call[r].op]
  BY <1>b DEF Ordered, OnPath, UnderWay
<1>e. Excused(r) => Excused(r)'
  BY ExcusesStay
<1>f. saw = [q \in Requests |-> saw[q]] /\ answer = [q \in Requests |-> answer[q]] /\ at = [q \in Requests |-> at[q]]
  BY DEF Ordered, Timely, Shape, OnPath
<1>1. CASE call[r].op \notin {"delete", "upgrade"}
  BY <1>1, <1>b DEF DeleteTold, DeletesHard
<1>2. CASE Fails(r)
  <2>1. at'[r] = "done" /\ answer'[r] = 500
    BY <1>2, <1>f DEF Fails
  <2>2. QED
    BY <2>1 DEF DeleteTold, Succeeded, Ended
<1>3. CASE Step(r) /\ call[r].op = "upgrade"
  <2>1. GetTenant(r) \/ CreateSchema(r) \/ RecordSchema(r)
    BY <1>3, <1>d, StepAt DEF Path
  <2>2. at'[r] # "done" => call[r].tenant \in DOMAIN tenants
    <3>1. CASE GetTenant(r)
      BY <3>1, <1>f DEF GetTenant, Answer
    <3>2. CASE CreateSchema(r)
      BY <3>2, <1>3, <1>c DEF CreateSchema, DeleteTold
    <3>3. CASE RecordSchema(r)
      BY <3>3, StepLeads
    <3>4. QED
      BY <2>1, <3>1, <3>2, <3>3
  <2>3. QED
    BY <1>3, <1>b, <2>2 DEF DeleteTold, DeletesHard
<1>4. CASE Step(r) /\ call[r].op = "delete"
  <2>1. GetTenant(r) \/ SetStatus(r) \/ DropSchema(r)
    BY <1>4, <1>d, StepAt DEF Path
  <2>2. CASE GetTenant(r)
    <3>1. at'[r] \in {"set_status", "create_schema", "done"} /\ UNCHANGED <<tenants, schemas>>
      BY <2>2, StepLeads DEF GetTenant, tenancy
    <3>2. CASE at'[r] = "done"
      <4>1. answer'[r] # 200
        BY <1>4, <2>2, <3>2, <1>f DEF GetTenant, Answer, Goto
      <4>2. QED
        BY <3>2, <4>1 DEF DeleteTold, Succeeded, Ended
    <3>3. CASE at'[r] # "done"
      <4>1. call[r].tenant \in DOMAIN tenants /\ saw'[r].tenant = tenants[call[r].tenant] /\ at'[r] = "set_status"
        BY <1>4, <2>2, <3>3, <1>f DEF GetTenant, Answer, Goto, Note
      <4>2. CASE tenants[call[r].tenant].schema
        BY <1>b, <3>1, <4>1, <4>2 DEF DeleteTold, Recorded, Succeeded, Ended
      <4>3. CASE ~tenants[call[r].tenant].schema
        <5>1. Excused(r)
          BY <1>c, <4>3 DEF SchemasTold, Recorded, Excused
        <5>2. QED
          BY <1>b, <1>e, <3>1, <4>1, <4>3, <5>1 DEF DeleteTold, Succeeded, Ended
      <4>4. QED
        BY <4>2, <4>3
    <3>4. QED
      BY <3>2, <3>3
  <2>3. CASE SetStatus(r)
    <3>1. at[r] = "set_status"
      BY <2>3 DEF SetStatus
    <3>2. call[r].tenant \in DOMAIN tenants
      BY <1>4, <1>c, <3>1 DEF DeleteTold
    <3>3. CASE MustDrop(r)
      <4>1. at'[r] = "drop_schema" /\ Recorded(call[r].tenant)
        BY <1>b, <1>c, <1>f, <2>3, <3>1, <3>3 DEF SetStatus, Goto, MustDrop, DeleteTold, DeletesHard
      <4>2. Recorded(call[r].tenant)'
        <5>1. PICK t : t = call[r].tenant
          OBVIOUS
        <5>2. Recorded(t)'
          BY <1>c, <4>1, <5>1, RecordsStay
        <5>3. QED
          BY <1>b, <5>1, <5>2
      <4>3. QED
        BY <1>b, <3>2, <4>1, <4>2 DEF DeleteTold, Succeeded, Ended
    <3>4. CASE ~MustDrop(r)
      <4>1. at'[r] = "done"
        BY <1>f, <2>3, <3>4 DEF SetStatus, Answer
      <4>2. DeletesHard(r) => Excused(r)
        BY <1>4, <1>c, <3>1, <3>4 DEF MustDrop, DeleteTold, DeletesHard
      <4>3. QED
        BY <1>b, <1>e, <4>1, <4>2 DEF DeleteTold, DeletesHard
    <3>5. QED
      BY <3>3, <3>4
  <2>4. CASE DropSchema(r)
    <3>1. at[r] = "drop_schema" /\ at'[r] = "done"
      BY <2>4, StepLeads DEF DropSchema
    <3>2. Recorded(call[r].tenant)
      BY <1>4, <1>c, <3>1 DEF DeleteTold
    <3>3. schemas' = schemas \ {call[r].tenant}
      BY <2>4, <3>2 DEF DropSchema, Recorded
    <3>4. Excused(r)'
      BY <1>b, <3>3 DEF Excused
    <3>5. QED
      BY <1>b, <3>1, <3>4 DEF DeleteTold
  <2>5. QED
    BY <2>1, <2>2, <2>3, <2>4
<1>5. QED
  BY <1>1, <1>2, <1>3, <1>4

\* Nobody else spoils what a deletion has seen.
LEMMA OthersKeepDeletion ==
  ASSUME Ordered, DeleteInv, NEW s \in Requests, Step(s) \/ Fails(s), NEW r \in Requests, r # s, DeleteTold(r)
  PROVE  DeleteTold(r)'
<1>a. Moves(s) /\ saw' = [saw EXCEPT ![s] = saw'[s]] /\ DOMAIN tenants \subseteq DOMAIN tenants'
  BY StepMoves, OthersReadNothing, TenantRows DEF Ordered, Timely, DeleteInv
<1>b. UNCHANGED call /\ at'[r] = at[r] /\ answer'[r] = answer[r] /\ saw'[r] = saw[r]
  BY <1>a DEF Moves, Ordered, Timely, Shape, OnPath
<1>c. Excused(r) => Excused(r)'
  BY ExcusesStay
<1>d. Recorded(call[r].tenant) => Recorded(call[r].tenant)'
  <2>1. PICK t : t = call[r].tenant
    OBVIOUS
  <2>2. Recorded(t) => Recorded(t)'
    BY RecordsStay DEF DeleteInv
  <2>3. QED
    BY <1>b, <2>1, <2>2
<1>1. QED
  BY <1>a, <1>b, <1>c, <1>d DEF DeleteTold, DeletesHard, Succeeded, Ended

\* Deletions, upgrades and the tenants' rows agree on the schemas at all times.
LEMMA SchemasAreTold == Spec => []DeleteInv
<1>1. Init => DeleteInv
  <2> SUFFICES ASSUME Init PROVE DeleteInv
    OBVIOUS
  <2>1. (\A r \in Requests : at[r] = "idle") /\ DOMAIN tokens = {FirstToken} /\ DOMAIN tokens[FirstToken] = {"user", "parent", "revoked"}
    BY DEF Init
  <2>2. PICK silo \in BOOLEAN :
          /\ tenants = [t \in {FirstTenant} |-> [status |-> "active", schema |-> silo, invite |-> FirstInvite]]
          /\ schemas = IF silo THEN {FirstTenant} ELSE {}
    BY DEF Init
  <2>3. RowsTold
    BY <2>1, <2>2 DEF RowsTold
  <2>4. SchemasTold
    BY <2>2 DEF SchemasTold, Recorded
  <2>5. QED
    BY <2>1, <2>3, <2>4 DEF DeleteInv
<1>2. Ordered /\ DeleteInv /\ [Next]_vars => DeleteInv'
  <2> SUFFICES ASSUME Ordered, DeleteInv, [Next]_vars PROVE DeleteInv'
    OBVIOUS
  <2>a. RowsTold /\ SchemasTold /\ \A r \in Requests : at[r] # "idle" => DeleteTold(r)
    BY DEF DeleteInv
  <2>1. ASSUME NEW r \in Requests, Receive(r) PROVE DeleteInv'
    <3>1. PICK c \in Calls : call' = [call EXCEPT ![r] = c] /\ at' = [at EXCEPT ![r] = Opening[c.op]]
      BY <2>1 DEF Receive
    <3>2. /\ Opening[c.op] \notin {"idle", "done", "drop_schema", "create_schema", "record_schema"}
          /\ c.op \in {"delete", "upgrade"} => Opening[c.op] = "get_tenant"
      BY TenantsAssumption DEF Opening, ApiOps, OperatorOps
    <3>3. at[r] = "idle" /\ UNCHANGED <<tenants, schemas, tokens, saw, answer>>
      BY <2>1 DEF Receive, tenancy, accounts
    <3>4. /\ at'[r] = Opening[c.op] /\ call'[r] = c
          /\ \A s \in Requests : s # r => at'[s] = at[s] /\ call'[s] = call[s] /\ before'[s] = before[s]
      BY <2>1, <3>1 DEF Ordered, Timely, Shape, Receive
    <3>5. r = FirstTenant \/ r \notin DOMAIN tenants
      BY <2>a, <3>3 DEF RowsTold
    <3>6. RowsTold'
      BY <2>a, <3>2, <3>3, <3>4, <3>5, TenantsAssumption DEF RowsTold
    <3>7. \A s \in Requests, t \in schemas : Upgrades(s, t) => Upgrades(s, t)' /\ (Succeeded(s)' <=> Succeeded(s))
      BY <3>3, <3>4 DEF Upgrades, Succeeded, Ended
    <3>8. SchemasTold'
      BY <2>a, <3>3, <3>7 DEF SchemasTold, Recorded
    <3>9. DeleteTold(r)'
      BY <3>2, <3>4 DEF DeleteTold, DeletesHard, Succeeded, Ended
    <3>10. ASSUME NEW s \in Requests, s # r, at[s] # "idle"
           PROVE  DeleteTold(s)'
      <4>1. DeleteTold(s) /\ (Excused(s) => Excused(s)')
        BY <2>a, <3>3, <3>4, <3>7, <3>10 DEF Excused
      <4>2. QED
        BY <3>3, <3>4, <3>10, <4>1 DEF DeleteTold, DeletesHard, Recorded, Succeeded, Ended
    <3>11. QED
      BY <3>4, <3>6, <3>8, <3>9, <3>10 DEF DeleteInv
  <2>2. ASSUME NEW r \in Requests, Step(r) \/ Fails(r) PROVE DeleteInv'
    <3>1. RowsTold' /\ SchemasTold' /\ Moves(r)
      BY <2>a, <2>2, StoresGrow, SchemasGoOn, StepMoves DEF Ordered, Timely
    <3>2. ASSUME NEW s \in Requests, at'[s] # "idle" PROVE DeleteTold(s)'
      <4>1. CASE s = r
        BY <2>2, <4>1, DeletionGoesOn
      <4>2. CASE s # r
        <5>1. at[s] # "idle"
          BY <3>1, <3>2, <4>2 DEF Moves, Ordered, Timely, Shape
        <5>2. QED
          BY <2>a, <2>2, <4>2, <5>1, OthersKeepDeletion
      <4>3. QED
        BY <4>1, <4>2
    <3>3. QED
      BY <3>1, <3>2 DEF DeleteInv
  <2>3. CASE UNCHANGED vars
    <3>1. UNCHANGED <<tenants, schemas, tokens, saw, answer, at, call, before>>
      BY <2>3 DEF vars
    <3>2. \A s \in Requests : \A t : (Upgrades(s, t)' <=> Upgrades(s, t)) /\ (Succeeded(s)' <=> Succeeded(s))
      BY <3>1 DEF Upgrades, Succeeded, Ended
    <3>3. RowsTold'
      BY <2>a, <3>1 DEF RowsTold
    <3>4. SchemasTold'
      BY <2>a, <3>1, <3>2 DEF SchemasTold, Recorded
    <3>5. \A r \in Requests : Excused(r)' <=> Excused(r)
      BY <3>1, <3>2 DEF Excused
    <3>6. \A r \in Requests : DeleteTold(r)' <=> DeleteTold(r)
      BY <3>1, <3>2, <3>5 DEF DeleteTold, DeletesHard, Recorded
    <3>7. QED
      BY <2>a, <3>1, <3>3, <3>4, <3>6 DEF DeleteInv
  <2>4. QED
    BY <2>1, <2>2, <2>3 DEF Next
<1>3. QED
  BY <1>1, <1>2, OrderedInitially, OrderedIsKept, PTL DEF Spec

\* A hard deletion that succeeds leaves no schema, but for an upgrade that came
\* later, overlapped with it or stopped before it recorded the name.
THEOREM HardDeletesTakeTheSchema == Spec => []HardDeleteLeavesNoSchema
<1>1. DeleteInv => HardDeleteLeavesNoSchema
  <2> SUFFICES ASSUME DeleteInv, NEW r \in Ops("delete"), Succeeded(r), call[r].hard, call[r].tenant \in schemas
               PROVE  \E s \in Ops("upgrade") : Concerns(s, call[r].tenant) /\ (s \notin before[r] \/ ~Succeeded(s))
    BY DEF HardDeleteLeavesNoSchema
  <2>1. r \in Requests /\ DeleteTold(r) /\ DeletesHard(r)
    BY DEF Ops, DeleteInv, DeletesHard
  <2>2. Excused(r)
    BY <2>1 DEF DeleteTold
  <2>3. PICK s \in Requests : Upgrades(s, call[r].tenant) /\ (s \notin before[r] \/ ~Succeeded(s))
    BY <2>2 DEF Excused
  <2>4. QED
    BY <2>3 DEF Upgrades, Ops, Concerns, OperatorOps
<1>2. QED
  BY <1>1, SchemasAreTold, PTL

-----------------------------------------------------------------------------
(* Types.                                                                   *)

\* A request that will answer with a token has the account it is for.
HasUser(r) == at[r] = "issue_token" \/ (at[r] = "revoke" /\ call[r].op = "refresh")

RowsTyped ==
  /\ \A t \in DOMAIN tenants : tenants[t].status \in Status /\ tenants[t].schema \in BOOLEAN
  /\ DOMAIN users \subseteq Ids
  /\ \A k \in DOMAIN tokens : tokens[k].user \in DOMAIN users /\ tokens[k].revoked \in BOOLEAN
  /\ \A r \in Requests : HasUser(r) => saw[r].user \in DOMAIN users
  /\ \A k \in DOMAIN files : files[k].by \in Requests
  /\ faults \in 0..MaxFaults

\* The statements that write a tenant's row write a status and a flag.
LEMMA TenantsStayTyped ==
  ASSUME Ordered, RowsTold, RowsTyped, NEW r \in Requests, Step(r) \/ Fails(r)
  PROVE  \A t \in DOMAIN tenants' : tenants'[t].status \in Status /\ tenants'[t].schema \in BOOLEAN
<1>a. \A t \in DOMAIN tenants : /\ tenants[t].status \in Status /\ tenants[t].schema \in BOOLEAN
                                /\ DOMAIN tenants[t] = {"status", "schema", "invite"}
  BY DEF RowsTyped, RowsTold
<1>1. CASE UNCHANGED tenants
  BY <1>a, <1>1
<1>2. CASE InsertTenant(r)
  BY <1>a, <1>2 DEF InsertTenant, Put, Status
<1>3. CASE WriteMetadata(r)
  <2>1. tenants' = [tenants EXCEPT ![r].invite = r]
    BY <1>3 DEF WriteMetadata
  <2>2. QED
    BY <1>a, <2>1
<1>4. CASE SetStatus(r)
  <2>1. tenants' = [t \in DOMAIN tenants |->
                     IF t = call[r].tenant THEN [tenants[t] EXCEPT !.status = call[r].to] ELSE tenants[t]]
    BY <1>4 DEF SetStatus
  <2>2. call[r].op \in {"status", "delete"}
    BY <1>4, TenantsAssumption DEF SetStatus, Ordered, OnPath, UnderWay, Path, ApiOps, OperatorOps
  <2>3. call[r].to \in Status
    BY <1>4, <2>2, TenantsAssumption DEF SetStatus, Ordered, OnPath, Status
  <2>4. QED
    BY <1>a, <2>1, <2>3
<1>5. CASE RecordSchema(r)
  <2>1. tenants' = [tenants EXCEPT ![call[r].tenant].schema = TRUE]
    BY <1>5 DEF RecordSchema
  <2>2. QED
    BY <1>a, <2>1
<1>6. QED
  BY <1>1, <1>2, <1>3, <1>4, <1>5, OthersLeaveTheRest

\* Tokens are issued for accounts, and accounts stay.
LEMMA TokensStayTyped ==
  ASSUME Ordered, RowsTold, RowsTyped, NEW r \in Requests, Step(r) \/ Fails(r)
  PROVE  /\ DOMAIN users' \subseteq Ids
         /\ \A k \in DOMAIN tokens' : tokens'[k].user \in DOMAIN users' /\ tokens'[k].revoked \in BOOLEAN
<1>a. Grows(r) /\ Moves(r)
  BY StoresGrow, StepMoves DEF Ordered, Timely
<1>b. DOMAIN users \subseteq DOMAIN users' /\ DOMAIN users' \subseteq Ids
  BY <1>a DEF Grows, RowsTyped, Ids
<1>c. \A k \in DOMAIN tokens : /\ tokens[k].user \in DOMAIN users /\ tokens[k].revoked \in BOOLEAN
                               /\ DOMAIN tokens[k] = {"user", "parent", "revoked"}
  BY DEF RowsTyped, RowsTold
<1>1. CASE UNCHANGED tokens
  BY <1>b, <1>c, <1>1
<1>2. CASE IssueToken(r)
  <2>1. saw[r].user \in DOMAIN users
    BY <1>2 DEF IssueToken, RowsTyped, HasUser
  <2>2. \A k \in DOMAIN tokens' : \/ k \in DOMAIN tokens /\ tokens'[k] = tokens[k]
                                  \/ tokens'[k].user = saw[r].user /\ tokens'[k].revoked = FALSE
    BY <1>2 DEF IssueToken, Put
  <2>3. QED
    BY <1>b, <1>c, <2>1, <2>2
<1>3. CASE Revoke(r)
  <2>1. tokens' = [k \in DOMAIN tokens |->
                    IF k = call[r].token THEN [tokens[k] EXCEPT !.revoked = TRUE] ELSE tokens[k]]
    BY <1>3 DEF Revoke
  <2>2. QED
    BY <1>b, <1>c, <2>1
<1>4. QED
  BY <1>b, <1>1, <1>2, <1>3, OthersLeaveAccounts

\* What a request has read of an account is still one.
LEMMA UsersStayKnown ==
  ASSUME Ordered, RowsTold, RowsTyped, NEW r \in Requests, Step(r) \/ Fails(r), NEW s \in Requests, HasUser(s)'
  PROVE  saw'[s].user \in DOMAIN users'
<1>a. Grows(r) /\ Moves(r) /\ saw' = [saw EXCEPT ![r] = saw'[r]]
  BY StoresGrow, StepMoves, OthersReadNothing DEF Ordered, Timely
<1>b. DOMAIN users \subseteq DOMAIN users' /\ call'[s] = call[s]
  BY <1>a DEF Grows, Moves
<1>c. saw = [q \in Requests |-> saw[q]] /\ at = [q \in Requests |-> at[q]]
  BY DEF Ordered, Timely, Shape, OnPath
<1>1. CASE s # r
  <2>1. at'[s] = at[s] /\ saw'[s] = saw[s]
    BY <1>a, <1>c, <1>1 DEF Moves
  <2>2. QED
    BY <1>b, <2>1 DEF HasUser, RowsTyped
<1>2. CASE s = r /\ HasUser(r) /\ saw'[r] = saw[r]
  BY <1>b, <1>2 DEF RowsTyped
<1>3. CASE s = r /\ InsertUser(r)
  BY <1>c, <1>3 DEF InsertUser, Put, Note
<1>4. CASE s = r /\ FindUser(r)
  <2>1. at'[r] = "issue_token"
    BY <1>4, StepLeads DEF HasUser
  <2>2. \E u \in DOMAIN users : Note(r, [user |-> u])
    BY <1>c, <1>4, <2>1 DEF FindUser, Answer
  <2>3. QED
    BY <1>b, <1>c, <1>4, <2>2 DEF Note
<1>5. CASE s = r /\ CheckToken(r)
  <2>1. at'[r] = "revoke"
    BY <1>5, StepLeads DEF HasUser
  <2>2. ValidToken(call[r].token) /\ Note(r, [user |-> tokens[call[r].token].user])
    BY <1>c, <1>5, <2>1 DEF CheckToken, Answer
  <2>3. saw'[r].user = tokens[call[r].token].user /\ call[r].token \in DOMAIN tokens
    BY <1>c, <2>2 DEF Note, ValidToken
  <2>4. QED
    BY <1>b, <1>5, <2>3 DEF RowsTyped
<1>6. CASE s = r /\ Revoke(r)
  <2>1. saw' = saw /\ at[r] = "revoke" /\ at'[r] \in {"issue_token", "done"}
    BY <1>6, StepLeads DEF Revoke, Keep
  <2>2. call[r].op = "refresh"
    BY <1>b, <1>c, <1>6, <2>1 DEF Revoke, Answer, HasUser
  <2>3. QED
    BY <1>b, <1>6, <2>1, <2>2 DEF HasUser, RowsTyped
<1>7. s = r => InsertUser(r) \/ FindUser(r) \/ CheckToken(r) \/ Revoke(r)
  <2> SUFFICES ASSUME s = r PROVE InsertUser(r) \/ FindUser(r) \/ CheckToken(r) \/ Revoke(r)
    OBVIOUS
  <2>1. at'[r] \in {"issue_token", "revoke"}
    BY DEF HasUser
  <2>2. ~Fails(r)
    BY <1>c, <2>1 DEF Fails
  <2>3. QED
    BY <2>1, <2>2, StepLeads DEF Step
<1>8. QED
  BY <1>1, <1>3, <1>4, <1>5, <1>6, <1>7

\* Whoever wrote a file is a request, and failures are counted.
LEMMA FilesStayTyped ==
  ASSUME Ordered, RowsTyped, NEW r \in Requests, Step(r) \/ Fails(r)
  PROVE  (\A k \in DOMAIN files' : files'[k].by \in Requests) /\ faults' \in 0..MaxFaults
<1>1. \A k \in DOMAIN files' : files'[k].by \in Requests
  <2>1. CASE UNCHANGED files
    BY <2>1 DEF RowsTyped
  <2>2. CASE OpenValid(r)
    BY <2>2 DEF OpenValid, Store, Put, RowsTyped
  <2>3. CASE WriteValid(r)
    BY <2>3 DEF WriteValid, Store, Put, RowsTyped
  <2>4. QED
    BY <2>1, <2>2, <2>3, OthersLeaveTheRest
<1>2. faults' \in {faults, faults + 1} /\ (faults' = faults \/ faults < MaxFaults)
  <2> USE DEF Goto, Answer
  <2>1. CASE InsertTenant(r) \/ CreatedEdge(r) \/ ReadMetadata(r) \/ WriteMetadata(r) \/ ReadInvite(r)
    BY <2>1 DEF InsertTenant, CreatedEdge, ReadMetadata, WriteMetadata, ReadInvite
  <2>2. CASE FindEmail(r) \/ InsertUser(r) \/ IssueToken(r) \/ FindUser(r) \/ CheckToken(r) \/ Revoke(r)
    BY <2>2 DEF FindEmail, InsertUser, IssueToken, FindUser, CheckToken, Revoke
  <2>3. CASE GetTenant(r) \/ SetStatus(r) \/ DropSchema(r) \/ CreateSchema(r) \/ RecordSchema(r)
    BY <2>3 DEF GetTenant, SetStatus, DropSchema, CreateSchema, RecordSchema
  <2>4. CASE CheckDirectory(r) \/ CheckActive(r) \/ OpenValid(r) \/ WriteValid(r) \/ RecordRun(r) \/ IngestEdges(r)
    BY <2>4 DEF CheckDirectory, CheckActive, OpenValid, WriteValid, RecordRun, IngestEdges
  <2>5. CASE DropTable(r) \/ LoadFiles(r) \/ DeleteFacts(r) \/ InsertFacts(r)
    BY <2>5 DEF DropTable, LoadFiles, DeleteFacts, InsertFacts
  <2>6. CASE Fails(r)
    BY <2>6 DEF Fails
  <2>7. QED
    BY <2>1, <2>2, <2>3, <2>4, <2>5, <2>6 DEF Step
<1>3. QED
  BY <1>1, <1>2, TenantsAssumption DEF RowsTyped

\* Every variable stays in its type: schemas belong to tenants, tokens to accounts,
\* files to the requests that wrote them.
THEOREM TenantsTyped == Spec => []TypeOK
<1>1. Init => RowsTyped
  <2> SUFFICES ASSUME Init PROVE RowsTyped
    OBVIOUS
  <2>1. PICK silo \in BOOLEAN :
          tenants = [t \in {FirstTenant} |-> [status |-> "active", schema |-> silo, invite |-> FirstInvite]]
    BY DEF Init
  <2>2. \A t \in DOMAIN tenants : tenants[t].status \in Status /\ tenants[t].schema \in BOOLEAN
    BY <2>1 DEF Status
  <2>3. DOMAIN users = {FirstUser} /\ DOMAIN users \subseteq Ids
    BY DEF Init, Ids
  <2>4. \A k \in DOMAIN tokens : tokens[k].user = FirstUser /\ tokens[k].revoked = FALSE
    BY DEF Init
  <2>5. \A r \in Requests : ~HasUser(r)
    BY DEF Init, HasUser
  <2>6. DOMAIN files = {}
    BY DEF Init
  <2>7. faults \in 0..MaxFaults
    BY TenantsAssumption DEF Init
  <2>8. QED
    BY <2>2, <2>3, <2>4, <2>5, <2>6, <2>7 DEF RowsTyped
<1>2. Ordered /\ DeleteInv /\ RowsTyped /\ [Next]_vars => RowsTyped'
  <2> SUFFICES ASSUME Ordered, RowsTold, RowsTyped, [Next]_vars PROVE RowsTyped'
    BY DEF DeleteInv
  <2>1. ASSUME NEW r \in Requests, Receive(r) PROVE RowsTyped'
    <3>1. PICK c \in Calls : call' = [call EXCEPT ![r] = c] /\ at' = [at EXCEPT ![r] = Opening[c.op]]
                             /\ Presentable(c)
      BY <2>1 DEF Receive
    <3>2. Opening[c.op] # "issue_token" /\ (Opening[c.op] = "revoke" => c.op = "logout")
      BY TenantsAssumption DEF Opening, ApiOps, OperatorOps
    <3>3. \A s \in Requests : HasUser(s)' => HasUser(s)
      BY <3>1, <3>2 DEF HasUser, Ordered, Timely, Shape
    <3>4. UNCHANGED <<tenants, users, tokens, files, saw, faults>>
      BY <2>1 DEF Receive, tenancy, accounts, data
    <3>5. QED
      BY <3>3, <3>4 DEF RowsTyped
  <2>2. ASSUME NEW r \in Requests, Step(r) \/ Fails(r) PROVE RowsTyped'
    BY <2>2, TenantsStayTyped, TokensStayTyped, UsersStayKnown, FilesStayTyped DEF RowsTyped
  <2>3. CASE UNCHANGED vars
    <3>1. UNCHANGED <<tenants, users, tokens, files, saw, at, call, faults>>
      BY <2>3 DEF vars
    <3>2. QED
      BY <3>1 DEF RowsTyped, HasUser
  <2>4. QED
    BY <2>1, <2>2, <2>3 DEF Next
<1>3. Ordered /\ DeleteInv /\ RowsTyped => TypeOK
  BY DEF TypeOK, Ordered, Timely, Shape, DeleteInv, RowsTold, SchemasTold, RowsTyped, Ids
<1>4. QED
  BY <1>1, <1>2, <1>3, SchemasAreTold, OrderedInitially, OrderedIsKept, PTL DEF Spec

-----------------------------------------------------------------------------
(* Suspension.                                                              *)

Suspends(s) == at[s] # "idle" /\ call[s].op \in {"status", "delete"} /\ call[s].to # "active"
NamesTenant(r) == call[r].op \in {"join", "status", "delete", "upgrade", "ingest"}

\* Somebody may have activated the tenant again after s came in.
Reactivated(s) ==
  \E a \in Requests : /\ at[a] # "idle" /\ call[a].op = "status" /\ call[a].to = "active"
                      /\ call[a].tenant = call[s].tenant /\ a \notin before[s]

\* A suspension that is over holds: the tenant is active only if somebody made it so.
SuspensionTold(s) ==
  Suspends(s) /\ (at[s] = "drop_schema" \/ Succeeded(s)) /\ Active(call[s].tenant) => Reactivated(s)

\* The suspensions of t that r has seen end were all taken back.
TakenBack(r, t) ==
  \A s \in before[r] : Suspends(s) /\ Succeeded(s) /\ call[s].tenant = t => Reactivated(s)

\* An ingestion that is about to write found its tenant active, and whoever wrote a
\* file had.
WritingTold ==
  /\ \A r \in Requests : call[r].op = "ingest" /\ at[r] \in {"open_valid", "write_valid"} => TakenBack(r, call[r].tenant)
  /\ \A k \in DOMAIN files :
       files[k].by \in Requests /\ at[files[k].by] # "idle" /\ TakenBack(files[k].by, k[1])

SuspensionInv ==
  /\ RowsTold
  /\ \A r \in Requests :
       /\ at[r] # "idle" /\ call[r].op = "delete" => call[r].to # "active"
       /\ at[r] # "idle" /\ NamesTenant(r) => call[r].tenant \in DOMAIN tenants \/ call[r].tenant \notin Requests
       /\ SuspensionTold(r)
  /\ WritingTold

\* What others asked for when they came in does not change.
LEMMA ReactivationsStay ==
  ASSUME Ordered, NEW r \in Requests, Moves(r)
  PROVE  /\ \A s \in Requests : Suspends(s)' = Suspends(s) /\ (Reactivated(s) => Reactivated(s)')
         /\ \A q \in Requests : \A t : TakenBack(q, t) => TakenBack(q, t)'
<1>a. UNCHANGED <<call, before>> /\ \A q \in Requests : q # r => at'[q] = at[q] /\ answer'[q] = answer[q]
  BY DEF Moves, Ordered, Timely, Shape
<1>b. at[r] \notin {"idle", "done"} /\ at'[r] # "idle" /\ \A q \in Requests : r \notin before[q] /\ before[q] \subseteq Requests
  BY DEF Moves, Ordered, Timely, EndedBefore, Ended, Shape
<1>1. \A s \in Requests : Suspends(s)' = Suspends(s) /\ (Reactivated(s) => Reactivated(s)')
  BY <1>a, <1>b DEF Suspends, Reactivated
<1>2. ASSUME NEW q \in Requests, NEW t, TakenBack(q, t) PROVE TakenBack(q, t)'
  <2>1. SUFFICES ASSUME NEW s \in before[q], Suspends(s)', Succeeded(s)', call[s].tenant = t
                 PROVE  Reactivated(s)'
    BY <1>a DEF TakenBack
  <2>2. s \in Requests /\ s # r
    BY <1>b
  <2>3. Suspends(s) /\ Succeeded(s)
    BY <1>1, <1>a, <2>1, <2>2 DEF Succeeded, Ended
  <2>4. QED
    BY <1>1, <1>2, <2>1, <2>2, <2>3 DEF TakenBack
<1>3. QED
  BY <1>1, <1>2

\* Only an insert of a fresh tenant or a call that activates it makes a tenant active.
LEMMA WhoActivates ==
  ASSUME Ordered, RowsTold, NEW r \in Requests, Step(r) \/ Fails(r), NEW t, Active(t)', ~Active(t)
  PROVE  \/ InsertTenant(r) /\ t = r /\ t \notin DOMAIN tenants
         \/ SetStatus(r) /\ call[r].to = "active" /\ call[r].tenant = t
<1>a. \A u \in DOMAIN tenants : DOMAIN tenants[u] = {"status", "schema", "invite"}
  BY DEF RowsTold
<1>1. CASE UNCHANGED tenants
  BY <1>1 DEF Active
<1>2. CASE InsertTenant(r)
  <2>1. r \notin DOMAIN tenants \/ r = FirstTenant
    BY <1>2 DEF RowsTold, InsertTenant
  <2>2. QED
    BY <1>2, <2>1, TenantsAssumption DEF InsertTenant, Put, Active
<1>3. CASE WriteMetadata(r)
  <2>1. tenants' = [tenants EXCEPT ![r].invite = r]
    BY <1>3 DEF WriteMetadata
  <2>2. QED
    BY <1>a, <2>1 DEF Active
<1>4. CASE SetStatus(r)
  <2>1. tenants' = [u \in DOMAIN tenants |->
                     IF u = call[r].tenant THEN [tenants[u] EXCEPT !.status = call[r].to] ELSE tenants[u]]
    BY <1>4 DEF SetStatus
  <2>2. QED
    BY <1>a, <1>4, <2>1 DEF Active
<1>5. CASE RecordSchema(r)
  <2>1. tenants' = [tenants EXCEPT ![call[r].tenant].schema = TRUE]
    BY <1>5 DEF RecordSchema
  <2>2. QED
    BY <1>a, <2>1 DEF Active
<1>6. QED
  BY <1>1, <1>2, <1>3, <1>4, <1>5, OthersLeaveTheRest

\* A suspension takes its tenant's activity away, and whoever gives it back came later.
LEMMA SuspensionGoesOn ==
  ASSUME Ordered, SuspensionInv, NEW r \in Requests, Step(r) \/ Fails(r), NEW s \in Requests
  PROVE  SuspensionTold(s)'
<1>a. Moves(r) /\ RowsTold
  BY StepMoves DEF Ordered, Timely, SuspensionInv
<1>b. UNCHANGED <<call, before>> /\ \A q \in Requests : q # r => at'[q] = at[q] /\ answer'[q] = answer[q]
  BY <1>a DEF Moves, Ordered, Timely, Shape
<1>c. at[r] \notin {"idle", "done"} /\ at[r] \in Path[call[r].op] /\ r \notin before[s]
  BY <1>a DEF Moves, Ordered, Timely, EndedBefore, Ended, OnPath, UnderWay
<1>d. Suspends(s)' = Suspends(s) /\ (Reactivated(s) => Reactivated(s)')
  BY <1>a, ReactivationsStay
<1>1. SUFFICES ASSUME Suspends(s), at'[s] = "drop_schema" \/ Succeeded(s)', Active(call[s].tenant)'
               PROVE  Reactivated(s)'
  BY <1>d DEF SuspensionTold
<1>e. PICK t : t = call[s].tenant
  OBVIOUS
<1>f. Active(t)'
  BY <1>1, <1>b, <1>e
<1>g. Suspends(s) /\ at[s] # "idle" /\ NamesTenant(s) /\ (t \in DOMAIN tenants \/ t \notin Requests)
  BY <1>1, <1>e DEF Suspends, NamesTenant, SuspensionInv
<1>2. CASE SetStatus(r) /\ call[r].to = "active" /\ call[r].tenant = t
  <2>1. call[r].op \in {"status", "delete"}
    BY <1>c, <1>2, TenantsAssumption DEF SetStatus, Ordered, OnPath, UnderWay, Path, ApiOps, OperatorOps
  <2>2. call[r].op = "status"
    BY <1>c, <1>2, <2>1 DEF SuspensionInv
  <2>3. QED
    BY <1>a, <1>b, <1>c, <1>e, <1>2, <2>2 DEF Reactivated, Moves
<1>3. CASE ~(SetStatus(r) /\ call[r].to = "active" /\ call[r].tenant = t)
  <2>1. Active(t)
    BY <1>a, <1>f, <1>g, <1>3, WhoActivates
  <2>2. CASE at[s] = "drop_schema" \/ Succeeded(s)
    <3>1. SuspensionTold(s)
      BY DEF SuspensionInv
    <3>2. QED
      BY <1>d, <1>e, <1>g, <2>1, <2>2, <3>1 DEF SuspensionTold
  <2>3. CASE ~(at[s] = "drop_schema" \/ Succeeded(s))
    <3>1. s = r
      BY <1>1, <1>b, <2>3 DEF Succeeded, Ended
    <3>2. call[r].op \in {"status", "delete"} /\ call[r].to # "active"
      BY <1>g, <3>1 DEF Suspends
    <3>3. SetStatus(r) \/ DropSchema(r)
      <4>1. CASE at'[r] = "drop_schema"
        <5>1. Step(r)
          BY <4>1, <1>b DEF Fails, Ordered, Timely, Shape
        <5>2. GetTenant(r) \/ SetStatus(r) \/ DropSchema(r)
          BY <1>c, <3>2, <5>1, StepAt DEF Path
        <5>3. QED
          BY <4>1, <5>2, StepLeads
      <4>2. CASE at'[r] = "done" /\ answer'[r] = 200
        <5>1. \/ IssueToken(r) \/ Revoke(r) \/ SetStatus(r) \/ DropSchema(r) \/ RecordSchema(r)
              \/ CheckDirectory(r) \/ IngestEdges(r) \/ InsertFacts(r)
          BY <4>2, StepAnswers
        <5>2. QED
          BY <1>c, <3>2, <5>1 DEF Path, IssueToken, Revoke, RecordSchema, CheckDirectory, IngestEdges, InsertFacts
      <4>3. QED
        BY <1>1, <3>1, <4>1, <4>2 DEF Succeeded, Ended
    <3>4. SetStatus(r)
      BY <2>3, <3>1, <3>3 DEF DropSchema
    <3>5. tenants' = [u \in DOMAIN tenants |->
                       IF u = t THEN [tenants[u] EXCEPT !.status = call[r].to] ELSE tenants[u]]
      BY <1>e, <3>1, <3>4 DEF SetStatus
    <3>6. DOMAIN tenants[t] = {"status", "schema", "invite"} /\ t \in DOMAIN tenants
      BY <1>a, <2>1 DEF Active, RowsTold
    <3>7. tenants'[t].status = call[r].to
      BY <3>5, <3>6
    <3>8. QED
      BY <1>f, <3>2, <3>7 DEF Active
  <2>4. QED
    BY <2>2, <2>3
<1>4. QED
  BY <1>2, <1>3

\* Files are written by ingestions that found their tenant active.
LEMMA WritingGoesOn ==
  ASSUME Ordered, SuspensionInv, NEW r \in Requests, Step(r) \/ Fails(r)
  PROVE  WritingTold'
<1>a. Moves(r) /\ WritingTold
  BY StepMoves DEF Ordered, Timely, SuspensionInv
<1>b. UNCHANGED <<call, before>> /\ at'[r] # "idle" /\ \A q \in Requests : q # r => at'[q] = at[q]
  BY <1>a DEF Moves, Ordered, Timely, Shape
<1>c. at[r] \notin {"idle", "done"} /\ at[r] \in Path[call[r].op] /\ before[r] \subseteq Requests
  BY <1>a DEF Moves, Ordered, Timely, OnPath, UnderWay, Shape
<1>d. \A q \in Requests : \A t : TakenBack(q, t) => TakenBack(q, t)'
  BY <1>a, ReactivationsStay
<1>1. ASSUME NEW q \in Requests, call[q].op = "ingest", at'[q] \in {"open_valid", "write_valid"}
      PROVE  TakenBack(q, call[q].tenant)
  <2>1. CASE at[q] \in {"open_valid", "write_valid"}
    BY <1>a, <1>1, <2>1 DEF WritingTold
  <2>2. CASE at[q] \notin {"open_valid", "write_valid"}
    <3>1. q = r
      BY <1>b, <1>1, <2>2
    <3>2. Step(r)
      BY <1>1, <3>1 DEF Fails, Ordered, Timely, Shape
    <3>3. CheckDirectory(r) \/ CheckActive(r) \/ OpenValid(r) \/ WriteValid(r) \/ RecordRun(r) \/ IngestEdges(r)
      BY <1>1, <1>c, <3>1, <3>2, StepAt DEF Path
    <3>4. CheckActive(r)
      BY <1>1, <2>2, <3>1, <3>3, StepLeads DEF OpenValid, WriteValid
    <3>5. Active(call[r].tenant)
      BY <1>1, <3>1, <3>4 DEF CheckActive, Answer, Ordered, Timely, Shape
    <3>6. QED
      BY <1>c, <3>1, <3>5 DEF TakenBack, SuspensionInv, SuspensionTold
  <2>3. QED
    BY <2>1, <2>2
<1>2. ASSUME NEW k \in DOMAIN files'
      PROVE  files'[k].by \in Requests /\ at'[files'[k].by] # "idle" /\ TakenBack(files'[k].by, k[1])
  <2>1. CASE UNCHANGED files
    BY <1>a, <1>b, <1>2, <2>1 DEF WritingTold
  <2>2. CASE OpenValid(r) \/ WriteValid(r)
    <3>1. PICK content : files' = Put(files, RunId(r), [content |-> content, by |-> r])
      BY <2>2 DEF OpenValid, WriteValid, Store
    <3>2. at[r] \in {"open_valid", "write_valid"}
      BY <2>2 DEF OpenValid, WriteValid
    <3>3. call[r].op = "ingest"
      BY <1>c, <3>2, TenantsAssumption DEF Ordered, OnPath, UnderWay, Path, ApiOps, OperatorOps
    <3>4. TakenBack(r, call[r].tenant)
      BY <1>a, <3>2, <3>3 DEF WritingTold
    <3>5. CASE k = RunId(r)
      BY <1>b, <3>1, <3>4, <3>5 DEF Put, RunId
    <3>6. CASE k # RunId(r)
      <4>1. k \in DOMAIN files /\ files'[k] = files[k]
        BY <1>2, <3>1, <3>6 DEF Put
      <4>2. QED
        BY <1>a, <1>b, <4>1 DEF WritingTold
    <3>7. QED
      BY <3>5, <3>6
  <2>3. QED
    BY <2>1, <2>2, OthersLeaveTheRest
<1>3. QED
  BY <1>b, <1>d, <1>1, <1>2 DEF WritingTold

\* No ingestion writes for a tenant that was suspended before it came in, unless
\* somebody may have activated it again, for any number of calls and any failures.
THEOREM SuspensionsHold == Spec => []SuspensionHolds
<1>1. Init => SuspensionInv
  <2> SUFFICES ASSUME Init PROVE SuspensionInv
    OBVIOUS
  <2>1. /\ \A r \in Requests : at[r] = "idle" /\ before[r] = {}
        /\ DOMAIN tokens = {FirstToken} /\ DOMAIN tokens[FirstToken] = {"user", "parent", "revoked"}
        /\ DOMAIN tenants = {FirstTenant} /\ DOMAIN tenants[FirstTenant] = {"status", "schema", "invite"}
        /\ DOMAIN files = {}
    BY DEF Init
  <2>2. RowsTold
    BY <2>1 DEF RowsTold
  <2>3. QED
    BY <2>1, <2>2 DEF SuspensionInv, SuspensionTold, Suspends, WritingTold
<1>2. Ordered /\ SuspensionInv /\ [Next]_vars => SuspensionInv'
  <2> SUFFICES ASSUME Ordered, SuspensionInv, [Next]_vars PROVE SuspensionInv'
    OBVIOUS
  <2>a. /\ RowsTold /\ WritingTold
        /\ \A r \in Requests :
             /\ at[r] # "idle" /\ call[r].op = "delete" => call[r].to # "active"
             /\ at[r] # "idle" /\ NamesTenant(r) => call[r].tenant \in DOMAIN tenants \/ call[r].tenant \notin Requests
             /\ SuspensionTold(r)
    BY DEF SuspensionInv
  <2>1. ASSUME NEW r \in Requests, Receive(r) PROVE SuspensionInv'
    <3>1. PICK c \in Calls : Presentable(c) /\ call' = [call EXCEPT ![r] = c] /\ at' = [at EXCEPT ![r] = Opening[c.op]]
      BY <2>1 DEF Receive
    <3>2. Opening[c.op] \notin {"idle", "done", "drop_schema", "open_valid", "write_valid"} /\ (c.op = "delete" => c.to # "active")
      BY TenantsAssumption DEF Opening, ApiOps, OperatorOps
    <3>3. /\ at[r] = "idle" /\ UNCHANGED <<tenants, tokens, files, answer>>
          /\ before' = [before EXCEPT ![r] = {s \in Requests : Ended(s)}]
      BY <2>1 DEF Receive, tenancy, accounts, data
    <3>4. /\ at'[r] = Opening[c.op] /\ call'[r] = c /\ before'[r] = {s \in Requests : Ended(s)}
          /\ \A s \in Requests : s # r => at'[s] = at[s] /\ call'[s] = call[s] /\ before'[s] = before[s]
          /\ \A s \in Requests : before[s] \subseteq Requests /\ r \notin before[s] /\ r \notin before'[s]
      BY <3>1, <3>3 DEF Ordered, Timely, Shape, EndedBefore, Ended
    <3>5. r = FirstTenant \/ r \notin DOMAIN tenants
      BY <2>a, <3>3 DEF RowsTold
    <3>6. RowsTold'
      BY <2>a, <3>2, <3>3, <3>4, <3>5, TenantsAssumption DEF RowsTold
    <3>7. c.op \in {"join", "status", "delete", "upgrade", "ingest"} => c.tenant \in DOMAIN tenants \/ c.tenant \notin Requests
      BY <3>1 DEF Presentable
    <3>8. ASSUME NEW s \in Requests, s # r
          PROVE  /\ Suspends(s)' = Suspends(s) /\ (Reactivated(s) => Reactivated(s)')
                 /\ SuspensionTold(s)'
                 /\ at'[s] # "idle" /\ call'[s].op = "delete" => call'[s].to # "active"
                 /\ at'[s] # "idle" /\ NamesTenant(s)' => call'[s].tenant \in DOMAIN tenants' \/ call'[s].tenant \notin Requests
      <4>1. Suspends(s)' = Suspends(s)
        BY <3>4, <3>8 DEF Suspends
      <4>2. Reactivated(s) => Reactivated(s)'
        <5>1. SUFFICES ASSUME Reactivated(s) PROVE Reactivated(s)'
          OBVIOUS
        <5>2. PICK a \in Requests : /\ at[a] # "idle" /\ call[a].op = "status" /\ call[a].to = "active"
                                    /\ call[a].tenant = call[s].tenant /\ a \notin before[s]
          BY <5>1 DEF Reactivated
        <5>3. a # r
          BY <3>3, <5>2
        <5>4. QED
          BY <3>4, <3>8, <5>2, <5>3 DEF Reactivated
      <4>3. Active(call[s].tenant)' = Active(call[s].tenant)
        BY <3>3, <3>4, <3>8 DEF Active
      <4>4. SuspensionTold(s)'
        <5>1. /\ SuspensionTold(s) /\ (Succeeded(s)' <=> Succeeded(s)) /\ at'[s] = at[s]
              /\ (Active(call[s].tenant)' <=> Active(call[s].tenant)) /\ (Suspends(s)' <=> Suspends(s))
          BY <2>a, <3>3, <3>4, <3>8, <4>1, <4>3 DEF Succeeded, Ended
        <5>2. QED
          BY <4>2, <5>1 DEF SuspensionTold
      <4>5. QED
        BY <2>a, <3>3, <3>4, <3>8, <4>1, <4>2, <4>4 DEF NamesTenant
    <3>9. SuspensionTold(r)'
      BY <3>2, <3>4 DEF SuspensionTold, Succeeded, Ended
    <3>10. ASSUME NEW q \in Requests, q # r, NEW t, TakenBack(q, t) PROVE TakenBack(q, t)'
      BY <3>3, <3>4, <3>8, <3>10 DEF TakenBack, Succeeded, Ended
    <3>11. \A k \in DOMAIN files : files[k].by \in Requests \ {r}
      BY <2>a, <3>3 DEF WritingTold
    <3>12. WritingTold'
      BY <2>a, <3>2, <3>3, <3>4, <3>10, <3>11 DEF WritingTold
    <3>13. QED
      BY <2>a, <3>2, <3>3, <3>4, <3>6, <3>7, <3>8, <3>9, <3>12 DEF SuspensionInv, NamesTenant
  <2>2. ASSUME NEW r \in Requests, Step(r) \/ Fails(r) PROVE SuspensionInv'
    <3>1. RowsTold' /\ WritingTold' /\ Moves(r) /\ DOMAIN tenants \subseteq DOMAIN tenants'
      BY <2>a, <2>2, StoresGrow, WritingGoesOn, StepMoves, TenantRows DEF Ordered, Timely
    <3>2. \A s \in Requests : SuspensionTold(s)'
      BY <2>2, SuspensionGoesOn
    <3>3. UNCHANGED call /\ \A s \in Requests : at'[s] # "idle" => at[s] # "idle"
      BY <3>1 DEF Moves, Ordered, Timely, Shape
    <3>4. QED
      BY <2>a, <3>1, <3>2, <3>3 DEF SuspensionInv, NamesTenant
  <2>3. CASE UNCHANGED vars
    <3>1. UNCHANGED <<tenants, tokens, files, answer, at, call, before>>
      BY <2>3 DEF vars
    <3>2. RowsTold'
      BY <2>a, <3>1 DEF RowsTold
    <3>3. \A s : (Suspends(s)' <=> Suspends(s)) /\ (Reactivated(s)' <=> Reactivated(s)) /\ (Succeeded(s)' <=> Succeeded(s))
      BY <3>1 DEF Suspends, Reactivated, Succeeded, Ended
    <3>4. \A s \in Requests : SuspensionTold(s)' <=> SuspensionTold(s)
      BY <3>1, <3>3 DEF SuspensionTold, Active
    <3>5. WritingTold'
      BY <2>a, <3>1, <3>3 DEF WritingTold, TakenBack
    <3>6. QED
      BY <2>a, <3>1, <3>2, <3>4, <3>5 DEF SuspensionInv, NamesTenant
  <2>4. QED
    BY <2>1, <2>2, <2>3 DEF Next
<1>3. SuspensionInv => SuspensionHolds
  <2> SUFFICES ASSUME SuspensionInv, NEW k \in DOMAIN files, NEW s \in before[files[k].by],
                      Succeeded(s), Concerns(s, k[1]), call[s].op \in {"status", "delete"}, call[s].to # "active"
               PROVE  \E a \in Ops("status") : Concerns(a, k[1]) /\ call[a].to = "active" /\ a \notin before[s]
    BY DEF SuspensionHolds
  <2>1. TakenBack(files[k].by, k[1]) /\ Suspends(s) /\ call[s].tenant = k[1]
    BY DEF SuspensionInv, WritingTold, Concerns, Suspends
  <2>2. Reactivated(s)
    BY <2>1 DEF TakenBack
  <2>3. QED
    BY <2>1, <2>2 DEF Reactivated, Ops, Concerns, OperatorOps
<1>4. QED
  BY <1>1, <1>2, <1>3, OrderedInitially, OrderedIsKept, PTL DEF Spec

-----------------------------------------------------------------------------
(* Files, runs and lineage.                                                 *)

InFile(r) == at[r] \in {"check_active", "open_valid", "write_valid", "record_run", "ingest_edges"}
Key(r, f) == <<call[r].tenant, Stem[f]>>
Finished(r) == Len(call[r].files) - Len(saw[r].left)

\* What an ingestion has left is the end of its list.
Placed(r) ==
  /\ saw[r].left \in Seq(DOMAIN Stem) /\ Len(saw[r].left) \in 1..Len(call[r].files)
  /\ \A i \in 1..Len(saw[r].left) : saw[r].left[i] = call[r].files[Finished(r) + i]

PlacedTold == \A r \in Requests : InFile(r) => Placed(r)

Writer(r, k) ==
  at[r] # "idle" /\ call[r].op = "ingest" /\ \E i \in 1..Len(call[r].files) : Key(r, call[r].files[i]) = k

\* Another ingestion that overlaps with r writes k too.
Contested(r, k) == \E q \in Requests : q # r /\ Writer(q, k) /\ Overlap(r, q)

\* What came in stays as it came in.
LEMMA CallsStay ==
  ASSUME Ordered, [Next]_vars, NEW r \in Requests, at[r] # "idle"
  PROVE  at'[r] # "idle" /\ call'[r] = call[r] /\ before'[r] = before[r]
<1> USE DEF Ordered, Timely, Shape
<1>1. ASSUME NEW q \in Requests, Receive(q)
      PROVE  at'[r] # "idle" /\ call'[r] = call[r] /\ before'[r] = before[r]
  <2>1. at[q] = "idle" /\ before' = [before EXCEPT ![q] = {s \in Requests : Ended(s)}]
    BY <1>1 DEF Receive
  <2>2. PICK c \in Calls : call' = [call EXCEPT ![q] = c] /\ at' = [at EXCEPT ![q] = Opening[c.op]]
    BY <1>1 DEF Receive
  <2>3. QED
    BY <2>1, <2>2
<1>2. ASSUME NEW q \in Requests, Step(q) \/ Fails(q)
      PROVE  at'[r] # "idle" /\ call'[r] = call[r] /\ before'[r] = before[r]
  BY <1>2, StepMoves DEF Moves
<1>3. CASE UNCHANGED vars
  BY <1>3 DEF vars
<1>4. QED
  BY <1>1, <1>2, <1>3 DEF Next

\* So do the files each ingestion writes and the contests for them.
LEMMA ContestsStay ==
  ASSUME Ordered, [Next]_vars, NEW r \in Requests, at[r] # "idle", NEW k
  PROVE  (Writer(r, k)' <=> Writer(r, k)) /\ (Contested(r, k) => Contested(r, k)')
<1>1. \A q \in Requests : at[q] # "idle" => at'[q] # "idle" /\ call'[q] = call[q] /\ before'[q] = before[q]
  BY CallsStay
<1>2. \A q \in Requests : at[q] # "idle" => (Writer(q, k)' <=> Writer(q, k))
  BY <1>1 DEF Writer, Key
<1>3. ASSUME NEW q \in Requests, q # r, Writer(q, k), Overlap(r, q)
      PROVE  Writer(q, k)' /\ Overlap(r, q)'
  BY <1>1, <1>2, <1>3 DEF Writer, Overlap
<1>4. QED
  BY <1>2, <1>3 DEF Contested

\* Only an ingestion is at the statements of one.
LEMMA IngestsOnly ==
  ASSUME Ordered, NEW r \in Requests, InFile(r) \/ at[r] = "check_directory"
  PROVE  call[r].op = "ingest" /\ call[r].files \in Seq(DOMAIN Stem)
<1>1. at[r] \in Path[call[r].op] /\ call[r] \in Calls
  BY DEF InFile, Ordered, OnPath, UnderWay
<1>2. call[r].op = "ingest"
  BY <1>1, TenantsAssumption DEF InFile, Path, ApiOps, OperatorOps
<1>3. QED
  BY <1>1, <1>2, TenantsAssumption

\* The tail of a list.
LEMMA Tails ==
  ASSUME NEW S, NEW l \in Seq(S), l # <<>>
  PROVE  /\ Tail(l) \in Seq(S) /\ Len(Tail(l)) = Len(l) - 1
         /\ \A i \in 1..(Len(l) - 1) : Tail(l)[i] = l[i + 1]
OBVIOUS

\* How many files an ingestion has left, and how many are done.
LEMMA HowManyLeft ==
  ASSUME NEW r, Placed(r), call[r].files \in Seq(DOMAIN Stem)
  PROVE  /\ Len(call[r].files) \in Nat /\ Len(saw[r].left) \in Nat /\ Finished(r) \in Nat
         /\ 1 =< Len(saw[r].left) /\ Len(call[r].files) = Finished(r) + Len(saw[r].left)
<1>1. PICK n \in Nat, m \in Nat : n = Len(call[r].files) /\ m = Len(saw[r].left)
  BY DEF Placed
<1>2. m \in 1..n /\ Finished(r) = n - m
  BY <1>1 DEF Placed, Finished
<1>3. QED
  BY <1>1, <1>2

\* The list is worked off from the front.
LEMMA PlacedIsKept == Ordered /\ PlacedTold /\ [Next]_vars => PlacedTold'
<1> SUFFICES ASSUME Ordered, PlacedTold, [Next]_vars, NEW r \in Requests, InFile(r)' PROVE Placed(r)'
  BY DEF PlacedTold
<1>a. at = [q \in Requests |-> at[q]] /\ saw = [q \in Requests |-> saw[q]] /\ answer = [q \in Requests |-> answer[q]]
  BY DEF Ordered, Timely, Shape, OnPath
<1>1. ASSUME NEW q \in Requests, Receive(q) PROVE Placed(r)'
  <2>1. PICK c \in Calls : call' = [call EXCEPT ![q] = c] /\ at' = [at EXCEPT ![q] = Opening[c.op]]
    BY <1>1 DEF Receive
  <2>2. Opening[c.op] \notin {"check_active", "open_valid", "write_valid", "record_run", "ingest_edges"}
    BY TenantsAssumption DEF Opening, ApiOps, OperatorOps
  <2>3. r # q /\ InFile(r) /\ UNCHANGED saw
    BY <1>1, <1>a, <2>1, <2>2 DEF InFile, Receive
  <2>4. call'[r] = call[r]
    BY <2>3, CallsStay DEF InFile
  <2>5. QED
    BY <2>3, <2>4 DEF PlacedTold, Placed, Finished
<1>2. ASSUME NEW q \in Requests, q # r, Step(q) \/ Fails(q) PROVE Placed(r)'
  <2>1. Moves(q) /\ saw' = [saw EXCEPT ![q] = saw'[q]]
    BY <1>2, StepMoves, OthersReadNothing DEF Ordered, Timely
  <2>2. InFile(r) /\ call'[r] = call[r] /\ saw'[r] = saw[r]
    BY <1>2, <1>a, <2>1 DEF Moves, InFile
  <2>3. QED
    BY <2>2 DEF PlacedTold, Placed, Finished
<1>3. CASE Step(r)
  <2>a. Moves(r) /\ UNCHANGED call
    BY <1>3, StepMoves DEF Moves, Ordered, Timely
  <2>1. CheckDirectory(r) \/ CheckActive(r) \/ OpenValid(r) \/ WriteValid(r) \/ RecordRun(r) \/ IngestEdges(r)
    <3>1. at'[r] # "done" /\ at'[r] \notin {"insert_tenant", "created_edge"}
      BY DEF InFile
    <3>2. QED
      BY <1>3, <3>1, StepLeads DEF Step, InFile
  <2>2. CASE CheckDirectory(r)
    <3>1. at'[r] = "check_active" /\ call[r].files # <<>>
      BY <1>a, <2>2 DEF CheckDirectory, Answer, Goto, InFile
    <3>2. call[r].files \in Seq(DOMAIN Stem)
      BY <2>2, IngestsOnly DEF CheckDirectory
    <3>3. saw'[r].left = call[r].files
      BY <1>a, <2>2 DEF CheckDirectory, Note
    <3>4. QED
      BY <2>a, <3>1, <3>2, <3>3 DEF Placed, Finished
  <2>3. CASE CheckActive(r) \/ OpenValid(r) \/ WriteValid(r) \/ RecordRun(r)
    <3>1. InFile(r) /\ UNCHANGED saw
      BY <2>3 DEF CheckActive, OpenValid, WriteValid, RecordRun, Keep, InFile
    <3>2. QED
      BY <2>a, <3>1 DEF PlacedTold, Placed, Finished
  <2>4. CASE IngestEdges(r)
    <3>1. InFile(r) /\ saw'[r].left = Tail(saw[r].left) /\ Len(saw[r].left) > 1
      BY <1>a, <2>4 DEF IngestEdges, Note, InFile, Answer
    <3>2. Placed(r) /\ call[r].files \in Seq(DOMAIN Stem)
      BY <3>1, IngestsOnly DEF PlacedTold
    <3>3. PICK n \in Nat, m \in Nat : n = Len(call[r].files) /\ m = Len(saw[r].left)
      BY <3>2 DEF Placed
    <3>4. saw'[r].left \in Seq(DOMAIN Stem) /\ Len(saw'[r].left) = m - 1
          /\ \A i \in 1..(m - 1) : saw'[r].left[i] = saw[r].left[i + 1]
      <4>1. saw[r].left \in Seq(DOMAIN Stem) /\ saw[r].left # <<>>
        BY <3>1, <3>2 DEF Placed
      <4>2. QED
        BY <3>1, <3>3, <4>1, Tails
    <3>5. \A i \in 1..m : saw[r].left[i] = call[r].files[(n - m) + i]
      BY <3>2, <3>3 DEF Placed, Finished
    <3>6. \A i \in 1..(m - 1) : saw'[r].left[i] = call[r].files[(n - (m - 1)) + i]
      <4>1. TAKE i \in 1..(m - 1)
      <4>2. saw[r].left[i + 1] = call[r].files[(n - m) + (i + 1)]
        BY <3>5
      <4>3. (n - m) + (i + 1) = (n - (m - 1)) + i
        OBVIOUS
      <4>4. QED
        BY <3>4, <4>2, <4>3
    <3>7. m - 1 \in 1..n
      BY <3>1, <3>2, <3>3 DEF Placed
    <3>8. QED
      BY <2>a, <3>3, <3>4, <3>6, <3>7 DEF Placed, Finished
  <2>5. QED
    BY <2>1, <2>2, <2>3, <2>4
<1>4. CASE Fails(r)
  BY <1>4, <1>a DEF Fails, InFile
<1>5. CASE UNCHANGED vars
  <2>1. UNCHANGED <<at, call, saw>>
    BY <1>5 DEF vars
  <2>2. QED
    BY <2>1 DEF PlacedTold, Placed, Finished, InFile
<1>6. QED
  BY <1>1, <1>2, <1>3, <1>4, <1>5 DEF Next

Untouched(k) ==
  /\ k \in DOMAIN files' <=> k \in DOMAIN files
  /\ k \in DOMAIN files => files'[k] = files[k]
  /\ k \in DOMAIN runs' <=> k \in DOMAIN runs
  /\ k \in DOMAIN runs => runs'[k] = runs[k]

\* The file an ingestion is at is one of its list, and it writes no other.
LEMMA IngestsWriteTheirOwn ==
  ASSUME Ordered, PlacedTold, NEW r \in Requests
  PROVE  /\ InFile(r) => Writer(r, RunId(r)) /\ Head(saw[r].left) = call[r].files[Finished(r) + 1]
                         /\ Finished(r) \in Nat /\ Finished(r) + 1 \in 1..Len(call[r].files)
                         /\ RunId(r) = Key(r, call[r].files[Finished(r) + 1])
         /\ Step(r) \/ Fails(r) =>
              \A k : Untouched(k) \/ (k = RunId(r) /\ (OpenValid(r) \/ WriteValid(r) \/ RecordRun(r)))
<1>1. ASSUME InFile(r)
      PROVE  /\ Writer(r, RunId(r)) /\ Head(saw[r].left) = call[r].files[Finished(r) + 1]
             /\ Finished(r) \in Nat /\ Finished(r) + 1 \in 1..Len(call[r].files)
             /\ RunId(r) = Key(r, call[r].files[Finished(r) + 1])
  <2>1. Placed(r) /\ call[r].op = "ingest" /\ call[r].files \in Seq(DOMAIN Stem) /\ at[r] # "idle"
    BY <1>1, IngestsOnly DEF PlacedTold, InFile
  <2>2. Finished(r) \in Nat /\ Finished(r) + 1 \in 1..Len(call[r].files)
    <3>1. PICK n \in Nat, m \in Nat, d \in Nat :
            n = Len(call[r].files) /\ m = Len(saw[r].left) /\ d = Finished(r) /\ 1 =< m /\ n = d + m
      BY <2>1, HowManyLeft
    <3>2. QED
      BY <3>1
  <2>3. Head(saw[r].left) = call[r].files[Finished(r) + 1]
    BY <2>1 DEF Placed
  <2>4. RunId(r) = Key(r, call[r].files[Finished(r) + 1])
    BY <2>3 DEF RunId, Key
  <2>5. QED
    BY <2>1, <2>2, <2>3, <2>4 DEF Writer
<1>2. ASSUME Step(r) \/ Fails(r), NEW k
      PROVE  Untouched(k) \/ (k = RunId(r) /\ (OpenValid(r) \/ WriteValid(r) \/ RecordRun(r)))
  <2>1. CASE UNCHANGED <<files, runs>>
    BY <2>1 DEF Untouched
  <2>2. CASE OpenValid(r) \/ WriteValid(r)
    <3>1. PICK content : files' = Put(files, RunId(r), [content |-> content, by |-> r])
      BY <2>2 DEF OpenValid, WriteValid, Store
    <3>2. UNCHANGED runs
      BY <2>2 DEF OpenValid, WriteValid
    <3>3. QED
      BY <2>2, <3>1, <3>2 DEF Put, Untouched
  <2>3. CASE RecordRun(r)
    BY <2>3 DEF RecordRun, Put, Untouched
  <2>4. QED
    BY <1>2, <2>1, <2>2, <2>3, OthersLeaveTheRest
<1>3. QED
  BY <1>1, <1>2

\* Two that are under way at once overlap.
LEMMA AtOnce ==
  ASSUME Ordered, NEW r \in Requests, NEW s \in Requests, ~Ended(r), ~Ended(s)
  PROVE  Overlap(r, s)
BY DEF Ordered, Timely, EndedBefore, Overlap

Agreed(k) == k \in DOMAIN runs /\ k \in DOMAIN files /\ runs[k] = files[k].content

\* How far an ingestion's files and rows agree, unless another contests them.
IngestTold(r) ==
  InFile(r) =>
    /\ at[r] = "record_run" =>
         Contested(r, RunId(r)) \/ (RunId(r) \in DOMAIN files /\ files[RunId(r)].content = Head(saw[r].left))
    /\ at[r] = "ingest_edges" => RunId(r) \in DOMAIN runs /\ (Contested(r, RunId(r)) \/ Agreed(RunId(r)))
    /\ \A i \in 1..Finished(r) :
         \/ Contested(r, Key(r, call[r].files[i]))
         \/ Agreed(Key(r, call[r].files[i]))
         \/ Key(r, call[r].files[i]) = RunId(r) /\ at[r] \in {"write_valid", "record_run"}

\* A row agrees with its file, or two wrote it at once, or one has not come to its end.
Settled(k) ==
  \/ Agreed(k)
  \/ \E r \in Requests : Writer(r, k) /\ (~Succeeded(r) \/ Contested(r, k))

RunsInv ==
  /\ PlacedTold
  /\ \A r \in Requests : IngestTold(r)
  /\ \A k \in DOMAIN runs : Settled(k)
  /\ \A e \in edges : e[1] = "loaded" => e[2] \in DOMAIN runs

\* Whoever else is under way and writes a file of r contests it.
LEMMA OthersContest ==
  ASSUME Ordered, RunsInv, NEW s \in Requests, Step(s) \/ Fails(s), NEW r \in Requests, r # s, IngestTold(r)
  PROVE  IngestTold(r)'
<1> SUFFICES ASSUME InFile(r)' PROVE IngestTold(r)'
  BY DEF IngestTold
<1>a. Moves(s) /\ saw' = [saw EXCEPT ![s] = saw'[s]]
  BY StepMoves, OthersReadNothing DEF Ordered, Timely
<1>b. at'[r] = at[r] /\ call'[r] = call[r] /\ saw'[r] = saw[r] /\ InFile(r)
  BY <1>a DEF Moves, InFile, Ordered, Timely, Shape, OnPath
<1>c. [Next]_vars /\ ~Ended(r) /\ ~Ended(s) /\ at[r] # "idle"
  BY <1>a, <1>b DEF Next, Moves, Ended, InFile
<1>d. \A k : Contested(r, k) => Contested(r, k)'
  BY <1>c, ContestsStay
<1>e. RunId(r)' = RunId(r) /\ Finished(r)' = Finished(r) /\ \A f : Key(r, f)' = Key(r, f)
  BY <1>b DEF RunId, Finished, Key
<1>1. ASSUME NEW k PROVE Untouched(k) \/ Contested(r, k)'
  <2>1. CASE ~Untouched(k)
    <3>1. k = RunId(s) /\ (OpenValid(s) \/ WriteValid(s) \/ RecordRun(s))
      BY <2>1, IngestsWriteTheirOwn DEF RunsInv
    <3>2. InFile(s)
      BY <3>1 DEF OpenValid, WriteValid, RecordRun, InFile
    <3>3. Writer(s, k)
      BY <3>1, <3>2, IngestsWriteTheirOwn DEF RunsInv
    <3>4. Contested(r, k)
      BY <1>c, <3>3, AtOnce DEF Contested
    <3>5. QED
      BY <1>d, <3>4
  <2>2. QED
    BY <2>1
<1>2. \A k : Agreed(k) => Agreed(k)' \/ Contested(r, k)'
  BY <1>1 DEF Agreed, Untouched
<1>3. at'[r] = "record_run" =>
         Contested(r, RunId(r))' \/ (RunId(r)' \in DOMAIN files' /\ files'[RunId(r)'].content = Head(saw'[r].left))
  <2>1. ASSUME at[r] = "record_run", ~Contested(r, RunId(r))'
        PROVE  RunId(r)' \in DOMAIN files' /\ files'[RunId(r)'].content = Head(saw'[r].left)
    <3>1. PICK k : k = RunId(r)
      OBVIOUS
    <3>2. ~Contested(r, k)' /\ RunId(r)' = k
      BY <1>e, <2>1, <3>1
    <3>3. Untouched(k) /\ ~Contested(r, k)
      BY <1>1, <1>d, <3>2
    <3>4. k \in DOMAIN files /\ files[k].content = Head(saw[r].left)
      BY <1>b, <2>1, <3>1, <3>3 DEF IngestTold
    <3>5. QED
      BY <1>b, <3>2, <3>3, <3>4 DEF Untouched
  <2>2. QED
    BY <1>b, <2>1
<1>4. at'[r] = "ingest_edges" => RunId(r)' \in DOMAIN runs' /\ (Contested(r, RunId(r))' \/ Agreed(RunId(r))')
  <2>1. ASSUME at[r] = "ingest_edges"
        PROVE  RunId(r)' \in DOMAIN runs' /\ (Contested(r, RunId(r))' \/ Agreed(RunId(r))')
    <3>1. PICK k : k = RunId(r)
      OBVIOUS
    <3>2. k \in DOMAIN runs /\ (Contested(r, k) \/ Agreed(k)) /\ RunId(r)' = k
      BY <1>b, <1>e, <2>1, <3>1 DEF IngestTold
    <3>3. k \in DOMAIN runs'
      BY <3>2, OthersLeaveTheRest DEF RecordRun, Put
    <3>4. Contested(r, k)' \/ Agreed(k)'
      BY <1>2, <1>d, <3>2
    <3>5. QED
      BY <3>2, <3>3, <3>4 DEF Contested, Agreed
  <2>2. QED
    BY <1>b, <2>1
<1>5. ASSUME NEW i \in 1..Finished(r)
      PROVE  \/ Contested(r, Key(r, call[r].files[i]))'
             \/ Agreed(Key(r, call[r].files[i]))'
             \/ Key(r, call[r].files[i])' = RunId(r)' /\ at'[r] \in {"write_valid", "record_run"}
  <2>1. PICK k : k = Key(r, call[r].files[i])
    OBVIOUS
  <2>2. Contested(r, k) \/ Agreed(k) \/ (k = RunId(r) /\ at[r] \in {"write_valid", "record_run"})
    BY <1>b, <2>1 DEF IngestTold
  <2>3. Key(r, call[r].files[i])' = k
    BY <1>b, <2>1 DEF Key
  <2>4. Contested(r, k)' \/ Agreed(k)' \/ (k = RunId(r)' /\ at'[r] \in {"write_valid", "record_run"})
    BY <1>2, <1>b, <1>d, <1>e, <2>2
  <2>5. QED
    BY <2>3, <2>4 DEF Contested, Agreed
<1>6. QED
  BY <1>3, <1>4, <1>5, <1>e DEF IngestTold

\* An ingestion leaves each file and its row in agreement before it turns to the next.
LEMMA IngestGoesOn ==
  ASSUME Ordered, RunsInv, NEW r \in Requests, Step(r) \/ Fails(r)
  PROVE  IngestTold(r)'
<1> SUFFICES ASSUME InFile(r)' PROVE IngestTold(r)'
  BY DEF IngestTold
<1>a. /\ at = [q \in Requests |-> at[q]] /\ saw = [q \in Requests |-> saw[q]]
      /\ Moves(r) /\ UNCHANGED call /\ IngestTold(r) /\ PlacedTold
  BY StepMoves DEF Ordered, Timely, Shape, OnPath, Moves, RunsInv
<1>b. [Next]_vars /\ at[r] # "idle"
  BY <1>a DEF Next, Moves
<1>c. \A k : Contested(r, k) => Contested(r, k)'
  BY <1>b, ContestsStay
<1>d. \A f : Key(r, f)' = Key(r, f)
  BY <1>a DEF Key
<1>1. Step(r)
  BY <1>a DEF Fails, InFile
<1>2. CheckDirectory(r) \/ CheckActive(r) \/ OpenValid(r) \/ WriteValid(r) \/ RecordRun(r) \/ IngestEdges(r)
  BY <1>1, StepLeads DEF Step, InFile
<1>3. CASE CheckDirectory(r)
  <2>1. at'[r] = "check_active"
    BY <1>3, StepLeads DEF InFile
  <2>2. saw'[r].left = call[r].files /\ call[r].files \in Seq(DOMAIN Stem)
    BY <1>3, <1>a, IngestsOnly DEF CheckDirectory, Note
  <2>3. Finished(r)' = 0
    BY <1>a, <2>2 DEF Finished
  <2>4. QED
    BY <2>1, <2>3 DEF IngestTold
<1>e. PICK k : k = RunId(r)
  OBVIOUS
<1>4. ASSUME CheckActive(r) \/ OpenValid(r) \/ WriteValid(r) \/ RecordRun(r)
      PROVE  /\ UNCHANGED saw /\ RunId(r)' = k /\ Finished(r)' = Finished(r) /\ InFile(r)
             /\ \A i \in 1..Finished(r) : \A j : j = Key(r, call[r].files[i]) =>
                  Contested(r, j) \/ Agreed(j) \/ (j = k /\ at[r] \in {"write_valid", "record_run"})
  <2>1. UNCHANGED saw /\ InFile(r)
    BY <1>4 DEF CheckActive, OpenValid, WriteValid, RecordRun, Keep, InFile
  <2>2. QED
    BY <1>a, <1>e, <2>1 DEF RunId, Finished, IngestTold
<1>5. ASSUME CheckActive(r) \/ OpenValid(r) \/ WriteValid(r) \/ RecordRun(r),
             at'[r] = "record_run" =>
               Contested(r, k)' \/ (k \in DOMAIN files' /\ files'[k].content = Head(saw'[r].left)),
             at'[r] = "ingest_edges" => k \in DOMAIN runs' /\ (Contested(r, k)' \/ Agreed(k)'),
             \A i \in 1..Finished(r) : \A j : j = Key(r, call[r].files[i]) =>
               Contested(r, j)' \/ Agreed(j)' \/ (j = k /\ at'[r] \in {"write_valid", "record_run"})
      PROVE  IngestTold(r)'
  <2>1. UNCHANGED saw /\ RunId(r)' = k /\ Finished(r)' = Finished(r)
    BY <1>4, <1>5
  <2>2. /\ at'[r] = "record_run" =>
             Contested(r, RunId(r))' \/ (RunId(r)' \in DOMAIN files' /\ files'[RunId(r)'].content = Head(saw'[r].left))
        /\ at'[r] = "ingest_edges" => RunId(r)' \in DOMAIN runs' /\ (Contested(r, RunId(r))' \/ Agreed(RunId(r))')
    BY <1>5, <2>1 DEF Contested, Agreed
  <2>3. ASSUME NEW i \in 1..Finished(r)
        PROVE  \/ Contested(r, Key(r, call[r].files[i]))'
               \/ Agreed(Key(r, call[r].files[i]))'
               \/ Key(r, call[r].files[i])' = RunId(r)' /\ at'[r] \in {"write_valid", "record_run"}
    <3>1. PICK j : j = Key(r, call[r].files[i])
      OBVIOUS
    <3>2. Key(r, call[r].files[i])' = j
      BY <1>a, <3>1 DEF Key
    <3>3. Contested(r, j)' \/ Agreed(j)' \/ (j = k /\ at'[r] \in {"write_valid", "record_run"})
      BY <1>5, <3>1
    <3>4. QED
      BY <2>1, <3>2, <3>3 DEF Contested, Agreed
  <2>4. QED
    BY <2>1, <2>2, <2>3 DEF IngestTold
<1>6. CASE CheckActive(r)
  <2>1. at[r] = "check_active" /\ at'[r] = "open_valid" /\ UNCHANGED <<files, runs>>
    BY <1>6, StepLeads DEF CheckActive, InFile, data
  <2>2. \A j : Agreed(j)' <=> Agreed(j)
    BY <2>1 DEF Agreed
  <2>3. QED
    BY <1>4, <1>5, <1>6, <1>c, <2>1, <2>2
<1>7. CASE OpenValid(r)
  <2>1. at[r] = "open_valid" /\ at'[r] = "write_valid"
    BY <1>7, StepLeads DEF OpenValid
  <2>2. \A j : j # k => (Agreed(j) => Agreed(j)')
    BY <1>7, <1>a, <1>e, IngestsWriteTheirOwn DEF Agreed, Untouched
  <2>3. QED
    BY <1>4, <1>5, <1>7, <1>c, <2>1, <2>2
<1>8. CASE WriteValid(r)
  <2>1. at[r] = "write_valid" /\ at'[r] = "record_run" /\ UNCHANGED saw
    BY <1>8, StepLeads DEF WriteValid, Keep
  <2>2. \A j : j # k => (Agreed(j) => Agreed(j)')
    BY <1>8, <1>a, <1>e, IngestsWriteTheirOwn DEF Agreed, Untouched
  <2>3. k \in DOMAIN files' /\ files'[k].content = Head(saw'[r].left)
    BY <1>8, <1>e, <2>1 DEF WriteValid, Store, Put
  <2>4. \A i \in 1..Finished(r) : \A j : j = Key(r, call[r].files[i]) =>
               Contested(r, j)' \/ Agreed(j)' \/ (j = k /\ at'[r] \in {"write_valid", "record_run"})
    BY <1>4, <1>8, <1>c, <2>1, <2>2
  <2>5. QED
    BY <1>5, <1>8, <2>1, <2>3, <2>4
<1>9. CASE RecordRun(r)
  <2>1. at[r] = "record_run" /\ at'[r] = "ingest_edges" /\ UNCHANGED files
    BY <1>9, StepLeads DEF RecordRun
  <2>2. \A j : j # k => (Agreed(j) => Agreed(j)')
    BY <1>9, <1>a, <1>e, IngestsWriteTheirOwn DEF Agreed, Untouched
  <2>3. k \in DOMAIN runs' /\ runs'[k] = Head(saw[r].left)
    BY <1>9, <1>e DEF RecordRun, Put
  <2>4. Contested(r, k) \/ (k \in DOMAIN files /\ files[k].content = Head(saw[r].left))
    BY <1>4, <1>9, <1>a, <1>e, <2>1 DEF IngestTold
  <2>5. Contested(r, k)' \/ Agreed(k)'
    BY <1>c, <2>1, <2>3, <2>4 DEF Agreed
  <2>6. \A i \in 1..Finished(r) : \A j : j = Key(r, call[r].files[i]) =>
               Contested(r, j)' \/ Agreed(j)' \/ (j = k /\ at'[r] \in {"write_valid", "record_run"})
    BY <1>4, <1>9, <1>c, <2>2, <2>5
  <2>7. QED
    BY <1>5, <1>9, <2>1, <2>3, <2>5, <2>6
<1>10. CASE IngestEdges(r)
  <2>1. at[r] = "ingest_edges" /\ at'[r] = "check_active" /\ UNCHANGED <<files, runs>> /\ InFile(r)
    BY <1>10, StepLeads DEF IngestEdges, InFile, data
  <2>2. saw'[r].left = Tail(saw[r].left) /\ Placed(r)
    BY <1>10, <1>a, <2>1 DEF IngestEdges, Note, PlacedTold
  <2>3. Finished(r)' = Finished(r) + 1 /\ Finished(r) \in Nat
    <3>1. call[r].files \in Seq(DOMAIN Stem)
      BY <2>1, IngestsOnly
    <3>2. PICK n \in Nat, m \in Nat, d \in Nat :
            n = Len(call[r].files) /\ m = Len(saw[r].left) /\ d = Finished(r) /\ 1 =< m /\ n = d + m
      BY <2>2, <3>1, HowManyLeft
    <3>3. saw[r].left \in Seq(DOMAIN Stem) /\ saw[r].left # <<>>
      BY <2>2, <3>2 DEF Placed
    <3>4. Len(saw'[r].left) = m - 1
      BY <2>2, <3>2, <3>3, Tails
    <3>5. Finished(r)' = n - (m - 1)
      BY <1>a, <3>2, <3>4 DEF Finished
    <3>6. QED
      BY <3>2, <3>5
  <2>4. RunId(r) = Key(r, call[r].files[Finished(r) + 1])
    BY <1>a, <2>1, IngestsWriteTheirOwn
  <2>5. ASSUME NEW i \in 1..(Finished(r) + 1)
        PROVE  Contested(r, Key(r, call[r].files[i]))' \/ Agreed(Key(r, call[r].files[i]))'
    <3>1. PICK j : j = Key(r, call[r].files[i])
      OBVIOUS
    <3>2. Contested(r, j) \/ Agreed(j)
      <4>1. CASE i \in 1..Finished(r)
        BY <1>a, <2>1, <3>1, <4>1 DEF IngestTold
      <4>2. CASE i = Finished(r) + 1
        BY <1>a, <2>1, <2>4, <3>1, <4>2 DEF IngestTold
      <4>3. QED
        BY <2>3, <4>1, <4>2
    <3>3. Contested(r, j)' \/ Agreed(j)'
      BY <1>c, <2>1, <3>2 DEF Agreed
    <3>4. Key(r, call[r].files[i])' = j
      BY <1>a, <3>1 DEF Key
    <3>5. QED
      BY <3>3, <3>4 DEF Contested, Agreed
  <2>6. \A i \in 1..Finished(r)' : Contested(r, Key(r, call[r].files[i]))' \/ Agreed(Key(r, call[r].files[i]))'
    BY <2>3, <2>5
  <2>7. QED
    BY <2>1, <2>6 DEF IngestTold
<1>11. QED
  BY <1>2, <1>3, <1>6, <1>7, <1>8, <1>9, <1>10

\* A row that is there stays settled: an ingestion comes to its end only when all of
\* its files are.
LEMMA RowsStaySettled ==
  ASSUME Ordered, RunsInv, NEW r \in Requests, Step(r) \/ Fails(r), NEW k \in DOMAIN runs'
  PROVE  Settled(k)'
<1>a. Moves(r) /\ UNCHANGED call /\ PlacedTold /\ IngestTold(r)
  BY StepMoves DEF Ordered, Timely, Moves, RunsInv
<1>b. \A q \in Requests : q # r => at'[q] = at[q] /\ answer'[q] = answer[q]
  BY <1>a DEF Moves, Ordered, Timely, Shape
<1>c. [Next]_vars /\ at[r] \notin {"idle", "done"}
  BY <1>a DEF Next, Moves
<1>d. \A q \in Requests : at[q] # "idle" => (Writer(q, k)' <=> Writer(q, k)) /\ (Contested(q, k) => Contested(q, k)')
  BY <1>c, ContestsStay
<1>1. CASE ~Untouched(k)
  <2>1. k = RunId(r) /\ (OpenValid(r) \/ WriteValid(r) \/ RecordRun(r))
    BY <1>a, <1>1, IngestsWriteTheirOwn
  <2>2. InFile(r) /\ at'[r] # "done"
    BY <2>1, StepLeads DEF InFile, OpenValid, WriteValid, RecordRun
  <2>3. Writer(r, k)'
    BY <1>a, <1>c, <1>d, <2>1, <2>2, IngestsWriteTheirOwn
  <2>4. QED
    BY <2>2, <2>3 DEF Settled, Succeeded, Ended
<1>2. CASE Untouched(k)
  <2>1. Settled(k) /\ (Agreed(k) => Agreed(k)')
    BY <1>2 DEF Untouched, RunsInv, Agreed
  <2>2. CASE Agreed(k)
    BY <2>1, <2>2 DEF Settled
  <2>3. ASSUME NEW q \in Requests, Writer(q, k), Contested(q, k) PROVE Settled(k)'
    BY <1>d, <2>3 DEF Settled, Writer
  <2>4. ASSUME NEW q \in Requests, Writer(q, k), ~Succeeded(q) PROVE Settled(k)'
    <3>1. Writer(q, k)'
      BY <1>d, <2>4 DEF Writer
    <3>2. CASE ~Succeeded(q)'
      BY <3>1, <3>2 DEF Settled
    <3>3. CASE Succeeded(q)'
      <4>1. q = r /\ at'[r] = "done" /\ answer'[r] = 200 /\ call[r].op = "ingest"
        BY <1>b, <2>4, <3>3 DEF Succeeded, Ended, Writer
      <4>2. at[r] \in Path.ingest
        BY <1>c, <4>1 DEF Ordered, OnPath, UnderWay
      <4>3. \/ IssueToken(r) \/ Revoke(r) \/ SetStatus(r) \/ DropSchema(r) \/ RecordSchema(r)
            \/ CheckDirectory(r) \/ IngestEdges(r) \/ InsertFacts(r)
        BY <4>1, StepAnswers
      <4>4. CheckDirectory(r) \/ IngestEdges(r)
        BY <4>2, <4>3 DEF Path, IssueToken, Revoke, SetStatus, DropSchema, RecordSchema, InsertFacts
      <4>5. PICK i \in 1..Len(call[r].files) : Key(r, call[r].files[i]) = k
        BY <2>4, <4>1 DEF Writer
      <4>6. CASE CheckDirectory(r)
        <5>1. call[r].files = <<>>
          BY <4>1, <4>6 DEF CheckDirectory, Answer, Goto, Ordered, Timely, Shape
        <5>2. QED
          BY <4>5, <5>1
      <4>7. CASE IngestEdges(r)
        <5>1. InFile(r) /\ at[r] = "ingest_edges" /\ ~(Len(saw[r].left) > 1)
          BY <4>1, <4>7 DEF IngestEdges, InFile, Goto, Ordered, Timely, Shape
        <5>2. Placed(r) /\ call[r].files \in Seq(DOMAIN Stem)
          BY <1>a, <5>1, IngestsOnly DEF PlacedTold
        <5>3. Len(call[r].files) = Finished(r) + 1 /\ Finished(r) \in Nat
          <6>1. PICK n \in Nat, m \in Nat, d \in Nat :
                  n = Len(call[r].files) /\ m = Len(saw[r].left) /\ d = Finished(r) /\ 1 =< m /\ n = d + m
            BY <5>2, HowManyLeft
          <6>2. QED
            BY <5>1, <6>1
        <5>4. RunId(r) = Key(r, call[r].files[Finished(r) + 1])
          BY <1>a, <5>1, IngestsWriteTheirOwn
        <5>5. Contested(r, k) \/ Agreed(k)
          <6>1. CASE i \in 1..Finished(r)
            BY <1>a, <4>5, <5>1, <6>1 DEF IngestTold
          <6>2. CASE i = Finished(r) + 1
            BY <1>a, <4>5, <5>1, <5>4, <6>2 DEF IngestTold
          <6>3. QED
            BY <4>5, <5>3, <6>1, <6>2
        <5>6. QED
          BY <2>1, <2>3, <2>4, <4>1, <5>5 DEF Settled
      <4>8. QED
        BY <4>4, <4>6, <4>7
    <3>4. QED
      BY <3>2, <3>3
  <2>5. QED
    BY <2>1, <2>2, <2>3, <2>4 DEF Settled
<1>3. QED
  BY <1>1, <1>2

\* A run's row and its file agree unless two ingestions of one name overlapped or one
\* stopped half way, and no lineage edge comes before its run.
THEOREM RunsDescribeTheirFiles == Spec => []RunRowsDescribeTheirFiles
<1>1. Init => RunsInv
  <2> SUFFICES ASSUME Init PROVE RunsInv
    OBVIOUS
  <2>1. (\A r \in Requests : at[r] = "idle") /\ DOMAIN runs = {} /\ edges = {}
    BY DEF Init
  <2>2. QED
    BY <2>1 DEF RunsInv, PlacedTold, IngestTold, InFile
<1>2. Ordered /\ RunsInv /\ [Next]_vars => RunsInv'
  <2> SUFFICES ASSUME Ordered, RunsInv, [Next]_vars PROVE RunsInv'
    OBVIOUS
  <2>a. /\ PlacedTold /\ PlacedTold' /\ \A r \in Requests : IngestTold(r)
        /\ \A k \in DOMAIN runs : Settled(k)
        /\ \A e \in edges : e[1] = "loaded" => e[2] \in DOMAIN runs
    BY PlacedIsKept DEF RunsInv
  <2>1. ASSUME NEW r \in Requests, Receive(r) PROVE RunsInv'
    <3>1. PICK c \in Calls : call' = [call EXCEPT ![r] = c] /\ at' = [at EXCEPT ![r] = Opening[c.op]]
      BY <2>1 DEF Receive
    <3>2. Opening[c.op] \notin {"idle", "done", "check_active", "open_valid", "write_valid", "record_run", "ingest_edges"}
      BY TenantsAssumption DEF Opening, ApiOps, OperatorOps
    <3>3. at[r] = "idle" /\ UNCHANGED <<files, runs, edges, saw, answer>>
      BY <2>1 DEF Receive, data
    <3>4. ~InFile(r)' /\ \A s \in Requests : s # r => at'[s] = at[s] /\ call'[s] = call[s]
      BY <3>1, <3>2 DEF InFile, Ordered, Timely, Shape
    <3>5. \A s \in Requests : at[s] # "idle" => \A k : (Writer(s, k)' <=> Writer(s, k)) /\ (Contested(s, k) => Contested(s, k)')
      BY ContestsStay
    <3>6. \A k : Agreed(k)' <=> Agreed(k)
      BY <3>3 DEF Agreed
    <3>7. ASSUME NEW s \in Requests PROVE IngestTold(s)'
      <4>1. CASE s = r \/ ~InFile(s)'
        BY <3>4, <4>1 DEF IngestTold
      <4>2. CASE s # r /\ InFile(s)'
        <5>1. at'[s] = at[s] /\ call'[s] = call[s] /\ saw'[s] = saw[s] /\ InFile(s) /\ IngestTold(s)
          BY <2>a, <3>3, <3>4, <4>2 DEF InFile
        <5>2. \A k : Contested(s, k) => Contested(s, k)'
          BY <3>5, <5>1 DEF InFile
        <5>3. PICK k : k = RunId(s)
          OBVIOUS
        <5>4. RunId(s)' = k /\ Finished(s)' = Finished(s)
          BY <5>1, <5>3 DEF RunId, Finished
        <5>5. /\ at[s] = "record_run" => Contested(s, k)' \/ (k \in DOMAIN files /\ files[k].content = Head(saw[s].left))
              /\ at[s] = "ingest_edges" => k \in DOMAIN runs /\ (Contested(s, k)' \/ Agreed(k)')
          BY <3>6, <5>1, <5>2, <5>3 DEF IngestTold
        <5>6. ASSUME NEW i \in 1..Finished(s)
              PROVE  \/ Contested(s, Key(s, call[s].files[i]))'
                     \/ Agreed(Key(s, call[s].files[i]))'
                     \/ Key(s, call[s].files[i])' = RunId(s)' /\ at'[s] \in {"write_valid", "record_run"}
          <6>1. PICK j : j = Key(s, call[s].files[i])
            OBVIOUS
          <6>2. Contested(s, j) \/ Agreed(j) \/ (j = k /\ at[s] \in {"write_valid", "record_run"})
            BY <5>1, <5>3, <6>1 DEF IngestTold
          <6>3. Key(s, call[s].files[i])' = j
            BY <5>1, <6>1 DEF Key
          <6>4. Contested(s, j)' \/ Agreed(j)' \/ (j = k /\ at'[s] \in {"write_valid", "record_run"})
            BY <3>6, <5>1, <5>2, <6>2
          <6>5. QED
            BY <5>4, <6>3, <6>4 DEF Contested, Agreed
        <5>7. /\ at'[s] = "record_run" =>
                   Contested(s, RunId(s))' \/ (RunId(s)' \in DOMAIN files' /\ files'[RunId(s)'].content = Head(saw'[s].left))
              /\ at'[s] = "ingest_edges" => RunId(s)' \in DOMAIN runs' /\ (Contested(s, RunId(s))' \/ Agreed(RunId(s))')
          BY <3>3, <5>1, <5>4, <5>5 DEF Contested, Agreed
        <5>8. QED
          BY <5>4, <5>6, <5>7 DEF IngestTold
      <4>3. QED
        BY <4>1, <4>2
    <3>8. ASSUME NEW k \in DOMAIN runs PROVE Settled(k)'
      <4>1. \A s \in Requests : Writer(s, k) => (Succeeded(s)' <=> Succeeded(s))
        BY <3>3, <3>4 DEF Writer, Succeeded, Ended
      <4>2. QED
        BY <2>a, <3>5, <3>6, <4>1 DEF Settled, Writer
    <3>9. QED
      BY <2>a, <3>3, <3>7, <3>8 DEF RunsInv
  <2>2. ASSUME NEW r \in Requests, Step(r) \/ Fails(r) PROVE RunsInv'
    <3>1. ASSUME NEW s \in Requests PROVE IngestTold(s)'
      BY <2>a, <2>2, IngestGoesOn, OthersContest
    <3>2. \A k \in DOMAIN runs' : Settled(k)'
      BY <2>2, RowsStaySettled
    <3>3. DOMAIN runs \subseteq DOMAIN runs'
      BY <2>2, OthersLeaveTheRest DEF RecordRun, Put
    <3>4. \A e \in edges' : e[1] = "loaded" => e[2] \in DOMAIN runs'
      <4>1. CASE UNCHANGED edges
        BY <2>a, <3>3, <4>1
      <4>2. CASE CreatedEdge(r)
        BY <2>a, <3>3, <4>2 DEF CreatedEdge
      <4>3. CASE IngestEdges(r)
        <5>1. at[r] = "ingest_edges" /\ edges' = edges \cup {<<"loaded", RunId(r)>>}
          BY <4>3 DEF IngestEdges
        <5>2. RunId(r) \in DOMAIN runs
          BY <2>a, <5>1 DEF IngestTold, InFile
        <5>3. QED
          BY <2>a, <3>3, <5>1, <5>2
      <4>4. QED
        BY <2>2, <4>1, <4>2, <4>3, OthersLeaveTheRest
    <3>5. QED
      BY <2>a, <3>1, <3>2, <3>4 DEF RunsInv
  <2>3. CASE UNCHANGED vars
    <3>1. UNCHANGED <<files, runs, edges, saw, answer, at, call, before>>
      BY <2>3 DEF vars
    <3>2. \A s, k : (Writer(s, k)' <=> Writer(s, k)) /\ (Contested(s, k)' <=> Contested(s, k)) /\ (Agreed(k)' <=> Agreed(k))
      BY <3>1 DEF Writer, Contested, Agreed, Key, Overlap
    <3>3. \A s \in Requests : IngestTold(s)'
      BY <2>a, <3>1, <3>2 DEF IngestTold, InFile, RunId, Finished, Key
    <3>4. \A k \in DOMAIN runs : Settled(k)'
      BY <2>a, <3>1, <3>2 DEF Settled, Succeeded, Ended
    <3>5. QED
      BY <2>a, <3>1, <3>3, <3>4 DEF RunsInv
  <2>4. QED
    BY <2>1, <2>2, <2>3 DEF Next
<1>3. RunsInv => RunRowsDescribeTheirFiles
  <2> SUFFICES ASSUME RunsInv PROVE RunRowsDescribeTheirFiles
    OBVIOUS
  <2>1. ASSUME NEW r \in Requests, NEW k, Writer(r, k) PROVE \E w \in Writes(r) : w[2] = k
    <3>1. PICK i \in 1..Len(call[r].files) : Key(r, call[r].files[i]) = k
      BY <2>1 DEF Writer
    <3>2. <<call[r].files[i], k>> \in Writes(r)
      BY <2>1, <3>1 DEF Writer, Writes, Key
    <3>3. QED
      BY <3>2
  <2>2. ASSUME NEW k \in DOMAIN runs
        PROVE  LET writers == {r \in Requests : \E w \in Writes(r) : w[2] = k} IN
               \/ k \in DOMAIN files /\ runs[k] = files[k].content
               \/ \E r \in writers : ~Succeeded(r)
               \/ \E r, s \in writers : r # s /\ Overlap(r, s)
    <3>1. CASE Agreed(k)
      BY <3>1 DEF Agreed
    <3>2. ASSUME NEW r \in Requests, Writer(r, k), ~Succeeded(r) \/ Contested(r, k)
          PROVE  LET writers == {q \in Requests : \E w \in Writes(q) : w[2] = k} IN
                 (\E q \in writers : ~Succeeded(q)) \/ \E q, s \in writers : q # s /\ Overlap(q, s)
      BY <2>1, <3>2 DEF Contested
    <3>3. QED
      BY <2>2, <3>1, <3>2 DEF Settled, RunsInv
  <2>3. \A k \in DOMAIN files : <<"loaded", k>> \in edges => k \in DOMAIN runs
    BY DEF RunsInv
  <2>4. QED
    BY <2>2, <2>3 DEF RunRowsDescribeTheirFiles
<1>4. QED
  BY <1>1, <1>2, <1>3, OrderedInitially, OrderedIsKept, PTL DEF Spec

-----------------------------------------------------------------------------
(* Rebuilds.                                                                *)

Item(r, i) == <<call[r].files[i], Key(r, call[r].files[i])>>
Rivalled(r, w) == \E q \in Requests : \E x \in Writes(q) : x[2] = w[2] /\ <<q, x>> # <<r, w>>
Written(w) == w[2] \in DOMAIN files /\ files[w[2]].content = w[1]
Holds(r, w) == Rivalled(r, w) \/ Written(w)

\* What an ingestion has written lies where it wrote it, unless another file of the
\* same name took its place.
StoreTold(r) ==
  /\ InFile(r) => \A i \in 1..(Finished(r) + 1) :
       \/ Holds(r, Item(r, i))
       \/ Key(r, call[r].files[i]) = RunId(r) /\ at[r] = "write_valid"
       \/ i = Finished(r) + 1 /\ at[r] \in {"check_active", "open_valid"}
  /\ Succeeded(r) /\ call[r].op = "ingest" => \A w \in Writes(r) : Holds(r, w)

StoreInv == PlacedTold /\ \A r \in Requests : StoreTold(r)

\* What an ingestion writes is settled when it comes in.
LEMMA RivalsStay ==
  ASSUME Ordered, [Next]_vars, NEW r \in Requests, at[r] # "idle"
  PROVE  Writes(r)' = Writes(r) /\ \A w : Rivalled(r, w) => Rivalled(r, w)'
<1>1. \A q \in Requests : at[q] # "idle" => at'[q] # "idle" /\ call'[q] = call[q]
  BY CallsStay
<1>2. \A q \in Requests : at[q] # "idle" => Writes(q)' = Writes(q)
  BY <1>1 DEF Writes
<1>3. \A q \in Requests : \A x \in Writes(q) : at[q] # "idle"
  BY DEF Writes
<1>4. QED
  BY <1>2, <1>3 DEF Rivalled

\* What each ingestion writes, item by item.
LEMMA ItemsAreWritten ==
  ASSUME NEW r \in Requests, at[r] # "idle", call[r].op = "ingest"
  PROVE  /\ \A i \in 1..Len(call[r].files) : Item(r, i) \in Writes(r)
         /\ \A w \in Writes(r) : \E i \in 1..Len(call[r].files) : w = Item(r, i)
BY DEF Writes, Item, Key

\* The files of an ingestion stay where they are, or another takes their place.
LEMMA OthersRival ==
  ASSUME Ordered, StoreInv, NEW s \in Requests, Step(s) \/ Fails(s), NEW r \in Requests, r # s, StoreTold(r)
  PROVE  StoreTold(r)'
<1>a. Moves(s) /\ saw' = [saw EXCEPT ![s] = saw'[s]]
  BY StepMoves, OthersReadNothing DEF Ordered, Timely
<1>b. at'[r] = at[r] /\ answer'[r] = answer[r] /\ call' = call /\ saw'[r] = saw[r]
  BY <1>a DEF Moves, Ordered, Timely, Shape, OnPath
<1>c. [Next]_vars /\ at[s] # "idle"
  BY <1>a DEF Next, Moves
<1>1. ASSUME at[r] # "idle", NEW w, Holds(r, w) PROVE Holds(r, w)'
  <2>1. CASE Rivalled(r, w)
    BY <1>c, <1>1, <2>1, RivalsStay DEF Holds
  <2>2. CASE Written(w) /\ Untouched(w[2])
    BY <2>2 DEF Holds, Written, Untouched
  <2>3. CASE ~Untouched(w[2])
    <3>1. w[2] = RunId(s) /\ (OpenValid(s) \/ WriteValid(s) \/ RecordRun(s))
      BY <2>3, IngestsWriteTheirOwn DEF StoreInv
    <3>2. InFile(s)
      BY <3>1 DEF OpenValid, WriteValid, RecordRun, InFile
    <3>3. Finished(s) + 1 \in 1..Len(call[s].files) /\ RunId(s) = Key(s, call[s].files[Finished(s) + 1])
      BY <3>2, IngestsWriteTheirOwn DEF StoreInv
    <3>4. Item(s, Finished(s) + 1) \in Writes(s)
      BY <1>c, <3>2, <3>3, IngestsOnly, ItemsAreWritten
    <3>5. Rivalled(r, w)
      BY <3>1, <3>3, <3>4 DEF Rivalled, Item
    <3>6. QED
      BY <1>c, <1>1, <3>5, RivalsStay DEF Holds
  <2>4. QED
    BY <1>1, <2>1, <2>2, <2>3 DEF Holds
<1>2. InFile(r)' => \A i \in 1..(Finished(r)' + 1) :
         \/ Holds(r, Item(r, i))'
         \/ Key(r, call[r].files[i])' = RunId(r)' /\ at'[r] = "write_valid"
         \/ i = Finished(r)' + 1 /\ at'[r] \in {"check_active", "open_valid"}
  <2>1. SUFFICES ASSUME InFile(r)', NEW i \in 1..(Finished(r)' + 1)
                 PROVE  \/ Holds(r, Item(r, i))'
                        \/ Key(r, call[r].files[i])' = RunId(r)' /\ at'[r] = "write_valid"
                        \/ i = Finished(r)' + 1 /\ at'[r] \in {"check_active", "open_valid"}
    OBVIOUS
  <2>2. InFile(r) /\ Finished(r)' = Finished(r) /\ RunId(r)' = RunId(r) /\ Key(r, call[r].files[i])' = Key(r, call[r].files[i])
    BY <1>b, <2>1 DEF InFile, Finished, RunId, Key
  <2>3. PICK w : w = Item(r, i)
    OBVIOUS
  <2>4. Item(r, i)' = w
    BY <1>b, <2>3 DEF Item, Key
  <2>5. Holds(r, w) => Holds(r, w)'
    BY <1>1, <2>2 DEF InFile
  <2>6. Holds(r, w)' => Holds(r, Item(r, i))'
    BY <2>4 DEF Holds, Rivalled, Written
  <2>7. QED
    BY <1>b, <2>1, <2>2, <2>3, <2>5, <2>6 DEF StoreTold
<1>3. ASSUME Succeeded(r)', call'[r].op = "ingest", NEW w \in Writes(r)' PROVE Holds(r, w)'
  <2>1. at[r] # "idle" /\ Succeeded(r) /\ call[r].op = "ingest" /\ w \in Writes(r)
    BY <1>b, <1>3 DEF Succeeded, Ended, Writes
  <2>2. QED
    BY <1>1, <2>1 DEF StoreTold
<1>4. QED
  BY <1>2, <1>3 DEF StoreTold

\* Each file an ingestion writes lies there when it turns to the next.
LEMMA StoreGoesOn ==
  ASSUME Ordered, StoreInv, NEW r \in Requests, Step(r) \/ Fails(r)
  PROVE  StoreTold(r)'
<1>a. /\ at = [q \in Requests |-> at[q]] /\ saw = [q \in Requests |-> saw[q]] /\ answer = [q \in Requests |-> answer[q]]
      /\ Moves(r) /\ UNCHANGED call /\ StoreTold(r) /\ PlacedTold
  BY StepMoves DEF Ordered, Timely, Shape, OnPath, Moves, StoreInv
<1>b. [Next]_vars /\ at[r] \notin {"idle", "done"} /\ at[r] \in Path[call[r].op]
  BY <1>a DEF Next, Moves, Ordered, OnPath, UnderWay
<1>c. \A w : Rivalled(r, w) => Rivalled(r, w)'
  BY <1>b, RivalsStay
<1>d. Writes(r)' = Writes(r)
  BY <1>b, RivalsStay
<1>1. CASE call[r].op # "ingest"
  <2>1. ~InFile(r)'
    <3>1. at'[r] \in Path[call[r].op] \cup {"done"}
      BY <1>a, PathIsKept DEF Fails
    <3>2. call[r] \in Calls
      BY <1>b DEF Ordered, OnPath
    <3>3. QED
      BY <1>1, <3>1, <3>2, TenantsAssumption DEF InFile, Path, ApiOps, OperatorOps
  <2>2. QED
    BY <1>1, <1>a, <2>1 DEF StoreTold
<1>2. CASE Fails(r)
  <2>1. at'[r] = "done" /\ answer'[r] = 500
    BY <1>2, <1>a DEF Fails
  <2>2. QED
    BY <2>1 DEF StoreTold, InFile, Succeeded, Ended
<1>3. CASE Step(r) /\ call[r].op = "ingest"
  <2>1. CheckDirectory(r) \/ CheckActive(r) \/ OpenValid(r) \/ WriteValid(r) \/ RecordRun(r) \/ IngestEdges(r)
    BY <1>3, <1>b, StepAt DEF Path
  <2>2. CASE CheckDirectory(r)
    <3>1. at'[r] \in {"check_active", "done"} /\ call[r].files \in Seq(DOMAIN Stem) /\ saw'[r].left = call[r].files
      BY <1>a, <2>2, StepLeads, IngestsOnly DEF CheckDirectory, Note
    <3>2. CASE at'[r] = "check_active"
      <4>1. Finished(r)' = 0
        BY <1>a, <3>1 DEF Finished
      <4>2. QED
        BY <3>2, <4>1 DEF StoreTold, Succeeded, Ended
    <3>3. CASE at'[r] = "done"
      <4>1. answer'[r] = 200 => call[r].files = <<>>
        BY <1>a, <2>2, <3>3 DEF CheckDirectory, Answer, Goto
      <4>2. answer'[r] = 200 => Writes(r) = {}
        BY <4>1 DEF Writes
      <4>3. QED
        BY <1>d, <3>3, <4>2 DEF StoreTold, InFile, Succeeded, Ended
    <3>4. QED
      BY <3>1, <3>2, <3>3
  <2>n. PICK n \in Nat : ~CheckDirectory(r) => n = Finished(r)
    <3>1. CASE ~CheckDirectory(r)
      <4>1. InFile(r)
        BY <2>1, <3>1 DEF CheckActive, OpenValid, WriteValid, RecordRun, IngestEdges, InFile
      <4>2. QED
        BY <1>a, <4>1, IngestsWriteTheirOwn
    <3>2. QED
      BY <3>1
  <2>k. PICK k, c : k = RunId(r) /\ c = Item(r, n + 1)
    OBVIOUS
  <2>a. n \in Nat /\ (~CheckDirectory(r) => n = Finished(r)) /\ k = RunId(r) /\ c = Item(r, n + 1)
    BY <2>n, <2>k
  <2>b. ASSUME ~CheckDirectory(r)
        PROVE  /\ InFile(r) /\ c \in Writes(r) /\ c[2] = k /\ c[1] = Head(saw[r].left)
               /\ \A i \in 1..(n + 1) : \A w : w = Item(r, i) =>
                    Holds(r, w) \/ (w[2] = k /\ at[r] = "write_valid") \/ (i = n + 1 /\ at[r] \in {"check_active", "open_valid"})
    <3>1. InFile(r)
      BY <2>1, <2>b DEF CheckActive, OpenValid, WriteValid, RecordRun, IngestEdges, InFile
    <3>2. /\ Head(saw[r].left) = call[r].files[n + 1] /\ n + 1 \in 1..Len(call[r].files)
          /\ k = Key(r, call[r].files[n + 1])
      BY <1>a, <2>a, <2>b, <3>1, IngestsWriteTheirOwn
    <3>3. c \in Writes(r)
      BY <1>3, <1>b, <2>a, <2>b, <3>2, ItemsAreWritten
    <3>4. c[2] = k /\ c[1] = Head(saw[r].left)
      BY <2>a, <2>b, <3>2 DEF Item
    <3>5. QED
      BY <1>a, <2>a, <2>b, <3>1, <3>3, <3>4 DEF StoreTold, Item
  <2>c. ASSUME ~CheckDirectory(r), UNCHANGED saw, at'[r] # "done",
               \A i \in 1..(n + 1) : \A w : w = Item(r, i) =>
                 Holds(r, w)' \/ (w[2] = k /\ at'[r] = "write_valid") \/ (i = n + 1 /\ at'[r] \in {"check_active", "open_valid"})
        PROVE  StoreTold(r)'
    <3>1. Finished(r)' = n /\ RunId(r)' = k
      BY <1>a, <2>a, <2>c DEF Finished, RunId
    <3>2. ASSUME NEW i \in 1..(n + 1)
          PROVE  \/ Holds(r, Item(r, i))'
                 \/ Key(r, call[r].files[i])' = RunId(r)' /\ at'[r] = "write_valid"
                 \/ i = n + 1 /\ at'[r] \in {"check_active", "open_valid"}
      <4>1. PICK w : w = Item(r, i)
        OBVIOUS
      <4>2. Item(r, i)' = w /\ Key(r, call[r].files[i])' = w[2]
        BY <1>a, <4>1 DEF Item, Key
      <4>3. Holds(r, w)' => Holds(r, Item(r, i))'
        BY <4>2 DEF Holds, Rivalled, Written
      <4>4. QED
        BY <2>c, <3>1, <4>1, <4>2, <4>3
    <3>3. QED
      BY <2>c, <3>1, <3>2 DEF StoreTold, Succeeded, Ended
  <2>3. CASE CheckActive(r)
    <3>1. CASE at'[r] = "done"
      <4>1. answer'[r] = 500
        BY <1>a, <2>3, <3>1 DEF CheckActive, Answer, Goto
      <4>2. QED
        BY <3>1, <4>1 DEF StoreTold, InFile, Succeeded, Ended
    <3>2. CASE at'[r] # "done"
      <4>1. at[r] = "check_active" /\ at'[r] = "open_valid" /\ UNCHANGED <<files, saw>> /\ ~CheckDirectory(r)
        BY <2>3, <3>2, StepLeads DEF CheckActive, CheckDirectory, data, Keep
      <4>2. \A w : Holds(r, w) => Holds(r, w)'
        BY <1>c, <4>1 DEF Holds, Written
      <4>3. QED
        BY <2>b, <2>c, <4>1, <4>2
    <3>3. QED
      BY <3>1, <3>2
  <2>4. CASE OpenValid(r)
    <3>1. at[r] = "open_valid" /\ at'[r] = "write_valid" /\ UNCHANGED saw /\ ~CheckDirectory(r)
      BY <2>4, StepLeads DEF OpenValid, CheckDirectory, Keep
    <3>2. \A w : w[2] # k => (Holds(r, w) => Holds(r, w)')
      BY <1>a, <1>c, <2>4, <2>a, <3>1, IngestsWriteTheirOwn DEF Holds, Written, Untouched
    <3>3. \A w : w = Item(r, n + 1) => w[2] = k
      BY <2>a, <2>b, <3>1
    <3>4. QED
      BY <2>b, <2>c, <3>1, <3>2, <3>3
  <2>5. CASE WriteValid(r)
    <3>1. at[r] = "write_valid" /\ at'[r] = "record_run" /\ UNCHANGED saw /\ ~CheckDirectory(r)
      BY <2>5, StepLeads DEF WriteValid, CheckDirectory, Keep
    <3>2. \A w : w[2] # k => (Holds(r, w) => Holds(r, w)')
      BY <1>a, <1>c, <2>5, <2>a, <3>1, IngestsWriteTheirOwn DEF Holds, Written, Untouched
    <3>3. Written(c)'
      <4>1. k \in DOMAIN files' /\ files'[k].content = Head(saw[r].left)
        BY <2>5, <2>a, <3>1 DEF WriteValid, Store, Put
      <4>2. QED
        BY <2>b, <3>1, <4>1 DEF Written
    <3>4. \A w : w[2] = k => Holds(r, w)'
      <4>1. TAKE w
      <4>2. SUFFICES ASSUME w[2] = k, w # c PROVE Holds(r, w)'
        BY <3>3 DEF Holds
      <4>3. Rivalled(r, w)
        BY <2>b, <3>1, <4>2 DEF Rivalled
      <4>4. QED
        BY <1>c, <4>3 DEF Holds
    <3>5. QED
      BY <2>b, <2>c, <3>1, <3>2, <3>4
  <2>6. CASE RecordRun(r)
    <3>1. at[r] = "record_run" /\ at'[r] = "ingest_edges" /\ UNCHANGED <<files, saw>> /\ ~CheckDirectory(r)
      BY <2>6, StepLeads DEF RecordRun, CheckDirectory, Keep
    <3>2. \A w : Holds(r, w) => Holds(r, w)'
      BY <1>c, <3>1 DEF Holds, Written
    <3>3. QED
      BY <2>b, <2>c, <3>1, <3>2
  <2>7. CASE IngestEdges(r)
    <3>1. at[r] = "ingest_edges" /\ at'[r] \in {"check_active", "done"} /\ UNCHANGED files /\ ~CheckDirectory(r)
      BY <2>7, StepLeads DEF IngestEdges, CheckDirectory, data
    <3>2. \A w : Holds(r, w) => Holds(r, w)'
      BY <1>c, <3>1 DEF Holds, Written
    <3>3. Placed(r) /\ call[r].files \in Seq(DOMAIN Stem)
      BY <1>a, <2>b, <3>1, IngestsOnly DEF PlacedTold
    <3>4. PICK l \in Nat, m \in Nat : l = Len(call[r].files) /\ m = Len(saw[r].left) /\ 1 =< m /\ l = n + m
      BY <2>a, <3>1, <3>3, HowManyLeft
    <3>n. n \in Nat /\ l \in Nat /\ m \in Nat /\ 1 =< m /\ l = n + m
      BY <2>n, <3>4
    <3>5. \A i \in 1..(n + 1) : \A w : w = Item(r, i) => Holds(r, w)'
      BY <2>b, <3>1, <3>2
    <3>6. CASE at'[r] = "check_active"
      <4>1. Finished(r)' = n + 1
        <5>1. saw[r].left \in Seq(DOMAIN Stem) /\ saw[r].left # <<>>
          BY <3>3, <3>4 DEF Placed
        <5>2. saw'[r].left = Tail(saw[r].left)
          BY <1>a, <2>7 DEF IngestEdges, Note
        <5>3. Len(saw'[r].left) = m - 1
          BY <3>4, <5>1, <5>2, Tails
        <5>4. Finished(r)' = l - (m - 1)
          BY <1>a, <3>4, <5>3 DEF Finished
        <5>5. QED
          BY <3>n, <5>4
      <4>2. ASSUME NEW i \in 1..((n + 1) + 1), i # (n + 1) + 1 PROVE Holds(r, Item(r, i))'
        <5>1. PICK w : w = Item(r, i)
          OBVIOUS
        <5>2. Item(r, i)' = w
          BY <1>a, <5>1 DEF Item, Key
        <5>3. i \in 1..(n + 1)
          BY <4>2
        <5>4. Holds(r, w)'
          BY <3>5, <5>1, <5>3
        <5>5. QED
          BY <5>2, <5>4 DEF Holds, Rivalled, Written
      <4>3. QED
        BY <3>6, <4>1, <4>2 DEF StoreTold, Succeeded, Ended
    <3>7. CASE at'[r] = "done"
      <4>1. m = 1
        <5>1. ~(Len(saw[r].left) > 1)
          BY <1>a, <2>7, <3>7 DEF IngestEdges, Goto
        <5>2. ~(m > 1)
          BY <3>4, <5>1
        <5>3. QED
          BY <3>n, <5>2
      <4>2. \A w \in Writes(r) : \E i \in 1..(n + 1) : w = Item(r, i)
        BY <1>3, <1>b, <3>4, <4>1, ItemsAreWritten
      <4>3. QED
        BY <1>d, <3>5, <3>7, <4>2 DEF StoreTold, InFile
    <3>8. QED
      BY <3>1, <3>6, <3>7
  <2>8. QED
    BY <2>1, <2>2, <2>3, <2>4, <2>5, <2>6, <2>7
<1>4. QED
  BY <1>1, <1>2, <1>3

\* No call that has just come in is anywhere in its files.
LEMMA StoreAtTheDoor ==
  ASSUME Ordered, StoreInv, NEW r \in Requests, Receive(r), NEW s \in Requests
  PROVE  StoreTold(s)'
<1>1. PICK c \in Calls : call' = [call EXCEPT ![r] = c] /\ at' = [at EXCEPT ![r] = Opening[c.op]]
  BY DEF Receive
<1>2. Opening[c.op] \notin {"idle", "done", "check_active", "open_valid", "write_valid", "record_run", "ingest_edges"}
  BY TenantsAssumption DEF Opening, ApiOps, OperatorOps
<1>3. at[r] = "idle" /\ UNCHANGED <<files, saw, answer>> /\ [Next]_vars
  BY DEF Receive, data, Next
<1>4. ~InFile(r)' /\ at'[r] # "done" /\ \A q \in Requests : q # r => at'[q] = at[q] /\ call'[q] = call[q]
  BY <1>1, <1>2 DEF InFile, Ordered, Timely, Shape
<1>5. CASE s = r
  BY <1>4, <1>5 DEF StoreTold, Succeeded, Ended
<1>6. CASE s # r /\ at[s] = "idle"
  BY <1>4, <1>6 DEF StoreTold, InFile, Succeeded, Ended
<1>7. CASE s # r /\ at[s] # "idle"
  <2>1. at'[s] = at[s] /\ call'[s] = call[s] /\ saw'[s] = saw[s] /\ answer'[s] = answer[s] /\ StoreTold(s)
    BY <1>3, <1>4, <1>7 DEF StoreInv
  <2>2. Writes(s)' = Writes(s) /\ \A w : Rivalled(s, w) => Rivalled(s, w)'
    BY <1>3, <1>7, RivalsStay
  <2>3. \A w : Holds(s, w) => Holds(s, w)'
    BY <1>3, <2>2 DEF Holds, Written
  <2>4. Finished(s)' = Finished(s) /\ RunId(s)' = RunId(s) /\ (InFile(s)' <=> InFile(s)) /\ (Succeeded(s)' <=> Succeeded(s))
    BY <2>1 DEF Finished, RunId, InFile, Succeeded, Ended
  <2>5. ASSUME InFile(s), NEW i \in 1..(Finished(s) + 1)
        PROVE  \/ Holds(s, Item(s, i))'
               \/ Key(s, call[s].files[i])' = RunId(s)' /\ at'[s] = "write_valid"
               \/ i = Finished(s)' + 1 /\ at'[s] \in {"check_active", "open_valid"}
    <3>1. PICK w : w = Item(s, i)
      OBVIOUS
    <3>2. Item(s, i)' = w /\ Key(s, call[s].files[i])' = Key(s, call[s].files[i])
      BY <2>1, <3>1 DEF Item, Key
    <3>3. Holds(s, w)' => Holds(s, Item(s, i))'
      BY <3>2 DEF Holds, Rivalled, Written
    <3>4. QED
      BY <2>1, <2>3, <2>4, <2>5, <3>1, <3>2, <3>3 DEF StoreTold
  <2>6. QED
    BY <2>1, <2>2, <2>3, <2>4, <2>5 DEF StoreTold
<1>8. QED
  BY <1>5, <1>6, <1>7

RowOf(r, w) == Row(call[r].tenant, w[1])

\* Another rebuild stopped half way; another has dropped the table and not yet loaded
\* it; another has taken the row out of the facts and will insert it again.
Stopped(s) == \E q \in Requests : q # s /\ at[q] = "done" /\ call[q].op = "rebuild" /\ answer[q] # 200
Reloading(s) == \E q \in Requests : q # s /\ at[q] = "load_files"
Inserting(s, row) == \E q \in Requests : q # s /\ at[q] = "insert_facts" /\ row \in saw[q].rows

\* What a rebuild has taken over of the ingestions that were over when it came in.
RebuildTold(s) ==
  \A r \in before[s] : \A w \in Writes(r) :
    Succeeded(r) /\ ~Rivalled(r, w) /\ ~Stopped(s) =>
      /\ at[s] = "delete_facts" => Reloading(s) \/ RowOf(r, w) \in raw
      /\ at[s] = "insert_facts" => RowOf(r, w) \in saw[s].rows
      /\ Succeeded(s) /\ call[s].op = "rebuild" => RowOf(r, w) \in facts \/ Inserting(s, RowOf(r, w))

\* Only a rebuild is at the statements of one.
LEMMA RebuildsOnly ==
  ASSUME Ordered, NEW r \in Requests, at[r] \in {"drop_table", "load_files", "delete_facts", "insert_facts"}
  PROVE  call[r].op = "rebuild"
BY TenantsAssumption DEF Ordered, OnPath, UnderWay, Path, ApiOps, OperatorOps

\* A load takes in every file that is whole.
LEMMA LoadsWhatIsWritten ==
  ASSUME NEW r \in Requests, NEW w \in Writes(r), Written(w), call[r].files \in Seq(DOMAIN Stem),
         NEW s \in Requests, LoadFiles(s)
  PROVE  RowOf(r, w) \in raw' \/ Answer(s, 500)
<1>1. PICK i \in 1..Len(call[r].files) : w = <<call[r].files[i], <<call[r].tenant, Stem[call[r].files[i]]>>>>
  BY DEF Writes
<1>2. w[1] # Torn /\ w[2][1] = call[r].tenant
  BY <1>1, TenantsAssumption
<1>3. w[2] \in Loadable \ {k \in Loadable : files[k].content = Torn} /\ files[w[2]].content = w[1]
  BY <1>2 DEF Written, Loadable
<1>4. RowOf(r, w) \in {Row(k[1], files[k].content) : k \in Loadable \ {k \in Loadable : files[k].content = Torn}}
  BY <1>2, <1>3 DEF RowOf, Row
<1>5. QED
  BY <1>4 DEF LoadFiles

\* Rebuilds carry on what they took over, whoever else rebuilds.
LEMMA RebuildGoesOn ==
  ASSUME Ordered, StoreInv, NEW m \in Requests, Step(m) \/ Fails(m), NEW s \in Requests, RebuildTold(s)
  PROVE  RebuildTold(s)'
<1>a. Moves(m) /\ saw' = [saw EXCEPT ![m] = saw'[m]]
  BY StepMoves, OthersReadNothing DEF Ordered, Timely
<1>b. /\ UNCHANGED <<call, before>> /\ at[m] \notin {"idle", "done"} /\ [Next]_vars
      /\ at = [q \in Requests |-> at[q]] /\ answer = [q \in Requests |-> answer[q]] /\ saw = [q \in Requests |-> saw[q]]
      /\ \A q \in Requests : q # m => at'[q] = at[q] /\ answer'[q] = answer[q] /\ saw'[q] = saw[q]
  BY <1>a DEF Moves, Next, Ordered, Timely, Shape, OnPath
<1>c. before[s] \subseteq Requests /\ \A r \in before[s] : at[r] = "done"
  BY DEF Ordered, Timely, Shape, EndedBefore, Ended
<1>1. SUFFICES ASSUME NEW r \in before[s], NEW w \in Writes(r)', Succeeded(r)', ~Rivalled(r, w)', ~Stopped(s)'
               PROVE  /\ at'[s] = "delete_facts" => Reloading(s)' \/ RowOf(r, w)' \in raw'
                      /\ at'[s] = "insert_facts" => RowOf(r, w)' \in saw'[s].rows
                      /\ Succeeded(s)' /\ call'[s].op = "rebuild" => RowOf(r, w)' \in facts' \/ Inserting(s, RowOf(r, w))'
  BY <1>b DEF RebuildTold
<1>2. r \in Requests /\ r # m /\ at[r] = "done" /\ Succeeded(r)
  BY <1>b, <1>c, <1>1 DEF Succeeded, Ended
<1>3. w \in Writes(r) /\ ~Rivalled(r, w)
  BY <1>b, <1>1, <1>2, RivalsStay
<1>4. call[r].op = "ingest" /\ call[r].files \in Seq(DOMAIN Stem)
  <2>1. call[r].op = "ingest" /\ call[r] \in Calls
    BY <1>2, <1>3 DEF Writes, Ordered, OnPath
  <2>2. QED
    BY <2>1, TenantsAssumption
<1>5. Written(w)
  BY <1>2, <1>3, <1>4 DEF StoreInv, StoreTold, Holds
<1>6. PICK row : row = RowOf(r, w)
  OBVIOUS
<1>7. RowOf(r, w)' = row
  BY <1>b, <1>6 DEF RowOf
<1>8. ~Stopped(s)
  BY <1>b, <1>1 DEF Stopped
<1>9. /\ at[s] = "delete_facts" => Reloading(s) \/ row \in raw
      /\ at[s] = "insert_facts" => row \in saw[s].rows
      /\ Succeeded(s) /\ call[s].op = "rebuild" => row \in facts \/ Inserting(s, row)
  BY <1>2, <1>3, <1>6, <1>8 DEF RebuildTold
<1>10. m # s /\ call[m].op = "rebuild" /\ at'[m] = "done" => answer'[m] = 200
  BY <1>b, <1>1 DEF Stopped
<1>11. LoadFiles(m) /\ (m # s \/ at'[m] # "done") => row \in raw'
  <2>1. ASSUME LoadFiles(m), m # s \/ at'[m] # "done" PROVE row \in raw'
    <3>1. call[m].op = "rebuild"
      BY <2>1, RebuildsOnly DEF LoadFiles
    <3>2. row \in raw' \/ Answer(m, 500)
      BY <1>2, <1>3, <1>4, <1>5, <1>6, <2>1, LoadsWhatIsWritten
    <3>3. ~Answer(m, 500)
      BY <1>10, <1>b, <2>1, <3>1 DEF Answer
    <3>4. QED
      BY <3>2, <3>3
  <2>2. QED
    BY <2>1
<1>12. Fails(m) => at'[m] = "done" /\ answer'[m] = 500
  BY <1>b DEF Fails
<1>13. CASE m # s
  <2>1. at'[s] = at[s] /\ answer'[s] = answer[s] /\ saw'[s] = saw[s]
    BY <1>b, <1>13
  <2>2. ASSUME at[s] = "delete_facts" PROVE Reloading(s)' \/ row \in raw'
    <3>1. ASSUME NEW q \in Requests, q # s, at[q] = "load_files" PROVE Reloading(s)' \/ row \in raw'
      <4>1. CASE q # m
        BY <1>b, <3>1, <4>1 DEF Reloading
      <4>2. CASE q = m
        <5>1. ~Fails(m)
          BY <1>10, <1>12, <1>13, <3>1, <4>2, RebuildsOnly
        <5>2. LoadFiles(m)
          BY <3>1, <4>2, <5>1, StepAt
        <5>3. QED
          BY <1>11, <1>13, <5>2
      <4>3. QED
        BY <4>1, <4>2
    <3>2. CASE row \in raw
      <4>1. CASE UNCHANGED raw
        BY <3>2, <4>1
      <4>2. CASE DropTable(m)
        BY <1>13, <4>2, StepLeads DEF Reloading
      <4>3. CASE LoadFiles(m)
        BY <1>11, <1>13, <4>3
      <4>4. QED
        BY <4>1, <4>2, <4>3, OthersLeaveTheRest
    <3>3. QED
      BY <1>9, <2>2, <3>1, <3>2 DEF Reloading
  <2>3. ASSUME Succeeded(s), call[s].op = "rebuild" PROVE row \in facts' \/ Inserting(s, row)'
    <3>1. CASE row \in facts
      <4>1. CASE UNCHANGED facts
        BY <3>1, <4>1
      <4>2. CASE DeleteFacts(m)
        <5>1. \/ UNCHANGED facts
              \/ facts' = facts \ raw /\ saw'[m] = [rows |-> raw] /\ at'[m] = "insert_facts"
          BY <1>b, <4>2 DEF DeleteFacts, Replaced, Note, Goto
        <5>2. QED
          BY <1>13, <3>1, <5>1 DEF Inserting
      <4>3. CASE InsertFacts(m)
        BY <3>1, <4>3 DEF InsertFacts
      <4>4. QED
        BY <4>1, <4>2, <4>3, OthersLeaveTheRest
    <3>2. ASSUME NEW q \in Requests, q # s, at[q] = "insert_facts", row \in saw[q].rows
          PROVE  row \in facts' \/ Inserting(s, row)'
      <4>1. CASE q # m
        BY <1>b, <3>2, <4>1 DEF Inserting
      <4>2. CASE q = m
        <5>1. ~Fails(m)
          BY <1>10, <1>12, <1>13, <3>2, <4>2, RebuildsOnly
        <5>2. InsertFacts(m)
          BY <3>2, <4>2, <5>1, StepAt
        <5>3. QED
          BY <3>2, <4>2, <5>2 DEF InsertFacts
      <4>3. QED
        BY <4>1, <4>2
    <3>3. QED
      BY <1>9, <2>3, <3>1, <3>2 DEF Inserting
  <2>4. Inserting(s, row)' => Inserting(s, RowOf(r, w))'
    BY <1>7 DEF Inserting
  <2>5. Succeeded(s)' = Succeeded(s)
    BY <2>1 DEF Succeeded, Ended
  <2>6. QED
    BY <1>7, <1>9, <1>b, <2>1, <2>2, <2>3, <2>4, <2>5
<1>14. CASE m = s
  <2>1. ASSUME at'[s] = "delete_facts" PROVE row \in raw'
    <3>1. LoadFiles(s)
      BY <1>12, <1>14, <2>1, StepLeads DEF Step
    <3>2. QED
      BY <1>11, <1>14, <2>1, <3>1
  <2>2. ASSUME at'[s] = "insert_facts" PROVE row \in saw'[s].rows
    <3>1. DeleteFacts(s)
      BY <1>12, <1>14, <2>2, StepLeads DEF Step
    <3>2. at[s] = "delete_facts" /\ Free(s) /\ saw'[s] = [rows |-> raw]
      BY <1>b, <2>2, <3>1 DEF DeleteFacts, Note, Answer
    <3>3. ~Reloading(s)
      <4>1. call[s].op = "rebuild"
        BY <3>2, RebuildsOnly
      <4>2. QED
        BY <3>2, <4>1 DEF Reloading, Free, MidBlock, SameProcess, ApiOps
    <3>4. QED
      BY <1>9, <3>2, <3>3
  <2>3. ASSUME Succeeded(s)', call[s].op = "rebuild" PROVE row \in facts'
    <3>1. at'[s] = "done" /\ answer'[s] = 200
      BY <2>3 DEF Succeeded, Ended
    <3>2. \/ IssueToken(s) \/ Revoke(s) \/ SetStatus(s) \/ DropSchema(s) \/ RecordSchema(s)
          \/ CheckDirectory(s) \/ IngestEdges(s) \/ InsertFacts(s)
      BY <1>14, <3>1, StepAnswers
    <3>3. at[s] \in Path.rebuild
      BY <1>b, <1>14, <2>3 DEF Ordered, OnPath, UnderWay
    <3>4. InsertFacts(s)
      BY <3>2, <3>3 DEF Path, IssueToken, Revoke, SetStatus, DropSchema, RecordSchema, CheckDirectory, IngestEdges
    <3>5. QED
      BY <1>9, <3>4 DEF InsertFacts
  <2>4. QED
    BY <1>7, <1>b, <2>1, <2>2, <2>3
<1>15. QED
  BY <1>13, <1>14

\* A rebuild that succeeds has every order of every ingestion that was over when it
\* came in, unless another file took the name of one or another rebuild stopped half
\* way, for any number of each.
THEOREM RebuildsAreComplete == Spec => []RebuildIsComplete
<1> DEFINE Inv == StoreInv /\ \A s \in Requests : RebuildTold(s)
<1>1. Init => Inv
  <2> SUFFICES ASSUME Init PROVE Inv
    OBVIOUS
  <2>1. \A r \in Requests : at[r] = "idle" /\ before[r] = {}
    BY DEF Init
  <2>2. QED
    BY <2>1 DEF StoreInv, PlacedTold, StoreTold, InFile, Succeeded, Ended, RebuildTold
<1>2. Ordered /\ Inv /\ [Next]_vars => Inv'
  <2> SUFFICES ASSUME Ordered, Inv, [Next]_vars PROVE Inv'
    OBVIOUS
  <2>a. PlacedTold'
    BY PlacedIsKept DEF StoreInv
  <2>1. ASSUME NEW r \in Requests, Receive(r) PROVE Inv'
    <3>1. StoreInv'
      BY <2>a, <2>1, StoreAtTheDoor DEF StoreInv
    <3>2. PICK c \in Calls : call' = [call EXCEPT ![r] = c] /\ at' = [at EXCEPT ![r] = Opening[c.op]]
      BY <2>1 DEF Receive
    <3>3. Opening[c.op] \notin {"idle", "done", "load_files", "delete_facts", "insert_facts"}
      BY TenantsAssumption DEF Opening, ApiOps, OperatorOps
    <3>4. at[r] = "idle" /\ UNCHANGED <<raw, facts, saw, answer>> /\ before' = [before EXCEPT ![r] = {s \in Requests : Ended(s)}]
      BY <2>1 DEF Receive, data
    <3>5. /\ at'[r] = Opening[c.op]
          /\ \A q \in Requests : q # r => at'[q] = at[q] /\ call'[q] = call[q] /\ before'[q] = before[q]
      BY <3>2, <3>4 DEF Ordered, Timely, Shape
    <3>6. RebuildTold(r)'
      BY <3>3, <3>5 DEF RebuildTold, Succeeded, Ended
    <3>7. ASSUME NEW s \in Requests, s # r PROVE RebuildTold(s)'
      <4>1. SUFFICES ASSUME NEW q \in before[s], NEW w \in Writes(q)', Succeeded(q)', ~Rivalled(q, w)', ~Stopped(s)'
                     PROVE  /\ at'[s] = "delete_facts" => Reloading(s)' \/ RowOf(q, w)' \in raw'
                            /\ at'[s] = "insert_facts" => RowOf(q, w)' \in saw'[s].rows
                            /\ Succeeded(s)' /\ call'[s].op = "rebuild" => RowOf(q, w)' \in facts' \/ Inserting(s, RowOf(q, w))'
        BY <3>5, <3>7 DEF RebuildTold
      <4>2. q \in Requests /\ at[q] = "done" /\ q # r
        BY <3>4 DEF Ordered, Timely, Shape, EndedBefore, Ended
      <4>3. Succeeded(q) /\ w \in Writes(q) /\ ~Rivalled(q, w)
        BY <3>4, <3>5, <4>1, <4>2, RivalsStay DEF Succeeded, Ended
      <4>4. ~Stopped(s)
        <5>1. Stopped(s) => Stopped(s)'
          BY <3>4, <3>5 DEF Stopped
        <5>2. QED
          BY <4>1, <5>1
      <4>5. PICK row : row = RowOf(q, w)
        OBVIOUS
      <4>6. RowOf(q, w)' = row
        BY <3>5, <4>2, <4>5 DEF RowOf
      <4>7. /\ at[s] = "delete_facts" => Reloading(s) \/ row \in raw
            /\ at[s] = "insert_facts" => row \in saw[s].rows
            /\ Succeeded(s) /\ call[s].op = "rebuild" => row \in facts \/ Inserting(s, row)
        BY <4>2, <4>3, <4>4, <4>5 DEF RebuildTold
      <4>8. (Reloading(s) => Reloading(s)') /\ (Inserting(s, row) => Inserting(s, row)')
        BY <3>4, <3>5 DEF Reloading, Inserting
      <4>9. Inserting(s, row)' => Inserting(s, RowOf(q, w))'
        BY <4>6 DEF Inserting
      <4>10. (Succeeded(s)' <=> Succeeded(s)) /\ at'[s] = at[s] /\ call'[s] = call[s]
        BY <3>4, <3>5, <3>7 DEF Succeeded, Ended
      <4>11. QED
        BY <3>4, <4>6, <4>7, <4>8, <4>9, <4>10
    <3>8. QED
      BY <3>1, <3>6, <3>7
  <2>2. ASSUME NEW r \in Requests, Step(r) \/ Fails(r) PROVE Inv'
    <3>1. ASSUME NEW s \in Requests PROVE StoreTold(s)'
      BY <2>2, StoreGoesOn, OthersRival DEF StoreInv
    <3>2. QED
      BY <2>a, <2>2, <3>1, RebuildGoesOn DEF StoreInv
  <2>3. CASE UNCHANGED vars
    <3>1. UNCHANGED <<files, raw, facts, saw, answer, at, call, before>>
      BY <2>3 DEF vars
    <3>2. \A q : Writes(q)' = Writes(q) /\ (Succeeded(q)' <=> Succeeded(q)) /\ (Stopped(q)' <=> Stopped(q))
                 /\ (Reloading(q)' <=> Reloading(q))
      BY <3>1 DEF Writes, Succeeded, Ended, Stopped, Reloading
    <3>3. \A q, w : (Rivalled(q, w)' <=> Rivalled(q, w)) /\ (Holds(q, w)' <=> Holds(q, w))
      BY <3>1, <3>2 DEF Rivalled, Holds, Written
    <3>4. \A q, w : RowOf(q, w)' = RowOf(q, w) /\ (Inserting(q, w)' <=> Inserting(q, w))
      BY <3>1 DEF RowOf, Inserting
    <3>5. ASSUME NEW s \in Requests PROVE StoreTold(s)'
      <4>1. Finished(s)' = Finished(s) /\ RunId(s)' = RunId(s) /\ (InFile(s)' <=> InFile(s))
        BY <3>1 DEF Finished, RunId, InFile
      <4>2. \A i : Key(s, call[s].files[i])' = Key(s, call[s].files[i])
        BY <3>1 DEF Key
      <4>3. \A i : Holds(s, Item(s, i))' <=> Holds(s, Item(s, i))
        BY <3>1, <3>2, <4>2 DEF Holds, Written, Rivalled, Item
      <4>4. QED
        BY <3>1, <3>2, <3>3, <4>1, <4>2, <4>3 DEF StoreInv, StoreTold
    <3>6. \A s \in Requests : RebuildTold(s)'
      BY <3>1, <3>2, <3>3, <3>4 DEF RebuildTold, Inserting
    <3>7. QED
      BY <2>a, <3>5, <3>6 DEF StoreInv
  <2>4. QED
    BY <2>1, <2>2, <2>3 DEF Next
<1>3. Ordered /\ Inv => RebuildIsComplete
  <2> SUFFICES ASSUME Ordered, Inv, NEW s \in Ops("rebuild"), NEW r \in before[s], NEW w \in Writes(r),
                      Succeeded(s), Succeeded(r), ~Rivalled(r, w), ~\E q \in Ops("rebuild") : q # s /\ ~Succeeded(q)
               PROVE  Row(call[r].tenant, w[1]) \in facts
    BY DEF RebuildIsComplete, Rivalled
  <2>1. s \in Requests /\ call[s].op = "rebuild"
    BY DEF Ops
  <2>2. ~Stopped(s)
    BY DEF Stopped, Ops, Succeeded
  <2>3. RowOf(r, w) \in facts \/ Inserting(s, RowOf(r, w))
    BY <2>1, <2>2 DEF RebuildTold
  <2>4. ~Inserting(s, RowOf(r, w))
    BY RebuildsOnly DEF Inserting, Ops, Succeeded, Ended
  <2>5. QED
    BY <2>3, <2>4 DEF RowOf
<1>4. QED
  BY <1>1, <1>2, <1>3, OrderedInitially, OrderedIsKept, PTL DEF Spec
================================================================================
