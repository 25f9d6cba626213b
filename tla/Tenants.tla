-------------------------------- MODULE Tenants --------------------------------
(***************************************************************************)
(* Tenants, their accounts and their data: multi_tenant/tenant_manager.py,  *)
(* auth/auth_api.py with auth/auth_models.py, ingestion/tenant_ingest.py    *)
(* and warehouse/duckdb/tenant_elt.sql.                                     *)
(*                                                                          *)
(* A request is one call: of an /auth route, served by a thread of the API  *)
(* process, or of a tenant_manager or tenant_ingest function, made by a     *)
(* script in a process of its own.  Every connection autocommits each       *)
(* statement.  Threads of the API share the database, so their statements   *)
(* interleave; for another process a connection is an exclusive lock from   *)
(* connect_with_retry() to the end of its with block.  A request that fails *)
(* (a lock that is never released, a killed process) stops where it is.     *)
(***************************************************************************)
EXTENDS Integers, Sequences, FiniteSets

CONSTANTS
  Requests,   \* requests; also the ids (uuid4) of what each of them creates
  Calls,      \* the calls they may make
  Stem,       \* Stem[f]: the name without directory and suffix of inbox file f
  FirstTenant, FirstUser, FirstToken,  \* what exists in the beginning
  FirstInvite, \* its invite token
  FirstEmail, \* the address of FirstUser
  None,
  MaxFaults   \* bound: requests that fail for reasons of the machine

ApiOps == {"signup", "join", "login", "refresh", "logout"}
OperatorOps == {"status", "delete", "upgrade", "ingest", "rebuild"}
Ids == Requests \cup {FirstTenant, FirstUser, FirstToken}

Status == {"active", "suspended", "deleted"}
Torn == "torn"  \* what is in a file between write_text()'s truncation and its write

ASSUME TenantsAssumption ==
  /\ {FirstTenant, FirstUser, FirstToken, FirstInvite, None} \cap Requests = {}
  /\ Torn \notin DOMAIN Stem
  /\ MaxFaults \in Nat
  /\ \A c \in Calls : /\ c.op \in ApiOps \cup OperatorOps
                      /\ c.op = "status" => c.to \in Status
                      /\ c.op = "delete" => c.to = "deleted"
                      /\ c.op = "ingest" => c.files \in Seq(DOMAIN Stem)

VARIABLES
  tenants,  \* tenant.tenants: status, whether a schema is recorded, the invite token
  schemas,  \* tenants with a schema of their own in the warehouse
  users,    \* auth.users
  tokens,   \* auth.refresh_tokens; parent is a history field: the token it replaced
  files,    \* the tenants' raw zone: content of each valid file, and who wrote it
  runs,     \* ingestion_runs: the source file of each run id
  edges,    \* lineage_edges
  raw,      \* raw.raw_tenant_orders: its rows, or None while it does not exist
  facts,    \* marts.fact_tenant_orders
  at,       \* what each request does next
  call,     \* what it was asked to do
  saw,      \* what it has read, or has left to do
  answer,   \* its status code, for scripts 200, or 500 for an exception
  before,   \* history: the requests that had ended when it came in
  faults

tenancy == <<tenants, schemas>>
accounts == <<users, tokens>>
data == <<files, runs, raw, facts>>
vars == <<tenants, schemas, users, tokens, files, runs, edges, raw, facts,
          at, call, saw, answer, before, faults>>

Row(t, f) == <<t, f>>
Put(f, k, v) == [x \in DOMAIN f \cup {k} |-> IF x = k THEN v ELSE f[x]]

TypeOK ==
  /\ DOMAIN tenants \subseteq Ids /\ schemas \subseteq DOMAIN tenants
  /\ \A t \in DOMAIN tenants : tenants[t].status \in Status /\ tenants[t].schema \in BOOLEAN
  /\ DOMAIN users \subseteq Ids
  /\ \A k \in DOMAIN tokens : tokens[k].user \in DOMAIN users /\ tokens[k].revoked \in BOOLEAN
  /\ \A k \in DOMAIN files : files[k].by \in Requests
  /\ before \in [Requests -> SUBSET Requests]
  /\ faults \in 0..MaxFaults

Init ==
  /\ \E silo \in BOOLEAN :
       /\ tenants = [t \in {FirstTenant} |-> [status |-> "active", schema |-> silo, invite |-> FirstInvite]]
       /\ schemas = IF silo THEN {FirstTenant} ELSE {}
  /\ users = [u \in {FirstUser} |-> [email |-> FirstEmail, tenant |-> FirstTenant]]
  /\ tokens = [k \in {FirstToken} |-> [user |-> FirstUser, parent |-> None, revoked |-> FALSE]]
  /\ files = [k \in {} |-> None] /\ runs = [k \in {} |-> None]
  /\ edges = {} /\ raw = {} /\ facts = {}
  /\ at = [r \in Requests |-> "idle"] /\ call = [r \in Requests |-> None]
  /\ saw = [r \in Requests |-> None] /\ answer = [r \in Requests |-> None]
  /\ before = [r \in Requests |-> {}]
  /\ faults = 0

-----------------------------------------------------------------------------
(* Requests.                                                                *)

Opening == [signup |-> "insert_tenant", join |-> "read_invite", login |-> "find_user",
            refresh |-> "check_token", logout |-> "revoke",
            status |-> "set_status", delete |-> "get_tenant", upgrade |-> "get_tenant",
            ingest |-> "check_directory", rebuild |-> "drop_table"]

Ended(r) == at[r] = "done"
Succeeded(r) == Ended(r) /\ answer[r] = 200
Ops(op) == {r \in Requests : at[r] # "idle" /\ call[r].op = op}

\* The statements that follow others in the same with block.
MidBlock == {"write_metadata", "insert_user", "record_schema", "load_files", "insert_facts"}
SameProcess(r, s) == {call[r].op, call[s].op} \subseteq ApiOps
Free(r) == \A s \in Requests \ {r} : at[s] \in MidBlock => SameProcess(r, s)

Goto(r, place) == at' = [at EXCEPT ![r] = place] /\ UNCHANGED <<call, answer, before, faults>>
Keep(r) == UNCHANGED saw
Note(r, seen) == saw' = [saw EXCEPT ![r] = seen]
Answer(r, code) ==
  /\ at' = [at EXCEPT ![r] = "done"]
  /\ answer' = [answer EXCEPT ![r] = code]
  /\ UNCHANGED <<call, before, faults>>

\* Ids are drawn afresh: nobody presents a refresh token before it was issued, or
\* names a tenant before it was created.
Presentable(c) ==
  /\ c.op \in {"refresh", "logout"} => c.token \in DOMAIN tokens \/ c.token \notin Requests
  /\ c.op \in {"join", "status", "delete", "upgrade", "ingest"} =>
       c.tenant \in DOMAIN tenants \/ c.tenant \notin Requests

Receive(r) ==
  /\ at[r] = "idle"
  /\ \E c \in Calls :
       /\ Presentable(c)
       /\ call' = [call EXCEPT ![r] = c]
       /\ at' = [at EXCEPT ![r] = Opening[c.op]]
  /\ before' = [before EXCEPT ![r] = {s \in Requests : Ended(s)}]
  /\ UNCHANGED <<tenancy, accounts, data, edges, saw, answer, faults>>

\* The warehouse stays locked, the connection is refused, or the process is killed.
Fails(r) ==
  /\ at[r] \notin {"idle", "done"} /\ faults < MaxFaults
  /\ faults' = faults + 1
  /\ at' = [at EXCEPT ![r] = "done"] /\ answer' = [answer EXCEPT ![r] = 500]
  /\ UNCHANGED <<tenancy, accounts, data, edges, call, saw, before>>

-----------------------------------------------------------------------------
(* Signing up, joining, signing in (auth_api.py).                           *)

\* create_tenant() of signup(): the id is fresh, the policy pooled.
InsertTenant(r) ==
  /\ at[r] = "insert_tenant" /\ Free(r)
  /\ tenants' = Put(tenants, r, [status |-> "active", schema |-> FALSE, invite |-> None])
  /\ Goto(r, "created_edge") /\ Keep(r)
  /\ UNCHANGED <<schemas, accounts, data, edges>>

CreatedEdgeOnly(r) ==
  /\ at[r] = "created_edge" /\ Free(r)
  /\ edges' = edges \cup {<<"created", r>>}
  /\ Goto(r, "find_email") /\ Keep(r)
  /\ UNCHANGED <<tenancy, accounts, data>>

CreatedEdge(r) ==
  /\ at[r] = "created_edge" /\ Free(r)
  /\ edges' = edges \cup {<<"created", r>>}
  /\ Goto(r, "read_metadata") /\ Keep(r)
  /\ UNCHANGED <<tenancy, accounts, data>>

\* update_tenant_metadata(): select, merge, update.
ReadMetadata(r) ==
  /\ at[r] = "read_metadata" /\ Free(r)
  /\ Keep(r) /\ Goto(r, "write_metadata")
  /\ UNCHANGED <<tenancy, accounts, data, edges>>

WriteMetadata(r) ==
  /\ at[r] = "write_metadata" /\ Free(r)
  /\ tenants' = [tenants EXCEPT ![r].invite = r]
  /\ Goto(r, "find_email") /\ Keep(r)
  /\ UNCHANGED <<schemas, accounts, data, edges>>

\* join(): the tenant and its invite token.
ReadInvite(r) ==
  /\ at[r] = "read_invite" /\ Free(r)
  /\ LET t == call[r].tenant IN
     IF t \notin DOMAIN tenants THEN Answer(r, 404)
     ELSE IF tenants[t].invite # call[r].invite THEN Answer(r, 403)
     ELSE Goto(r, "find_email")
  /\ Keep(r)
  /\ UNCHANGED <<tenancy, accounts, data, edges>>

\* create_user(): the checks of its arguments, and the address among all accounts.
HasAccountInTenant(r) ==
  \E u \in DOMAIN users : /\ users[u].email = call[r].email
                          /\ call[r].op = "join" => users[u].tenant = call[r].tenant
HasAccount(r) == \E u \in DOMAIN users : users[u].email = call[r].email

FindEmail(r) ==
  /\ at[r] = "find_email" /\ Free(r)
  /\ IF call[r].weak \/ HasAccount(r) THEN Answer(r, 400) ELSE Goto(r, "insert_user")
  /\ Keep(r)
  /\ UNCHANGED <<tenancy, accounts, data, edges>>

InsertUser(r) ==
  /\ at[r] = "insert_user" /\ Free(r)
  /\ users' = Put(users, r, [email |-> call[r].email,
                             tenant |-> IF call[r].op = "signup" THEN r ELSE call[r].tenant])
  /\ Note(r, [user |-> r]) /\ Goto(r, "issue_token")
  /\ UNCHANGED <<tenancy, tokens, data, edges>>

\* _token_response(): issue_refresh_token() for the user found or created.
IssueToken(r) ==
  /\ at[r] = "issue_token" /\ Free(r)
  /\ tokens' = Put(tokens, r, [user |-> saw[r].user, revoked |-> FALSE,
                               parent |-> IF call[r].op = "refresh" THEN call[r].token ELSE None])
  /\ Answer(r, 200) /\ Keep(r)
  /\ UNCHANGED <<tenancy, users, data, edges>>

\* authenticate(): of several rows with the address, any; the password may be
\* wrong.  record_login() only writes a time.
FindUser(r) ==
  /\ at[r] = "find_user" /\ Free(r)
  /\ IF HasAccount(r) /\ ~call[r].weak
     THEN /\ \E u \in DOMAIN users : users[u].email = call[r].email /\ Note(r, [user |-> u])
          /\ Goto(r, "issue_token")
     ELSE Answer(r, 401) /\ Keep(r)
  /\ UNCHANGED <<tenancy, accounts, data, edges>>

-----------------------------------------------------------------------------
(* Refresh tokens.                                                          *)

KnownToken(k) == k \in DOMAIN tokens
ValidToken(k) == k \in DOMAIN tokens /\ ~tokens[k].revoked

\* refresh(): is_refresh_token_valid(), then get_user_by_id(); accounts are never
\* removed.
CheckToken(r) ==
  /\ at[r] = "check_token" /\ Free(r)
  /\ \E expired \in BOOLEAN :
       IF ValidToken(call[r].token) /\ ~expired
       THEN Note(r, [user |-> tokens[call[r].token].user]) /\ Goto(r, "revoke")
       ELSE Answer(r, 401) /\ Keep(r)
  /\ UNCHANGED <<tenancy, accounts, data, edges>>

\* revoke_refresh_token(), of refresh() and of logout(); an unknown token is no error.
Revoke(r) ==
  /\ at[r] = "revoke" /\ Free(r)
  /\ tokens' = [k \in DOMAIN tokens |-> IF k = call[r].token THEN [tokens[k] EXCEPT !.revoked = TRUE] ELSE tokens[k]]
  /\ IF call[r].op = "refresh" THEN Goto(r, "issue_token") ELSE Answer(r, 200)
  /\ Keep(r)
  /\ UNCHANGED <<tenancy, users, data, edges>>

-----------------------------------------------------------------------------
(* Status, deletion and silo schemas (tenant_manager.py).                   *)

\* get_tenant() at the head of delete_tenant() and create_tenant_schema().
GetTenant(r) ==
  /\ at[r] = "get_tenant" /\ Free(r)
  /\ IF call[r].tenant \in DOMAIN tenants
     THEN /\ Note(r, [tenant |-> tenants[call[r].tenant]])
          /\ Goto(r, IF call[r].op = "delete" THEN "set_status" ELSE "create_schema")
     ELSE Answer(r, 404) /\ Keep(r)
  /\ UNCHANGED <<tenancy, accounts, data, edges>>

MustDropIfActive(r) == call[r].op = "delete" /\ call[r].hard /\ saw[r].tenant.schema /\ saw[r].tenant.status = "active"
MustDrop(r) == call[r].op = "delete" /\ call[r].hard /\ saw[r].tenant.schema

\* set_tenant_status(), on its own or for delete_tenant().
SetStatus(r) ==
  /\ at[r] = "set_status" /\ Free(r)
  /\ tenants' = [t \in DOMAIN tenants |->
                  IF t = call[r].tenant THEN [tenants[t] EXCEPT !.status = call[r].to] ELSE tenants[t]]
  /\ IF MustDrop(r) THEN Goto(r, "drop_schema") ELSE Answer(r, 200)
  /\ Keep(r)
  /\ UNCHANGED <<schemas, accounts, data, edges>>

\* drop_tenant_schema(): the tenant is read again, and its record keeps the name.
DropSchema(r) ==
  /\ at[r] = "drop_schema" /\ Free(r)
  /\ schemas' = IF tenants[call[r].tenant].schema THEN schemas \ {call[r].tenant} ELSE schemas
  /\ Answer(r, 200) /\ Keep(r)
  /\ UNCHANGED <<tenants, accounts, data, edges>>

\* create_tenant_schema()
CreateSchema(r) ==
  /\ at[r] = "create_schema" /\ Free(r)
  /\ schemas' = schemas \cup {call[r].tenant}
  /\ Goto(r, "record_schema") /\ Keep(r)
  /\ UNCHANGED <<tenants, accounts, data, edges>>

RecordSchema(r) ==
  /\ at[r] = "record_schema" /\ Free(r)
  /\ tenants' = [tenants EXCEPT ![call[r].tenant].schema = TRUE]
  /\ Answer(r, 200) /\ Keep(r)
  /\ UNCHANGED <<schemas, accounts, data, edges>>

-----------------------------------------------------------------------------
(* Ingestion for a tenant and the tenant warehouse (tenant_ingest.py).      *)

NotDeleted(t) == t \in DOMAIN tenants /\ tenants[t].status # "deleted"
Active(t) == t \in DOMAIN tenants /\ tenants[t].status = "active"

\* ingest_tenant_directory(): _require_active_tenant() once for the directory, which
\* may be empty.
CheckDirectory(r) ==
  /\ at[r] = "check_directory" /\ Free(r)
  /\ IF ~Active(call[r].tenant) THEN Answer(r, 500)
     ELSE IF call[r].files = <<>> THEN Answer(r, 200) ELSE Goto(r, "check_active")
  /\ Note(r, [left |-> call[r].files])
  /\ UNCHANGED <<tenancy, accounts, data, edges>>

\* ingest_tenant_file(): and again for every file, at its start.
CheckActive(r) ==
  /\ at[r] = "check_active" /\ Free(r)
  /\ IF Active(call[r].tenant) THEN Goto(r, "open_valid") ELSE Answer(r, 500)
  /\ Keep(r)
  /\ UNCHANGED <<tenancy, accounts, data, edges>>

\* The run id, and so the path of the valid file, come from the file's stem.
RunId(r) == <<call[r].tenant, Stem[Head(saw[r].left)]>>
Store(r, content) == files' = Put(files, RunId(r), [content |-> content, by |-> r])

\* write_valid_and_quarantine(): write_text() truncates, then writes.
OpenValid(r) ==
  /\ at[r] = "open_valid"
  /\ Store(r, Torn)
  /\ Goto(r, "write_valid") /\ Keep(r)
  /\ UNCHANGED <<tenancy, accounts, runs, raw, facts, edges>>

WriteValid(r) ==
  /\ at[r] = "write_valid"
  /\ Store(r, Head(saw[r].left))
  /\ Goto(r, "record_run") /\ Keep(r)
  /\ UNCHANGED <<tenancy, accounts, runs, raw, facts, edges>>

RecordRunOnce(r) ==
  /\ at[r] = "record_run" /\ Free(r)
  /\ runs' = IF RunId(r) \in DOMAIN runs THEN runs ELSE Put(runs, RunId(r), Head(saw[r].left))
  /\ Goto(r, "ingest_edges") /\ Keep(r)
  /\ UNCHANGED <<tenancy, accounts, files, raw, facts, edges>>

\* upsert_ingestion_run(): insert or replace by run id.
RecordRun(r) ==
  /\ at[r] = "record_run" /\ Free(r)
  /\ runs' = Put(runs, RunId(r), Head(saw[r].left))
  /\ Goto(r, "ingest_edges") /\ Keep(r)
  /\ UNCHANGED <<tenancy, accounts, files, raw, facts, edges>>

IngestEdges(r) ==
  /\ at[r] = "ingest_edges" /\ Free(r)
  /\ edges' = edges \cup {<<"loaded", RunId(r)>>}
  /\ Note(r, [left |-> Tail(saw[r].left)])
  /\ IF Len(saw[r].left) > 1 THEN Goto(r, "check_active") ELSE Answer(r, 200)
  /\ UNCHANGED <<tenancy, accounts, data>>

\* refresh_tenant_raw_tables(): drop, then create from every valid file.
DropTable(r) ==
  /\ at[r] = "drop_table" /\ Free(r)
  /\ raw' = None
  /\ Goto(r, "load_files") /\ Keep(r)
  /\ UNCHANGED <<tenancy, accounts, files, runs, facts, edges>>

\* The files the glob finds, whatever has become of their tenants.
LoadableIfActive == {k \in DOMAIN files : Active(k[1])}
Loadable == DOMAIN files

\* A file that is being written does not parse, and the table stays dropped, or
\* is still empty and gives no rows.
LoadFiles(r) ==
  /\ at[r] = "load_files" /\ Free(r)
  /\ LET torn == {k \in Loadable : files[k].content = Torn}
         rows == {Row(k[1], files[k].content) : k \in Loadable \ torn}
     IN \/ torn # {} /\ Answer(r, 500) /\ UNCHANGED raw
        \/ raw' = rows /\ Goto(r, "delete_facts")
  /\ Keep(r)
  /\ UNCHANGED <<tenancy, accounts, files, runs, facts, edges>>

\* tenant_elt.sql: the orders of the raw table replace their old versions.
Replaced(r) == facts \ raw

DeleteFacts(r) ==
  /\ at[r] = "delete_facts" /\ Free(r)
  /\ IF raw = None THEN Answer(r, 500) /\ UNCHANGED <<facts, saw>>
     ELSE facts' = Replaced(r) /\ Note(r, [rows |-> raw]) /\ Goto(r, "insert_facts")
  /\ UNCHANGED <<tenancy, accounts, files, runs, raw, edges>>

InsertFacts(r) ==
  /\ at[r] = "insert_facts" /\ Free(r)
  /\ facts' = facts \cup saw[r].rows
  /\ Answer(r, 200) /\ Keep(r)
  /\ UNCHANGED <<tenancy, accounts, files, runs, raw, edges>>

Step(r) ==
  \/ InsertTenant(r) \/ CreatedEdge(r) \/ ReadMetadata(r) \/ WriteMetadata(r)
  \/ ReadInvite(r) \/ FindEmail(r) \/ InsertUser(r) \/ IssueToken(r) \/ FindUser(r)
  \/ CheckToken(r) \/ Revoke(r)
  \/ GetTenant(r) \/ SetStatus(r) \/ DropSchema(r) \/ CreateSchema(r) \/ RecordSchema(r)
  \/ CheckDirectory(r) \/ CheckActive(r) \/ OpenValid(r) \/ WriteValid(r)
  \/ RecordRun(r) \/ IngestEdges(r)
  \/ DropTable(r) \/ LoadFiles(r) \/ DeleteFacts(r) \/ InsertFacts(r)

Next == \E r \in Requests : Receive(r) \/ Step(r) \/ Fails(r)
Spec == Init /\ [][Next]_vars

-----------------------------------------------------------------------------
(* What the requests leave behind.                                          *)

Overlap(r, s) == r \notin before[s] /\ s \notin before[r]
Concerns(r, t) == at[r] # "idle" /\ call[r].op \in OperatorOps \ {"rebuild"} /\ call[r].tenant = t

\* A signup that answers 200 leaves the tenant with its invite token, its edge,
\* its account and the token it answered with, whatever ran meanwhile; one that
\* refuses leaves no account, only the tenant (auth_api.py:102-116).
SignupsAreWhole ==
  /\ \A r \in Ops("signup") :
       /\ Succeeded(r) => /\ r \in DOMAIN users /\ users[r].tenant = r
                          /\ r \in DOMAIN tenants /\ tenants[r].invite = r
                          /\ <<"created", r>> \in edges
                          /\ r \in DOMAIN tokens /\ tokens[r].user = r
       /\ Ended(r) /\ answer[r] = 400 => r \notin DOMAIN users
  /\ \A u \in DOMAIN users : users[u].tenant \in DOMAIN tenants

\* The address is looked up and then inserted, so two accounts may share one,
\* but only those of calls that ran at the same time (auth_models.py:301-313).
OneAccountPerAddress ==
  \A u, v \in DOMAIN users :
    u # v /\ users[u].email = users[v].email =>
      u \in Requests /\ v \in Requests /\ Overlap(u, v)

\* Rotation: a refresh token that was exchanged or given up is never exchanged
\* again by a call that comes in later; two calls at once may both renew it
\* (auth_api.py:157-165).
RenewedOnce ==
  \A r \in DOMAIN tokens \cap Requests : \A s \in Requests \ {r} :
    /\ tokens[r].parent # None /\ Succeeded(s)
    /\ call[s].op \in {"refresh", "logout"} /\ call[s].token = tokens[r].parent
    => s \notin before[r]

\* After a hard delete the tenant has no schema, unless create_tenant_schema()
\* came later, overlapped with it, or had failed before it recorded the name
\* (tenant_manager.py:306-319, 322-345).
HardDeleteLeavesNoSchema ==
  \A r \in Ops("delete") :
    Succeeded(r) /\ call[r].hard /\ call[r].tenant \in schemas =>
      \E s \in Ops("upgrade") : Concerns(s, call[r].tenant) /\ (s \notin before[r] \/ ~Succeeded(s))

\* No file is written for a tenant by an ingestion that came in after the tenant
\* was suspended or deleted, unless it may have been activated again; one that
\* was already running goes on with the file it had begun
\* (tenant_ingest.py:98-115, 138).
SuspensionHolds ==
  \A k \in DOMAIN files : \A s \in before[files[k].by] :
    Succeeded(s) /\ Concerns(s, k[1]) /\ call[s].op \in {"status", "delete"} /\ call[s].to # "active"
    => \E a \in Ops("status") : Concerns(a, k[1]) /\ call[a].to = "active" /\ a \notin before[s]

\* The files r wrote or will write, and where.
Writes(r) == IF at[r] # "idle" /\ call[r].op = "ingest"
             THEN {<<call[r].files[i], <<call[r].tenant, Stem[call[r].files[i]]>>>> :
                     i \in 1..Len(call[r].files)}
             ELSE {}

\* After a rebuild the facts hold every order of an ingestion that succeeded
\* before the rebuild came in, suspended tenants' too, unless a file of the same
\* name took its place or another rebuild stopped between its delete and its
\* insert (tenant_ingest.py:232-260, 267-280, tenant_elt.sql:55-77).
RebuildIsComplete ==
  \A s \in Ops("rebuild") : \A r \in before[s] : \A w \in Writes(r) :
    Succeeded(s) /\ Succeeded(r) =>
      \/ Row(call[r].tenant, w[1]) \in facts
      \/ \E q \in Requests : \E x \in Writes(q) : x[2] = w[2] /\ <<q, x>> # <<r, w>>
      \/ \E q \in Ops("rebuild") : q # s /\ ~Succeeded(q)

\* A run's row names the file whose records lie at its path, and every lineage
\* edge a run and its file, unless two ingestions of one name overlapped or one
\* of them stopped half way (tenant_ingest.py:141-199, metadata.py:73-161).
RunRowsDescribeTheirFiles ==
  /\ \A k \in DOMAIN runs :
       LET writers == {r \in Requests : \E w \in Writes(r) : w[2] = k} IN
       \/ k \in DOMAIN files /\ runs[k] = files[k].content
       \/ \E r \in writers : ~Succeeded(r)
       \/ \E r, s \in writers : r # s /\ Overlap(r, s)
  /\ \A k \in DOMAIN files : <<"loaded", k>> \in edges => k \in DOMAIN runs
================================================================================
