---------------------------- MODULE LakeProvision ----------------------------
(***************************************************************************)
(* Creating the things an organisation's data lives in: its catalog        *)
(* database and login role (lib/catalog-provision.ts, lib/cloudsql.ts),    *)
(* its datalake rows and their gateways (routes/datalakes.ts,              *)
(* lib/provisioner.ts, apps/dataplane/provisioner), its memory lake        *)
(* (lib/memory-lake.ts) and the key and service of an agent's workspace    *)
(* (lib/workspace-keys.ts, routes/sessions.ts).                            *)
(*                                                                         *)
(* Every handler is a chain of single statements: CREATE DATABASE cannot   *)
(* run in a transaction, and a deploy takes a minute.  Requests therefore  *)
(* interleave at every await.  A request's id also names what it makes:    *)
(* the password it generates, the datalake row it inserts, the workspace   *)
(* key it draws.  Lakes are managed (managed-postgres, managed storage).   *)
(***************************************************************************)
EXTENDS Naturals

CONSTANTS
    Requests,    \* HTTP requests; each runs once, a retry is another request
    Orgs,        \* organisations
    Names,       \* slugs a user may ask for
    Memory,      \* 'memory', the slug the memory lake takes first
    None,        \* SQL NULL, or nothing deployed
    MaxFaults    \* bound on crashes and refused statements

ASSUME ProvisionAssumption ==
    /\ Memory \in Names /\ None \notin Requests
    /\ MaxFaults \in Nat

VARIABLES
    cat,         \* cat[o]: waddling.org_catalog, its state and the password in its sealed DSN
    dbs,         \* orgs whose database exists on the shared instance
    role,        \* role[o]: the password of the org's login role, None when there is no role
    lake,        \* lake[r]: the datalake row request r inserted
    svc,         \* svc[s]: the Cloud Run service gw-<s>: the lake, DSN and flag in its env
    req,         \* req[r]: where request r stands
    ws,          \* one agent's workspace: the stored key, the deployed key, the file's key
    faults,      \* faults so far
    overlapped,  \* history: orgs in which two provisioning attempts were in flight at once
    keyRaced,    \* history: two connects were both about to store a first key
    plain        \* history: lakes deployed by POST /:id/provision

vars == <<cat, dbs, role, lake, svc, req, ws, faults, overlapped, keyRaced, plain>>
history == <<overlapped, keyRaced, plain>>

BoardSlug(o) == <<Memory, o>>    \* the suffixed second choice
Slugs == Names \cup {BoardSlug(o) : o \in Orgs}
NoLake == [state |-> "none", org |-> None, board |-> FALSE, slug |-> Memory, url |-> FALSE]
NoService == [lake |-> None, dsn |-> None, board |-> FALSE]
Waiting == [pc |-> "idle", kind |-> "none", org |-> None, slug |-> Memory, lake |-> None,
            secret |-> None]

CatalogPcs == {"db", "createdb", "role", "createrole", "alterrole", "seal", "fail"}
Pcs == CatalogPcs \cup {"idle", "select", "insert", "suffix", "board", "deploy", "rollout",
                        "url", "keystore", "wsdeploy", "done"}

TypeOK ==
    /\ cat \in [Orgs -> [state : {"none", "ready", "error"}, dsn : Requests \cup {None}]]
    /\ dbs \in SUBSET Orgs
    /\ role \in [Orgs -> Requests \cup {None}]
    /\ lake \in [Requests -> [state : {"none", "live", "deleted"}, org : Orgs \cup {None},
                              board : BOOLEAN, slug : Slugs, url : BOOLEAN]]
    /\ svc \in [Slugs -> [lake : Requests \cup {None}, dsn : Requests \cup {None},
                          board : BOOLEAN]]
    /\ req \in [Requests -> [pc : Pcs, org : Orgs \cup {None}, slug : Slugs,
                             kind : {"none", "lake", "qb", "ensure", "activate", "catalog",
                                     "connect"},
                             lake : Requests \cup {None}, secret : Requests \cup {None}]]
    /\ ws \in [key : Requests \cup {None}, svc : Requests \cup {None},
               file : Requests \cup {None}]
    /\ faults \in 0..MaxFaults
    /\ overlapped \in SUBSET Orgs
    /\ keyRaced \in BOOLEAN /\ plain \in SUBSET Requests

Init ==
    /\ cat = [o \in Orgs |-> [state |-> "none", dsn |-> None]]
    /\ dbs = {}
    /\ role = [o \in Orgs |-> None]
    /\ lake = [r \in Requests |-> NoLake]
    /\ svc = [s \in Slugs |-> NoService]
    /\ req = [r \in Requests |-> Waiting]
    /\ ws = [key |-> None, svc |-> None, file |-> None]
    /\ faults = 0
    /\ overlapped = {} /\ keyRaced = FALSE /\ plain = {}

Live(o) == {l \in Requests : lake[l].state = "live" /\ lake[l].org = o}
Board(o) == {l \in Live(o) : lake[l].board}
SlugTaken(o, s) == \E l \in Live(o) : lake[l].slug = s

Fault == faults < MaxFaults /\ faults' = faults + 1
\* A request that is over keeps nothing.
Goto(r, pc) ==
    req' = [req EXCEPT ![r] = IF pc = "done" THEN [Waiting EXCEPT !.pc = pc]
                              ELSE [@ EXCEPT !.pc = pc]]

-----------------------------------------------------------------------------
(* How a request begins.                                                   *)

Begin(r, kind, o, pc) ==
    /\ req[r].pc = "idle"
    /\ req' = [req EXCEPT ![r] = [Waiting EXCEPT !.kind = kind, !.org = o, !.pc = pc]]

\* POST /datalakes, past its plan gate (which OrgPlan models): the organisation may or may
\* not have room for another lake here.
CreateLake(r, o, s) ==
    /\ req[r].pc = "idle"
    /\ req' = [req EXCEPT ![r] = [Waiting EXCEPT !.kind = "lake", !.org = o, !.slug = s,
                                                 !.pc = "select"]]
    /\ UNCHANGED <<cat, dbs, role, lake, svc, ws, faults, history>>

\* POST /datalakes with kind 'quackboard': exempt from the quota, refused if there is one.
CreateBoard(r, o) ==
    /\ Board(o) = {}
    /\ Begin(r, "qb", o, "select")
    /\ UNCHANGED <<cat, dbs, role, lake, svc, ws, faults, history>>

\* ensureMemoryLake: the row that is there is deployed if it has no URL, else returned.
EnsureMemoryLake(r, o) ==
    /\ Begin(r, "ensure", o, IF Board(o) = {} THEN "select" ELSE "board")
    /\ UNCHANGED <<cat, dbs, role, lake, svc, ws, faults, history>>

\* POST /datalakes/:id/provision.
ActivateLake(r, l) ==
    /\ req[r].pc = "idle" /\ lake[l].state = "live"
    /\ req' = [req EXCEPT ![r] = [Waiting EXCEPT !.kind = "activate", !.org = lake[l].org,
                                                 !.lake = l, !.pc = "select"]]
    /\ UNCHANGED <<cat, dbs, role, lake, svc, ws, faults, history>>

\* POST /catalog, and GET /catalog when it reconciles a row that is not ready.
ProvisionCatalog(r, o) ==
    /\ Begin(r, "catalog", o, "select")
    /\ UNCHANGED <<cat, dbs, role, lake, svc, ws, faults, history>>

\* DELETE /datalakes/:id removes the row; the service stays.
DeleteLake(l) ==
    /\ lake[l].state = "live"
    /\ lake' = [lake EXCEPT ![l].state = "deleted"]
    /\ UNCHANGED <<cat, dbs, role, svc, req, ws, faults, history>>

-----------------------------------------------------------------------------
(* provisionOrgCatalog and provisionOrgDatabase.                           *)

\* What the handler does once provisionOrgCatalog returned or threw.
AfterCatalog(r) ==
    CASE req[r].kind = "activate" -> "deploy"
      [] req[r].kind = "catalog" -> "done"
      [] OTHER -> "insert"

\* Mutant: an org that is ready is provisioned again.
SelectCatalogAlways(r) ==
    /\ req[r].pc = "select"
    /\ Goto(r, "db")
    /\ overlapped' = IF \E q \in Requests : req[q].org = req[r].org /\ req[q].pc \in CatalogPcs
                     THEN overlapped \cup {req[r].org} ELSE overlapped
    /\ UNCHANGED <<cat, dbs, role, lake, svc, ws, faults, keyRaced, plain>>

\* A ready row is returned as it is.
SelectCatalog(r) ==
    /\ req[r].pc = "select"
    /\ IF cat[req[r].org].state = "ready"
       THEN Goto(r, AfterCatalog(r)) /\ UNCHANGED overlapped
       ELSE /\ Goto(r, "db")
            /\ overlapped' =
                 IF \E q \in Requests : req[q].org = req[r].org /\ req[q].pc \in CatalogPcs
                 THEN overlapped \cup {req[r].org} ELSE overlapped
    /\ UNCHANGED <<cat, dbs, role, lake, svc, ws, faults, keyRaced, plain>>

CheckDatabase(r) ==
    /\ req[r].pc = "db"
    /\ Goto(r, IF req[r].org \in dbs THEN "role" ELSE "createdb")
    /\ UNCHANGED <<cat, dbs, role, lake, svc, ws, faults, history>>

\* CREATE DATABASE has no IF NOT EXISTS: whoever comes second throws.
CreateDatabase(r) ==
    /\ req[r].pc = "createdb"
    /\ dbs' = dbs \cup {req[r].org}
    /\ Goto(r, IF req[r].org \in dbs THEN "fail" ELSE "role")
    /\ UNCHANGED <<cat, role, lake, svc, ws, faults, history>>

CheckRole(r) ==
    /\ req[r].pc = "role"
    /\ Goto(r, IF role[req[r].org] = None THEN "createrole" ELSE "alterrole")
    /\ UNCHANGED <<cat, dbs, role, lake, svc, ws, faults, history>>

CreateRole(r) ==
    /\ req[r].pc = "createrole"
    /\ IF role[req[r].org] = None
       THEN role' = [role EXCEPT ![req[r].org] = r] /\ Goto(r, "seal")
       ELSE UNCHANGED role /\ Goto(r, "fail")
    /\ UNCHANGED <<cat, dbs, lake, svc, ws, faults, history>>

\* The password is set anew on every call; then REVOKE and GRANT, which change nothing here.
AlterRole(r) ==
    /\ req[r].pc = "alterrole"
    /\ role' = [role EXCEPT ![req[r].org] = r]
    /\ Goto(r, "seal")
    /\ UNCHANGED <<cat, dbs, lake, svc, ws, faults, history>>

\* The upsert of the sealed DSN.
SealDsn(r) ==
    /\ req[r].pc = "seal"
    /\ cat' = [cat EXCEPT ![req[r].org] = [state |-> "ready", dsn |-> r]]
    /\ Goto(r, AfterCatalog(r))
    /\ UNCHANGED <<dbs, role, lake, svc, ws, faults, history>>

StatementFails(r) ==
    /\ req[r].pc \in CatalogPcs \ {"fail"}
    /\ Fault
    /\ Goto(r, "fail")
    /\ UNCHANGED <<cat, dbs, role, lake, svc, ws, history>>

\* The catch's upsert: state 'error' whatever the row says by now.  Its callers, POST
\* /catalog apart, swallow what it rethrows.
RecordError(r) ==
    /\ req[r].pc = "fail"
    /\ \/ cat' = [cat EXCEPT ![req[r].org].state = "error"] /\ UNCHANGED faults
       \/ UNCHANGED cat /\ Fault
    /\ Goto(r, AfterCatalog(r))
    /\ UNCHANGED <<dbs, role, lake, svc, ws, history>>

-----------------------------------------------------------------------------
(* The row and the gateway.                                                *)

NewLake(r, s) ==
    [state |-> "live", org |-> req[r].org, board |-> req[r].kind # "lake", slug |-> s,
     url |-> FALSE]

\* POST /datalakes: the transaction; a taken slug, or a second board, is 23505 and answers 409.
InsertLake(r) ==
    /\ req[r].pc = "insert" /\ req[r].kind \in {"lake", "qb"}
    /\ IF \/ SlugTaken(req[r].org, req[r].slug)
          \/ req[r].kind = "qb" /\ Board(req[r].org) # {}
       THEN Goto(r, "done") /\ UNCHANGED lake
       ELSE /\ lake' = [lake EXCEPT ![r] = NewLake(r, req[r].slug)]
            /\ req' = [req EXCEPT ![r].pc = "deploy", ![r].lake = r]
    /\ UNCHANGED <<cat, dbs, role, svc, ws, faults, history>>

\* ensureMemoryLake's loop: ON CONFLICT (org) WHERE kind = 'quackboard' DO NOTHING, and the
\* suffixed slug when the org has a lake of that name.
InsertMemoryLake(r) ==
    /\ req[r].pc = "insert" /\ req[r].kind = "ensure"
    /\ IF Board(req[r].org) # {} \/ ~SlugTaken(req[r].org, Memory)
       THEN /\ lake' = IF Board(req[r].org) # {} THEN lake
                       ELSE [lake EXCEPT ![r] = NewLake(r, Memory)]
            /\ Goto(r, "board")
       ELSE Goto(r, "suffix") /\ UNCHANGED lake
    /\ UNCHANGED <<cat, dbs, role, svc, ws, faults, history>>

InsertSuffixed(r) ==
    /\ req[r].pc = "suffix"
    /\ lake' = IF Board(req[r].org) # {} \/ SlugTaken(req[r].org, BoardSlug(req[r].org))
               THEN lake
               ELSE [lake EXCEPT ![r] = NewLake(r, BoardSlug(req[r].org))]
    /\ Goto(r, "board")
    /\ UNCHANGED <<cat, dbs, role, svc, ws, faults, history>>

\* The SELECT after it: no row throws, a row with a URL is returned.
SelectBoard(r) ==
    /\ req[r].pc = "board"
    /\ \/ /\ \A b \in Board(req[r].org) : lake[b].url
          /\ Goto(r, "done")
       \/ \E b \in Board(req[r].org) :
             /\ ~lake[b].url
             /\ req' = [req EXCEPT ![r].pc = "deploy", ![r].lake = b]
    /\ UNCHANGED <<cat, dbs, role, lake, svc, ws, faults, history>>

\* provisionGateway: the row may be gone, and a catalog that is not ready throws.
ReadDsn(r) ==
    /\ req[r].pc = "deploy"
    /\ IF lake[req[r].lake].state = "live" /\ cat[req[r].org].state = "ready"
       THEN req' = [req EXCEPT ![r].pc = "rollout", ![r].secret = cat[req[r].org].dsn]
       ELSE Goto(r, "done")
    /\ UNCHANGED <<cat, dbs, role, lake, svc, ws, faults, history>>

\* Mutant: the board is deployed like any other lake.
RolloutNoFlag(r) ==
    /\ req[r].pc = "rollout"
    /\ svc' = [svc EXCEPT ![lake[req[r].lake].slug] =
                  [lake |-> req[r].lake, dsn |-> req[r].secret, board |-> FALSE]]
    /\ Goto(r, "url")
    /\ plain' = IF req[r].kind = "activate" THEN plain \cup {req[r].lake} ELSE plain
    /\ UNCHANGED <<cat, dbs, role, lake, ws, faults, overlapped, keyRaced>>

\* The provisioner creates or replaces the service gw-<slug> with this env.  The slug alone
\* names it, and POST /:id/provision does not pass the memory-lake flag.
Rollout(r) ==
    /\ req[r].pc = "rollout"
    /\ svc' = [svc EXCEPT ![lake[req[r].lake].slug] =
                  [lake |-> req[r].lake, dsn |-> req[r].secret,
                   board |-> req[r].kind # "activate" /\ lake[req[r].lake].board]]
    /\ Goto(r, "url")
    /\ plain' = IF req[r].kind = "activate" THEN plain \cup {req[r].lake} ELSE plain
    /\ UNCHANGED <<cat, dbs, role, lake, ws, faults, overlapped, keyRaced>>

\* UPDATE ... SET gateway_url WHERE id: nothing to update if the row is gone.
RecordUrl(r) ==
    /\ req[r].pc = "url"
    /\ lake' = [lake EXCEPT ![req[r].lake].url = TRUE]
    /\ Goto(r, "done")
    /\ UNCHANGED <<cat, dbs, role, svc, ws, faults, history>>

-----------------------------------------------------------------------------
(* A connect of the agent: ensureWorkspaceKey and provisionWorkspace.      *)

\* Mutant: a key is drawn on every connect.
ReadKeyFresh(r) ==
    /\ req[r].pc = "idle"
    /\ req' = [req EXCEPT ![r] = [Waiting EXCEPT !.kind = "connect", !.pc = "keystore",
                                                 !.secret = r]]
    /\ keyRaced' = (keyRaced \/ \E q \in Requests : req[q].pc = "keystore")
    /\ UNCHANGED <<cat, dbs, role, lake, svc, ws, faults, overlapped, plain>>

\* The stored key is used; when there is none a fresh one is drawn and stored.
ReadKey(r) ==
    /\ req[r].pc = "idle"
    /\ IF ws.key # None
       THEN /\ req' = [req EXCEPT ![r] = [Waiting EXCEPT !.kind = "connect",
                                             !.pc = "wsdeploy", !.secret = ws.key]]
            /\ UNCHANGED keyRaced
       ELSE /\ req' = [req EXCEPT ![r] = [Waiting EXCEPT !.kind = "connect",
                                             !.pc = "keystore", !.secret = r]]
            /\ keyRaced' = (keyRaced \/ \E q \in Requests : req[q].pc = "keystore")
    /\ UNCHANGED <<cat, dbs, role, lake, svc, ws, faults, overlapped, plain>>

StoreKey(r) ==
    /\ req[r].pc = "keystore"
    /\ ws' = [ws EXCEPT !.key = r]
    /\ Goto(r, "wsdeploy")
    /\ UNCHANGED <<cat, dbs, role, lake, svc, faults, history>>

DeployWorkspace(r) ==
    /\ req[r].pc = "wsdeploy"
    /\ ws' = [ws EXCEPT !.svc = req[r].secret]
    /\ Goto(r, "done")
    /\ UNCHANGED <<cat, dbs, role, lake, svc, faults, history>>

\* The container boots with its env; the first one to persist encrypts the file with its key.
BootWorkspace ==
    /\ ws.svc # None /\ ws.file = None
    /\ ws' = [ws EXCEPT !.file = ws.svc]
    /\ UNCHANGED <<cat, dbs, role, lake, svc, req, faults, history>>

\* The instance dies under the request, or the provisioner refuses.
Crash(r) ==
    /\ req[r].pc \notin {"idle", "done"}
    /\ Fault
    /\ Goto(r, "done")
    /\ UNCHANGED <<cat, dbs, role, lake, svc, ws, history>>

-----------------------------------------------------------------------------
CatalogStep(r) ==
    \/ SelectCatalog(r) \/ CheckDatabase(r) \/ CreateDatabase(r) \/ CheckRole(r)
    \/ CreateRole(r) \/ AlterRole(r) \/ SealDsn(r) \/ StatementFails(r) \/ RecordError(r)

LakeStep(r) ==
    \/ InsertLake(r) \/ InsertMemoryLake(r) \/ InsertSuffixed(r) \/ SelectBoard(r)
    \/ ReadDsn(r) \/ Rollout(r) \/ RecordUrl(r)

ConnectStep(r) == ReadKey(r) \/ StoreKey(r) \/ DeployWorkspace(r)

Next ==
    \/ \E r \in Requests, o \in Orgs :
          \/ \E s \in Names : CreateLake(r, o, s)
          \/ CreateBoard(r, o) \/ EnsureMemoryLake(r, o) \/ ProvisionCatalog(r, o)
    \/ \E r, l \in Requests : ActivateLake(r, l)
    \/ \E r \in Requests : CatalogStep(r) \/ LakeStep(r) \/ ConnectStep(r) \/ Crash(r)
    \/ \E l \in Requests : DeleteLake(l)
    \/ BootWorkspace

Spec == Init /\ [][Next]_vars

-----------------------------------------------------------------------------
(* The DSN works.  While no two provisioning attempts of an org were in    *)
(* flight at once, a ready catalog holds the password its role has, and so *)
(* does every gateway deployed from it: failed and crashed attempts and    *)
(* their retries never rotate a password under a gateway that runs         *)
(* (provisionOrgCatalog; "a re-provision always yields a connectable DSN   *)
(* that matches the role").  Two overlapping attempts can leave a ready    *)
(* row whose DSN no role accepts.                                          *)
DsnMatchesRole ==
    \A o \in Orgs \ overlapped :
        /\ cat[o].state = "ready" => cat[o].dsn = role[o]
        /\ \A s \in Slugs :
              (svc[s].lake # None /\ lake[svc[s].lake].org = o) => svc[s].dsn = role[o]

(* A lake with a gateway URL is served by a gateway with its own env, and  *)
(* the memory lake by one that bootstraps the board, through racing        *)
(* creates, ensures, activations and deletes of one org; except that a     *)
(* lake of the same slug in another org, or a deleted one whose deploy     *)
(* came late, replaces the service, and POST /:id/provision drops the flag *)
(* (datalakes.ts, memory-lake.ts, provisioner.ts).                         *)
OwnGateway ==
    \A l \in Requests : (lake[l].state = "live" /\ lake[l].url) =>
        LET s == svc[lake[l].slug]
        IN  \/ s.lake = l /\ (s.board = lake[l].board \/ l \in plain)
            \/ s.lake # l /\ (lake[s.lake].org # lake[l].org \/ lake[s.lake].state = "deleted")

(* The stored key opens the workspace's file, and is the one every later   *)
(* deploy gets: an agent's encrypted file is lost only if two first        *)
(* connects both found no key (ensureWorkspaceKey, provisionWorkspace).    *)
KeyOpensFile ==
    ~keyRaced => /\ ws.svc \in {None, ws.key}
                 /\ ws.file \in {None, ws.key}
=============================================================================
