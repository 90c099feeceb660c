------------------------ MODULE LakeProvisionProofs ------------------------
(***************************************************************************)
(* LakeProvision for any requests, organisations, slugs and faults: which  *)
(* password a gateway holds, which lake a service serves, which key opens  *)
(* a workspace's file.  Each is a chain of statements that other requests  *)
(* interleave with, so the invariant says for each what a request that     *)
(* stands between two statements may still rely on.                        *)
(***************************************************************************)
EXTENDS LakeProvision, TLAPS

LakeType == [state : {"none", "live", "deleted"}, org : Orgs \cup {None},
             board : BOOLEAN, slug : Slugs, url : BOOLEAN]
ServiceType == [lake : Requests \cup {None}, dsn : Requests \cup {None}, board : BOOLEAN]
RequestType == [pc : Pcs, org : Orgs \cup {None}, slug : Slugs,
                kind : {"none", "lake", "qb", "ensure", "activate", "catalog", "connect"},
                lake : Requests \cup {None}, secret : Requests \cup {None}]

-----------------------------------------------------------------------------
(* Lakes and services.                                                     *)

Exists(l) == lake[l].state # "none"

\* A request acts for an org; the lake it is to deploy is one of that org; one that is about
\* to record a URL has deployed a service; and it has not made its own lake before its INSERT.
RequestOK(r) ==
    /\ req[r].pc \notin {"idle", "done", "keystore", "wsdeploy"} => req[r].org \in Orgs
    /\ (req[r].kind = "activate" \/ req[r].pc \in {"deploy", "rollout", "url"})
         => req[r].lake # None
    /\ req[r].lake # None =>
         Exists(req[r].lake) /\ lake[req[r].lake].org = req[r].org
    /\ req[r].pc = "url" => svc[lake[req[r].lake].slug].lake # None
    /\ Exists(r) => req[r].pc \in {"board", "deploy", "rollout", "url", "done"}

LakeOK(l) ==
    /\ Exists(l) => lake[l].org \in Orgs
    /\ lake[l].url => svc[lake[l].slug].lake # None

\* A service holds the env of a lake of its slug, with the flag unless it was activated.
ServiceOK(s) ==
    svc[s].lake # None =>
        /\ Exists(svc[s].lake)
        /\ lake[svc[s].lake].slug = s
        /\ svc[s].board = lake[svc[s].lake].board \/ svc[s].lake \in plain

SlugsUnique ==
    \A l, m \in Requests :
        /\ lake[l].state = "live" /\ lake[m].state = "live"
        /\ lake[l].org = lake[m].org /\ lake[l].slug = lake[m].slug
        => l = m

PlacesOK ==
    /\ \A r \in Requests : RequestOK(r) /\ LakeOK(r)
    /\ \A s \in Slugs : ServiceOK(s)
    /\ SlugsUnique

-----------------------------------------------------------------------------
(* Catalogs.                                                               *)

InCatalog(r, o) == req[r].org = o /\ req[r].pc \in CatalogPcs

\* The catalog is ready and this is the password of its role.
Connects(o, secret) == cat[o].state = "ready" /\ secret = role[o]

\* Until two attempts overlap: only one is under way, and then the catalog is not ready yet,
\* so that nothing was deployed from it whose password the attempt could change.
CatalogOK(o) ==
    o \notin overlapped =>
        /\ \A q, r \in Requests : InCatalog(q, o) /\ InCatalog(r, o) => q = r
        /\ \A r \in Requests : InCatalog(r, o) =>
              cat[o].state # "ready" /\ (req[r].pc = "seal" => role[o] = r)
        /\ cat[o].state = "ready" => cat[o].dsn = role[o]
        /\ \A r \in Requests : req[r].pc = "rollout" /\ req[r].org = o =>
              Connects(o, req[r].secret)
        /\ \A s \in Slugs : svc[s].lake # None /\ lake[svc[s].lake].org = o =>
              Connects(o, svc[s].dsn)

-----------------------------------------------------------------------------
(* The workspace's key.                                                    *)

\* Until two first connects race: at most one is about to store a key, while there is none,
\* and whoever is about to deploy, the service and the file have the stored one.
KeyOK ==
    ~keyRaced =>
        /\ \A q, r \in Requests : req[q].pc = "keystore" /\ req[r].pc = "keystore" => q = r
        /\ \A r \in Requests : req[r].pc = "keystore" => ws.key = None /\ req[r].secret = r
        /\ \A r \in Requests : req[r].pc = "wsdeploy" =>
              req[r].secret = ws.key /\ ws.key # None
        /\ ws.svc \in {None, ws.key}
        /\ ws.file \in {None, ws.key}

IInv == TypeOK /\ PlacesOK /\ (\A o \in Orgs : CatalogOK(o)) /\ KeyOK

-----------------------------------------------------------------------------
(* How a request moves.                                                    *)

Others(r) == \A q \in Requests \ {r} : req'[q] = req[q]

LEMMA WaitingIs ==
    /\ Waiting \in RequestType /\ Waiting.lake = None /\ Waiting.kind = "none"
    /\ Memory \in Slugs
<1>1. Memory \in Slugs
  BY ProvisionAssumption DEF Slugs
<1> QED BY <1>1 DEF Waiting, RequestType, Pcs

LEMMA Goes ==
    ASSUME req \in [Requests -> RequestType], NEW r \in Requests, NEW pc \in Pcs, Goto(r, pc)
    PROVE  /\ req' \in [Requests -> RequestType] /\ Others(r)
           /\ req'[r].pc = pc
           /\ pc # "done" =>
                /\ req'[r].org = req[r].org /\ req'[r].kind = req[r].kind
                /\ req'[r].lake = req[r].lake /\ req'[r].secret = req[r].secret
           /\ pc = "done" => req'[r].kind = "none" /\ req'[r].lake = None
<1>1. CASE pc = "done"
  <2> DEFINE q == [Waiting EXCEPT !.pc = pc]
  <2>1. q \in RequestType /\ q.pc = pc /\ q.kind = "none" /\ q.lake = None
    BY WaitingIs DEF RequestType
  <2> HIDE DEF q
  <2>2. req' = [req EXCEPT ![r] = q]
    BY <1>1 DEF Goto, q
  <2> QED BY <1>1, <2>1, <2>2 DEF Others
<1>2. CASE pc # "done"
  <2> DEFINE q == [req[r] EXCEPT !.pc = pc]
  <2>1. /\ q \in RequestType /\ q.pc = pc
        /\ q.org = req[r].org /\ q.kind = req[r].kind /\ q.lake = req[r].lake
        /\ q.secret = req[r].secret
    BY DEF RequestType
  <2> HIDE DEF q
  <2>2. req' = [req EXCEPT ![r] = q]
    BY <1>2 DEF Goto, q
  <2> QED BY <1>2, <2>1, <2>2 DEF Others
<1> QED BY <1>1, <1>2

\* A request that begins: it is for an org, or, a connect, for none, and activates a lake.
Begins(r, kind, o, l, secret, pc) ==
    /\ req' \in [Requests -> RequestType] /\ Others(r)
    /\ req[r].pc = "idle"
    /\ req'[r].pc = pc /\ req'[r].kind = kind /\ req'[r].org = o /\ req'[r].lake = l
    /\ secret # None => req'[r].secret = secret

LEMMA StepBegins ==
    ASSUME req \in [Requests -> RequestType], lake \in [Requests -> LakeType],
           NEW r \in Requests, NEW o \in Orgs
    PROVE  /\ \A s \in Names : CreateLake(r, o, s) => Begins(r, "lake", o, None, None, "select")
           /\ CreateBoard(r, o) => Begins(r, "qb", o, None, None, "select")
           /\ EnsureMemoryLake(r, o) =>
                \E pc \in {"select", "board"} : Begins(r, "ensure", o, None, None, pc)
           /\ ProvisionCatalog(r, o) => Begins(r, "catalog", o, None, None, "select")
<1>1. ASSUME NEW s \in Names, CreateLake(r, o, s)
      PROVE  Begins(r, "lake", o, None, None, "select")
  <2> DEFINE q == [Waiting EXCEPT !.kind = "lake", !.org = o, !.slug = s, !.pc = "select"]
  <2>1. s \in Slugs /\ "select" \in Pcs
    BY DEF Slugs, Pcs
  <2>2. q \in RequestType /\ q.pc = "select" /\ q.kind = "lake" /\ q.org = o /\ q.lake = None
    BY <2>1, WaitingIs DEF RequestType
  <2> HIDE DEF q
  <2>3. req' = [req EXCEPT ![r] = q] /\ req[r].pc = "idle"
    BY <1>1 DEF CreateLake, q
  <2> QED BY <2>2, <2>3 DEF Begins, Others
<1>2. ASSUME NEW kind \in {"qb", "ensure", "catalog"}, NEW pc \in {"select", "board"},
             Begin(r, kind, o, pc)
      PROVE  Begins(r, kind, o, None, None, pc)
  <2> DEFINE q == [Waiting EXCEPT !.kind = kind, !.org = o, !.pc = pc]
  <2>1. pc \in Pcs
    BY DEF Pcs
  <2>2. q \in RequestType /\ q.pc = pc /\ q.kind = kind /\ q.org = o /\ q.lake = None
    BY <2>1, WaitingIs DEF RequestType
  <2> HIDE DEF q
  <2>3. req' = [req EXCEPT ![r] = q] /\ req[r].pc = "idle"
    BY <1>2 DEF Begin, q
  <2> QED BY <2>2, <2>3 DEF Begins, Others
<1> QED BY <1>1, <1>2 DEF CreateBoard, EnsureMemoryLake, ProvisionCatalog

LEMMA ActivateBegins ==
    ASSUME req \in [Requests -> RequestType], lake \in [Requests -> LakeType],
           NEW r \in Requests, NEW l \in Requests, ActivateLake(r, l)
    PROVE  Begins(r, "activate", lake[l].org, l, None, "select")
<1> DEFINE q == [Waiting EXCEPT !.kind = "activate", !.org = lake[l].org, !.lake = l,
                                !.pc = "select"]
<1>1. "select" \in Pcs /\ lake[l].org \in Orgs \cup {None}
  BY DEF Pcs, LakeType
<1>2. /\ q \in RequestType /\ q.pc = "select" /\ q.kind = "activate" /\ q.org = lake[l].org
      /\ q.lake = l
  BY <1>1, WaitingIs DEF RequestType
<1> HIDE DEF q
<1>3. req' = [req EXCEPT ![r] = q] /\ req[r].pc = "idle"
  BY DEF ActivateLake, q
<1> QED BY <1>2, <1>3 DEF Begins, Others

LEMMA ConnectBegins ==
    ASSUME req \in [Requests -> RequestType], ws.key \in Requests \cup {None},
           NEW r \in Requests, ReadKey(r)
    PROVE  IF ws.key # None THEN Begins(r, "connect", None, None, ws.key, "wsdeploy")
                            ELSE Begins(r, "connect", None, None, r, "keystore")
<1>1. ASSUME NEW pc \in {"wsdeploy", "keystore"}, NEW secret \in Requests,
             req' = [req EXCEPT ![r] = [Waiting EXCEPT !.kind = "connect", !.pc = pc,
                                                       !.secret = secret]]
      PROVE  Begins(r, "connect", None, None, secret, pc)
  <2> DEFINE q == [Waiting EXCEPT !.kind = "connect", !.pc = pc, !.secret = secret]
  <2>1. pc \in Pcs /\ Waiting.org = None
    BY DEF Pcs, Waiting
  <2>2. /\ q \in RequestType /\ q.pc = pc /\ q.kind = "connect" /\ q.org = None
        /\ q.lake = None /\ q.secret = secret
    BY <2>1, WaitingIs DEF RequestType
  <2> HIDE DEF q
  <2>3. req' = [req EXCEPT ![r] = q] /\ req[r].pc = "idle"
    BY <1>1 DEF ReadKey, q
  <2> QED BY <2>2, <2>3 DEF Begins, Others
<1>2. CASE ws.key # None
  <2>1. req' = [req EXCEPT ![r] = [Waiting EXCEPT !.kind = "connect", !.pc = "wsdeploy",
                                                  !.secret = ws.key]]
    BY <1>2 DEF ReadKey
  <2> QED BY <1>1, <1>2, <2>1
<1>3. CASE ws.key = None
  <2>1. req' = [req EXCEPT ![r] = [Waiting EXCEPT !.kind = "connect", !.pc = "keystore",
                                                  !.secret = r]]
    BY <1>3 DEF ReadKey
  <2> QED BY <1>1, <1>3, <2>1
<1> QED BY <1>2, <1>3

\* A step of provisionOrgCatalog: to its next statement, or on with the handler.
LEMMA CatalogGoes ==
    ASSUME NEW r \in Requests, CatalogStep(r)
    PROVE  /\ req[r].pc \in CatalogPcs \cup {"select"}
           /\ \E pc \in CatalogPcs \cup {AfterCatalog(r)} : Goto(r, pc)
           /\ UNCHANGED <<lake, svc, ws, keyRaced, plain>>
BY DEF CatalogStep, SelectCatalog, CheckDatabase, CreateDatabase, CheckRole, CreateRole,
       AlterRole, SealDsn, StatementFails, RecordError, CatalogPcs, history

LEMMA AfterCatalogIs ==
    ASSUME NEW r \in Requests
    PROVE  /\ AfterCatalog(r) \in {"deploy", "done", "insert"}
           /\ AfterCatalog(r) = "deploy" <=> req[r].kind = "activate"
BY DEF AfterCatalog

\* A step that gives one request its next value.
LEMMA Becomes ==
    ASSUME req \in [Requests -> RequestType], NEW r \in Requests, NEW to \in RequestType,
           req' = [req EXCEPT ![r] = to]
    PROVE  req' \in [Requests -> RequestType] /\ Others(r) /\ req'[r] = to
BY DEF Others

\* A request that has found or made its lake.
LEMMA TakesLake ==
    ASSUME req \in [Requests -> RequestType], NEW r \in Requests, NEW l \in Requests,
           req' = [req EXCEPT ![r].pc = "deploy", ![r].lake = l]
    PROVE  /\ req' \in [Requests -> RequestType] /\ Others(r)
           /\ req'[r].pc = "deploy" /\ req'[r].lake = l
           /\ req'[r].org = req[r].org /\ req'[r].kind = req[r].kind
<1> DEFINE to == [req[r] EXCEPT !.pc = "deploy", !.lake = l]
<1>1. "deploy" \in Pcs
  BY DEF Pcs
<1>2. /\ to \in RequestType /\ to.pc = "deploy" /\ to.lake = l
      /\ to.org = req[r].org /\ to.kind = req[r].kind
  BY <1>1 DEF RequestType
<1>3. req' = [req EXCEPT ![r] = to]
  OBVIOUS
<1> HIDE DEF to
<1> QED BY <1>2, <1>3, Becomes

LEMMA TakesDsn ==
    ASSUME req \in [Requests -> RequestType], NEW r \in Requests,
           NEW o \in Orgs, cat[o].dsn \in Requests \cup {None},
           req' = [req EXCEPT ![r].pc = "rollout", ![r].secret = cat[o].dsn]
    PROVE  /\ req' \in [Requests -> RequestType] /\ Others(r)
           /\ req'[r].pc = "rollout" /\ req'[r].secret = cat[o].dsn
           /\ req'[r].org = req[r].org /\ req'[r].kind = req[r].kind
           /\ req'[r].lake = req[r].lake
<1> DEFINE to == [req[r] EXCEPT !.pc = "rollout", !.secret = cat[o].dsn]
<1>1. "rollout" \in Pcs
  BY DEF Pcs
<1>2. /\ to \in RequestType /\ to.pc = "rollout" /\ to.secret = cat[o].dsn
      /\ to.org = req[r].org /\ to.kind = req[r].kind /\ to.lake = req[r].lake
  BY <1>1 DEF RequestType
<1>3. req' = [req EXCEPT ![r] = to]
  OBVIOUS
<1> HIDE DEF to
<1> QED BY <1>2, <1>3, Becomes

-----------------------------------------------------------------------------
(* Types.                                                                  *)

LEMMA CatalogStepKeepsTypes ==
    ASSUME TypeOK, NEW r \in Requests, req[r].org \in Orgs, CatalogStep(r)
    PROVE  TypeOK'
<1> DEFINE CatType == [state : {"none", "ready", "error"}, dsn : Requests \cup {None}]
<1>1. req' \in [Requests -> RequestType]
  <2>1. PICK pc \in CatalogPcs \cup {AfterCatalog(r)} : Goto(r, pc)
    BY CatalogGoes
  <2>2. pc \in Pcs
    BY AfterCatalogIs DEF Pcs
  <2> QED BY <2>1, <2>2, Goes DEF TypeOK, RequestType
<1>2. cat' \in [Orgs -> CatType]
  <2>1. cat \in [Orgs -> CatType]
    BY DEF TypeOK
  <2>2. CASE SealDsn(r)
    BY <2>1, <2>2 DEF SealDsn
  <2>3. CASE RecordError(r)
    <3>1. [cat[req[r].org] EXCEPT !.state = "error"] \in CatType
      BY <2>1
    <3>2. \/ cat' = [cat EXCEPT ![req[r].org] = [cat[req[r].org] EXCEPT !.state = "error"]]
          \/ cat' = cat
      BY <2>3 DEF RecordError
    <3> QED BY <2>1, <3>1, <3>2
  <2>4. CASE UNCHANGED cat
    BY <2>1, <2>4
  <2> QED BY <2>2, <2>3, <2>4
          DEF CatalogStep, SelectCatalog, CheckDatabase, CreateDatabase, CheckRole,
              CreateRole, AlterRole, StatementFails
<1>3. role' \in [Orgs -> Requests \cup {None}]
  <2>1. role' = role \/ role' = [role EXCEPT ![req[r].org] = r]
    BY DEF CatalogStep, SelectCatalog, CheckDatabase, CreateDatabase, CheckRole,
           CreateRole, AlterRole, SealDsn, StatementFails, RecordError
  <2> QED BY <2>1 DEF TypeOK
<1>5. dbs' \in SUBSET Orgs
  <2>1. dbs' = dbs \/ dbs' = dbs \cup {req[r].org}
    BY DEF CatalogStep, SelectCatalog, CheckDatabase, CreateDatabase, CheckRole,
           CreateRole, AlterRole, SealDsn, StatementFails, RecordError
  <2> QED BY <2>1 DEF TypeOK
<1>4. faults' \in 0..MaxFaults /\ overlapped' \in SUBSET Orgs
  BY ProvisionAssumption
     DEF TypeOK, CatalogStep, SelectCatalog, CheckDatabase, CreateDatabase, CheckRole,
         CreateRole, AlterRole, SealDsn, StatementFails, RecordError, Fault, history
<1> QED BY <1>1, <1>2, <1>3, <1>4, <1>5, CatalogGoes DEF TypeOK, RequestType

LEMMA NewLakeIs ==
    ASSUME req \in [Requests -> RequestType], NEW r \in Requests, NEW s \in Slugs
    PROVE  /\ NewLake(r, s) \in LakeType
           /\ NewLake(r, s).state = "live" /\ NewLake(r, s).org = req[r].org
           /\ NewLake(r, s).slug = s /\ ~NewLake(r, s).url
BY DEF NewLake, LakeType, RequestType

LEMMA LakeStepKeepsTypes ==
    ASSUME TypeOK, PlacesOK, NEW r \in Requests, LakeStep(r)
    PROVE  TypeOK'
<1> USE DEF TypeOK
<1>0. /\ req \in [Requests -> RequestType] /\ lake \in [Requests -> LakeType]
      /\ svc \in [Slugs -> ServiceType]
      /\ {"done", "url", "suffix", "board", "deploy", "rollout"} \subseteq Pcs
  BY DEF RequestType, LakeType, ServiceType, Pcs
<1>1. CASE InsertLake(r)
  <2>1. req[r].slug \in Slugs
    BY <1>0 DEF RequestType
  <2>2. lake' \in [Requests -> LakeType]
    <3>1. NewLake(r, req[r].slug) \in LakeType
      BY <1>0, <2>1, NewLakeIs
    <3>2. lake' = lake \/ lake' = [lake EXCEPT ![r] = NewLake(r, req[r].slug)]
      BY <1>1 DEF InsertLake
    <3> HIDE DEF TypeOK
    <3> QED BY <1>0, <3>1, <3>2
  <2>3. req' \in [Requests -> RequestType]
    BY <1>0, <1>1, Goes, TakesLake DEF InsertLake
  <2> QED BY <1>1, <2>2, <2>3 DEF InsertLake, LakeType, RequestType, history
<1>2. CASE InsertMemoryLake(r)
  <2>1. lake' \in [Requests -> LakeType]
    <3>1. NewLake(r, Memory) \in LakeType
      BY <1>0, WaitingIs, NewLakeIs
    <3>2. lake' = lake \/ lake' = [lake EXCEPT ![r] = NewLake(r, Memory)]
      BY <1>2 DEF InsertMemoryLake
    <3> HIDE DEF TypeOK
    <3> QED BY <1>0, <3>1, <3>2
  <2>2. req' \in [Requests -> RequestType]
    BY <1>0, <1>2, Goes DEF InsertMemoryLake
  <2> QED BY <1>2, <2>1, <2>2 DEF InsertMemoryLake, LakeType, RequestType, history
<1>3. CASE InsertSuffixed(r)
  <2>1. BoardSlug(req[r].org) \in Slugs
    BY <1>3 DEF InsertSuffixed, PlacesOK, RequestOK, Slugs
  <2>2. lake' \in [Requests -> LakeType]
    BY <1>0, <1>3, <2>1, NewLakeIs DEF InsertSuffixed
  <2>3. req' \in [Requests -> RequestType]
    BY <1>0, <1>3, Goes DEF InsertSuffixed
  <2> QED BY <1>3, <2>2, <2>3 DEF InsertSuffixed, LakeType, RequestType, history
<1>4. CASE SelectBoard(r)
  <2>1. \A b \in Board(req[r].org) : b \in Requests
    BY DEF Board, Live
  <2>2. req' \in [Requests -> RequestType]
    BY <1>0, <1>4, <2>1, Goes, TakesLake DEF SelectBoard
  <2> QED BY <1>4, <2>2 DEF SelectBoard, RequestType, history
<1>5. CASE ReadDsn(r)
  <2>1. req[r].org \in Orgs
    BY <1>5 DEF ReadDsn, PlacesOK, RequestOK
  <2>2. cat[req[r].org].dsn \in Requests \cup {None}
    BY <2>1
  <2>3. req' \in [Requests -> RequestType]
    BY <1>0, <1>5, <2>1, <2>2, Goes, TakesDsn DEF ReadDsn
  <2> QED BY <1>5, <2>3 DEF ReadDsn, RequestType, history
<1>6. CASE Rollout(r)
  <2>1. req[r].lake \in Requests
    BY <1>0, <1>6 DEF Rollout, PlacesOK, RequestOK, RequestType
  <2> DEFINE env == [lake |-> req[r].lake, dsn |-> req[r].secret,
                     board |-> req[r].kind # "activate" /\ lake[req[r].lake].board]
  <2>2. env \in ServiceType /\ lake[req[r].lake].slug \in Slugs
    BY <1>0, <2>1 DEF ServiceType, RequestType, LakeType
  <2> HIDE DEF env
  <2>3. svc' \in [Slugs -> ServiceType]
    BY <1>0, <1>6, <2>2 DEF Rollout, env
  <2>4. req' \in [Requests -> RequestType]
    BY <1>0, <1>6, Goes DEF Rollout
  <2>5. plain' \in SUBSET Requests
    BY <1>6, <2>1 DEF Rollout
  <2> QED BY <1>6, <2>3, <2>4, <2>5 DEF Rollout, ServiceType, RequestType
<1>7. CASE RecordUrl(r)
  <2>1. lake' \in [Requests -> LakeType]
    <3>1. req[r].lake \in Requests
      BY <1>0, <1>7 DEF RecordUrl, PlacesOK, RequestOK, RequestType
    <3>2. lake' = [lake EXCEPT ![req[r].lake].url = TRUE]
      BY <1>7 DEF RecordUrl
    <3> HIDE DEF TypeOK
    <3>3. \A v \in LakeType : [v EXCEPT !.url = TRUE] \in LakeType
      BY DEF LakeType
    <3>4. lake[req[r].lake] \in LakeType
      BY <1>0, <3>1
    <3> QED BY <1>0, <3>1, <3>2, <3>3, <3>4
  <2>2. req' \in [Requests -> RequestType]
    BY <1>0, <1>7, Goes DEF RecordUrl
  <2> QED BY <1>7, <2>1, <2>2 DEF RecordUrl, LakeType, RequestType, history
<1> QED BY <1>1, <1>2, <1>3, <1>4, <1>5, <1>6, <1>7 DEF LakeStep

LEMMA StepKeepsTypes == ASSUME TypeOK, PlacesOK, [Next]_vars PROVE TypeOK'
<1>0. /\ req \in [Requests -> RequestType] /\ lake \in [Requests -> LakeType]
      /\ ws.key \in Requests \cup {None}
      /\ {"done", "wsdeploy"} \subseteq Pcs
  BY DEF TypeOK, RequestType, LakeType, Pcs
<1>f. Fault => faults' \in 0..MaxFaults
  BY ProvisionAssumption DEF Fault, TypeOK
<1>1. ASSUME NEW r \in Requests, NEW o \in Orgs,
             \/ \E s \in Names : CreateLake(r, o, s)
             \/ CreateBoard(r, o) \/ EnsureMemoryLake(r, o) \/ ProvisionCatalog(r, o)
      PROVE  TypeOK'
  <2>1. req' \in [Requests -> RequestType]
    BY <1>0, <1>1, StepBegins DEF Begins
  <2>2. UNCHANGED <<cat, dbs, role, lake, svc, ws, faults, history>>
    BY <1>1 DEF CreateLake, CreateBoard, EnsureMemoryLake, ProvisionCatalog
  <2> QED BY <2>1, <2>2 DEF TypeOK, RequestType, history
<1>2. ASSUME NEW r \in Requests, NEW l \in Requests, ActivateLake(r, l) PROVE TypeOK'
  <2>1. req' \in [Requests -> RequestType]
    BY <1>0, <1>2, ActivateBegins DEF Begins
  <2> QED BY <1>2, <2>1 DEF ActivateLake, TypeOK, RequestType, history
<1>3. ASSUME NEW r \in Requests, CatalogStep(r) PROVE TypeOK'
  <2>1. req[r].org \in Orgs
    BY <1>3, CatalogGoes DEF PlacesOK, RequestOK, CatalogPcs
  <2> QED BY <1>3, <2>1, CatalogStepKeepsTypes
<1>4. ASSUME NEW r \in Requests, ConnectStep(r) PROVE TypeOK'
  <2>1. req' \in [Requests -> RequestType]
    BY <1>0, <1>4, ConnectBegins, Goes DEF Begins, ConnectStep, ReadKey, StoreKey, DeployWorkspace
  <2>2. req[r].secret \in Requests \cup {None}
    BY <1>0 DEF RequestType
  <2>3. ws' \in [key : Requests \cup {None}, svc : Requests \cup {None},
                 file : Requests \cup {None}]
    BY <1>4, <2>2 DEF TypeOK, ConnectStep, ReadKey, StoreKey, DeployWorkspace
  <2>4. keyRaced' \in BOOLEAN
    BY <1>4 DEF TypeOK, ConnectStep, ReadKey, StoreKey, DeployWorkspace, history
  <2>5. UNCHANGED <<cat, dbs, role, lake, svc, faults, overlapped, plain>>
    BY <1>4 DEF ConnectStep, ReadKey, StoreKey, DeployWorkspace, history
  <2> QED BY <2>1, <2>3, <2>4, <2>5 DEF TypeOK, RequestType
<1>5. ASSUME NEW r \in Requests, Crash(r) PROVE TypeOK'
  <2>1. req' \in [Requests -> RequestType]
    BY <1>0, <1>5, Goes DEF Crash
  <2> QED BY <1>5, <1>f, <2>1 DEF Crash, TypeOK, RequestType, history
<1>6. ASSUME NEW l \in Requests, DeleteLake(l) PROVE TypeOK'
  <2>1. lake' = [lake EXCEPT ![l].state = "deleted"]
    BY <1>6 DEF DeleteLake
  <2>2. lake' \in [Requests -> LakeType]
    BY <1>0, <2>1 DEF LakeType
  <2> QED BY <1>6, <2>2 DEF DeleteLake, TypeOK, LakeType, history
<1>7. CASE BootWorkspace
  BY <1>7 DEF BootWorkspace, TypeOK, history
<1>8. CASE UNCHANGED vars
  BY <1>8 DEF vars, history, TypeOK
<1> QED BY <1>1, <1>2, <1>3, <1>4, <1>5, <1>6, <1>7, <1>8, LakeStepKeepsTypes DEF Next

-----------------------------------------------------------------------------
(* Lakes and services, step by step.                                       *)

\* A lake that was made stays what it is, and a service that was deployed stays deployed.
Kept ==
    /\ \A l \in Requests : Exists(l) =>
          /\ Exists(l)'
          /\ lake'[l].org = lake[l].org /\ lake'[l].slug = lake[l].slug
          /\ lake'[l].board = lake[l].board
    /\ \A s \in Slugs : svc[s].lake # None => svc'[s].lake # None
    /\ plain \subseteq plain'

LEMMA RequestStays ==
    ASSUME TypeOK, NEW r \in Requests, RequestOK(r), req'[r] = req[r], Kept,
           Exists(r)' => Exists(r)
    PROVE  RequestOK(r)'
<1>1. req[r].lake # None => req[r].lake \in Requests /\ lake[req[r].lake].slug \in Slugs
  BY DEF TypeOK
<1> QED BY <1>1 DEF RequestOK, Kept

LEMMA ServiceStays ==
    ASSUME TypeOK, NEW s \in Slugs, ServiceOK(s), svc'[s] = svc[s], Kept
    PROVE  ServiceOK(s)'
<1>1. svc[s].lake # None => svc[s].lake \in Requests
  BY DEF TypeOK
<1> QED BY <1>1 DEF ServiceOK, Kept

(* A step that moves one request and touches no lake and no service. *)
LEMMA PlacesStay ==
    ASSUME TypeOK, PlacesOK, UNCHANGED <<lake, svc, plain>>,
           NEW r \in Requests, Others(r), RequestOK(r)'
    PROVE  PlacesOK'
<1>1. Kept
  BY DEF Kept, Exists
<1>2. ASSUME NEW q \in Requests PROVE RequestOK(q)' /\ LakeOK(q)'
  <2>1. LakeOK(q)'
    BY DEF PlacesOK, LakeOK, Exists
  <2>2. CASE q # r
    BY <1>1, <2>1, <2>2, RequestStays DEF PlacesOK, Others, Exists
  <2> QED BY <2>1, <2>2
<1>3. \A s \in Slugs : ServiceOK(s)'
  BY <1>1, ServiceStays DEF PlacesOK
<1>4. SlugsUnique'
  BY DEF PlacesOK, SlugsUnique
<1> QED BY <1>2, <1>3, <1>4 DEF PlacesOK

LEMMA BeginKeepsPlaces ==
    ASSUME TypeOK, PlacesOK, UNCHANGED <<lake, svc, plain>>,
           NEW r \in Requests, NEW kind, NEW o, NEW l \in Requests \cup {None}, NEW secret, NEW pc,
           Begins(r, kind, o, l, secret, pc),
           (pc \in {"select", "board"} /\ o \in Orgs) \/ pc \in {"keystore", "wsdeploy"},
           kind = "activate" => l # None,
           l # None => Exists(l) /\ lake[l].org = o
    PROVE  PlacesOK'
<1>1. RequestOK(r)'
  BY DEF Begins, PlacesOK, RequestOK, Exists
<1>2. Others(r)
  BY DEF Begins
<1> QED BY <1>1, <1>2, PlacesStay

LEMMA CatalogStepKeepsPlaces ==
    ASSUME TypeOK, PlacesOK, NEW r \in Requests, CatalogStep(r)
    PROVE  PlacesOK'
<1>1. PICK pc \in CatalogPcs \cup {AfterCatalog(r)} : Goto(r, pc)
  BY CatalogGoes
<1>2. pc \in Pcs /\ req \in [Requests -> RequestType]
  BY AfterCatalogIs DEF Pcs, TypeOK, RequestType
<1>3. /\ Others(r) /\ req'[r].pc = pc
      /\ pc # "done" => /\ req'[r].org = req[r].org /\ req'[r].kind = req[r].kind
                        /\ req'[r].lake = req[r].lake
      /\ pc = "done" => req'[r].kind = "none" /\ req'[r].lake = None
  BY <1>1, <1>2, Goes
<1>4. UNCHANGED <<lake, svc, plain>> /\ req[r].pc \in CatalogPcs \cup {"select"}
  BY CatalogGoes
<1>5. RequestOK(r)'
  <2>1. ~Exists(r) /\ ~Exists(r)' /\ req[r].org \in Orgs
    BY <1>4 DEF PlacesOK, RequestOK, Exists, CatalogPcs
  <2>2. pc \in CatalogPcs \cup {"deploy", "done", "insert"}
        /\ (pc = "deploy" => req[r].kind = "activate")
    BY AfterCatalogIs DEF CatalogPcs
  <2>3. CASE pc = "done"
    BY <1>3, <2>1, <2>3 DEF RequestOK
  <2>4. CASE pc # "done"
    BY <1>3, <1>4, <2>1, <2>2, <2>4 DEF PlacesOK, RequestOK, Exists, CatalogPcs
  <2> QED BY <2>3, <2>4
<1> QED BY <1>3, <1>4, <1>5, PlacesStay

\* The lake a request makes, its org's only one of that slug.
LEMMA InsertKeepsPlaces ==
    ASSUME TypeOK, PlacesOK, NEW r \in Requests, NEW s \in Slugs,
           lake' = [lake EXCEPT ![r] = NewLake(r, s)], UNCHANGED <<svc, plain>>,
           req[r].org \in Orgs, req[r].pc \in {"insert", "suffix"},
           ~SlugTaken(req[r].org, s),
           Others(r), req'[r].pc \in {"board", "deploy"}, req'[r].org = req[r].org,
           \/ req'[r].lake = r
           \/ /\ req'[r].lake = req[r].lake /\ req'[r].kind = req[r].kind
              /\ req'[r].pc = "board"
    PROVE  PlacesOK'
<1>1. /\ lake'[r] = NewLake(r, s) /\ \A q \in Requests \ {r} : lake'[q] = lake[q]
      /\ NewLake(r, s).state = "live" /\ NewLake(r, s).org = req[r].org
      /\ NewLake(r, s).slug = s /\ ~NewLake(r, s).url
  BY NewLakeIs DEF TypeOK, RequestType
<1>2. ~Exists(r)
  BY DEF PlacesOK, RequestOK
<1>3. Kept
  BY <1>1, <1>2 DEF Kept, Exists
<1>4. RequestOK(r)'
  <2>1. CASE req'[r].lake = r
    BY <1>1, <2>1, ProvisionAssumption DEF RequestOK, Exists
  <2>2. CASE /\ req'[r].lake = req[r].lake /\ req'[r].kind = req[r].kind
             /\ req'[r].pc = "board"
    <3>1. req[r].lake # None => req[r].lake \in Requests
      BY DEF TypeOK
    <3> QED BY <1>3, <2>2, <3>1 DEF PlacesOK, RequestOK, Kept
  <2> QED BY <2>1, <2>2
<1>5. \A q \in Requests \ {r} : RequestOK(q)'
  BY <1>1, <1>3, RequestStays DEF Others, PlacesOK, Exists
<1>6. \A q \in Requests : LakeOK(q)'
  BY <1>1 DEF PlacesOK, LakeOK, Exists
<1>7. \A t \in Slugs : ServiceOK(t)'
  BY <1>3, ServiceStays DEF PlacesOK
<1>8. SlugsUnique'
  <2>1. \A m \in Requests \ {r} :
           lake[m].state = "live" /\ lake[m].org = req[r].org => lake[m].slug # s
    BY DEF SlugTaken, Live
  <2> SUFFICES ASSUME NEW l \in Requests, NEW m \in Requests,
                      lake'[l].state = "live", lake'[m].state = "live",
                      lake'[l].org = lake'[m].org, lake'[l].slug = lake'[m].slug
               PROVE  l = m
    BY DEF SlugsUnique
  <2>2. CASE l = r \/ m = r
    BY <1>1, <2>1, <2>2
  <2>3. CASE l # r /\ m # r
    BY <1>1, <2>3 DEF PlacesOK, SlugsUnique
  <2> QED BY <2>2, <2>3
<1> QED BY <1>4, <1>5, <1>6, <1>7, <1>8 DEF PlacesOK

\* An INSERT that found the slug or the board taken, a SELECT, a lookup of the DSN.
LEMMA LookupKeepsPlaces ==
    ASSUME TypeOK, PlacesOK, NEW r \in Requests, UNCHANGED <<lake, svc, plain>>,
           Others(r), req[r].org \in Orgs,
           \/ req'[r].pc = "done" /\ req'[r].kind = "none" /\ req'[r].lake = None
           \/ /\ req'[r].org = req[r].org
              /\ \/ /\ req'[r].pc \in {"suffix", "board"}
                    /\ req'[r].kind = req[r].kind /\ req'[r].lake = req[r].lake
                 \/ /\ req'[r].pc \in {"deploy", "rollout"}
                    /\ req'[r].lake \in Requests
                    /\ Exists(req'[r].lake) /\ lake[req'[r].lake].org = req[r].org,
           Exists(r) => req'[r].pc # "suffix"
    PROVE  PlacesOK'
<1>1. CASE req'[r].pc = "done" /\ req'[r].kind = "none" /\ req'[r].lake = None
  <2>1. RequestOK(r)'
    BY <1>1 DEF RequestOK
  <2> QED BY <2>1, PlacesStay
<1>2. CASE /\ req'[r].org = req[r].org
           /\ req'[r].pc \in {"suffix", "board"}
           /\ req'[r].kind = req[r].kind /\ req'[r].lake = req[r].lake
  <2>1. RequestOK(r)'
    BY <1>2 DEF PlacesOK, RequestOK, Exists
  <2> QED BY <2>1, PlacesStay
<1>3. CASE /\ req'[r].org = req[r].org
           /\ req'[r].pc \in {"deploy", "rollout"}
           /\ req'[r].lake \in Requests
           /\ Exists(req'[r].lake) /\ lake[req'[r].lake].org = req[r].org
  <2>1. RequestOK(r)'
    BY <1>3, ProvisionAssumption DEF RequestOK, Exists
  <2> QED BY <2>1, PlacesStay
<1> QED BY <1>1, <1>2, <1>3

(* The provisioner's deploy: whatever the service held, it now holds the   *)
(* env of the request's lake, whose slug it has.                           *)
LEMMA RolloutKeepsPlaces ==
    ASSUME TypeOK, PlacesOK, NEW r \in Requests, Rollout(r)
    PROVE  PlacesOK'
<1> DEFINE l == req[r].lake
           s == lake[l].slug
           env == [lake |-> l, dsn |-> req[r].secret,
                   board |-> req[r].kind # "activate" /\ lake[l].board]
<1>1. /\ req \in [Requests -> RequestType] /\ lake \in [Requests -> LakeType]
      /\ svc \in [Slugs -> ServiceType] /\ "url" \in Pcs
  BY DEF TypeOK, RequestType, LakeType, ServiceType, Pcs
<1>2. l \in Requests /\ l # None /\ Exists(l) /\ lake[l].org = req[r].org /\ req[r].org \in Orgs
  BY <1>1, ProvisionAssumption DEF Rollout, PlacesOK, RequestOK, RequestType
<1>3. s \in Slugs /\ lake[l].board \in BOOLEAN
  BY <1>1, <1>2 DEF LakeType
<1>4. /\ Others(r) /\ req'[r].pc = "url" /\ req'[r].org = req[r].org
      /\ req'[r].kind = req[r].kind /\ req'[r].lake = l
  BY <1>1, Goes DEF Rollout
<1>5. svc' = [svc EXCEPT ![s] = env] /\ lake' = lake
  BY DEF Rollout
<1>6. env.lake = l /\ (env.board = lake[l].board \/ l \in plain')
  <2>1. CASE req[r].kind = "activate"
    BY <2>1 DEF Rollout
  <2>2. CASE req[r].kind # "activate"
    BY <1>3, <2>2
  <2> QED BY <2>1, <2>2
<1> HIDE DEF l, s, env
<1>7. svc'[s] = env /\ \A t \in Slugs \ {s} : svc'[t] = svc[t]
  BY <1>1, <1>3, <1>5
<1>8. Kept
  BY <1>2, <1>5, <1>6, <1>7 DEF Kept, Exists, Rollout
<1>9. RequestOK(r)'
  BY <1>2, <1>4, <1>5, <1>6, <1>7 DEF PlacesOK, RequestOK, Exists, Rollout, s
<1>10. \A q \in Requests \ {r} : RequestOK(q)'
  BY <1>4, <1>5, <1>8, RequestStays DEF Others, PlacesOK, Exists
<1>11. ASSUME NEW m \in Requests PROVE LakeOK(m)'
  <2>1. lake[m].slug \in Slugs
    BY <1>1 DEF LakeType
  <2> QED BY <1>2, <1>5, <1>6, <1>7, <2>1 DEF PlacesOK, LakeOK, Exists
<1>12. ASSUME NEW t \in Slugs, t = s PROVE ServiceOK(t)'
  <2>1. svc'[t].lake = l /\ (svc'[t].board = lake[l].board \/ l \in plain')
    BY <1>6, <1>7, <1>12
  <2>2. lake[l].slug = t
    BY <1>12 DEF s
  <2> QED BY <1>2, <1>5, <2>1, <2>2 DEF ServiceOK, Exists
<1>13. ASSUME NEW t \in Slugs, t # s PROVE ServiceOK(t)'
  BY <1>7, <1>8, <1>13, ServiceStays DEF PlacesOK
<1>14. SlugsUnique'
  BY <1>5 DEF PlacesOK, SlugsUnique
<1> QED BY <1>9, <1>10, <1>11, <1>12, <1>13, <1>14 DEF PlacesOK

(* Recording a URL: the service of that slug was deployed before. *)
LEMMA RecordUrlKeepsPlaces ==
    ASSUME TypeOK, PlacesOK, NEW r \in Requests, RecordUrl(r)
    PROVE  PlacesOK'
<1> DEFINE l == req[r].lake
<1>1. /\ req \in [Requests -> RequestType] /\ lake \in [Requests -> LakeType]
      /\ "done" \in Pcs
  BY DEF TypeOK, RequestType, LakeType, Pcs
<1>2. l \in Requests /\ Exists(l) /\ svc[lake[l].slug].lake # None
  BY <1>1 DEF RecordUrl, PlacesOK, RequestOK, RequestType
<1>3. Others(r) /\ req'[r].pc = "done" /\ req'[r].kind = "none" /\ req'[r].lake = None
  BY <1>1, Goes DEF RecordUrl
<1>4. lake' = [lake EXCEPT ![l].url = TRUE] /\ UNCHANGED <<svc, plain>>
  BY DEF RecordUrl, history
<1> HIDE DEF l
<1>5. \A m \in Requests :
         /\ lake'[m].state = lake[m].state /\ lake'[m].org = lake[m].org
         /\ lake'[m].slug = lake[m].slug /\ lake'[m].board = lake[m].board
         /\ m # l => lake'[m] = lake[m]
  BY <1>1, <1>4 DEF LakeType
<1>6. Kept
  BY <1>4, <1>5 DEF Kept, Exists
<1>7. RequestOK(r)'
  BY <1>3 DEF RequestOK
<1>8. \A q \in Requests \ {r} : RequestOK(q)'
  BY <1>3, <1>5, <1>6, RequestStays DEF Others, PlacesOK, Exists
<1>9. \A m \in Requests : LakeOK(m)'
  BY <1>2, <1>4, <1>5 DEF PlacesOK, LakeOK, Exists
<1>10. \A t \in Slugs : ServiceOK(t)'
  BY <1>4, <1>6, ServiceStays DEF PlacesOK
<1>11. SlugsUnique'
  BY <1>5 DEF PlacesOK, SlugsUnique
<1> QED BY <1>7, <1>8, <1>9, <1>10, <1>11 DEF PlacesOK

LEMMA DeleteKeepsPlaces ==
    ASSUME TypeOK, PlacesOK, NEW l \in Requests, DeleteLake(l)
    PROVE  PlacesOK'
<1>1. lake' = [lake EXCEPT ![l].state = "deleted"] /\ UNCHANGED <<req, svc, plain>>
      /\ lake[l].state = "live" /\ lake \in [Requests -> LakeType]
  BY DEF DeleteLake, history, TypeOK, LakeType
<1>2. \A m \in Requests :
         /\ lake'[m].org = lake[m].org /\ lake'[m].slug = lake[m].slug
         /\ lake'[m].board = lake[m].board /\ lake'[m].url = lake[m].url
         /\ lake'[m].state = IF m = l THEN "deleted" ELSE lake[m].state
  BY <1>1 DEF LakeType
<1>3. Kept /\ \A m \in Requests : Exists(m)' => Exists(m)
  BY <1>1, <1>2 DEF Kept, Exists
<1>4. \A q \in Requests : RequestOK(q)'
  BY <1>1, <1>3, RequestStays DEF PlacesOK
<1>5. \A m \in Requests : LakeOK(m)'
  BY <1>1, <1>2, <1>3 DEF PlacesOK, LakeOK
<1>6. \A t \in Slugs : ServiceOK(t)'
  BY <1>1, <1>3, ServiceStays DEF PlacesOK
<1>7. SlugsUnique'
  BY <1>2 DEF PlacesOK, SlugsUnique
<1> QED BY <1>4, <1>5, <1>6, <1>7 DEF PlacesOK

LEMMA LakeStepKeepsPlaces ==
    ASSUME TypeOK, PlacesOK, NEW r \in Requests, LakeStep(r)
    PROVE  PlacesOK'
<1>0. /\ req \in [Requests -> RequestType]
      /\ {"done", "suffix", "board"} \subseteq Pcs
      /\ Memory \in Slugs /\ req[r].slug \in Slugs
      /\ \A o \in Orgs : BoardSlug(o) \in Slugs
      /\ \A l \in Live(req[r].org) : l \in Requests /\ Exists(l) /\ lake[l].org = req[r].org
  BY WaitingIs DEF TypeOK, RequestType, Pcs, Slugs, Live, Exists
<1>1. CASE InsertLake(r)
  <2>1. req[r].org \in Orgs /\ ~Exists(r)
    BY <1>1 DEF InsertLake, PlacesOK, RequestOK
  <2>2. CASE lake' = lake /\ Goto(r, "done")
    BY <1>0, <1>1, <2>1, <2>2, Goes, LookupKeepsPlaces DEF InsertLake, history
  <2>3. CASE /\ ~SlugTaken(req[r].org, req[r].slug)
             /\ lake' = [lake EXCEPT ![r] = NewLake(r, req[r].slug)]
             /\ req' = [req EXCEPT ![r].pc = "deploy", ![r].lake = r]
    <3>1. Others(r) /\ req'[r].pc = "deploy" /\ req'[r].lake = r /\ req'[r].org = req[r].org
      BY <1>0, <2>3, TakesLake
    <3> QED BY <1>0, <1>1, <2>1, <2>3, <3>1, InsertKeepsPlaces DEF InsertLake, history
  <2> QED BY <1>1, <2>2, <2>3 DEF InsertLake
<1>2. CASE InsertMemoryLake(r)
  <2>1. req[r].org \in Orgs /\ ~Exists(r)
    BY <1>2 DEF InsertMemoryLake, PlacesOK, RequestOK
  <2>2. CASE lake' = lake /\ (Goto(r, "board") \/ Goto(r, "suffix"))
    BY <1>0, <1>2, <2>1, <2>2, Goes, LookupKeepsPlaces DEF InsertMemoryLake, history
  <2>3. CASE /\ ~SlugTaken(req[r].org, Memory)
             /\ lake' = [lake EXCEPT ![r] = NewLake(r, Memory)]
             /\ Goto(r, "board")
    <3>1. /\ Others(r) /\ req'[r].pc = "board" /\ req'[r].lake = req[r].lake
          /\ req'[r].kind = req[r].kind /\ req'[r].org = req[r].org
      BY <1>0, <2>3, Goes
    <3> QED BY <1>0, <1>2, <2>1, <2>3, <3>1, InsertKeepsPlaces DEF InsertMemoryLake, history
  <2> QED BY <1>2, <2>2, <2>3 DEF InsertMemoryLake
<1>3. CASE InsertSuffixed(r)
  <2>1. req[r].org \in Orgs /\ ~Exists(r)
    BY <1>3 DEF InsertSuffixed, PlacesOK, RequestOK
  <2>2. /\ Others(r) /\ req'[r].pc = "board" /\ req'[r].lake = req[r].lake
        /\ req'[r].kind = req[r].kind /\ req'[r].org = req[r].org
    BY <1>0, <1>3, Goes DEF InsertSuffixed
  <2>3. CASE lake' = lake
    BY <1>3, <2>1, <2>2, <2>3, LookupKeepsPlaces DEF InsertSuffixed, history
  <2>4. CASE /\ ~SlugTaken(req[r].org, BoardSlug(req[r].org))
             /\ lake' = [lake EXCEPT ![r] = NewLake(r, BoardSlug(req[r].org))]
    <3>1. \A s \in Slugs : ~SlugTaken(req[r].org, s) /\ lake' = [lake EXCEPT ![r] = NewLake(r, s)]
                             => PlacesOK'
      BY <1>3, <2>1, <2>2, InsertKeepsPlaces DEF InsertSuffixed, history
    <3> QED BY <1>0, <2>1, <2>4, <3>1
  <2> QED BY <1>3, <2>3, <2>4 DEF InsertSuffixed
<1>4. CASE SelectBoard(r)
  <2>1. req[r].org \in Orgs
    BY <1>4 DEF SelectBoard, PlacesOK, RequestOK
  <2>2. CASE Goto(r, "done")
    BY <1>0, <1>4, <2>1, <2>2, Goes, LookupKeepsPlaces DEF SelectBoard, history
  <2>3. ASSUME NEW b \in Board(req[r].org),
               req' = [req EXCEPT ![r].pc = "deploy", ![r].lake = b]
        PROVE  PlacesOK'
    <3>1. b \in Requests /\ Exists(b) /\ lake[b].org = req[r].org
      BY <1>0 DEF Board
    <3>2. Others(r) /\ req'[r].pc = "deploy" /\ req'[r].lake = b /\ req'[r].org = req[r].org
      BY <1>0, <2>3, <3>1, TakesLake
    <3> QED BY <1>4, <2>1, <3>1, <3>2, LookupKeepsPlaces DEF SelectBoard, history
  <2> QED BY <1>4, <2>2, <2>3 DEF SelectBoard
<1>5. CASE ReadDsn(r)
  <2>1. /\ req[r].org \in Orgs /\ req[r].lake \in Requests /\ Exists(req[r].lake)
        /\ lake[req[r].lake].org = req[r].org
    BY <1>0, <1>5 DEF ReadDsn, PlacesOK, RequestOK, RequestType
  <2>2. CASE Goto(r, "done")
    BY <1>0, <1>5, <2>1, <2>2, Goes, LookupKeepsPlaces DEF ReadDsn, history
  <2>3. CASE req' = [req EXCEPT ![r].pc = "rollout", ![r].secret = cat[req[r].org].dsn]
    <3>1. cat[req[r].org].dsn \in Requests \cup {None}
      BY <2>1 DEF TypeOK
    <3>2. /\ Others(r) /\ req'[r].pc = "rollout" /\ req'[r].lake = req[r].lake
          /\ req'[r].org = req[r].org
      BY <1>0, <2>1, <2>3, <3>1, TakesDsn
    <3> QED BY <1>5, <2>1, <3>2, LookupKeepsPlaces DEF ReadDsn, history
  <2> QED BY <1>5, <2>2, <2>3 DEF ReadDsn
<1> QED BY <1>1, <1>2, <1>3, <1>4, <1>5, RolloutKeepsPlaces, RecordUrlKeepsPlaces DEF LakeStep

LEMMA StepKeepsPlaces == ASSUME TypeOK, PlacesOK, [Next]_vars PROVE PlacesOK'
<1>0. /\ req \in [Requests -> RequestType] /\ lake \in [Requests -> LakeType]
      /\ ws.key \in Requests \cup {None}
      /\ {"done", "wsdeploy"} \subseteq Pcs
  BY DEF TypeOK, RequestType, LakeType, Pcs
<1>1. ASSUME NEW r \in Requests, NEW o \in Orgs,
             \/ \E s \in Names : CreateLake(r, o, s)
             \/ CreateBoard(r, o) \/ EnsureMemoryLake(r, o) \/ ProvisionCatalog(r, o)
      PROVE  PlacesOK'
  <2>1. UNCHANGED <<lake, svc, plain>>
    BY <1>1 DEF CreateLake, CreateBoard, EnsureMemoryLake, ProvisionCatalog, history
  <2>2. PICK kind \in {"lake", "qb", "ensure", "catalog"}, pc \in {"select", "board"} :
           Begins(r, kind, o, None, None, pc)
    BY <1>0, <1>1, StepBegins
  <2> QED BY <2>1, <2>2, BeginKeepsPlaces
<1>2. ASSUME NEW r \in Requests, NEW l \in Requests, ActivateLake(r, l) PROVE PlacesOK'
  <2>1. UNCHANGED <<lake, svc, plain>> /\ Exists(l)
    BY <1>2 DEF ActivateLake, history, Exists
  <2>2. Begins(r, "activate", lake[l].org, l, None, "select")
    BY <1>0, <1>2, ActivateBegins
  <2>3. lake[l].org \in Orgs /\ l # None
    BY <2>1, ProvisionAssumption DEF PlacesOK, LakeOK
  <2>4. RequestOK(r)'
    BY <2>1, <2>2, <2>3 DEF Begins, PlacesOK, RequestOK, Exists
  <2> QED BY <2>1, <2>2, <2>4, PlacesStay DEF Begins
<1>3. ASSUME NEW r \in Requests, CatalogStep(r) PROVE PlacesOK'
  BY <1>3, CatalogStepKeepsPlaces
<1>4. ASSUME NEW r \in Requests, ConnectStep(r) PROVE PlacesOK'
  <2>1. UNCHANGED <<lake, svc, plain>>
    BY <1>4 DEF ConnectStep, ReadKey, StoreKey, DeployWorkspace, history
  <2>2. CASE ReadKey(r)
    <3>1. /\ Others(r) /\ req[r].pc = "idle"
          /\ req'[r].pc \in {"wsdeploy", "keystore"} /\ req'[r].kind = "connect"
          /\ req'[r].lake = None
      BY <1>0, <2>2, ConnectBegins DEF Begins
    <3>2. RequestOK(r)'
      BY <2>1, <3>1 DEF PlacesOK, RequestOK, Exists
    <3> QED BY <2>1, <3>1, <3>2, PlacesStay
  <2>3. CASE StoreKey(r) \/ DeployWorkspace(r)
    <3>1. /\ Others(r) /\ req[r].pc \in {"keystore", "wsdeploy"}
          /\ \/ /\ req'[r].pc = "wsdeploy" /\ req'[r].kind = req[r].kind
                /\ req'[r].lake = req[r].lake /\ req'[r].org = req[r].org
             \/ req'[r].pc = "done" /\ req'[r].kind = "none" /\ req'[r].lake = None
      BY <1>0, <2>3, Goes DEF StoreKey, DeployWorkspace
    <3>2. RequestOK(r)'
      BY <2>1, <3>1 DEF PlacesOK, RequestOK, Exists
    <3> QED BY <2>1, <3>1, <3>2, PlacesStay
  <2> QED BY <1>4, <2>2, <2>3 DEF ConnectStep
<1>5. ASSUME NEW r \in Requests, Crash(r) PROVE PlacesOK'
  <2>1. Others(r) /\ req'[r].pc = "done" /\ req'[r].kind = "none" /\ req'[r].lake = None
    BY <1>0, <1>5, Goes DEF Crash
  <2>2. RequestOK(r)'
    BY <2>1 DEF RequestOK
  <2> QED BY <1>5, <2>1, <2>2, PlacesStay DEF Crash, history
<1>6. ASSUME NEW l \in Requests, DeleteLake(l) PROVE PlacesOK'
  BY <1>6, DeleteKeepsPlaces
<1>7. CASE BootWorkspace \/ UNCHANGED vars
  <2>1. UNCHANGED <<lake, svc, plain, req>>
    BY <1>7 DEF BootWorkspace, vars, history
  <2> QED BY <2>1 DEF PlacesOK, RequestOK, LakeOK, ServiceOK, SlugsUnique, Exists
<1> QED BY <1>1, <1>2, <1>3, <1>4, <1>5, <1>6, <1>7, LakeStepKeepsPlaces DEF Next

-----------------------------------------------------------------------------
(* Catalogs, step by step.                                                 *)

LEMMA CatalogStays ==
    ASSUME NEW o \in Orgs, CatalogOK(o), overlapped \subseteq overlapped',
           cat'[o] = cat[o], role'[o] = role[o],
           \A r \in Requests : InCatalog(r, o)' =>
               InCatalog(r, o) /\ (req'[r].pc = "seal" => req[r].pc = "seal"),
           \A r \in Requests : req'[r].pc = "rollout" /\ req'[r].org = o =>
               \/ req[r].pc = "rollout" /\ req[r].org = o /\ req'[r].secret = req[r].secret
               \/ o \notin overlapped' => Connects(o, req'[r].secret),
           \A s \in Slugs : svc'[s].lake # None /\ lake'[svc'[s].lake].org = o =>
               \/ svc[s].lake # None /\ lake[svc[s].lake].org = o /\ svc'[s].dsn = svc[s].dsn
               \/ o \notin overlapped' => Connects(o, svc'[s].dsn)
    PROVE  CatalogOK(o)'
<1> SUFFICES ASSUME o \notin overlapped'
             PROVE  /\ \A q, r \in Requests : InCatalog(q, o)' /\ InCatalog(r, o)' => q = r
                    /\ \A r \in Requests : InCatalog(r, o)' =>
                          cat'[o].state # "ready" /\ (req'[r].pc = "seal" => role'[o] = r)
                    /\ cat'[o].state = "ready" => cat'[o].dsn = role'[o]
                    /\ \A r \in Requests : req'[r].pc = "rollout" /\ req'[r].org = o =>
                          Connects(o, req'[r].secret)
                    /\ \A s \in Slugs : svc'[s].lake # None /\ lake'[svc'[s].lake].org = o =>
                          Connects(o, svc'[s].dsn)
  BY DEF CatalogOK, Connects
<1>1. o \notin overlapped
  OBVIOUS
<1> QED BY <1>1 DEF CatalogOK

(* Steps outside provisionOrgCatalog that do not deploy. *)
LEMMA CatalogUntouched ==
    ASSUME TypeOK, PlacesOK, NEW o \in Orgs, CatalogOK(o),
           UNCHANGED <<cat, role, overlapped, svc>>, Kept,
           NEW r \in Requests, Others(r), req'[r].pc \notin CatalogPcs,
           req'[r].pc = "rollout" /\ req'[r].org = o /\ o \notin overlapped =>
               Connects(o, req'[r].secret)
    PROVE  CatalogOK(o)'
<1>1. \A s \in Slugs : svc[s].lake # None =>
         svc[s].lake \in Requests /\ lake'[svc[s].lake].org = lake[svc[s].lake].org
  BY DEF TypeOK, PlacesOK, ServiceOK, Kept
<1>2. \A q \in Requests : InCatalog(q, o)' => q # r /\ req'[q] = req[q]
  BY DEF InCatalog, Others
<1>3. \A q \in Requests : InCatalog(q, o)' =>
         InCatalog(q, o) /\ (req'[q].pc = "seal" => req[q].pc = "seal")
  BY <1>2 DEF InCatalog
<1>4. \A q \in Requests : req'[q].pc = "rollout" /\ req'[q].org = o =>
         \/ req[q].pc = "rollout" /\ req[q].org = o /\ req'[q].secret = req[q].secret
         \/ o \notin overlapped' => Connects(o, req'[q].secret)
  BY DEF Others
<1> QED BY <1>1, <1>3, <1>4, CatalogStays

LEMMA LakeKept == ASSUME UNCHANGED <<lake, svc, plain>> PROVE Kept
BY DEF Kept, Exists

LEMMA CatalogStepKeepsCatalog ==
    ASSUME TypeOK, PlacesOK, NEW o \in Orgs, CatalogOK(o), NEW r \in Requests, CatalogStep(r)
    PROVE  CatalogOK(o)'
<1>0. /\ req \in [Requests -> RequestType]
      /\ cat \in [Orgs -> [state : {"none", "ready", "error"}, dsn : Requests \cup {None}]]
      /\ role \in [Orgs -> Requests \cup {None}]
      /\ overlapped \subseteq overlapped' /\ UNCHANGED <<lake, svc>>
  BY DEF TypeOK, RequestType, CatalogStep, SelectCatalog, CheckDatabase, CreateDatabase,
         CheckRole, CreateRole, AlterRole, SealDsn, StatementFails, RecordError, history
<1>1. PICK pc \in CatalogPcs \cup {AfterCatalog(r)} : Goto(r, pc)
  BY CatalogGoes
<1>2. /\ Others(r) /\ req'[r].pc = pc /\ pc # "rollout"
      /\ pc # "done" => req'[r].org = req[r].org
  <2>1. pc \in Pcs /\ pc # "rollout"
    BY AfterCatalogIs DEF Pcs, CatalogPcs
  <2> QED BY <1>0, <1>1, <2>1, Goes
<1>3. \A q \in Requests : req'[q].pc = "rollout" /\ req'[q].org = o =>
         req[q].pc = "rollout" /\ req[q].org = o /\ req'[q].secret = req[q].secret
  BY <1>2 DEF Others
<1>4. \A q \in Requests \ {r} : InCatalog(q, o)' <=> InCatalog(q, o)
  BY <1>2 DEF Others, InCatalog
<1>5. CASE req[r].org # o
  <2>1. cat'[o] = cat[o] /\ role'[o] = role[o]
    BY <1>5 DEF TypeOK, CatalogStep, SelectCatalog, CheckDatabase, CreateDatabase, CheckRole,
           CreateRole, AlterRole, SealDsn, StatementFails, RecordError
  <2>2. ~InCatalog(r, o)'
    BY <1>2, <1>5 DEF InCatalog, CatalogPcs
  <2>3. \A q \in Requests : InCatalog(q, o)' =>
           InCatalog(q, o) /\ (req'[q].pc = "seal" => req[q].pc = "seal")
    BY <1>2, <2>2 DEF Others, InCatalog
  <2> QED BY <1>0, <1>3, <2>1, <2>3, CatalogStays
<1>6. CASE req[r].org = o /\ req[r].pc = "select"
  <2>1. SelectCatalog(r)
    BY <1>6 DEF CatalogStep, SelectCatalog, CheckDatabase, CreateDatabase, CheckRole,
           CreateRole, AlterRole, SealDsn, StatementFails, RecordError, CatalogPcs
  <2>2. UNCHANGED <<cat, role>>
    BY <2>1 DEF SelectCatalog
  <2>3. CASE cat[o].state = "ready"
    <3>1. Goto(r, AfterCatalog(r)) /\ AfterCatalog(r) \in Pcs
      BY <1>6, <2>1, <2>3, AfterCatalogIs DEF SelectCatalog, Pcs
    <3>2. req'[r].pc = AfterCatalog(r)
      BY <1>0, <3>1, Goes
    <3>3. ~InCatalog(r, o)'
      BY <3>2, AfterCatalogIs DEF InCatalog, CatalogPcs
    <3>4. \A q \in Requests : InCatalog(q, o)' =>
             InCatalog(q, o) /\ (req'[q].pc = "seal" => req[q].pc = "seal")
      BY <1>2, <3>3 DEF Others, InCatalog
    <3> QED BY <1>0, <1>3, <2>2, <3>4, CatalogStays
  <2>4. CASE cat[o].state # "ready"
    <3> SUFFICES ASSUME o \notin overlapped' PROVE CatalogOK(o)'
      BY DEF CatalogOK
    <3>1. Goto(r, "db") /\ \A q \in Requests : ~InCatalog(q, o)
      BY <1>6, <2>1, <2>4 DEF SelectCatalog, InCatalog
    <3>2. req'[r].pc = "db"
      BY <1>0, <3>1, Goes DEF Pcs, CatalogPcs
    <3>3. \A q \in Requests : InCatalog(q, o)' => q = r
      BY <1>4, <3>1
    <3> QED BY <1>0, <1>3, <2>2, <2>4, <3>2, <3>3 DEF CatalogOK, Connects
  <2> QED BY <2>3, <2>4
<1>7. CASE req[r].org = o /\ req[r].pc # "select"
  <2> SUFFICES ASSUME o \notin overlapped' PROVE CatalogOK(o)'
    BY DEF CatalogOK
  <2>1. InCatalog(r, o) /\ o \notin overlapped
    BY <1>0, <1>7, CatalogGoes DEF InCatalog
  <2>2. /\ cat[o].state # "ready"
        /\ \A q \in Requests : InCatalog(q, o) => q = r
        /\ req[r].pc = "seal" => role[o] = r
    BY <2>1 DEF CatalogOK
  <2>3. /\ \A q \in Requests : ~(req'[q].pc = "rollout" /\ req'[q].org = o)
        /\ \A s \in Slugs : ~(svc'[s].lake # None /\ lake'[svc'[s].lake].org = o)
    BY <1>0, <1>3, <2>1, <2>2 DEF CatalogOK, Connects
  <2>4. \A q \in Requests : InCatalog(q, o)' => q = r
    BY <1>4, <2>2
  <2>5. CASE SealDsn(r)
    <3>1. cat'[o] = [state |-> "ready", dsn |-> r] /\ role' = role /\ role[o] = r
      BY <1>0, <1>7, <2>2, <2>5 DEF SealDsn
    <3>2. Goto(r, AfterCatalog(r)) /\ AfterCatalog(r) \in Pcs
      BY <2>5, AfterCatalogIs DEF SealDsn, Pcs
    <3>3. ~InCatalog(r, o)'
      BY <1>0, <3>2, Goes, AfterCatalogIs DEF InCatalog, CatalogPcs
    <3> QED BY <2>3, <2>4, <3>1, <3>3 DEF CatalogOK
  <2>6. CASE ~SealDsn(r)
    <3>1. cat'[o].state # "ready"
      BY <1>0, <1>7, <2>2, <2>6 DEF CatalogStep, SelectCatalog, CheckDatabase, CreateDatabase,
             CheckRole, CreateRole, AlterRole, StatementFails, RecordError
    <3>2. req'[r].pc = "seal" => role'[o] = r
      <4> SUFFICES ASSUME req'[r].pc = "seal" PROVE role'[o] = r
        OBVIOUS
      <4>1. AfterCatalog(r) \in Pcs \ {"seal"} /\ CatalogPcs \subseteq Pcs /\ "done" \in Pcs
        BY AfterCatalogIs DEF Pcs, CatalogPcs
      <4>2. \A c \in Pcs : Goto(r, c) => c = "seal"
        BY <1>0, Goes
      <4>3. (CreateRole(r) /\ role[o] = None) \/ AlterRole(r)
        BY <1>7, <2>6, <4>1, <4>2
           DEF CatalogStep, SelectCatalog, CheckDatabase, CreateDatabase, CheckRole,
               CreateRole, StatementFails, RecordError, CatalogPcs
      <4> QED BY <1>0, <1>7, <4>3 DEF CreateRole, AlterRole
    <3> QED BY <2>3, <2>4, <3>1, <3>2 DEF CatalogOK
  <2> QED BY <2>5, <2>6
<1> QED BY <1>5, <1>6, <1>7

LEMMA LakeStepKeepsCatalog ==
    ASSUME TypeOK, PlacesOK, NEW o \in Orgs, CatalogOK(o), NEW r \in Requests, LakeStep(r)
    PROVE  CatalogOK(o)'
<1>0. /\ req \in [Requests -> RequestType] /\ lake \in [Requests -> LakeType]
      /\ svc \in [Slugs -> ServiceType]
      /\ {"done", "url", "suffix", "board", "deploy", "rollout"} \subseteq Pcs
      /\ {"done", "url", "suffix", "board", "deploy", "rollout"} \cap CatalogPcs = {}
      /\ UNCHANGED <<cat, role, overlapped>>
  BY DEF TypeOK, RequestType, LakeType, ServiceType, Pcs, CatalogPcs, LakeStep, InsertLake,
         InsertMemoryLake, InsertSuffixed, SelectBoard, ReadDsn, Rollout, RecordUrl, history
<1>1. \A l \in Live(req[r].org) : l \in Requests
  BY DEF Live
<1>2. CASE InsertLake(r) \/ InsertMemoryLake(r) \/ InsertSuffixed(r)
  <2>1. ~Exists(r) /\ UNCHANGED svc /\ UNCHANGED plain
    BY <1>2 DEF InsertLake, InsertMemoryLake, InsertSuffixed, PlacesOK, RequestOK, history
  <2>2. \A l \in Requests \ {r} : lake'[l] = lake[l]
    BY <1>0, <1>2 DEF InsertLake, InsertMemoryLake, InsertSuffixed
  <2>3. Kept
    BY <2>1, <2>2 DEF Kept, Exists
  <2>4. Others(r) /\ req'[r].pc \in {"done", "suffix", "board", "deploy"}
    BY <1>0, <1>2, Goes, TakesLake DEF InsertLake, InsertMemoryLake, InsertSuffixed
  <2> QED BY <1>0, <2>1, <2>3, <2>4, CatalogUntouched
<1>3. CASE SelectBoard(r)
  <2>1. Kept /\ UNCHANGED svc
    BY <1>3, LakeKept DEF SelectBoard, history
  <2>2. \A b \in Board(req[r].org) : b \in Requests
    BY <1>1 DEF Board
  <2>3. Others(r) /\ req'[r].pc \in {"done", "deploy"}
    BY <1>0, <1>3, <2>2, Goes, TakesLake DEF SelectBoard
  <2> QED BY <1>0, <2>1, <2>3, CatalogUntouched
<1>4. CASE ReadDsn(r)
  <2>1. Kept /\ UNCHANGED svc
    BY <1>4, LakeKept DEF ReadDsn, history
  <2>2. req[r].org \in Orgs
    BY <1>4 DEF ReadDsn, PlacesOK, RequestOK
  <2>3. CASE Goto(r, "done")
    BY <1>0, <2>1, <2>3, Goes, CatalogUntouched
  <2>4. CASE /\ cat[req[r].org].state = "ready"
             /\ req' = [req EXCEPT ![r].pc = "rollout", ![r].secret = cat[req[r].org].dsn]
    <3>1. cat[req[r].org].dsn \in Requests \cup {None}
      BY <2>2 DEF TypeOK
    <3>2. /\ Others(r) /\ req'[r].pc = "rollout" /\ req'[r].org = req[r].org
          /\ req'[r].secret = cat[req[r].org].dsn
      BY <1>0, <2>2, <2>4, <3>1, TakesDsn
    <3>3. req'[r].org = o /\ o \notin overlapped => Connects(o, req'[r].secret)
      BY <2>4, <3>2 DEF CatalogOK, Connects
    <3> QED BY <1>0, <2>1, <3>2, <3>3, CatalogUntouched
  <2> QED BY <1>4, <2>3, <2>4 DEF ReadDsn
<1>5. CASE Rollout(r)
  <2> DEFINE l == req[r].lake
             s == lake[l].slug
  <2>1. l \in Requests /\ lake[l].org = req[r].org /\ UNCHANGED lake
    BY <1>0, <1>5, ProvisionAssumption DEF Rollout, PlacesOK, RequestOK, RequestType
  <2>2. Others(r) /\ req'[r].pc = "url"
    BY <1>0, <1>5, Goes DEF Rollout
  <2>3. /\ svc'[s].lake = l /\ svc'[s].dsn = req[r].secret
        /\ \A t \in Slugs \ {s} : svc'[t] = svc[t]
    <3>1. s \in Slugs
      BY <1>0, <2>1 DEF LakeType
    <3> QED BY <1>0, <1>5, <3>1 DEF Rollout
  <2>4. req[r].org = o /\ o \notin overlapped => Connects(o, req[r].secret)
    BY <1>5 DEF Rollout, CatalogOK
  <2> HIDE DEF l, s
  <2>5. \A t \in Slugs : svc'[t].lake # None /\ lake'[svc'[t].lake].org = o =>
           \/ svc[t].lake # None /\ lake[svc[t].lake].org = o /\ svc'[t].dsn = svc[t].dsn
           \/ o \notin overlapped' => Connects(o, svc'[t].dsn)
    BY <1>0, <2>1, <2>3, <2>4
  <2>6. \A q \in Requests : InCatalog(q, o)' => q # r /\ req'[q] = req[q]
    BY <1>0, <2>2 DEF InCatalog, Others
  <2>7. \A q \in Requests : InCatalog(q, o)' =>
           InCatalog(q, o) /\ (req'[q].pc = "seal" => req[q].pc = "seal")
    BY <2>6 DEF InCatalog
  <2>8. \A q \in Requests : req'[q].pc = "rollout" /\ req'[q].org = o =>
           req[q].pc = "rollout" /\ req[q].org = o /\ req'[q].secret = req[q].secret
    BY <2>2 DEF Others
  <2> QED BY <1>0, <2>5, <2>7, <2>8, CatalogStays
<1>6. CASE RecordUrl(r)
  <2>1. /\ \A m \in Requests :
             /\ lake'[m].state = lake[m].state /\ lake'[m].org = lake[m].org
             /\ lake'[m].slug = lake[m].slug /\ lake'[m].board = lake[m].board
        /\ UNCHANGED <<svc, plain>>
    BY <1>0, <1>6 DEF RecordUrl, LakeType, history
  <2>2. Kept
    BY <2>1 DEF Kept, Exists
  <2>3. Others(r) /\ req'[r].pc = "done"
    BY <1>0, <1>6, Goes DEF RecordUrl
  <2> QED BY <1>0, <2>1, <2>2, <2>3, CatalogUntouched
<1> QED BY <1>2, <1>3, <1>4, <1>5, <1>6 DEF LakeStep

LEMMA StepKeepsCatalog ==
    ASSUME TypeOK, PlacesOK, NEW o \in Orgs, CatalogOK(o), [Next]_vars
    PROVE  CatalogOK(o)'
<1>0. /\ req \in [Requests -> RequestType] /\ lake \in [Requests -> LakeType]
      /\ ws.key \in Requests \cup {None}
      /\ {"done", "wsdeploy"} \subseteq Pcs
      /\ {"done", "wsdeploy", "keystore", "select", "board"} \cap CatalogPcs = {}
  BY DEF TypeOK, RequestType, LakeType, Pcs, CatalogPcs
<1>1. ASSUME NEW r \in Requests, Others(r),
             req'[r].pc \in {"done", "wsdeploy", "keystore", "select", "board"},
             UNCHANGED <<cat, role, overlapped, svc, lake, plain>>
      PROVE  CatalogOK(o)'
  BY <1>0, <1>1, LakeKept, CatalogUntouched
<1>2. ASSUME NEW r \in Requests, NEW p \in Orgs,
             \/ \E s \in Names : CreateLake(r, p, s)
             \/ CreateBoard(r, p) \/ EnsureMemoryLake(r, p) \/ ProvisionCatalog(r, p)
      PROVE  CatalogOK(o)'
  <2>1. Others(r) /\ req'[r].pc \in {"select", "board"}
    BY <1>0, <1>2, StepBegins DEF Begins
  <2>2. UNCHANGED <<cat, role, overlapped, svc, lake, plain>>
    BY <1>2 DEF CreateLake, CreateBoard, EnsureMemoryLake, ProvisionCatalog, history
  <2> QED BY <1>1, <2>1, <2>2
<1>3. ASSUME NEW r \in Requests, NEW l \in Requests, ActivateLake(r, l) PROVE CatalogOK(o)'
  BY <1>0, <1>1, <1>3, ActivateBegins DEF Begins, ActivateLake, history
<1>4. ASSUME NEW r \in Requests, ConnectStep(r) PROVE CatalogOK(o)'
  <2>1. Others(r) /\ req'[r].pc \in {"done", "wsdeploy", "keystore"}
    BY <1>0, <1>4, ConnectBegins, Goes DEF Begins, ConnectStep, StoreKey, DeployWorkspace
  <2>2. UNCHANGED <<cat, role, overlapped, svc, lake, plain>>
    BY <1>4 DEF ConnectStep, ReadKey, StoreKey, DeployWorkspace, history
  <2> QED BY <1>1, <2>1, <2>2
<1>5. ASSUME NEW r \in Requests, Crash(r) PROVE CatalogOK(o)'
  BY <1>0, <1>1, <1>5, Goes DEF Crash, history
<1>6. ASSUME UNCHANGED <<cat, role, overlapped, svc, req>>,
             \A s \in Slugs : svc[s].lake # None => lake'[svc[s].lake].org = lake[svc[s].lake].org
      PROVE  CatalogOK(o)'
  BY <1>6 DEF CatalogOK, InCatalog, Connects
<1>7. ASSUME NEW l \in Requests, DeleteLake(l) PROVE CatalogOK(o)'
  <2>1. \A m \in Requests : lake'[m].org = lake[m].org
    BY <1>0, <1>7 DEF DeleteLake, LakeType
  <2>2. \A s \in Slugs : svc[s].lake # None => svc[s].lake \in Requests
    BY DEF TypeOK
  <2> QED BY <1>6, <1>7, <2>1, <2>2 DEF DeleteLake, history
<1>8. CASE BootWorkspace \/ UNCHANGED vars
  BY <1>6, <1>8 DEF BootWorkspace, vars, history
<1> QED BY <1>2, <1>3, <1>4, <1>5, <1>7, <1>8, CatalogStepKeepsCatalog, LakeStepKeepsCatalog
        DEF Next

-----------------------------------------------------------------------------
(* The workspace's key, step by step.                                      *)

(* Every step that is not one of a connect. *)
LEMMA KeyStays ==
    ASSUME KeyOK, UNCHANGED <<ws, keyRaced>>,
           \A q \in Requests : req'[q].pc \in {"keystore", "wsdeploy"} => req'[q] = req[q]
    PROVE  KeyOK'
BY DEF KeyOK

LEMMA ConnectKeepsKey ==
    ASSUME TypeOK, KeyOK, NEW r \in Requests, ConnectStep(r)
    PROVE  KeyOK'
<1>0. /\ req \in [Requests -> RequestType]
      /\ ws \in [key : Requests \cup {None}, svc : Requests \cup {None},
                 file : Requests \cup {None}]
      /\ {"done", "wsdeploy"} \subseteq Pcs
  BY DEF TypeOK, RequestType, Pcs
<1>1. ws.key \in Requests \cup {None}
  BY <1>0
<1> SUFFICES ASSUME ~keyRaced'
             PROVE  KeyOK'
  BY DEF KeyOK
<1>2. ~keyRaced
  BY DEF ConnectStep, ReadKey, StoreKey, DeployWorkspace, history
<1>3. CASE ReadKey(r)
  <2>1. ws' = ws
    BY <1>3 DEF ReadKey
  <2>2. CASE ws.key # None
    <3>1. /\ Others(r) /\ req'[r].pc = "wsdeploy" /\ req'[r].secret = ws.key
      BY <1>0, <1>1, <1>3, <2>2, ConnectBegins DEF Begins
    <3> QED BY <1>2, <2>1, <2>2, <3>1 DEF KeyOK, Others
  <2>3. CASE ws.key = None
    <3>1. /\ Others(r) /\ req'[r].pc = "keystore" /\ req'[r].secret = r
      BY <1>0, <1>1, <1>3, <2>3, ProvisionAssumption, ConnectBegins DEF Begins
    <3>2. \A q \in Requests : req[q].pc # "keystore"
      BY <1>3, <2>3 DEF ReadKey
    <3> QED BY <1>2, <2>1, <2>3, <3>1, <3>2 DEF KeyOK, Others
  <2> QED BY <2>2, <2>3
<1>4. CASE StoreKey(r)
  <2>1. /\ Others(r) /\ req'[r].pc = "wsdeploy" /\ req'[r].secret = req[r].secret
    BY <1>0, <1>4, Goes DEF StoreKey
  <2>2. ws'.key = r /\ ws'.svc = ws.svc /\ ws'.file = ws.file /\ r # None
    BY <1>0, <1>4, ProvisionAssumption DEF StoreKey
  <2>3. req[r].pc = "keystore" /\ ws.key = None /\ req[r].secret = r
    BY <1>2, <1>4 DEF StoreKey, KeyOK
  <2>4. \A q \in Requests \ {r} : req'[q].pc # "keystore" /\ req'[q].pc # "wsdeploy"
    BY <1>2, <2>1, <2>3 DEF KeyOK, Others
  <2> QED BY <1>2, <2>1, <2>2, <2>3, <2>4 DEF KeyOK
<1>5. CASE DeployWorkspace(r)
  <2>1. Others(r) /\ req'[r].pc = "done"
    BY <1>0, <1>5, Goes DEF DeployWorkspace
  <2>2. ws'.key = ws.key /\ ws'.svc = req[r].secret /\ ws'.file = ws.file
    BY <1>0, <1>5 DEF DeployWorkspace
  <2>3. req[r].secret = ws.key
    BY <1>2, <1>5 DEF DeployWorkspace, KeyOK
  <2> QED BY <1>2, <2>1, <2>2, <2>3 DEF KeyOK, Others
<1> QED BY <1>3, <1>4, <1>5 DEF ConnectStep

LEMMA StepKeepsKey == ASSUME TypeOK, KeyOK, [Next]_vars PROVE KeyOK'
<1>0. /\ req \in [Requests -> RequestType] /\ lake \in [Requests -> LakeType]
      /\ {"done", "url", "suffix", "board", "deploy", "rollout"} \subseteq Pcs
      /\ ws \in [key : Requests \cup {None}, svc : Requests \cup {None},
                 file : Requests \cup {None}]
  BY DEF TypeOK, RequestType, LakeType, Pcs
<1>1. ASSUME NEW r \in Requests, Others(r), req'[r].pc \notin {"keystore", "wsdeploy"},
             UNCHANGED <<ws, keyRaced>>
      PROVE  KeyOK'
  BY <1>1, KeyStays DEF Others
<1>2. ASSUME NEW r \in Requests, NEW o \in Orgs,
             \/ \E s \in Names : CreateLake(r, o, s)
             \/ CreateBoard(r, o) \/ EnsureMemoryLake(r, o) \/ ProvisionCatalog(r, o)
      PROVE  KeyOK'
  <2>1. Others(r) /\ req'[r].pc \in {"select", "board"}
    BY <1>0, <1>2, StepBegins DEF Begins
  <2>2. UNCHANGED <<ws, keyRaced>>
    BY <1>2 DEF CreateLake, CreateBoard, EnsureMemoryLake, ProvisionCatalog, history
  <2> QED BY <1>1, <2>1, <2>2
<1>3. ASSUME NEW r \in Requests, NEW l \in Requests, ActivateLake(r, l) PROVE KeyOK'
  <2>1. Others(r) /\ req'[r].pc = "select"
    BY <1>0, <1>3, ActivateBegins DEF Begins
  <2>2. UNCHANGED <<ws, keyRaced>>
    BY <1>3 DEF ActivateLake, history
  <2> QED BY <1>1, <2>1, <2>2
<1>4. ASSUME NEW r \in Requests, CatalogStep(r) PROVE KeyOK'
  <2>1. PICK pc \in CatalogPcs \cup {AfterCatalog(r)} : Goto(r, pc)
    BY <1>4, CatalogGoes
  <2>2. pc \in Pcs \ {"keystore", "wsdeploy"}
    BY AfterCatalogIs DEF Pcs, CatalogPcs
  <2> QED BY <1>0, <1>1, <1>4, <2>1, <2>2, Goes, CatalogGoes
<1>5. ASSUME NEW r \in Requests, LakeStep(r) PROVE KeyOK'
  <2>1. Others(r) /\ req'[r].pc \in {"done", "url", "suffix", "board", "deploy", "rollout"}
    BY <1>0, <1>5, Goes
       DEF LakeStep, InsertLake, InsertMemoryLake, InsertSuffixed, SelectBoard, ReadDsn,
           Rollout, RecordUrl, RequestType, Others
  <2>2. UNCHANGED <<ws, keyRaced>>
    BY <1>5 DEF LakeStep, InsertLake, InsertMemoryLake, InsertSuffixed, SelectBoard, ReadDsn,
           Rollout, RecordUrl, history
  <2> QED BY <1>1, <2>1, <2>2
<1>6. ASSUME NEW r \in Requests, Crash(r) PROVE KeyOK'
  BY <1>0, <1>1, <1>6, Goes DEF Crash, history
<1>7. CASE (\E l \in Requests : DeleteLake(l)) \/ UNCHANGED vars
  BY <1>7, KeyStays DEF DeleteLake, vars, history
<1>8. CASE BootWorkspace
  <2>1. ws'.key = ws.key /\ ws'.svc = ws.svc /\ ws'.file = ws.svc /\ UNCHANGED <<req, keyRaced>>
    BY <1>0, <1>8 DEF BootWorkspace, history
  <2> QED BY <2>1 DEF KeyOK
<1> QED BY <1>2, <1>3, <1>4, <1>5, <1>6, <1>7, <1>8, ConnectKeepsKey DEF Next

-----------------------------------------------------------------------------
(* The invariant, and what follows from it.                                *)

LEMMA InitHolds == ASSUME Init PROVE IInv
<1>1. TypeOK
  <2>1. /\ NoLake \in LakeType /\ NoService \in ServiceType /\ Waiting \in RequestType
    BY WaitingIs DEF NoLake, NoService, LakeType, ServiceType
  <2>2. /\ lake \in [Requests -> LakeType] /\ svc \in [Slugs -> ServiceType]
        /\ req \in [Requests -> RequestType]
    BY <2>1 DEF Init
  <2>3. /\ cat \in [Orgs -> [state : {"none", "ready", "error"}, dsn : Requests \cup {None}]]
        /\ role \in [Orgs -> Requests \cup {None}]
    BY DEF Init
  <2>4. ws \in [key : Requests \cup {None}, svc : Requests \cup {None},
               file : Requests \cup {None}]
    BY DEF Init
  <2>5. faults \in 0..MaxFaults
    BY ProvisionAssumption DEF Init
  <2>6. dbs = {} /\ overlapped = {} /\ keyRaced = FALSE /\ plain = {}
    BY DEF Init
  <2> QED BY <2>2, <2>3, <2>4, <2>5, <2>6 DEF TypeOK, LakeType, ServiceType, RequestType
<1>2. \A r \in Requests : /\ lake[r].state = "none" /\ ~lake[r].url
                          /\ req[r].pc = "idle" /\ req[r].kind = "none" /\ req[r].lake = None
  BY DEF Init, NoLake, Waiting
<1>3. \A s \in Slugs : svc[s].lake = None
  BY DEF Init, NoService
<1>4. PlacesOK
  BY <1>2, <1>3 DEF PlacesOK, RequestOK, LakeOK, ServiceOK, SlugsUnique, Exists
<1>5. \A o \in Orgs : cat[o].state = "none"
  BY DEF Init
<1>6. \A o \in Orgs : CatalogOK(o)
  BY <1>2, <1>3, <1>5 DEF CatalogOK, InCatalog, CatalogPcs
<1>7. KeyOK
  BY <1>2 DEF KeyOK, Init
<1> QED BY <1>1, <1>4, <1>6, <1>7 DEF IInv

LEMMA Inductive == Spec => []IInv
<1>1. Init => IInv
  BY InitHolds
<1>2. IInv /\ [Next]_vars => IInv'
  BY StepKeepsTypes, StepKeepsPlaces, StepKeepsCatalog, StepKeepsKey DEF IInv
<1> QED BY <1>1, <1>2, PTL DEF Spec

(* Rows, services and requests stay in their types, with any number of     *)
(* requests of any number of organisations in flight.                      *)
THEOREM TypeCorrect == Spec => []TypeOK
<1>1. IInv => TypeOK
  BY DEF IInv
<1> QED BY <1>1, Inductive, PTL

(* An organisation's ready catalog and every gateway deployed from it hold *)
(* the password its role has, through failed, crashed and repeated         *)
(* attempts, until two attempts overlap (provisionOrgCatalog,              *)
(* provisionOrgDatabase, provisionGateway).                                *)
THEOREM DsnConnects == Spec => []DsnMatchesRole
<1>1. IInv => DsnMatchesRole
  BY DEF IInv, CatalogOK, Connects, DsnMatchesRole
<1> QED BY <1>1, Inductive, PTL

(* A live lake with a URL is served with its own env, or its service went  *)
(* to a lake of that slug of another org or to one that is deleted; and    *)
(* the memory-lake flag is lost only through POST /:id/provision           *)
(* (datalakes.ts, memory-lake.ts, provisioner.ts).                         *)
THEOREM ServedByOwnGateway == Spec => []OwnGateway
<1>1. IInv => OwnGateway
  <2> SUFFICES ASSUME IInv, NEW l \in Requests, lake[l].state = "live", lake[l].url
               PROVE  LET s == svc[lake[l].slug]
                      IN  \/ s.lake = l /\ (s.board = lake[l].board \/ l \in plain)
                          \/ s.lake # l /\ (lake[s.lake].org # lake[l].org
                                            \/ lake[s.lake].state = "deleted")
    BY DEF OwnGateway
  <2> DEFINE slug == lake[l].slug
             m == svc[slug].lake
  <2>1. slug \in Slugs /\ m \in Requests \cup {None}
    BY DEF IInv, TypeOK
  <2>2. /\ m # None /\ Exists(m) /\ lake[m].slug = slug
        /\ svc[slug].board = lake[m].board \/ m \in plain
    BY <2>1 DEF IInv, PlacesOK, LakeOK, ServiceOK
  <2>3. lake[m].state \in {"live", "deleted"} /\ m \in Requests
    BY <2>1, <2>2 DEF IInv, TypeOK, Exists
  <2>4. CASE m = l
    BY <2>2, <2>4
  <2>5. CASE m # l
    BY <2>2, <2>3, <2>5 DEF IInv, PlacesOK, SlugsUnique
  <2> QED BY <2>4, <2>5
<1> QED BY <1>1, Inductive, PTL

(* The stored key is the one the service has and the one the file was      *)
(* encrypted with, however connects, crashes and boots interleave, unless  *)
(* two first connects both found no key (ensureWorkspaceKey).              *)
THEOREM StoredKeyOpensFile == Spec => []KeyOpensFile
<1>1. IInv => KeyOpensFile
  BY DEF IInv, KeyOK, KeyOpensFile
<1> QED BY <1>1, Inductive, PTL
=============================================================================
