--------------------------- MODULE GatewayDispatch ---------------------------
(***************************************************************************)
(* The durable outbox from the control plane to one datalake's gateway     *)
(* (lib/gateway-dispatch.ts, lib/gateway-push.ts, migration 020): edits    *)
(* enqueue a snapshot dispatch, deleting an agent enqueues a revocation,   *)
(* and drains (the cron's and the ones kicked by requests) deliver due     *)
(* rows without holding row locks, with backoff and a bounded number of    *)
(* attempts.  What is pushed is configuration (keys, lake catalog, store   *)
(* address): an edit does not change it but has the gateway re-armed with  *)
(* the configuration of the moment; grants are pulled by the gateway.      *)
(***************************************************************************)
EXTENDS Naturals

CONSTANTS
    Drains,       \* drains that can be in flight at the same time
    OwnGateway,   \* the datalake has its own gateway_url
    MaxAttempts,  \* MAX_ATTEMPTS
    MaxEdits,     \* bound on edits, each of which enqueues
    MaxConfigs,   \* bound on changes of the configuration
    MaxRevokes,   \* bound on agent deletions
    MaxCrashes    \* bound on crashed drains and refused bookkeeping statements

ASSUME DispatchAssumption ==
    /\ OwnGateway \in BOOLEAN
    /\ MaxAttempts \in Nat \ {0}
    /\ MaxEdits \in Nat /\ MaxConfigs \in Nat /\ MaxRevokes \in Nat /\ MaxCrashes \in Nat

VARIABLES
    cfg,       \* version of the configuration in the database
    edits,     \* edits so far
    want,      \* the version that was current when the snapshot row was last enqueued
    running,   \* datalake.status = 'running'
    outbox,    \* the snapshot row and the revoke row of the datalake
    drain,     \* local state of the drains
    gwCfg,     \* gwCfg[g]: configuration version gateway g was last armed with, 0 for none
    asked,     \* agent deletions so far
    denied,    \* gateways that have taken the revocation of the subject
    crashes,
    sync,      \* the version a connect or refresh-policy has read and not yet pushed, 0 for none
    stray,     \* the version in a push whose sender gave up on the answer, 0 for none
    raced,     \* history: the last enqueue met a push already read and not settled
    skipped    \* history: a delivery of the last enqueue skipped a stopped datalake

vars == <<cfg, edits, want, running, outbox, drain, gwCfg, asked, denied, crashes, sync, stray,
          raced, skipped>>

config == <<cfg, edits, want, running>>
history == <<raced, skipped>>

Rows == {"snapshot", "revoke"}
Gateways == {"own", "base"}
Versions == 1..(MaxConfigs + 1)

\* gatewayClientFor(endpoint): the datalake's own URL, else GATEWAY_BASE_URL.
GatewayOf(hasUrl) == IF hasUrl THEN "own" ELSE "base"

NoDispatch == [status |-> "none", attempts |-> 0, due |-> FALSE, id |-> 0]
Held == [id : 0..MaxRevokes, attempts : 0..MaxAttempts]
IdleDrain == [pc |-> "idle", todo |-> {}, cur |-> {}, ver |-> 0,
              held |-> [r \in Rows |-> [id |-> 0, attempts |-> 0]]]

TypeOK ==
    /\ cfg \in Versions /\ want \in Versions
    /\ edits \in 0..MaxEdits /\ running \in BOOLEAN
    /\ outbox \in [Rows -> [status : {"none", "pending", "delivered", "failed"},
                            attempts : 0..MaxAttempts, due : BOOLEAN, id : 0..MaxRevokes]]
    /\ drain \in [Drains -> [pc : {"idle", "next", "read", "push", "revoke", "mark", "fail"},
                             todo : SUBSET Rows, cur : SUBSET Rows, ver : {0} \cup Versions,
                             held : [Rows -> Held]]]
    /\ gwCfg \in [Gateways -> {0} \cup Versions]
    /\ asked \in 0..MaxRevokes
    /\ denied \in SUBSET Gateways
    /\ crashes \in 0..MaxCrashes
    /\ sync \in {0} \cup Versions /\ stray \in {0} \cup Versions
    /\ raced \in BOOLEAN /\ skipped \in BOOLEAN

Init ==
    /\ cfg = 1
    /\ edits = 0 /\ want = 1
    /\ running = TRUE
    /\ outbox = [r \in Rows |-> NoDispatch]
    /\ drain = [d \in Drains |-> IdleDrain]
    /\ gwCfg = [g \in Gateways |-> 1]
    /\ asked = 0
    /\ denied = {}
    /\ crashes = 0
    /\ sync = 0 /\ stray = 0
    /\ raced = FALSE /\ skipped = FALSE

Crashes == crashes < MaxCrashes /\ crashes' = crashes + 1

\* A push that has read its configuration may still arrive, or settle the row.
InFlight ==
    \/ sync # 0 \/ stray # 0
    \/ \E d \in Drains : "snapshot" \in drain[d].cur /\ drain[d].pc \in {"push", "mark", "fail"}

\* POST /ctrl/snapshot: birdshot is reset and takes the pushed configuration.
ApplySnapshot(v) == [gwCfg EXCEPT ![GatewayOf(OwnGateway)] = v]

\* GatewayClient.send fails: an error, or an abort after 45 s that the gateway's handler
\* does not notice (one such request at a time).
SendFails(v) == stray' \in IF stray = 0 THEN {0, v} ELSE {stray}

-----------------------------------------------------------------------------
(* Requests.                                                               *)

\* A key is rotated or the lake catalog is provisioned; nothing is enqueued for it.
ConfigChanges ==
    /\ cfg <= MaxConfigs
    /\ cfg' = cfg + 1
    /\ UNCHANGED <<edits, want, running, outbox, drain, gwCfg, asked, denied, crashes, sync, stray,
                   history>>

\* A policy, delegation or team edit, an agent's deletion or a changed catalog enqueues:
\* the row goes back to 'pending' with a fresh retry schedule.
EnqueueSnapshot ==
    /\ edits < MaxEdits /\ edits' = edits + 1
    /\ outbox' = [outbox EXCEPT !["snapshot"] =
                    [@ EXCEPT !.status = "pending", !.attempts = 0, !.due = TRUE]]
    /\ want' = cfg
    /\ raced' = InFlight /\ skipped' = (skipped /\ InFlight)
    /\ UNCHANGED <<cfg, running, drain, gwCfg, asked, denied, crashes, sync, stray>>

\* Deleting the agent, whose datalakes were read as running: coalesce onto a pending row,
\* or insert a new one.
EnqueueRevoke ==
    /\ asked < MaxRevokes /\ asked' = asked + 1
    \* A new row is about another subject, which no gateway knows yet.
    /\ denied' = IF outbox["revoke"].status = "pending" THEN denied ELSE {}
    /\ outbox' = [outbox EXCEPT !["revoke"] =
                    [status |-> "pending", attempts |-> 0, due |-> TRUE,
                     id |-> IF @.status = "pending" THEN @.id ELSE @.id + 1]]
    /\ UNCHANGED <<config, drain, gwCfg, crashes, sync, stray, history>>

\* Connect and refresh-policy push outside the outbox: they read the configuration of a
\* running datalake, and the push lands, or fails, awaits later.
SyncRead ==
    /\ running /\ sync = 0
    /\ sync' = cfg
    /\ UNCHANGED <<config, outbox, drain, gwCfg, asked, denied, crashes, stray, history>>

SyncPush ==
    /\ sync # 0
    /\ sync' = 0
    /\ \/ gwCfg' = ApplySnapshot(sync) /\ UNCHANGED stray
       \/ SendFails(sync) /\ UNCHANGED gwCfg
    /\ UNCHANGED <<config, outbox, drain, asked, denied, crashes, history>>

\* The request its sender has given up on is handled after all, or is lost.
StrayEnds ==
    /\ stray # 0
    /\ stray' = 0
    /\ gwCfg' \in {gwCfg, ApplySnapshot(stray)}
    /\ UNCHANGED <<config, outbox, drain, asked, denied, crashes, sync, history>>

\* PATCH of the datalake's status; it reaches no gateway.
StopOrStart ==
    /\ running' = ~running
    /\ UNCHANGED <<cfg, edits, want, outbox, drain, gwCfg, asked, denied, crashes, sync, stray, history>>

\* The gateway scales to zero or is torn down: the next boot starts unarmed and waits for
\* a push.  A revoked agent cannot connect to it, so the denylist is not replayed.
GatewayColdStart ==
    /\ gwCfg[GatewayOf(OwnGateway)] # 0
    /\ gwCfg' = [gwCfg EXCEPT ![GatewayOf(OwnGateway)] = 0]
    /\ UNCHANGED <<config, outbox, drain, asked, denied, crashes, sync, stray, history>>

BackoffElapses(r) ==
    /\ outbox[r].status = "pending" /\ ~outbox[r].due
    /\ outbox' = [outbox EXCEPT ![r].due = TRUE]
    /\ UNCHANGED <<config, drain, gwCfg, asked, denied, crashes, sync, stray, history>>

-----------------------------------------------------------------------------
(* drainGatewayDispatch.                                                   *)

Due == {r \in Rows : outbox[r].status = "pending" /\ outbox[r].due}

DrainSelect(d) ==
    /\ drain[d].pc = "idle" /\ Due # {}
    /\ drain' = [drain EXCEPT ![d] = [IdleDrain EXCEPT
                   !.pc = "next", !.todo = Due,
                   !.held = [r \in Rows |-> IF r \in Due
                               THEN [id |-> outbox[r].id, attempts |-> outbox[r].attempts]
                               ELSE @[r]]]]
    /\ UNCHANGED <<config, outbox, gwCfg, asked, denied, crashes, sync, stray, history>>

DrainNext(d) ==
    /\ drain[d].pc = "next"
    /\ IF drain[d].todo = {}
       THEN drain' = [drain EXCEPT ![d] = IdleDrain]
       ELSE \E r \in drain[d].todo :
              drain' = [drain EXCEPT ![d].pc = IF r = "snapshot" THEN "read" ELSE "revoke",
                                     ![d].cur = {r}, ![d].todo = @ \ {r}]
    /\ UNCHANGED <<config, outbox, gwCfg, asked, denied, crashes, sync, stray, history>>

\* recompileAndPush reads the current state; a datalake that is not running is skipped
\* and counts as delivered.
ReadConfig(d) ==
    /\ drain[d].pc = "read"
    /\ \/ /\ running
          /\ drain' = [drain EXCEPT ![d].ver = cfg, ![d].pc = "push"]
          /\ UNCHANGED skipped
       \/ /\ ~running
          /\ drain' = [drain EXCEPT ![d].pc = "mark"]
          /\ skipped' = TRUE
    /\ UNCHANGED <<config, outbox, gwCfg, asked, denied, crashes, sync, stray, raced>>

\* Mutant: a push error is swallowed, as before surfacePushError.
PushConfigSwallows(d) ==
    /\ drain[d].pc = "push"
    /\ drain' = [drain EXCEPT ![d].pc = "mark"]
    /\ gwCfg' \in {gwCfg, ApplySnapshot(drain[d].ver)}
    /\ UNCHANGED <<config, outbox, asked, denied, crashes, sync, stray, history>>

PushConfig(d) ==
    /\ drain[d].pc = "push"
    /\ \/ /\ gwCfg' = ApplySnapshot(drain[d].ver)
          /\ drain' = [drain EXCEPT ![d].pc = "mark"]
          /\ UNCHANGED stray
       \/ /\ drain' = [drain EXCEPT ![d].pc = "fail"]
          /\ SendFails(drain[d].ver)
          /\ UNCHANGED gwCfg
    /\ UNCHANGED <<config, outbox, asked, denied, crashes, sync, history>>

\* The base gateway denies the subject of the row this drain holds.
Denied(d) ==
    IF drain[d].held["revoke"].id = outbox["revoke"].id
    THEN denied \cup {GatewayOf(FALSE)} ELSE denied

\* deliverRow calls gatewayClientFor() without the endpoint.  A call that fails may have
\* been handled nonetheless.
SendRevoke(d) ==
    /\ drain[d].pc = "revoke"
    /\ \/ drain' = [drain EXCEPT ![d].pc = "mark"] /\ denied' = Denied(d)
       \/ drain' = [drain EXCEPT ![d].pc = "fail"] /\ denied' \in {denied, Denied(d)}
    /\ UNCHANGED <<config, outbox, gwCfg, asked, crashes, sync, stray, history>>

Settled(d) == [drain EXCEPT ![d].pc = "next", ![d].cur = {}, ![d].ver = 0]

\* The row still is the one this drain selected, and nobody settled it meanwhile.
StillPending(d, r) ==
    outbox[r].id = drain[d].held[r].id /\ outbox[r].status = "pending"

\* Mutant: the revoke row is dropped by subject, not by id.
MarkDropsAny(d) ==
    /\ drain[d].pc = "mark"
    /\ \E r \in drain[d].cur :
          outbox' = [outbox EXCEPT ![r].status = IF r = "revoke" THEN "none" ELSE "delivered"]
    /\ drain' = Settled(d)
    /\ UNCHANGED <<config, gwCfg, asked, denied, crashes, sync, stray, history>>

\* A delivered revoke row is deleted, a delivered snapshot row is kept.
Mark(d) ==
    /\ drain[d].pc = "mark"
    /\ \E r \in drain[d].cur :
          outbox' = IF r = "revoke"
                    THEN IF outbox[r].id = drain[d].held[r].id
                         THEN [outbox EXCEPT ![r].status = "none"] ELSE outbox
                    ELSE IF StillPending(d, r)
                         THEN [outbox EXCEPT ![r].status = "delivered"] ELSE outbox
    /\ drain' = Settled(d)
    /\ UNCHANGED <<config, gwCfg, asked, denied, crashes, sync, stray, history>>

\* Mutant: the attempts column is never written.
FailForgets(d) ==
    /\ drain[d].pc = "fail"
    /\ outbox' = [r \in Rows |-> IF r \in drain[d].cur /\ StillPending(d, r)
                                 THEN [outbox[r] EXCEPT !.due = FALSE] ELSE outbox[r]]
    /\ drain' = Settled(d)
    /\ UNCHANGED <<config, gwCfg, asked, denied, crashes, sync, stray, history>>

\* The catch: attempts is the SELECTed value plus one, whatever the row holds by now.
Fail(d) ==
    /\ drain[d].pc = "fail"
    /\ \E r \in drain[d].cur :
          LET attempts == drain[d].held[r].attempts + 1
          IN  outbox' = IF ~StillPending(d, r) THEN outbox
                        ELSE [outbox EXCEPT ![r] = [@ EXCEPT
                                !.attempts = attempts, !.due = FALSE,
                                !.status = IF attempts >= MaxAttempts
                                           THEN "failed" ELSE "pending"]]
    /\ drain' = Settled(d)
    /\ UNCHANGED <<config, gwCfg, asked, denied, crashes, sync, stray, history>>

\* The bookkeeping statement fails: after a delivery the catch counts a failed attempt,
\* in the catch the row stays pending and due.
BookkeepingFails(d) ==
    /\ Crashes
    /\ \/ drain[d].pc = "mark" /\ drain' = [drain EXCEPT ![d].pc = "fail"]
       \/ drain[d].pc = "fail" /\ drain' = Settled(d)
    /\ UNCHANGED <<config, outbox, gwCfg, asked, denied, sync, stray, history>>

DrainCrash(d) ==
    /\ drain[d].pc # "idle" /\ Crashes
    /\ drain' = [drain EXCEPT ![d] = IdleDrain]
    /\ IF drain[d].pc = "push" THEN SendFails(drain[d].ver) ELSE UNCHANGED stray
    /\ UNCHANGED <<config, outbox, gwCfg, asked, denied, sync, history>>

DrainStep(d) ==
    \/ DrainSelect(d) \/ DrainNext(d) \/ ReadConfig(d) \/ PushConfig(d) \/ SendRevoke(d)
    \/ Mark(d) \/ Fail(d)

Next ==
    \/ ConfigChanges \/ EnqueueSnapshot \/ EnqueueRevoke \/ SyncRead \/ SyncPush \/ StrayEnds
    \/ StopOrStart \/ GatewayColdStart
    \/ \E r \in Rows : BackoffElapses(r)
    \/ \E d \in Drains : DrainStep(d) \/ BookkeepingFails(d) \/ DrainCrash(d)

Spec == Init /\ [][Next]_vars

\* Time passes and the cron keeps draining.
FairSpec ==
    /\ Spec
    /\ \A r \in Rows : WF_vars(BackoffElapses(r))
    /\ \A d \in Drains : WF_vars(DrainStep(d))

-----------------------------------------------------------------------------
\* The gateway is armed with what was current at the enqueue or later, or has not been
\* armed since it started (the next connect arms it).
Rearmed == gwCfg[GatewayOf(OwnGateway)] \notin 1..(want - 1)

(* A snapshot row marked delivered means that the gateway was re-armed     *)
(* with a configuration at least as new as at the enqueue, whatever        *)
(* drains, connects, retries, timeouts and crashes overlap after it;       *)
(* unless the enqueue met a push already read, or the datalake was         *)
(* stopped.                                                                *)
DeliveredUnlessRaced ==
    (outbox["snapshot"].status = "delivered" /\ ~raced /\ ~skipped) => Rearmed

(* A revocation leaves the outbox only when a gateway has it on its        *)
(* denylist: no crash, retry or concurrent drain drops it (the row is      *)
(* deleted by id, after the call).  The gateway is the one of              *)
(* GATEWAY_BASE_URL, also for a datalake with a gateway_url of its own.    *)
RevokeDroppedOnlyWhenSent ==
    (outbox["revoke"].id > 0 /\ outbox["revoke"].status = "none") => denied # {}

(* No dispatch stays pending for ever: it is delivered, or given up after  *)
(* MAX_ATTEMPTS, though every push may fail and drains overwrite each      *)
(* other's attempts.                                                       *)
PendingSettles == \A r \in Rows : outbox[r].status = "pending" ~> outbox[r].status # "pending"

(* "a dropped /gw/snapshot ... is retried ... until it lands, instead of   *)
(* silently leaving the gateway stale": when nothing is in flight and no   *)
(* delivery was skipped, delivered means that the gateway was re-armed     *)
(* with a configuration at least as new as at the enqueue.                 *)
DeliveredMeansCurrent ==
    (outbox["snapshot"].status = "delivered" /\ ~skipped /\ sync = 0 /\ stray = 0
     /\ \A d \in Drains : drain[d].pc = "idle") => Rearmed
=============================================================================
