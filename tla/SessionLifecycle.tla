-------------------------- MODULE SessionLifecycle --------------------------
(***************************************************************************)
(* The life of an agent's sessions on one datalake: concurrent connects    *)
(* with the one-live-session rule, supersede, kill, expiry and deletion of *)
(* the agent, together with what each of them does to the gateway's token  *)
(* denylist and to the workspace's lake attachment (routes/sessions.ts,    *)
(* routes/agents.ts, gateway-cloudrun/entrypoint.mjs).                     *)
(*                                                                         *)
(* Every connect is a process; each await of the handler that another      *)
(* request can observe is a step.  A connect inserts at most one           *)
(* agent_session row and mints one jti, so the connect names both.         *)
(***************************************************************************)
EXTENDS Naturals

CONSTANTS
    Conns,        \* POST /sessions requests
    RunAs,        \* those of origin 'run-as' or 'delegated', outside the one-session rule
    Policy,       \* SESSION_POLICY: "reject" or "supersede"
    MaxAttempts,  \* configure-lake retries on a 403
    MaxFaults     \* bound on failed calls, crashes and restarts

ASSUME LifecycleAssumption ==
    /\ RunAs \subseteq Conns
    /\ Policy \in {"reject", "supersede"}
    /\ MaxAttempts \in Nat /\ MaxFaults \in Nat

VARIABLES
    agent,     \* waddling.agent.status
    row,       \* waddling.agent_session, and which connect superseded it
    lapsed,    \* sessions whose expires_at has passed
    conn,      \* local state of the connect handlers
    kill,      \* kill[c]: a kill of session c has revoked the token and not yet marked the row
    del,       \* local state of DELETE /agents/:id
    attached,  \* the workspace's lake attachment: {} or the token it was made with
    deny,      \* the gateway's in-memory jti denylist
    faults

vars == <<agent, row, lapsed, conn, kill, del, attached, deny, faults>>

ClosedStatus == {"expired", "superseded", "killed", "revoked"}
Ended == {"done", "rejected", "conflict", "attach_failed", "failed"}
NoRow == [status |-> "none", by |-> {}]
NewConn == [pc |-> "new", super |-> {}, attempt |-> 0]

TypeOK ==
    /\ agent \in {"active", "revoked"}
    /\ row \in [Conns -> [status : {"none", "active"} \cup ClosedStatus, by : SUBSET Conns]]
    /\ lapsed \in SUBSET Conns
    /\ conn \in [Conns -> [pc : {"new", "reap", "existing", "push", "configure", "attach",
                                 "insert", "revoke"} \cup Ended,
                           super : SUBSET Conns, attempt : 0..MaxAttempts]]
    /\ kill \in [Conns -> BOOLEAN]
    /\ del \in {"idle", "close", "done"}
    /\ attached \in {{}} \cup {{c} : c \in Conns}
    /\ deny \in SUBSET Conns
    /\ faults \in 0..MaxFaults

Init ==
    /\ agent = "active"
    /\ row = [c \in Conns |-> NoRow]
    /\ lapsed = {}
    /\ conn = [c \in Conns |-> NewConn]
    /\ kill = [c \in Conns |-> FALSE]
    /\ del = "idle"
    /\ attached = {}
    /\ deny = {}
    /\ faults = 0

Fault == faults < MaxFaults /\ faults' = faults + 1

\* Rows the partial unique index covers: status 'active' and origin 'agent'.
LiveAgentRows == {c \in Conns \ RunAs : row[c].status = "active"}

Goto(c, pc) == conn' = [conn EXCEPT ![c].pc = pc]
CloseRows(S, status) ==
    row' = [c \in Conns |-> IF c \in S THEN [row[c] EXCEPT !.status = status] ELSE row[c]]

-----------------------------------------------------------------------------
(* POST /sessions.                                                         *)

\* resolveCaller refuses a revoked agent's key; a user's own login is not stopped by it.
Begin(c) ==
    /\ conn[c].pc = "new"
    /\ c \notin RunAs => agent = "active"
    /\ Goto(c, IF c \in RunAs THEN "push" ELSE "reap")
    /\ UNCHANGED <<agent, row, lapsed, kill, del, attached, deny, faults>>

\* Expired rows of this agent and datalake are closed first.
Reap(c) ==
    /\ conn[c].pc = "reap"
    /\ CloseRows(LiveAgentRows \cap lapsed, "expired")
    /\ Goto(c, "existing")
    /\ UNCHANGED <<agent, lapsed, kill, del, attached, deny, faults>>

ReadExisting(c) ==
    /\ conn[c].pc = "existing"
    /\ \/ /\ LiveAgentRows # {} /\ Policy = "reject"
          /\ Goto(c, "rejected")
       \/ /\ LiveAgentRows = {} \/ Policy = "supersede"
          /\ conn' = [conn EXCEPT ![c].pc = "push", ![c].super = LiveAgentRows]
    /\ UNCHANGED <<agent, row, lapsed, kill, del, attached, deny, faults>>

\* Grants, boot config, snapshot push, workspace key and provisioning: they pass or
\* the connect fails before anything of this state has changed.
PushAndProvision(c) ==
    /\ conn[c].pc = "push"
    /\ \/ Goto(c, "configure") /\ UNCHANGED faults
       \/ Goto(c, "failed") /\ Fault
    /\ UNCHANGED <<agent, row, lapsed, kill, del, attached, deny>>

\* Mutant: exhausted retries start over instead of failing the connect.
ConfigureForbiddenForever(c) ==
    /\ conn[c].pc = "configure"
    /\ conn' = [conn EXCEPT ![c].attempt = IF @ < MaxAttempts THEN @ + 1 ELSE 0]
    /\ UNCHANGED <<agent, row, lapsed, kill, del, attached, deny, faults>>

\* Cloud Run answers 403 while the invoker binding propagates.
ConfigureForbidden(c) ==
    /\ conn[c].pc = "configure"
    /\ \/ conn[c].attempt < MaxAttempts /\ conn' = [conn EXCEPT ![c].attempt = @ + 1]
       \/ conn[c].attempt = MaxAttempts /\ Goto(c, "failed")
    /\ UNCHANGED <<agent, row, lapsed, kill, del, attached, deny, faults>>

\* /ctrl/configure-lake detaches what is there ...
ConfigureDetach(c) ==
    /\ conn[c].pc = "configure"
    /\ attached' = {}
    /\ Goto(c, "attach")
    /\ UNCHANGED <<agent, row, lapsed, kill, del, deny, faults>>

\* ... and attaches with the new token.  The ATTACH fails when another configure got in
\* between ("lake" exists), or when the lake cannot be reached.
ConfigureAttach(c) ==
    /\ conn[c].pc = "attach"
    /\ \/ attached = {} /\ attached' = {c} /\ Goto(c, "insert") /\ UNCHANGED faults
       \/ attached # {} /\ Goto(c, "attach_failed") /\ UNCHANGED <<attached, faults>>
       \/ attached = {} /\ Goto(c, "attach_failed") /\ UNCHANGED attached /\ Fault
    /\ UNCHANGED <<agent, row, lapsed, kill, del, deny>>

Inserted(c) ==
    row' = [d \in Conns |->
              IF d = c THEN [NoRow EXCEPT !.status = "active"]
              ELSE IF d \in conn[c].super THEN [status |-> "superseded", by |-> {c}]
              ELSE row[d]]

\* The unique index: c's row would be a second live row of the agent.
IndexConflict(c) == c \notin RunAs /\ LiveAgentRows \ conn[c].super # {}

\* Mutant: the supersede is committed before the insert, not with it.
InsertNotAtomic(c) ==
    /\ conn[c].pc = "insert"
    /\ \/ /\ ~IndexConflict(c)
          /\ Inserted(c)
          /\ Goto(c, IF conn[c].super = {} THEN "done" ELSE "revoke")
          /\ UNCHANGED faults
       \/ /\ IndexConflict(c) \/ Fault
          /\ CloseRows(conn[c].super, "superseded")
          /\ Goto(c, "conflict")
          /\ (IndexConflict(c) => UNCHANGED faults)
    /\ UNCHANGED <<agent, lapsed, kill, del, attached, deny>>

\* Mutant: the index is not partial on the agent and the insert never conflicts.
InsertUnchecked(c) ==
    /\ conn[c].pc = "insert"
    /\ Inserted(c)
    /\ Goto(c, IF conn[c].super = {} THEN "done" ELSE "revoke")
    /\ UNCHANGED <<agent, lapsed, kill, del, attached, deny, faults>>

\* Mutant: the loser of the race revokes the tokens it meant to displace all the same.
InsertRevokesAnyway(c) ==
    /\ conn[c].pc = "insert"
    /\ \/ ~IndexConflict(c) /\ Inserted(c) /\ UNCHANGED faults
       \/ UNCHANGED row /\ Fault
    /\ Goto(c, "revoke")
    /\ UNCHANGED <<agent, lapsed, kill, del, attached, deny>>

\* One transaction: supersede the rows read earlier, whatever they are by now, and insert;
\* a conflict or a database error rolls both back.
Insert(c) ==
    /\ conn[c].pc = "insert"
    /\ \/ /\ ~IndexConflict(c)
          /\ Inserted(c)
          /\ Goto(c, IF conn[c].super = {} THEN "done" ELSE "revoke")
          /\ UNCHANGED faults
       \/ /\ IndexConflict(c)
          /\ Goto(c, "conflict")
          /\ UNCHANGED <<row, faults>>
       \/ /\ ~IndexConflict(c) /\ Fault
          /\ Goto(c, "failed")
          /\ UNCHANGED row
    /\ UNCHANGED <<agent, lapsed, kill, del, attached, deny>>

\* Best effort: the gateway may be unreachable.
RevokeDisplaced(c) ==
    /\ conn[c].pc = "revoke"
    /\ \/ deny' = deny \cup conn[c].super /\ UNCHANGED faults
       \/ UNCHANGED deny /\ Fault
    /\ Goto(c, "done")
    /\ UNCHANGED <<agent, row, lapsed, kill, del, attached>>

-----------------------------------------------------------------------------
(* Kill, expiry, deletion of the agent, restarts.                          *)

KillRevoke(c) ==
    /\ row[c].status # "none" /\ ~kill[c]
    /\ \/ deny' = deny \cup {c} /\ UNCHANGED faults
       \/ UNCHANGED deny /\ Fault
    /\ kill' = [kill EXCEPT ![c] = TRUE]
    /\ UNCHANGED <<agent, row, lapsed, conn, del, attached>>

\* UPDATE ... WHERE id: a row that was closed meanwhile is marked 'killed' too.
KillMark(c) ==
    /\ kill[c]
    /\ CloseRows({c}, "killed")
    /\ kill' = [kill EXCEPT ![c] = FALSE]
    /\ UNCHANGED <<agent, lapsed, conn, del, attached, deny, faults>>

Lapse(c) ==
    /\ row[c].status # "none" /\ c \notin lapsed
    /\ lapsed' = lapsed \cup {c}
    /\ UNCHANGED <<agent, row, conn, kill, del, attached, deny, faults>>

\* Pass 1 of the cron sweep.
SweepExpired ==
    /\ \E c \in lapsed : row[c].status = "active"
    /\ CloseRows({c \in lapsed : row[c].status = "active"}, "expired")
    /\ UNCHANGED <<agent, lapsed, conn, kill, del, attached, deny, faults>>

\* DELETE /agents/:id: the status first, then the live sessions.  The user-level
\* revocation it enqueues is GatewayDispatch's business.
DeleteAgent ==
    /\ del = "idle"
    /\ agent' = "revoked" /\ del' = "close"
    /\ UNCHANGED <<row, lapsed, conn, kill, attached, deny, faults>>

DeleteCloseSessions ==
    /\ del = "close"
    /\ CloseRows({c \in Conns : row[c].status = "active"}, "revoked")
    /\ del' = "done"
    /\ UNCHANGED <<agent, lapsed, conn, kill, attached, deny, faults>>

GatewayRestart ==
    /\ deny # {} /\ Fault
    /\ deny' = {}
    /\ UNCHANGED <<agent, row, lapsed, conn, kill, del, attached>>

WorkspaceScalesToZero ==
    /\ attached # {} /\ Fault
    /\ attached' = {}
    /\ UNCHANGED <<agent, row, lapsed, conn, kill, del, deny>>

ConnectStep(c) ==
    \/ Begin(c) \/ Reap(c) \/ ReadExisting(c) \/ PushAndProvision(c) \/ ConfigureForbidden(c)
    \/ ConfigureDetach(c) \/ ConfigureAttach(c) \/ Insert(c) \/ RevokeDisplaced(c)

Next ==
    \/ \E c \in Conns : ConnectStep(c) \/ KillRevoke(c) \/ KillMark(c) \/ Lapse(c)
    \/ SweepExpired \/ DeleteAgent \/ DeleteCloseSessions
    \/ GatewayRestart \/ WorkspaceScalesToZero

Spec == Init /\ [][Next]_vars

\* A handler that has begun runs on; nobody owes a request, a kill or a lapse.
FairSpec ==
    /\ Spec
    /\ \A c \in Conns : WF_vars(conn[c].pc # "new" /\ ConnectStep(c))

-----------------------------------------------------------------------------
(* One key per agent: an agent holds at most one live session on a         *)
(* datalake, whatever connects, kills and sweeps race (the partial unique  *)
(* index and the supersede inside the insert transaction).                 *)
OneLiveSessionPerAgent == \A c, d \in LiveAgentRows : c = d

(* A session is superseded only by a connect that did get its own row: a   *)
(* connect that lost the race or failed leaves the prior session's row     *)
(* alone ("the supersede is in the insert txn").                           *)
SupersededHasSuccessor ==
    \A c \in Conns : row[c].status = "superseded" =>
        \E d \in row[c].by : row[d].status # "none"

(* A live session's token is on the denylist only while a kill of that     *)
(* very session is in flight: no connect, won or lost, revokes the token   *)
(* of the session that stays live.                                         *)
DeniedOnlyWhileKilling ==
    \A c \in deny : row[c].status = "active" => kill[c]

(* Every connect that begins is answered: the 403 retry loop ends and no   *)
(* interleaving leaves a handler waiting.                                  *)
ConnectAnswers ==
    \A c \in Conns : conn[c].pc = "reap" ~> conn[c].pc \in Ended

(* "mark revoked + kill sessions": when DELETE /agents/:id has answered,   *)
(* the agent has no live session of its own.                               *)
DeletedAgentHasNoLiveSession == del = "done" => LiveAgentRows = {}
=============================================================================
