----------------------------- MODULE GrantStore -----------------------------
(***************************************************************************)
(* The literal GRANT/DENY store of ONE datalake and the gateway that pulls *)
(* from it (lib/grant-store.ts, routes/acl.ts, routes/quackboard.ts,       *)
(* migration 022, gateway duck.ts).  Admin requests append or delete       *)
(* statements, agents join the board and run gated queries, and pushes     *)
(* re-arm the gateway.                                                     *)
(*                                                                         *)
(* birdshot, the gateway's extension, is a binary: what it does with the   *)
(* rows is modelled from how this code and its tests use it.  It compares  *)
(* the store's epoch with the one it hydrated at, flushes and pulls the    *)
(* subject again when they differ, applies the rows in version order, and  *)
(* denies when the epoch cannot be read.  A flush keeps the role edges, so *)
(* only a REVOKE ROLE removes one; commit_config clears everything that    *)
(* was hydrated but leaves the subjects marked as hydrated.                *)
(***************************************************************************)
EXTENDS Naturals, FiniteSets

CONSTANTS
    Agents, Roles,
    Writers,      \* admin requests that can be in flight at the same time
    Statements,   \* statements admins author
    MaxRows,      \* bound on inserted rows
    MaxEpoch      \* bound on epoch bumps

NoRole == "none"   \* an object statement: it has an ON clause and names no role
Public == "PUBLIC"
Grantees == Agents \cup Roles \cup {Public}
Verbs == {"GRANT", "REVOKE", "DENY", "UNDENY"}

\* One object stands for all: statements on different objects do not interact.  A
\* membership is granted or revoked; only access to an object can be denied.
Statement == [verb : Verbs, role : {NoRole}, to : Grantees]
             \cup [verb : {"GRANT", "REVOKE"}, role : Roles, to : Grantees]

ASSUME GrantAssumption ==
    /\ Agents \cap Roles = {} /\ NoRole \notin Roles /\ Public \notin Agents \cup Roles
    /\ IsFiniteSet(Roles) /\ Cardinality(Roles) <= 64   \* grantsForKey follows no more
    /\ Statements \subseteq Statement
    /\ MaxRows \in Nat /\ MaxEpoch \in Nat

VARIABLES
    rows,     \* __birdshot_grants, committed
    used,     \* row ids handed out
    epoch,    \* __birdshot_meta.epoch, 0 while the datalake has no row
    writer,   \* admin requests
    board,    \* the agents' requests to the board, and their queries
    gw,       \* the gateway's birdshot
    rearmed,  \* history: a re-arm that no epoch bump has followed
    dropped   \* history: role-to-role edges whose row was deleted

grantVars == <<rows, used, epoch, writer, board, gw, rearmed, dropped>>
store == <<rows, used, epoch>>
traces == <<rearmed, dropped>>

Idle == [pc |-> "idle"]

\* A container that has just started: no keys, no store, nothing hydrated.
Cold == [armed |-> FALSE, attached |-> FALSE, epoch |-> 0, hydrated |-> {}, edges |-> {},
         allowed |-> {}]

Row == [id : 1..MaxRows, stmt : Statement, version : Nat, seen : SUBSET (1..MaxRows)]
Edges == Grantees \X Roles

WriterType == {Idle} \cup [pc : {"commit", "delete"}, row : Row]
BoardType ==
    {Idle} \cup [pc : {"ensure", "insert", "arm", "bump", "ask", "rearm", "retry", "pull"},
                join : BOOLEAN]
           \cup [pc : {"commit"}, join : BOOLEAN, row : Row]
GatewayType == [armed : BOOLEAN, attached : BOOLEAN, epoch : 0..MaxEpoch,
                hydrated : SUBSET Agents, edges : SUBSET Edges, allowed : SUBSET Agents]

GrantTypeOK ==
    /\ rows \subseteq Row
    /\ used \in 0..MaxRows /\ epoch \in 0..MaxEpoch
    /\ writer \in [Writers -> WriterType]
    /\ board \in [Agents -> BoardType]
    /\ gw \in GatewayType
    /\ rearmed \in BOOLEAN /\ dropped \subseteq Edges

GrantInit ==
    /\ rows = {} /\ used = 0 /\ epoch = 0
    /\ writer = [w \in Writers |-> Idle]
    /\ board = [a \in Agents |-> Idle]
    /\ gw = Cold
    /\ rearmed = FALSE /\ dropped = {}

-----------------------------------------------------------------------------
(* The store.                                                              *)

\* COALESCE(MAX(version), 0) + 1 over what is committed when the INSERT runs.
NewVersion == CHOOSE v \in 1..(MaxRows + 1) :
                 /\ \A x \in rows : x.version < v
                 /\ v = 1 \/ \E x \in rows : x.version = v - 1

\* The INSERT of applyStatement: not visible to others before the COMMIT.
Inserted(stmt) == [id |-> used + 1, stmt |-> stmt, version |-> NewVersion,
                   seen |-> {x.id : x \in rows}]

TakesId == used < MaxRows /\ used' = used + 1

BumpEpoch ==
    /\ epoch < MaxEpoch /\ epoch' = epoch + 1
    /\ rearmed' = FALSE

IsMembership(stmt) == stmt.role # NoRole

\* What the pattern of DELETE /acl/:id takes for a membership: one bare name after TO.
IsSubjectMembership(stmt) ==
    IsMembership(stmt) /\ stmt.verb = "GRANT" /\ stmt.to \in Agents \cup {Public}

RevokeRole(stmt) == [stmt EXCEPT !.verb = "REVOKE"]

-----------------------------------------------------------------------------
(* POST and DELETE /acl.  Creating an agent applies its grants in the same *)
(* way, one transaction each.                                              *)

PostStatement(w, stmt) ==
    /\ writer[w] = Idle
    /\ TakesId
    /\ writer' = [writer EXCEPT ![w] = [pc |-> "commit", row |-> Inserted(stmt)]]
    /\ UNCHANGED <<rows, epoch, board, gw, traces>>

\* The upsert of the epoch and the COMMIT: row and epoch become visible together.
Commit(w) ==
    /\ writer[w].pc = "commit"
    /\ rows' = rows \cup {writer[w].row}
    /\ BumpEpoch
    /\ writer' = [writer EXCEPT ![w] = Idle]
    /\ UNCHANGED <<used, board, gw, dropped>>

Rollback(w) ==
    /\ writer[w].pc = "commit"
    /\ writer' = [writer EXCEPT ![w] = Idle]
    /\ UNCHANGED <<store, board, gw, traces>>

DeleteSelect(w) ==
    /\ writer[w] = Idle
    /\ \E x \in rows : writer' = [writer EXCEPT ![w] = [pc |-> "delete", row |-> x]]
    /\ UNCHANGED <<store, board, gw, traces>>

\* Mutant: every row is deleted, memberships too.
DeleteAppliesAll(w) ==
    /\ writer[w].pc = "delete"
    /\ IF writer[w].row \in rows
       THEN rows' = rows \ {writer[w].row} /\ BumpEpoch
       ELSE UNCHANGED <<rows, epoch, rearmed>>
    /\ writer' = [writer EXCEPT ![w] = Idle]
    /\ UNCHANGED <<used, board, gw, dropped>>

\* A subject's membership is corrected by an appended REVOKE ROLE; any other row is
\* deleted, unless another request has deleted it since the SELECT.
DeleteApplies(w) ==
    /\ writer[w].pc = "delete"
    /\ LET x == writer[w].row
       IN  \/ /\ IsSubjectMembership(x.stmt)
              /\ TakesId
              /\ writer' = [writer EXCEPT ![w] =
                              [pc |-> "commit", row |-> Inserted(RevokeRole(x.stmt))]]
              /\ UNCHANGED <<rows, epoch, traces>>
           \/ /\ ~IsSubjectMembership(x.stmt) /\ x \in rows
              /\ rows' = rows \ {x}
              /\ BumpEpoch
              /\ dropped' = IF IsMembership(x.stmt)
                            THEN dropped \cup {<<x.stmt.to, x.stmt.role>>} ELSE dropped
              /\ writer' = [writer EXCEPT ![w] = Idle]
              /\ UNCHANGED used
           \/ /\ ~IsSubjectMembership(x.stmt) /\ x \notin rows
              /\ writer' = [writer EXCEPT ![w] = Idle]
              /\ UNCHANGED <<store, traces>>
    /\ UNCHANGED <<board, gw>>

-----------------------------------------------------------------------------
(* What the gateway makes of the rows.                                     *)

Family(stmt) == IF stmt.verb \in {"GRANT", "REVOKE"} THEN "allow" ELSE "deny"
Slot(stmt) == <<Family(stmt), stmt.role, stmt.to>>
Slots == {Slot(x.stmt) : x \in rows}
SlotRows(s) == {x \in rows : Slot(x.stmt) = s}

LastByVersion == {x \in rows : \A y \in SlotRows(Slot(x.stmt)) : y.version <= x.version}

\* What the slots can come to when the last statement of each is among the rows "last".
Outcomes(last) ==
    {on \in SUBSET Slots :
        \A s \in Slots : \E x \in last \cap SlotRows(s) :
            s \in on <=> x.stmt.verb \in {"GRANT", "DENY"}}

EdgesOf(on) == {<<s[3], s[2]>> : s \in {t \in on : t[2] # NoRole}}

\* The roles held through the edges E, transitively: those in every set of roles that has
\* the subject's own and is closed under E.  Memberships of PUBLIC are not followed.
RolesFrom(E, a) ==
    {r \in Roles : \A held \in SUBSET Roles :
        (\A q \in Roles : (\E p \in held \cup {a} : <<p, q>> \in E) => q \in held)
            => r \in held}

\* Deny wins over the grants of the agent, of PUBLIC and of its roles.
Verdict(a, E, on) ==
    LET who == {a, Public} \cup RolesFrom(E, a)
    IN  /\ \E p \in who : <<"allow", NoRole, p>> \in on
        /\ ~ \E p \in who : <<"deny", NoRole, p>> \in on

Hydrate(a) ==
    \E on \in Outcomes(LastByVersion) :
       LET stale == {e \in gw.edges : <<"allow", e[2], e[1]>> \notin Slots}
           E == EdgesOf(on) \cup stale
       IN  gw' = [gw EXCEPT !.hydrated = @ \cup {a}, !.edges = E,
                            !.allowed = IF Verdict(a, E, on) THEN @ \cup {a} ELSE @ \ {a}]

\* applySnapshot: commit_config, then the store is attached again, which may fail.
Arm(attached) ==
    gw' = [gw EXCEPT !.armed = TRUE, !.attached = attached, !.edges = {}, !.allowed = {}]

\* A connect, refresh-policy, a drain or a replica's re-arm pushes the configuration.
Rearm ==
    /\ \E attached \in BOOLEAN : Arm(attached)
    /\ rearmed' = TRUE
    /\ UNCHANGED <<store, writer, board, dropped>>

Restart ==
    /\ gw' = Cold
    /\ UNCHANGED <<store, writer, board, traces>>

-----------------------------------------------------------------------------
(* The agents.                                                             *)

Goto(a, pc) == board' = [board EXCEPT ![a] = [pc |-> pc, join |-> board[a].join]]
Answer(a) == board' = [board EXCEPT ![a] = Idle]

\* prepareQbContext of POST /quackboard/join and of every verb of the board.
BoardBegin(a, join) ==
    /\ board[a] = Idle
    /\ board' = [board EXCEPT ![a] = [pc |-> "ensure", join |-> join]]
    /\ UNCHANGED <<store, writer, gw, traces>>

BoardGrant(a) == [verb |-> "GRANT", role |-> NoRole, to |-> a]

\* ensureQuackboardGrants: the SELECT, and awaits later the applyStatement.
EnsureGrants(a) ==
    /\ board[a].pc = "ensure"
    /\ Goto(a, IF ~ \E x \in rows : x.stmt = BoardGrant(a) THEN "insert"
               ELSE IF board[a].join THEN "arm" ELSE "ask")
    /\ UNCHANGED <<store, writer, gw, traces>>

EnsureInsert(a) ==
    /\ board[a].pc = "insert"
    /\ TakesId
    /\ board' = [board EXCEPT ![a] = [pc |-> "commit", join |-> @.join,
                                      row |-> Inserted(BoardGrant(a))]]
    /\ UNCHANGED <<rows, epoch, writer, gw, traces>>

EnsureCommit(a) ==
    /\ board[a].pc = "commit"
    /\ rows' = rows \cup {board[a].row}
    /\ BumpEpoch
    /\ Goto(a, IF board[a].join THEN "arm" ELSE "ask")
    /\ UNCHANGED <<used, writer, gw, dropped>>

\* configureQb; a push that fails, or whose answer is lost, ends the join with 502.
JoinArm(a) ==
    /\ board[a].pc = "arm"
    /\ \/ Arm(TRUE) /\ Goto(a, "bump")
       \/ \E attached \in BOOLEAN : Arm(attached) /\ Answer(a)
    /\ rearmed' = (rearmed \/ board'[a] = Idle)
    /\ UNCHANGED <<store, writer, dropped>>

\* Mutant: the join answers without the bump.
JoinForgetsBump(a) ==
    /\ board[a].pc = "bump"
    /\ Answer(a)
    /\ UNCHANGED <<store, writer, gw, traces>>

\* bumpEpoch, or its failure.
JoinBump(a) ==
    /\ board[a].pc = "bump"
    /\ Answer(a)
    /\ \/ BumpEpoch
       \/ UNCHANGED epoch /\ rearmed' = TRUE
    /\ UNCHANGED <<rows, used, writer, gw, dropped>>

\* An unreadable epoch denies; a changed one flushes; a subject not hydrated is pulled.
Authorize(a) ==
    IF ~gw.attached \/ epoch = 0 THEN Answer(a) /\ UNCHANGED gw
    ELSE LET hydrated == IF epoch # gw.epoch THEN {} ELSE gw.hydrated
         IN  /\ gw' = [gw EXCEPT !.epoch = epoch, !.hydrated = hydrated]
             /\ IF a \in hydrated THEN Answer(a)
                ELSE board' = [board EXCEPT ![a] = [pc |-> "pull", join |-> FALSE]]

\* A query of a session, relayed to an armed gateway.
RelayedQuery(a) ==
    /\ board[a] = Idle /\ gw.armed
    /\ Authorize(a)
    /\ UNCHANGED <<store, writer, traces>>

\* gatedQuery: a gateway without keys fails in phase 'authenticate' and is re-armed, once.
GatedQuery(a) ==
    /\ board[a].pc \in {"ask", "retry"}
    /\ IF gw.armed THEN Authorize(a)
       ELSE UNCHANGED gw /\ IF board[a].pc = "ask" THEN Goto(a, "rearm") ELSE Answer(a)
    /\ UNCHANGED <<store, writer, traces>>

QueryRearm(a) ==
    /\ board[a].pc = "rearm"
    /\ \/ Arm(TRUE) /\ Goto(a, "retry")
       \/ \E attached \in BOOLEAN : Arm(attached) /\ Answer(a)
    /\ rearmed' = TRUE
    /\ UNCHANGED <<store, writer, dropped>>

Pull(a) ==
    /\ board[a].pc = "pull"
    /\ IF gw.armed /\ gw.attached THEN Hydrate(a) ELSE UNCHANGED gw
    /\ Answer(a)
    /\ UNCHANGED <<store, writer, traces>>

AgentStep(a) ==
    \/ \E join \in BOOLEAN : BoardBegin(a, join)
    \/ EnsureGrants(a) \/ EnsureInsert(a) \/ EnsureCommit(a) \/ JoinArm(a) \/ JoinBump(a)
    \/ RelayedQuery(a) \/ GatedQuery(a) \/ QueryRearm(a) \/ Pull(a)

WriterStep(w) ==
    \/ \E stmt \in Statements : PostStatement(w, stmt)
    \/ Commit(w) \/ Rollback(w) \/ DeleteSelect(w) \/ DeleteApplies(w)

GrantNext ==
    \/ \E w \in Writers : WriterStep(w)
    \/ \E a \in Agents : AgentStep(a)
    \/ Rearm \/ Restart

GrantSpec == GrantInit /\ [][GrantNext]_grantVars

-----------------------------------------------------------------------------
(* What the dashboard shows and the connect gate counts: grantsForKey      *)
(* follows every GRANT <role> TO, whether it was revoked since or not.     *)

\* Mutant: only the subject's own memberships are followed.
RolesShownDirect(a) ==
    {r \in Roles : \E x \in rows : x.stmt = [verb |-> "GRANT", role |-> r, to |-> a]}

RolesShown(a) ==
    RolesFrom({<<x.stmt.to, x.stmt.role>> :
                 x \in {y \in rows : IsMembership(y.stmt) /\ y.stmt.verb = "GRANT"}}, a)

GrantsForKey(a) == {x \in rows : x.stmt.to \in {a, Public} \cup RolesShown(a)}

\* The last word by the order in which the requests were answered, not by version.
LastWritten == {x \in rows : ~ \E y \in SlotRows(Slot(x.stmt)) : x.id \in y.seen}

\* The next query of a is answered from what is hydrated.
Fresh(a) == gw.armed /\ gw.attached /\ a \in gw.hydrated /\ gw.epoch = epoch

(* What the gateway allows is what the statements, in the order they were  *)
(* accepted, allow: no edit, deletion or membership revocation is missed,  *)
(* whatever requests, hydrations and re-arms overlap; except through a     *)
(* role granted TO ROLE, whose row DELETE /acl/:id deletes although the    *)
(* edge stays ("fails OPEN" in acl.ts).                                    *)
AllowedAsWritten ==
    \A a \in Agents : Fresh(a) /\ a \in gw.allowed =>
        \E on \in Outcomes(LastWritten), extra \in SUBSET dropped :
            Verdict(a, EdgesOf(on) \cup extra, on)

(* A hydrated agent that the statements allow is denied only when a re-arm *)
(* has cleared its grants and no epoch bump followed: a join that answers  *)
(* leaves nobody so ("instead of wrongly denying" in quackboard.ts).       *)
DeniedOnlyAfterRearm ==
    \A a \in Agents :
        (/\ Fresh(a) /\ a \notin gw.allowed
         /\ \A on \in Outcomes(LastWritten), extra \in SUBSET dropped :
               Verdict(a, EdgesOf(on) \cup extra, on))
        => rearmed \/ \E b \in Agents : board[b].pc = "bump"

(* The dashboard never shows less than is enforced: an agent that the      *)
(* gateway allows has a grant in grantsForKey, so the connect gate does    *)
(* not refuse it either; except through a dropped edge.                    *)
ShownWhenAllowed ==
    \A a \in Agents : Fresh(a) /\ a \in gw.allowed /\ dropped = {} =>
        \E x \in GrantsForKey(a) : Slot(x.stmt)[1] = "allow" /\ ~IsMembership(x.stmt)
=============================================================================
