--------------------------- MODULE GatewayProofs ---------------------------
(***************************************************************************)
(* The gateway of a datalake: what is pushed to it and what it pulls.      *)
(*                                                                         *)
(* GatewayDispatch, for any number of drains, attempts, edits, revocations *)
(* and crashes.  A snapshot row that reads delivered means something only  *)
(* because every push that can still arrive was read after the enqueue;    *)
(* a revocation may be dropped only because its row is deleted by the id   *)
(* under which it was sent.                                                *)
(*                                                                         *)
(* GrantStore, for any agents, roles, admin requests and statements, and   *)
(* any bounds on rows and epochs.  GrantInv says                           *)
(*   - RowsInOrder: a row is newer than every row its INSERT saw, so the   *)
(*     last one by version is a last written one;                          *)
(*   - EdgesKnown: an edge outlives its slot only if its row was dropped;  *)
(*   - HydratedFromRows: who is hydrated at the store's epoch was answered *)
(*     from the rows that are there, or had its grants cleared since.      *)
(***************************************************************************)
EXTENDS GatewayDispatch, GrantStore, TLAPS, FiniteSetTheorems, WellFoundedInduction

RowType == [status : {"none", "pending", "delivered", "failed"},
            attempts : 0..MaxAttempts, due : BOOLEAN, id : 0..MaxRevokes]
DrainType == [pc : {"idle", "next", "read", "push", "revoke", "mark", "fail"},
              todo : SUBSET Rows, cur : SUBSET Rows, ver : {0} \cup Versions,
              held : [Rows -> Held]]

\* The drain has the row in hand that its step is about; a row's ids are the enqueues so far;
\* a row is pending, and was pending when it was selected, while it has attempts left.
DrainOK(d) ==
    /\ drain[d].pc \in {"read", "push"} => drain[d].cur = {"snapshot"}
    /\ drain[d].pc = "revoke" => drain[d].cur = {"revoke"}
    /\ \A r \in Rows : drain[d].held[r].attempts < MaxAttempts
    /\ drain[d].held["revoke"].id <= outbox["revoke"].id

OutboxOK ==
    /\ \A r \in Rows : outbox[r].status = "pending" => outbox[r].attempts < MaxAttempts
    /\ outbox["revoke"].id <= asked
    /\ want <= cfg

\* Older than what was current at the last enqueue.
Stale(v) == v \in 1..(want - 1)

\* A drain is about to mark the snapshot row delivered.
MarksSnapshot(d) == drain[d].pc = "mark" /\ "snapshot" \in drain[d].cur

\* No push that can still arrive is stale; what is delivered, or is about to be marked so,
\* has re-armed the gateway.
SnapshotOK ==
    /\ ~raced => /\ ~Stale(sync) /\ ~Stale(stray)
                 /\ \A d \in Drains : drain[d].pc = "push" => ~Stale(drain[d].ver)
    /\ ~raced /\ ~skipped /\ (\E d \in Drains : MarksSnapshot(d)) => Rearmed
    /\ DeliveredUnlessRaced

\* Who is about to delete the revoke row under the id it has now has sent it.
RevokeOK ==
    /\ \A d \in Drains :
          drain[d].pc = "mark" /\ "revoke" \in drain[d].cur
            /\ drain[d].held["revoke"].id = outbox["revoke"].id
          => denied # {}
    /\ RevokeDroppedOnlyWhenSent

IInv == TypeOK /\ OutboxOK /\ (\A d \in Drains : DrainOK(d)) /\ SnapshotOK /\ RevokeOK

-----------------------------------------------------------------------------
(* How a drain moves.                                                      *)

Moves(d, pc) ==
    /\ drain' \in [Drains -> DrainType]
    /\ \A e \in Drains \ {d} : drain'[e] = drain[e]
    /\ drain'[d].pc = pc

LEMMA IdleIs ==
    /\ IdleDrain \in DrainType /\ IdleDrain.pc = "idle" /\ IdleDrain.cur = {}
    /\ \A r \in Rows : IdleDrain.held[r].attempts < MaxAttempts /\ IdleDrain.held[r].id = 0
<1> DEFINE none == [r \in Rows |-> [id |-> 0, attempts |-> 0]]
<1>1. [id |-> 0, attempts |-> 0] \in Held
  BY DispatchAssumption DEF Held
<1>2. /\ none \in [Rows -> Held]
      /\ \A r \in Rows : none[r].attempts < MaxAttempts /\ none[r].id = 0
  <2>1. 0 < MaxAttempts
    BY DispatchAssumption
  <2> QED BY <1>1, <2>1
<1> HIDE DEF none
<1>3. IdleDrain = [pc |-> "idle", todo |-> {}, cur |-> {}, ver |-> 0, held |-> none]
  BY DEF IdleDrain, none
<1> QED BY <1>2, <1>3 DEF DrainType

LEMMA SelectMoves ==
    ASSUME TypeOK, NEW d \in Drains, DrainSelect(d)
    PROVE  /\ Moves(d, "next") /\ drain'[d].cur = {}
           /\ \A r \in Rows : drain'[d].held[r] =
                IF r \in Due THEN [id |-> outbox[r].id, attempts |-> outbox[r].attempts]
                             ELSE IdleDrain.held[r]
<1> DEFINE held == [r \in Rows |-> IF r \in Due
                      THEN [id |-> outbox[r].id, attempts |-> outbox[r].attempts]
                      ELSE IdleDrain.held[r]]
           q == [IdleDrain EXCEPT !.pc = "next", !.todo = Due, !.held = held]
<1>1. \A r \in Rows : [id |-> outbox[r].id, attempts |-> outbox[r].attempts] \in Held
  BY DEF TypeOK, Held
<1>2. \A r \in Rows : IdleDrain.held[r] \in Held
  BY IdleIs DEF DrainType
<1>3. held \in [Rows -> Held] /\ Due \in SUBSET Rows
  BY <1>1, <1>2 DEF Due
<1>4. drain' = [drain EXCEPT ![d] = q]
  BY DEF DrainSelect
<1> HIDE DEF held
<1>5. q \in DrainType /\ q.pc = "next" /\ q.cur = {} /\ q.held = held
  BY <1>3, IdleIs DEF DrainType
<1> HIDE DEF q
<1>6. Moves(d, "next") /\ drain'[d] = q
  BY <1>4, <1>5 DEF TypeOK, DrainType, Moves
<1> QED BY <1>5, <1>6 DEF held

LEMMA NextMoves ==
    ASSUME TypeOK, NEW d \in Drains, DrainNext(d)
    PROVE  \/ Moves(d, "idle") /\ drain'[d] = IdleDrain
           \/ \E r \in Rows :
                 /\ Moves(d, IF r = "snapshot" THEN "read" ELSE "revoke")
                 /\ drain'[d].cur = {r} /\ drain'[d].held = drain[d].held
<1>0. drain \in [Drains -> DrainType]
  BY DEF TypeOK, DrainType
<1>1. CASE drain' = [drain EXCEPT ![d] = IdleDrain]
  BY <1>0, <1>1, IdleIs DEF Moves
<1>2. ASSUME NEW r \in drain[d].todo,
             drain' = [drain EXCEPT ![d].pc = IF r = "snapshot" THEN "read" ELSE "revoke",
                                    ![d].cur = {r}, ![d].todo = @ \ {r}]
      PROVE  \E x \in Rows :
                 /\ Moves(d, IF x = "snapshot" THEN "read" ELSE "revoke")
                 /\ drain'[d].cur = {x} /\ drain'[d].held = drain[d].held
  <2>1. r \in Rows /\ drain[d].todo \ {r} \in SUBSET Rows
    BY <1>0 DEF DrainType
  <2>2. /\ Moves(d, IF r = "snapshot" THEN "read" ELSE "revoke")
        /\ drain'[d].cur = {r} /\ drain'[d].held = drain[d].held
    BY <1>0, <1>2, <2>1 DEF Moves, DrainType
  <2> QED BY <2>1, <2>2
<1> QED BY <1>1, <1>2 DEF DrainNext

LEMMA SettledMoves ==
    ASSUME TypeOK, NEW d \in Drains, drain' = Settled(d)
    PROVE  Moves(d, "next") /\ drain'[d].cur = {} /\ drain'[d].held = drain[d].held
<1>1. drain \in [Drains -> DrainType]
  BY DEF TypeOK, DrainType
<1> DEFINE to == [drain[d] EXCEPT !.pc = "next", !.cur = {}, !.ver = 0]
<1>2. /\ to \in DrainType
      /\ to.pc = "next" /\ to.cur = {} /\ to.held = drain[d].held
  BY <1>1 DEF DrainType
<1>3. drain' = [drain EXCEPT ![d] = to]
  BY <1>1 DEF Settled
<1> HIDE DEF to
<1> QED BY <1>1, <1>2, <1>3 DEF Moves

\* The steps that only go on: to the push with what was read, to a bookkeeping statement.
LEMMA GoesOn ==
    ASSUME TypeOK, NEW d \in Drains, NEW pc \in {"push", "mark", "fail"},
           NEW v \in {0} \cup Versions,
           \/ drain' = [drain EXCEPT ![d].pc = pc] /\ v = drain[d].ver
           \/ drain' = [drain EXCEPT ![d].ver = v, ![d].pc = pc]
    PROVE  /\ Moves(d, pc) /\ drain'[d].ver = v
           /\ drain'[d].cur = drain[d].cur /\ drain'[d].held = drain[d].held
<1>1. drain \in [Drains -> DrainType]
  BY DEF TypeOK, DrainType
<1> QED BY <1>1 DEF Moves, DrainType

-----------------------------------------------------------------------------
(* The gateway and the pushes on their way to it.                          *)

LEMMA Applied ==
    ASSUME TypeOK, NEW v \in {0} \cup Versions, gwCfg' = ApplySnapshot(v), want' = want
    PROVE  /\ gwCfg' \in [Gateways -> {0} \cup Versions]
           /\ ~Stale(v) => Rearmed'
<1>1. GatewayOf(OwnGateway) \in Gateways /\ gwCfg \in [Gateways -> {0} \cup Versions]
  BY DEF GatewayOf, Gateways, TypeOK
<1>2. gwCfg' \in [Gateways -> {0} \cup Versions] /\ gwCfg'[GatewayOf(OwnGateway)] = v
  BY <1>1 DEF ApplySnapshot
<1> QED BY <1>2 DEF Rearmed, Stale

LEMMA StraySent ==
    ASSUME TypeOK, NEW v \in {0} \cup Versions, SendFails(v)
    PROVE  /\ stray' \in {0} \cup Versions
           /\ ~Stale(v) /\ ~Stale(stray) => ~Stale(stray')
  BY DEF SendFails, Stale, TypeOK

\* The configuration of the moment is not stale.
LEMMA FreshRead ==
    ASSUME TypeOK, OutboxOK
    PROVE  cfg \in {0} \cup Versions /\ ~Stale(cfg) /\ ~Stale(0)
  BY DispatchAssumption DEF TypeOK, OutboxOK, Stale, Versions

-----------------------------------------------------------------------------
(* What a step has to show for the drains: those that do not move keep     *)
(* what they have.                                                         *)

LEMMA DrainsStay ==
    ASSUME IInv, drain' = drain, outbox'["revoke"].id >= outbox["revoke"].id,
           outbox'["revoke"].id \in Nat
    PROVE  \A d \in Drains : DrainOK(d)'
<1> SUFFICES ASSUME NEW d \in Drains PROVE DrainOK(d)'
  OBVIOUS
<1>1. DrainOK(d) /\ drain[d].held["revoke"].id \in Nat /\ outbox["revoke"].id \in Nat
  BY DEF IInv, TypeOK, Held, Rows
<1> QED BY <1>1 DEF DrainOK

LEMMA DrainMoves ==
    ASSUME IInv, NEW d \in Drains, NEW pc, Moves(d, pc),
           outbox'["revoke"].id = outbox["revoke"].id,
           pc \in {"read", "push"} => drain'[d].cur = {"snapshot"},
           pc = "revoke" => drain'[d].cur = {"revoke"},
           \A r \in Rows : drain'[d].held[r].attempts < MaxAttempts,
           drain'[d].held["revoke"].id <= outbox["revoke"].id
    PROVE  \A e \in Drains : DrainOK(e)'
<1>1. DrainOK(d)'
  BY DEF DrainOK, Moves
<1>2. ASSUME NEW e \in Drains \ {d} PROVE DrainOK(e)'
  BY DEF DrainOK, Moves, IInv
<1> QED BY <1>1, <1>2

LEMMA HeldStays ==
    ASSUME IInv, NEW d \in Drains, NEW pc, Moves(d, pc), drain'[d].held = drain[d].held,
           outbox'["revoke"].id = outbox["revoke"].id,
           pc \in {"read", "push"} => drain'[d].cur = {"snapshot"},
           pc = "revoke" => drain'[d].cur = {"revoke"}
    PROVE  \A e \in Drains : DrainOK(e)'
<1>1. DrainOK(d)
  BY DEF IInv
<1> QED BY <1>1, DrainMoves DEF DrainOK

\* The push that another drain has read, and the mark that another is about to set.
LEMMA SnapshotMoves ==
    ASSUME IInv, NEW d \in Drains, NEW pc, Moves(d, pc), want' = want, raced' = raced,
           skipped => skipped',
           ~raced => ~Stale(sync') /\ ~Stale(stray'),
           ~raced /\ pc = "push" => ~Stale(drain'[d].ver),
           Rearmed /\ ~raced => Rearmed',
           ~raced /\ ~skipped' /\ pc = "mark" /\ "snapshot" \in drain'[d].cur => Rearmed',
           outbox'["snapshot"].status = "delivered" /\ ~raced /\ ~skipped' => Rearmed'
    PROVE  SnapshotOK'
<1>1. ~raced => \A e \in Drains : drain'[e].pc = "push" => ~Stale(drain'[e].ver)
  BY DEF IInv, SnapshotOK, Moves
<1>2. ASSUME ~raced, ~skipped', NEW e \in Drains, drain'[e].pc = "mark",
             "snapshot" \in drain'[e].cur
      PROVE  Rearmed'
  <2>1. CASE e = d
    BY <1>2, <2>1 DEF Moves
  <2>2. CASE e # d
    <3>1. MarksSnapshot(e)
      BY <1>2, <2>2 DEF Moves, MarksSnapshot
    <3> QED BY <1>2, <3>1 DEF IInv, SnapshotOK
  <2> QED BY <2>1, <2>2
<1>3. \A v : Stale(v)' <=> v \in 1..(want - 1)
  BY DEF Stale
<1>4. DeliveredUnlessRaced'
  BY DEF DeliveredUnlessRaced
<1>5. (~raced => /\ ~Stale(sync) /\ ~Stale(stray)
                 /\ \A e \in Drains : drain[e].pc = "push" => ~Stale(drain[e].ver))'
  BY <1>1 DEF Stale
<1>6. (~raced /\ ~skipped /\ (\E e \in Drains : MarksSnapshot(e)) => Rearmed)'
  BY <1>2 DEF MarksSnapshot
<1> QED BY <1>4, <1>5, <1>6 DEF SnapshotOK

\* The same for a step that moves no drain.
LEMMA SnapshotStays ==
    ASSUME IInv, drain' = drain, want' = want, raced' = raced, skipped' = skipped,
           outbox'["snapshot"].status = outbox["snapshot"].status,
           ~raced => ~Stale(sync') /\ ~Stale(stray'),
           Rearmed /\ ~raced => Rearmed'
    PROVE  SnapshotOK'
<1>1. (~raced => /\ ~Stale(sync) /\ ~Stale(stray)
                 /\ \A e \in Drains : drain[e].pc = "push" => ~Stale(drain[e].ver))'
  BY DEF Stale, IInv, SnapshotOK
<1>2. (~raced /\ ~skipped /\ (\E e \in Drains : MarksSnapshot(e)) => Rearmed)'
  BY DEF MarksSnapshot, IInv, SnapshotOK
<1>3. DeliveredUnlessRaced'
  BY DEF DeliveredUnlessRaced, IInv, SnapshotOK
<1> QED BY <1>1, <1>2, <1>3 DEF SnapshotOK

LEMMA RevokeMoves ==
    ASSUME IInv, NEW d \in Drains, NEW pc, Moves(d, pc),
           outbox'["revoke"].id = outbox["revoke"].id,
           denied # {} => denied' # {},
           pc = "mark" /\ "revoke" \in drain'[d].cur
             /\ drain'[d].held["revoke"].id = outbox["revoke"].id => denied' # {},
           outbox["revoke"].id > 0 /\ outbox'["revoke"].status = "none" => denied' # {}
    PROVE  RevokeOK'
<1>1. \A e \in Drains :
          drain'[e].pc = "mark" /\ "revoke" \in drain'[e].cur
            /\ drain'[e].held["revoke"].id = outbox'["revoke"].id
          => denied' # {}
  BY DEF IInv, RevokeOK, Moves
<1>2. RevokeDroppedOnlyWhenSent'
  BY DEF RevokeDroppedOnlyWhenSent
<1> QED BY <1>1, <1>2 DEF RevokeOK

LEMMA RevokeStays ==
    ASSUME IInv, drain' = drain, denied' = denied,
           outbox'["revoke"].id = outbox["revoke"].id,
           outbox'["revoke"].status = outbox["revoke"].status
    PROVE  RevokeOK'
  BY DEF IInv, RevokeOK, RevokeDroppedOnlyWhenSent

-----------------------------------------------------------------------------
(* The requests.                                                           *)

\* Edits of the configuration, connects, starts and stops leave the outbox alone.
LEMMA QuietRequest ==
    ASSUME IInv, UNCHANGED <<outbox, drain, asked, denied, crashes, want, edits, raced, skipped>>,
           cfg' \in Versions, cfg' >= cfg, running' \in BOOLEAN,
           sync' \in {0} \cup Versions, stray' \in {0} \cup Versions,
           gwCfg' \in [Gateways -> {0} \cup Versions],
           ~raced => ~Stale(sync') /\ ~Stale(stray'),
           Rearmed /\ ~raced => Rearmed'
    PROVE  IInv'
<1>1. TypeOK'
  BY DEF IInv, TypeOK
<1>2. OutboxOK'
  <2>1. want \in Nat /\ cfg \in Nat /\ cfg' \in Nat
    BY DispatchAssumption DEF IInv, TypeOK, Versions
  <2> QED BY <2>1 DEF IInv, OutboxOK
<1>3. \A d \in Drains : DrainOK(d)'
  <2>1. outbox["revoke"].id \in Nat
    BY DEF IInv, TypeOK, Rows
  <2> QED BY <2>1, DrainsStay
<1>4. SnapshotOK' /\ RevokeOK'
  BY SnapshotStays, RevokeStays
<1> QED BY <1>1, <1>2, <1>3, <1>4 DEF IInv

\* A push whose configuration was read after the last enqueue, or which met a race.
LEMMA InTime ==
    ASSUME IInv, ~raced
    PROVE  ~Stale(sync) /\ ~Stale(stray)
  BY DEF IInv, SnapshotOK

LEMMA ConfigChangesKeeps == ASSUME IInv, ConfigChanges PROVE IInv'
<1>1. cfg' \in Versions /\ cfg' >= cfg
  BY DispatchAssumption DEF IInv, TypeOK, ConfigChanges, Versions
<1>2. Rearmed => Rearmed'
  BY DEF ConfigChanges, Rearmed
<1> QED BY <1>1, <1>2, InTime, QuietRequest DEF ConfigChanges, IInv, TypeOK, history

LEMMA SyncReadKeeps == ASSUME IInv, SyncRead PROVE IInv'
<1>1. cfg \in {0} \cup Versions /\ ~Stale(cfg) /\ cfg >= cfg
  BY FreshRead, DispatchAssumption DEF IInv, TypeOK, Versions
<1>2. Rearmed => Rearmed'
  BY DEF SyncRead, Rearmed, config
<1> QED BY <1>1, <1>2, InTime, QuietRequest DEF SyncRead, IInv, TypeOK, config, history

LEMMA SyncPushKeeps == ASSUME IInv, SyncPush PROVE IInv'
<1>1. TypeOK /\ OutboxOK /\ sync \in {0} \cup Versions /\ cfg \in Versions /\ cfg >= cfg
  BY DispatchAssumption DEF IInv, TypeOK, Versions
<1>2. sync' = 0 /\ 0 \in {0} \cup Versions /\ ~Stale(0)
  BY <1>1, FreshRead DEF SyncPush
<1>3. CASE gwCfg' = ApplySnapshot(sync) /\ UNCHANGED stray
  <2>1. gwCfg' \in [Gateways -> {0} \cup Versions] /\ (~raced => Rearmed')
    BY <1>1, <1>3, Applied, InTime DEF SyncPush, config
  <2> QED BY <1>1, <1>2, <1>3, <2>1, InTime, QuietRequest
          DEF SyncPush, IInv, TypeOK, config, history
<1>4. CASE SendFails(sync) /\ UNCHANGED gwCfg
  <2>1. stray' \in {0} \cup Versions /\ (~raced => ~Stale(stray'))
    BY <1>1, <1>4, StraySent, InTime
  <2>2. Rearmed => Rearmed'
    BY <1>4 DEF SyncPush, Rearmed, config
  <2> QED BY <1>1, <1>2, <1>4, <2>1, <2>2, QuietRequest
          DEF SyncPush, IInv, TypeOK, config, history
<1> QED BY <1>3, <1>4 DEF SyncPush

LEMMA StrayEndsKeeps == ASSUME IInv, StrayEnds PROVE IInv'
<1>1. TypeOK /\ OutboxOK /\ stray \in {0} \cup Versions /\ cfg \in Versions /\ cfg >= cfg
  BY DispatchAssumption DEF IInv, TypeOK, Versions
<1>2. stray' = 0 /\ 0 \in {0} \cup Versions /\ ~Stale(0)
  BY <1>1, FreshRead DEF StrayEnds
<1>3. gwCfg' \in [Gateways -> {0} \cup Versions] /\ (Rearmed /\ ~raced => Rearmed')
  <2>1. CASE gwCfg' = ApplySnapshot(stray)
    BY <1>1, <2>1, Applied, InTime DEF StrayEnds, config
  <2>2. CASE gwCfg' = gwCfg
    BY <2>2 DEF StrayEnds, config, Rearmed, IInv, TypeOK
  <2> QED BY <2>1, <2>2 DEF StrayEnds
<1> QED BY <1>1, <1>2, <1>3, InTime, QuietRequest DEF StrayEnds, IInv, TypeOK, config, history

LEMMA StopOrStartKeeps == ASSUME IInv, StopOrStart PROVE IInv'
<1>1. cfg \in Versions /\ cfg >= cfg /\ running' \in BOOLEAN
  BY DispatchAssumption DEF IInv, TypeOK, Versions, StopOrStart
<1>2. Rearmed => Rearmed'
  BY DEF StopOrStart, Rearmed
<1> QED BY <1>1, <1>2, InTime, QuietRequest DEF StopOrStart, IInv, TypeOK, history

LEMMA GatewayColdStartKeeps == ASSUME IInv, GatewayColdStart PROVE IInv'
<1>1. cfg \in Versions /\ cfg >= cfg /\ want' = want
  BY DispatchAssumption DEF IInv, TypeOK, Versions, GatewayColdStart, config
<1>2. gwCfg' \in [Gateways -> {0} \cup Versions] /\ Rearmed'
  BY <1>1, Applied, FreshRead DEF GatewayColdStart, IInv, ApplySnapshot
<1> QED BY <1>1, <1>2, InTime, QuietRequest
        DEF GatewayColdStart, IInv, TypeOK, config, history

LEMMA BackoffElapsesKeeps == ASSUME IInv, NEW r \in Rows, BackoffElapses(r) PROVE IInv'
<1>1. /\ outbox \in [Rows -> RowType]
      /\ outbox' = [outbox EXCEPT ![r].due = TRUE]
  BY DEF IInv, TypeOK, RowType, BackoffElapses
<1>2. /\ outbox' \in [Rows -> RowType]
      /\ \A x \in Rows : /\ outbox'[x].status = outbox[x].status /\ outbox'[x].id = outbox[x].id
                         /\ outbox'[x].attempts = outbox[x].attempts
  BY <1>1 DEF RowType
<1>3. TypeOK'
  BY <1>2 DEF BackoffElapses, IInv, TypeOK, RowType, config, history
<1>4. OutboxOK'
  BY <1>2 DEF BackoffElapses, IInv, OutboxOK, config, Rows
<1>5. \A d \in Drains : DrainOK(d)'
  <2>1. outbox["revoke"].id \in Nat
    BY DEF IInv, TypeOK, Rows
  <2> QED BY <1>2, <2>1, DrainsStay DEF BackoffElapses, Rows
<1>6. Rearmed => Rearmed'
  BY DEF BackoffElapses, Rearmed, config
<1>7. SnapshotOK' /\ RevokeOK'
  BY <1>2, <1>6, InTime, SnapshotStays, RevokeStays DEF BackoffElapses, config, history, Rows
<1> QED BY <1>3, <1>4, <1>5, <1>7 DEF IInv

LEMMA EnqueueSnapshotKeeps == ASSUME IInv, EnqueueSnapshot PROVE IInv'
<1> DEFINE row == [outbox["snapshot"] EXCEPT !.status = "pending", !.attempts = 0, !.due = TRUE]
<1>1. /\ outbox \in [Rows -> RowType] /\ outbox["snapshot"] \in RowType
      /\ outbox' = [outbox EXCEPT !["snapshot"] = row]
  BY DEF IInv, TypeOK, RowType, EnqueueSnapshot, Rows
<1>2. row \in RowType /\ row.status = "pending" /\ row.attempts = 0
  <2>1. 0 \in 0..MaxAttempts
    BY DispatchAssumption
  <2>2. \A x \in RowType :
           LET y == [x EXCEPT !.status = "pending", !.attempts = 0, !.due = TRUE]
           IN  y \in RowType /\ y.status = "pending" /\ y.attempts = 0
    BY <2>1 DEF RowType
  <2> QED BY <1>1, <2>2
<1> HIDE DEF row
<1>3. /\ outbox' \in [Rows -> RowType] /\ outbox'["snapshot"] = row
      /\ outbox'["revoke"] = outbox["revoke"]
  BY <1>1, <1>2 DEF Rows
<1>4. TypeOK'
  <2>1. edits' \in 0..MaxEdits
    BY DispatchAssumption DEF IInv, TypeOK, EnqueueSnapshot
  <2>2. raced' \in BOOLEAN /\ skipped' \in BOOLEAN
    BY DEF EnqueueSnapshot, InFlight
  <2> QED BY <1>3, <2>1, <2>2 DEF EnqueueSnapshot, IInv, TypeOK, RowType
<1>5. OutboxOK'
  <2>1. cfg \in Nat
    BY DispatchAssumption DEF IInv, TypeOK, Versions
  <2> QED BY <1>2, <1>3, <2>1, DispatchAssumption DEF EnqueueSnapshot, IInv, OutboxOK, Rows
<1>6. \A d \in Drains : DrainOK(d)'
  <2>1. outbox["revoke"].id \in Nat
    BY DEF IInv, TypeOK, Rows
  <2> QED BY <1>3, <2>1, DrainsStay DEF EnqueueSnapshot
<1>7. SnapshotOK'
  <2>1. DeliveredUnlessRaced'
    BY <1>2, <1>3 DEF DeliveredUnlessRaced
  <2>2. CASE InFlight
    BY <2>1, <2>2 DEF SnapshotOK, EnqueueSnapshot
  <2>3. CASE ~InFlight
    <3>1. sync = 0 /\ stray = 0 /\ \A d \in Drains : drain[d].pc # "push" /\ ~MarksSnapshot(d)
      BY <2>3 DEF InFlight, MarksSnapshot, IInv, DrainOK
    <3>2. \A d \in Drains : ~MarksSnapshot(d)'
      BY <3>1 DEF MarksSnapshot, EnqueueSnapshot
    <3>3. ~Stale(sync)' /\ ~Stale(stray)'
      BY <3>1 DEF Stale, EnqueueSnapshot
    <3> QED BY <2>1, <3>1, <3>2, <3>3 DEF SnapshotOK, EnqueueSnapshot
  <2> QED BY <2>2, <2>3
<1>8. RevokeOK'
  BY <1>3, RevokeStays DEF EnqueueSnapshot
<1> QED BY <1>4, <1>5, <1>6, <1>7, <1>8 DEF IInv

\* A new row has a new id, so that no drain holds it yet.
LEMMA EnqueueRevokeKeeps == ASSUME IInv, EnqueueRevoke PROVE IInv'
<1> DEFINE old == outbox["revoke"]
           row == [status |-> "pending", attempts |-> 0, due |-> TRUE,
                   id |-> IF old.status = "pending" THEN old.id ELSE old.id + 1]
<1>1. /\ outbox \in [Rows -> RowType] /\ old \in RowType
      /\ outbox' = [outbox EXCEPT !["revoke"] = row]
  BY DEF IInv, TypeOK, RowType, EnqueueRevoke, Rows
<1>2. old.id \in Nat /\ old.id <= asked /\ asked' = asked + 1 /\ asked' \in 0..MaxRevokes
      /\ asked \in Nat
  BY <1>1, DispatchAssumption DEF RowType, IInv, OutboxOK, TypeOK, EnqueueRevoke
<1>3. /\ row \in RowType /\ row.id \in Nat /\ row.id <= asked' /\ row.id >= old.id
      /\ old.status # "pending" => row.id > old.id
      /\ old.status = "pending" => row.id = old.id
      /\ row.status = "pending" /\ row.attempts = 0
  BY <1>2, DispatchAssumption DEF RowType
<1> HIDE DEF row
<1>4. /\ outbox' \in [Rows -> RowType] /\ outbox'["revoke"] = row
      /\ outbox'["snapshot"] = outbox["snapshot"]
  BY <1>1, <1>3 DEF Rows
<1>5. TypeOK'
  <2>1. denied' \in SUBSET Gateways
    BY DEF EnqueueRevoke, IInv, TypeOK
  <2> QED BY <1>2, <1>4, <2>1 DEF EnqueueRevoke, IInv, TypeOK, RowType, config, history
<1>6. OutboxOK'
  BY <1>3, <1>4, DispatchAssumption DEF EnqueueRevoke, IInv, OutboxOK, config, Rows
<1>7. \A d \in Drains : DrainOK(d)'
  BY <1>3, <1>4, DrainsStay DEF EnqueueRevoke
<1>8. SnapshotOK'
  <2>1. Rearmed => Rearmed'
    BY DEF EnqueueRevoke, Rearmed, config
  <2> QED BY <1>4, <2>1, InTime, SnapshotStays DEF EnqueueRevoke, config, history
<1>9. RevokeOK'
  <2>1. RevokeDroppedOnlyWhenSent'
    BY <1>3, <1>4 DEF RevokeDroppedOnlyWhenSent
  <2>2. ASSUME NEW d \in Drains, drain[d].pc = "mark", "revoke" \in drain[d].cur,
               drain[d].held["revoke"].id = row.id
        PROVE  denied' # {}
    <3>1. drain[d].held["revoke"].id <= old.id /\ drain[d].held["revoke"].id \in Nat
      BY DEF IInv, DrainOK, TypeOK, Held, Rows
    <3>2. old.status = "pending" /\ row.id = old.id
      BY <1>2, <1>3, <2>2, <3>1
    <3>3. denied' = denied
      BY <3>2 DEF EnqueueRevoke
    <3> QED BY <2>2, <3>2, <3>3 DEF IInv, RevokeOK
  <2> QED BY <1>4, <2>1, <2>2 DEF RevokeOK, EnqueueRevoke
<1> QED BY <1>5, <1>6, <1>7, <1>8, <1>9 DEF IInv

-----------------------------------------------------------------------------
(* The drains.                                                             *)

\* A step of a drain before the bookkeeping: the outbox stays as it is.
LEMMA QuietDrain ==
    ASSUME IInv, NEW d \in Drains, NEW pc, Moves(d, pc),
           UNCHANGED <<config, outbox, asked, sync, raced>>,
           crashes' \in 0..MaxCrashes, stray' \in {0} \cup Versions,
           skipped' \in BOOLEAN, skipped => skipped',
           gwCfg' \in [Gateways -> {0} \cup Versions],
           denied' \in SUBSET Gateways, denied # {} => denied' # {},
           \A e \in Drains : DrainOK(e)',
           ~raced => ~Stale(stray'),
           ~raced /\ pc = "push" => ~Stale(drain'[d].ver),
           Rearmed /\ ~raced => Rearmed',
           ~raced /\ ~skipped' /\ pc = "mark" /\ "snapshot" \in drain'[d].cur => Rearmed',
           pc = "mark" /\ "revoke" \in drain'[d].cur
             /\ drain'[d].held["revoke"].id = outbox["revoke"].id => denied' # {}
    PROVE  IInv'
<1>1. TypeOK'
  BY DEF IInv, TypeOK, Moves, DrainType, config
<1>2. OutboxOK'
  BY DEF IInv, OutboxOK, config
<1>3. SnapshotOK'
  <2>1. outbox'["snapshot"].status = "delivered" /\ ~raced /\ ~skipped' => Rearmed'
    BY DEF IInv, SnapshotOK, DeliveredUnlessRaced
  <2> QED BY <2>1, InTime, SnapshotMoves DEF config
<1>4. RevokeOK'
  <2>1. outbox["revoke"].id > 0 /\ outbox'["revoke"].status = "none" => denied' # {}
    BY DEF IInv, RevokeOK, RevokeDroppedOnlyWhenSent
  <2> QED BY <2>1, RevokeMoves
<1> QED BY <1>1, <1>2, <1>3, <1>4 DEF IInv

\* What such a step usually leaves alone as well.
LEMMA StillArmed ==
    ASSUME IInv, UNCHANGED <<want, gwCfg>>
    PROVE  /\ Rearmed => Rearmed'
           /\ gwCfg' \in [Gateways -> {0} \cup Versions]
  BY DEF Rearmed, IInv, TypeOK

LEMMA DrainSelectKeeps == ASSUME IInv, NEW d \in Drains, DrainSelect(d) PROVE IInv'
<1>1. /\ Moves(d, "next") /\ drain'[d].cur = {}
      /\ \A r \in Rows : drain'[d].held[r] =
            IF r \in Due THEN [id |-> outbox[r].id, attempts |-> outbox[r].attempts]
                         ELSE IdleDrain.held[r]
  BY SelectMoves DEF IInv
<1>2. outbox["revoke"].id \in Nat
  BY DEF IInv, TypeOK, Rows
<1>3. \A r \in Rows : drain'[d].held[r].attempts < MaxAttempts
  <2>1. \A r \in Due : outbox[r].attempts < MaxAttempts
    BY DEF Due, IInv, OutboxOK
  <2>2. ASSUME NEW r \in Rows PROVE drain'[d].held[r].attempts < MaxAttempts
    <3>1. CASE r \in Due
      <4>1. drain'[d].held[r] = [id |-> outbox[r].id, attempts |-> outbox[r].attempts]
        BY <1>1, <3>1
      <4> QED BY <2>1, <3>1, <4>1
    <3>2. CASE r \notin Due
      <4>1. drain'[d].held[r] = IdleDrain.held[r]
        BY <1>1, <3>2
      <4> QED BY <4>1, IdleIs
    <3> QED BY <3>1, <3>2
  <2> QED BY <2>2
<1>4. drain'[d].held["revoke"].id <= outbox["revoke"].id
  BY <1>1, <1>2, IdleIs DEF Rows
<1>5. \A e \in Drains : DrainOK(e)'
  BY <1>1, <1>3, <1>4, DrainMoves DEF DrainSelect
<1> QED BY <1>1, <1>5, InTime, StillArmed, QuietDrain
        DEF DrainSelect, IInv, TypeOK, config, history

LEMMA DrainNextKeeps == ASSUME IInv, NEW d \in Drains, DrainNext(d) PROVE IInv'
<1>1. CASE Moves(d, "idle") /\ drain'[d] = IdleDrain
  <2>1. \A e \in Drains : DrainOK(e)'
    <3>1. outbox["revoke"].id \in Nat
      BY DEF IInv, TypeOK, Rows
    <3>2. outbox' = outbox
      BY DEF DrainNext
    <3>3. drain'[d].held["revoke"].id <= outbox["revoke"].id
      BY <1>1, <3>1, IdleIs DEF Rows
    <3> QED BY <1>1, <3>2, <3>3, IdleIs, DrainMoves
  <2> QED BY <1>1, <2>1, InTime, StillArmed, QuietDrain
          DEF DrainNext, IInv, TypeOK, config, history
<1>2. ASSUME NEW r \in Rows, NEW pc, pc = (IF r = "snapshot" THEN "read" ELSE "revoke"),
             Moves(d, pc), drain'[d].cur = {r}, drain'[d].held = drain[d].held
      PROVE  IInv'
  <2>1. \A e \in Drains : DrainOK(e)'
    <3>1. CASE r = "snapshot"
      BY <1>2, <3>1, HeldStays DEF DrainNext
    <3>2. CASE r = "revoke"
      BY <1>2, <3>2, HeldStays DEF DrainNext
    <3> QED BY <3>1, <3>2 DEF Rows
  <2> QED BY <1>2, <2>1, InTime, StillArmed, QuietDrain
          DEF DrainNext, IInv, TypeOK, config, history
<1> QED BY <1>1, <1>2, NextMoves DEF IInv

LEMMA ReadConfigKeeps == ASSUME IInv, NEW d \in Drains, ReadConfig(d) PROVE IInv'
<1>1. TypeOK /\ OutboxOK /\ drain[d].cur = {"snapshot"} /\ drain[d].ver \in {0} \cup Versions
  BY DEF IInv, DrainOK, ReadConfig, TypeOK
<1>2. CASE running /\ drain' = [drain EXCEPT ![d].ver = cfg, ![d].pc = "push"]
           /\ UNCHANGED skipped
  <2>1. /\ Moves(d, "push") /\ drain'[d].ver = cfg
        /\ drain'[d].cur = {"snapshot"} /\ drain'[d].held = drain[d].held
    BY <1>1, <1>2, FreshRead, GoesOn
  <2>2. \A e \in Drains : DrainOK(e)'
    BY <2>1, HeldStays DEF ReadConfig
  <2> QED BY <1>1, <1>2, <2>1, <2>2, FreshRead, InTime, StillArmed, QuietDrain
          DEF ReadConfig, IInv, TypeOK, config
<1>3. CASE ~running /\ drain' = [drain EXCEPT ![d].pc = "mark"] /\ skipped' = TRUE
  <2>1. /\ Moves(d, "mark")
        /\ drain'[d].cur = {"snapshot"} /\ drain'[d].held = drain[d].held
    BY <1>1, <1>3, GoesOn
  <2>2. \A e \in Drains : DrainOK(e)'
    BY <2>1, HeldStays DEF ReadConfig
  <2> QED BY <1>1, <1>3, <2>1, <2>2, InTime, StillArmed, QuietDrain
          DEF ReadConfig, IInv, TypeOK, config
<1> QED BY <1>2, <1>3 DEF ReadConfig

LEMMA PushConfigKeeps == ASSUME IInv, NEW d \in Drains, PushConfig(d) PROVE IInv'
<1>1. /\ TypeOK /\ drain[d].cur = {"snapshot"} /\ drain[d].ver \in {0} \cup Versions
      /\ ~raced => ~Stale(drain[d].ver)
  BY DEF IInv, DrainOK, PushConfig, TypeOK, SnapshotOK
<1>2. CASE gwCfg' = ApplySnapshot(drain[d].ver) /\ drain' = [drain EXCEPT ![d].pc = "mark"]
           /\ UNCHANGED stray
  <2>1. /\ Moves(d, "mark")
        /\ drain'[d].cur = {"snapshot"} /\ drain'[d].held = drain[d].held
    BY <1>1, <1>2, GoesOn
  <2>2. gwCfg' \in [Gateways -> {0} \cup Versions] /\ (~raced => Rearmed')
    BY <1>1, <1>2, Applied DEF PushConfig, config
  <2>3. \A e \in Drains : DrainOK(e)'
    BY <2>1, HeldStays DEF PushConfig
  <2> QED BY <1>1, <1>2, <2>1, <2>2, <2>3, InTime, QuietDrain
          DEF PushConfig, IInv, TypeOK, config, history
<1>3. CASE drain' = [drain EXCEPT ![d].pc = "fail"] /\ SendFails(drain[d].ver)
           /\ UNCHANGED gwCfg
  <2>1. /\ Moves(d, "fail")
        /\ drain'[d].cur = {"snapshot"} /\ drain'[d].held = drain[d].held
    BY <1>1, <1>3, GoesOn
  <2>2. stray' \in {0} \cup Versions /\ (~raced => ~Stale(stray'))
    BY <1>1, <1>3, StraySent, InTime
  <2>3. \A e \in Drains : DrainOK(e)'
    BY <2>1, HeldStays DEF PushConfig
  <2> QED BY <1>1, <1>3, <2>1, <2>2, <2>3, StillArmed, QuietDrain
          DEF PushConfig, IInv, TypeOK, config, history
<1> QED BY <1>2, <1>3 DEF PushConfig

LEMMA SendRevokeKeeps == ASSUME IInv, NEW d \in Drains, SendRevoke(d) PROVE IInv'
<1>1. TypeOK /\ drain[d].cur = {"revoke"} /\ drain[d].ver \in {0} \cup Versions
  BY DEF IInv, DrainOK, SendRevoke, TypeOK
<1>2. /\ denied' \in SUBSET Gateways
      /\ denied # {} => denied' # {}
  BY DEF SendRevoke, Denied, GatewayOf, Gateways, IInv, TypeOK
<1>3. ASSUME NEW pc \in {"mark", "fail"}, drain' = [drain EXCEPT ![d].pc = pc],
             pc = "mark" => denied' = Denied(d)
      PROVE  IInv'
  <2>1. /\ Moves(d, pc)
        /\ drain'[d].cur = {"revoke"} /\ drain'[d].held = drain[d].held
    BY <1>1, <1>3, GoesOn
  <2>2. pc = "mark" /\ drain'[d].held["revoke"].id = outbox["revoke"].id => denied' # {}
    BY <1>3, <2>1 DEF Denied
  <2>3. \A e \in Drains : DrainOK(e)'
    BY <2>1, HeldStays DEF SendRevoke
  <2> QED BY <1>1, <1>2, <1>3, <2>1, <2>2, <2>3, InTime, StillArmed, QuietDrain
          DEF SendRevoke, IInv, TypeOK, config, history
<1> QED BY <1>3 DEF SendRevoke

\* A drain that gives up: it crashes, or its bookkeeping statement fails.
LEMMA BookkeepingFailsKeeps == ASSUME IInv, NEW d \in Drains, BookkeepingFails(d) PROVE IInv'
<1>1. TypeOK /\ drain[d].ver \in {0} \cup Versions /\ crashes' \in 0..MaxCrashes
  BY DispatchAssumption DEF IInv, TypeOK, BookkeepingFails, Crashes
<1>2. ASSUME NEW pc \in {"fail", "next"}, Moves(d, pc), drain'[d].held = drain[d].held
      PROVE  IInv'
  <2>1. \A e \in Drains : DrainOK(e)'
    BY <1>2, HeldStays DEF BookkeepingFails
  <2> QED BY <1>1, <1>2, <2>1, InTime, StillArmed, QuietDrain
          DEF BookkeepingFails, IInv, TypeOK, config, history
<1>3. CASE drain' = [drain EXCEPT ![d].pc = "fail"]
  BY <1>1, <1>2, <1>3, GoesOn
<1>4. CASE drain' = Settled(d)
  BY <1>1, <1>2, <1>4, SettledMoves
<1> QED BY <1>3, <1>4 DEF BookkeepingFails

LEMMA DrainCrashKeeps == ASSUME IInv, NEW d \in Drains, DrainCrash(d) PROVE IInv'
<1>1. /\ TypeOK /\ drain[d].ver \in {0} \cup Versions /\ crashes' \in 0..MaxCrashes
      /\ drain' = [drain EXCEPT ![d] = IdleDrain] /\ drain \in [Drains -> DrainType]
  BY DispatchAssumption DEF IInv, TypeOK, DrainCrash, Crashes, DrainType
<1>2. Moves(d, "idle") /\ drain'[d] = IdleDrain
  BY <1>1, IdleIs DEF Moves
<1>3. stray' \in {0} \cup Versions /\ (~raced => ~Stale(stray'))
  <2>1. CASE drain[d].pc = "push"
    BY <1>1, <2>1, StraySent, InTime DEF DrainCrash, IInv, SnapshotOK
  <2>2. CASE drain[d].pc # "push"
    BY <2>2, InTime DEF DrainCrash, IInv, TypeOK
  <2> QED BY <2>1, <2>2
<1>4. \A e \in Drains : DrainOK(e)'
  <2>1. outbox["revoke"].id \in Nat
    BY DEF IInv, TypeOK, Rows
  <2>2. outbox' = outbox
    BY DEF DrainCrash
  <2>3. drain'[d].held["revoke"].id <= outbox["revoke"].id
    BY <1>2, <2>1, IdleIs DEF Rows
  <2> QED BY <1>2, <2>2, <2>3, IdleIs, DrainMoves
<1> QED BY <1>1, <1>2, <1>3, <1>4, StillArmed, QuietDrain
        DEF DrainCrash, IInv, TypeOK, config, history

-----------------------------------------------------------------------------
(* The bookkeeping: the drain settles its row.                             *)

\* What is written to the outbox keeps the ids; a row marked delivered has been delivered,
\* a row that is gone has been sent.
LEMMA Settles ==
    ASSUME IInv, NEW d \in Drains, drain' = Settled(d),
           UNCHANGED <<config, gwCfg, asked, denied, crashes, sync, stray, history>>,
           outbox' \in [Rows -> RowType],
           \A r \in Rows : outbox'[r].id = outbox[r].id,
           \A r \in Rows : outbox'[r].status = "pending" => outbox'[r].attempts < MaxAttempts,
           outbox'["snapshot"].status = "delivered"
             => outbox["snapshot"].status = "delivered" \/ MarksSnapshot(d),
           outbox'["revoke"].status = "none"
             => outbox["revoke"].status = "none" \/ denied # {}
    PROVE  IInv'
<1>1. Moves(d, "next") /\ drain'[d].cur = {} /\ drain'[d].held = drain[d].held
  BY SettledMoves DEF IInv
<1>2. TypeOK'
  BY <1>1 DEF IInv, TypeOK, RowType, Moves, DrainType, config, history
<1>3. OutboxOK'
  BY DEF IInv, OutboxOK, config, Rows
<1>4. outbox'["revoke"].id = outbox["revoke"].id
  BY DEF Rows
<1>5. \A e \in Drains : DrainOK(e)'
  BY <1>1, <1>4, HeldStays
<1>6. SnapshotOK'
  <2>1. Rearmed => Rearmed'
    BY DEF Rearmed, config
  <2>2. outbox'["snapshot"].status = "delivered" /\ ~raced /\ ~skipped' => Rearmed'
    BY <2>1 DEF IInv, SnapshotOK, DeliveredUnlessRaced, history
  <2> QED BY <1>1, <2>1, <2>2, InTime, SnapshotMoves DEF config, history
<1>7. RevokeOK'
  <2>1. outbox["revoke"].id > 0 /\ outbox'["revoke"].status = "none" => denied' # {}
    BY DEF IInv, RevokeOK, RevokeDroppedOnlyWhenSent
  <2> QED BY <1>1, <1>4, <2>1, RevokeMoves
<1> QED BY <1>2, <1>3, <1>5, <1>6, <1>7 DEF IInv

\* The row as it is allows what Settles asks.
LEMMA OutboxStays ==
    ASSUME IInv
    PROVE  /\ outbox \in [Rows -> RowType]
           /\ \A r \in Rows : outbox[r].status = "pending" => outbox[r].attempts < MaxAttempts
  BY DEF IInv, TypeOK, RowType, OutboxOK

LEMMA MarkKeeps == ASSUME IInv, NEW d \in Drains, Mark(d) PROVE IInv'
<1>1. CASE outbox' = outbox
  BY <1>1, OutboxStays, Settles DEF Mark
<1>2. CASE /\ "revoke" \in drain[d].cur /\ outbox["revoke"].id = drain[d].held["revoke"].id
           /\ outbox' = [outbox EXCEPT !["revoke"].status = "none"]
  <2>1. denied # {}
    BY <1>2 DEF Mark, IInv, RevokeOK
  <2>2. /\ outbox' \in [Rows -> RowType]
        /\ \A r \in Rows : outbox'[r].id = outbox[r].id
        /\ outbox'["snapshot"] = outbox["snapshot"]
        /\ outbox'["revoke"].status = "none"
    BY <1>2, OutboxStays DEF RowType, Rows
  <2>3. \A r \in Rows : outbox'[r].status = "pending" => outbox'[r].attempts < MaxAttempts
    BY <2>2, OutboxStays DEF Rows
  <2> QED BY <2>1, <2>2, <2>3, Settles DEF Mark
<1>3. CASE /\ "snapshot" \in drain[d].cur
           /\ outbox' = [outbox EXCEPT !["snapshot"].status = "delivered"]
  <2>1. MarksSnapshot(d)
    BY <1>3 DEF Mark, MarksSnapshot
  <2>2. /\ outbox' \in [Rows -> RowType]
        /\ \A r \in Rows : outbox'[r].id = outbox[r].id
        /\ outbox'["revoke"] = outbox["revoke"]
        /\ outbox'["snapshot"].status = "delivered"
    BY <1>3, OutboxStays DEF RowType, Rows
  <2>3. \A r \in Rows : outbox'[r].status = "pending" => outbox'[r].attempts < MaxAttempts
    BY <2>2, OutboxStays DEF Rows
  <2> QED BY <2>1, <2>2, <2>3, Settles DEF Mark
<1>4. drain[d].cur \in SUBSET Rows
  BY DEF IInv, TypeOK
<1> QED BY <1>1, <1>2, <1>3, <1>4 DEF Mark, Rows

LEMMA FailKeeps == ASSUME IInv, NEW d \in Drains, Fail(d) PROVE IInv'
<1>1. PICK r \in drain[d].cur :
         LET attempts == drain[d].held[r].attempts + 1
         IN  outbox' = IF ~StillPending(d, r) THEN outbox
                       ELSE [outbox EXCEPT ![r] = [@ EXCEPT
                               !.attempts = attempts, !.due = FALSE,
                               !.status = IF attempts >= MaxAttempts
                                          THEN "failed" ELSE "pending"]]
  BY DEF Fail
<1>2. CASE outbox' = outbox
  BY <1>2, OutboxStays, Settles DEF Fail
<1>3. CASE outbox' # outbox
  <2> DEFINE attempts == drain[d].held[r].attempts + 1
             status == IF attempts >= MaxAttempts THEN "failed" ELSE "pending"
             row == [outbox[r] EXCEPT !.attempts = attempts, !.due = FALSE, !.status = status]
  <2>1. r \in Rows /\ outbox' = [outbox EXCEPT ![r] = row]
    BY <1>1, <1>3 DEF IInv, TypeOK
  <2>2. attempts \in 0..MaxAttempts
    <3>1. drain[d].held[r].attempts \in Nat /\ drain[d].held[r].attempts < MaxAttempts
      BY <2>1 DEF IInv, TypeOK, DrainOK, Held
    <3> QED BY <3>1, DispatchAssumption
  <2>3. status \in {"failed", "pending"} /\ (status = "pending" => attempts < MaxAttempts)
    BY <2>2, DispatchAssumption
  <2> HIDE DEF attempts, status
  <2>4. \A x \in RowType :
           LET y == [x EXCEPT !.attempts = attempts, !.due = FALSE, !.status = status]
           IN  y \in RowType /\ y.id = x.id /\ y.status = status /\ y.attempts = attempts
    BY <2>2, <2>3 DEF RowType
  <2>5. row \in RowType /\ row.id = outbox[r].id /\ row.status = status
        /\ row.attempts = attempts
    BY <2>1, <2>4, OutboxStays
  <2> HIDE DEF row
  <2>6. /\ outbox' \in [Rows -> RowType] /\ outbox'[r] = row
        /\ \A x \in Rows \ {r} : outbox'[x] = outbox[x]
    BY <2>1, <2>5, OutboxStays
  <2>7. /\ \A x \in Rows : outbox'[x].id = outbox[x].id
        /\ \A x \in Rows : outbox'[x].status = "pending" => outbox'[x].attempts < MaxAttempts
    BY <2>3, <2>5, <2>6, OutboxStays
  <2>8. \A x \in Rows : outbox'[x].status \in {"delivered", "none"} => outbox'[x] = outbox[x]
    BY <2>3, <2>5, <2>6
  <2> QED BY <2>6, <2>7, <2>8, Settles DEF Fail, Rows
<1> QED BY <1>2, <1>3

-----------------------------------------------------------------------------
LEMMA InitHolds == Init => IInv
<1> SUFFICES ASSUME Init PROVE IInv
  OBVIOUS
<1>1. 0 \in 0..MaxAttempts /\ 0 \in 0..MaxRevokes /\ 0 \in 0..MaxCrashes /\ 0 \in 0..MaxEdits
      /\ 1 \in Versions
  BY DispatchAssumption DEF Versions
<1>2. /\ NoDispatch \in RowType /\ NoDispatch.status = "none" /\ NoDispatch.id = 0
  BY <1>1 DEF NoDispatch, RowType
<1>3. /\ outbox \in [Rows -> RowType]
      /\ \A r \in Rows : outbox[r].status = "none" /\ outbox[r].id = 0
  BY <1>2 DEF Init
<1>4. drain \in [Drains -> DrainType] /\ \A d \in Drains : drain[d] = IdleDrain
  BY IdleIs DEF Init
<1>5. TypeOK
  BY <1>1, <1>3, <1>4 DEF Init, TypeOK, RowType, DrainType
<1>6. OutboxOK
  BY <1>3 DEF Init, OutboxOK, Rows
<1>7. \A d \in Drains : DrainOK(d)
  <2>1. outbox["revoke"].id = 0
    BY <1>3 DEF Rows
  <2>2. IdleDrain.held["revoke"].id = 0
    BY IdleIs DEF Rows
  <2>3. IdleDrain.held["revoke"].id <= outbox["revoke"].id
    BY <2>1, <2>2
  <2>4. ASSUME NEW d \in Drains PROVE DrainOK(d)
    <3>1. drain[d] = IdleDrain
      BY <1>4
    <3> QED BY <2>3, <3>1, IdleIs DEF DrainOK
  <2> QED BY <2>4
<1>8. SnapshotOK
  BY <1>3, <1>4, IdleIs
     DEF Init, SnapshotOK, Stale, MarksSnapshot, DeliveredUnlessRaced, Rows
<1>9. RevokeOK
  BY <1>3, <1>4, IdleIs DEF RevokeOK, RevokeDroppedOnlyWhenSent, Rows
<1> QED BY <1>5, <1>6, <1>7, <1>8, <1>9 DEF IInv

LEMMA StutterHolds == ASSUME IInv, UNCHANGED vars PROVE IInv'
<1> USE DEF vars, config, history
<1>1. TypeOK' /\ OutboxOK'
  BY DEF IInv, TypeOK, OutboxOK
<1>2. \A d \in Drains : DrainOK(d)'
  BY DEF IInv, DrainOK
<1>3. SnapshotOK' /\ RevokeOK'
  BY InTime, StillArmed, SnapshotStays, RevokeStays
<1> QED BY <1>1, <1>2, <1>3 DEF IInv

LEMMA Inductive == IInv /\ [Next]_vars => IInv'
<1> SUFFICES ASSUME IInv, [Next]_vars PROVE IInv'
  OBVIOUS
<1>1. CASE \/ ConfigChanges \/ EnqueueSnapshot \/ EnqueueRevoke \/ SyncRead \/ SyncPush
           \/ StrayEnds \/ StopOrStart \/ GatewayColdStart
  BY <1>1, ConfigChangesKeeps, EnqueueSnapshotKeeps, EnqueueRevokeKeeps, SyncReadKeeps,
     SyncPushKeeps, StrayEndsKeeps, StopOrStartKeeps, GatewayColdStartKeeps
<1>2. CASE \E r \in Rows : BackoffElapses(r)
  BY <1>2, BackoffElapsesKeeps
<1>3. ASSUME NEW d \in Drains, DrainStep(d) \/ BookkeepingFails(d) \/ DrainCrash(d)
      PROVE  IInv'
  BY <1>3, DrainSelectKeeps, DrainNextKeeps, ReadConfigKeeps, PushConfigKeeps,
     SendRevokeKeeps, MarkKeeps, FailKeeps, BookkeepingFailsKeeps, DrainCrashKeeps
     DEF DrainStep
<1>4. CASE UNCHANGED vars
  BY <1>4, StutterHolds
<1> QED BY <1>1, <1>2, <1>3, <1>4 DEF Next

LEMMA Always == Spec => []IInv
<1> QED BY InitHolds, Inductive, PTL DEF Spec

(* Every variable of the outbox, its drains and the gateway keeps its      *)
(* type; no row is ever attempted more often than MAX_ATTEMPTS, though     *)
(* drains overwrite each other's counts.                                   *)
THEOREM TypeCorrect == Spec => []TypeOK
<1>1. IInv => TypeOK
  BY DEF IInv
<1> QED BY <1>1, Always, PTL

(* For any number of drains: a snapshot row that reads delivered has had   *)
(* its gateway re-armed with a configuration at least as new as the one    *)
(* current when the row was last enqueued (drainGatewayDispatch's          *)
(* delivered update), unless that enqueue met a push already read or a     *)
(* stopped datalake was skipped.                                           *)
THEOREM DeliveredIsCurrent == Spec => []DeliveredUnlessRaced
<1>1. IInv => DeliveredUnlessRaced
  BY DEF IInv, SnapshotOK
<1> QED BY <1>1, Always, PTL

(* For any number of drains, retries and crashes: the revoke row of an     *)
(* agent's deletion is deleted (DELETE ... WHERE id) only after a gateway  *)
(* has taken the revocation.                                               *)
THEOREM RevocationsAreSent == Spec => []RevokeDroppedOnlyWhenSent
<1>1. IInv => RevokeDroppedOnlyWhenSent
  BY DEF IInv, RevokeOK
<1> QED BY <1>1, Always, PTL

-----------------------------------------------------------------------------
(* A set of naturals has a smallest element: the intervals below its       *)
(* elements are finite sets, and inclusion is well founded on those.       *)
LEMMA SmallestExists ==
    ASSUME NEW T, T \subseteq Nat, T # {}
    PROVE  \E x \in T : \A y \in T : x <= y
<1> DEFINE Below == {1..n : n \in T}
<1>1. Below \subseteq FiniteSubsetsOf(Nat) /\ Below # {}
  <2> SUFFICES ASSUME NEW n \in T PROVE 1..n \in FiniteSubsetsOf(Nat)
    OBVIOUS
  <2>1. IsFiniteSet(1..n)
    BY FS_Interval
  <2> QED BY <2>1 DEF FiniteSubsetsOf
<1>2. PICK S \in Below : \A U \in Below : <<U, S>> \notin StrictSubsetOrdering(Nat)
  <2> HIDE DEF Below
  <2>1. IsWellFoundedOn(StrictSubsetOrdering(Nat), FiniteSubsetsOf(Nat))
    BY FS_StrictSubsetOrderingWellFounded
  <2> QED BY <1>1, <2>1, WFMin
<1>3. PICK x \in T : S = 1..x
  BY <1>2
<1>4. ASSUME NEW y \in T, y < x PROVE FALSE
  <2>1. 1..y \subseteq 1..x /\ x \in 1..x /\ x \notin 1..y
    BY <1>4
  <2>2. 1..y \in Below /\ 1..y \in SUBSET Nat /\ 1..x \in SUBSET Nat
    OBVIOUS
  <2>3. <<1..y, 1..x>> \in StrictSubsetOrdering(Nat)
    BY <2>1, <2>2 DEF StrictSubsetOrdering
  <2> QED BY <1>2, <1>3, <2>2, <2>3
<1> QED BY <1>4

-----------------------------------------------------------------------------
(* GrantStore.  Known are the rows that are in the store or about to be    *)
(* committed.  A row is newer than the rows its INSERT has seen, so the    *)
(* last one by version was overtaken by no one (RowsInOrder).              *)
Known ==
    rows \cup {writer[w].row : w \in {v \in Writers : writer[v].pc = "commit"}}
         \cup {board[a].row : a \in {b \in Agents : board[b].pc = "commit"}}

RowsInOrder ==
    /\ \A x \in Known : x.version <= x.id /\ x.id <= used /\ x.seen \subseteq 1..used
    /\ \A x, y \in Known : x.id = y.id => x = y
    /\ \A x, y \in Known : x.id \in y.seen => x.version < y.version

\* An edge the gateway holds belongs to a slot of the store, or its row was deleted.
EdgesKnown ==
    gw.edges \subseteq {e \in Edges : <<"allow", e[2], e[1]>> \in Slots} \cup dropped

\* What is said of a is what the rows say, seen through edges that were dropped at most.
SaysOf(a, verdict) ==
    \E on \in Outcomes(LastByVersion), extra \in SUBSET dropped :
        Verdict(a, EdgesOf(on) \cup extra, on) = verdict

Cleared == rearmed \/ \E b \in Agents : board[b].pc = "bump"

\* Who is hydrated at the store's epoch is hydrated from the store's rows.
HydratedFromRows ==
    gw.epoch = epoch =>
        \A a \in gw.hydrated :
            /\ a \in gw.allowed => SaysOf(a, TRUE)
            /\ a \notin gw.allowed => SaysOf(a, FALSE) \/ Cleared

GrantInv ==
    GrantTypeOK /\ RowsInOrder /\ gw.epoch <= epoch /\ EdgesKnown /\ HydratedFromRows

LEMMA RowFields ==
    ASSUME GrantTypeOK, NEW x \in Known
    PROVE  /\ x \in Row /\ x.id \in 1..MaxRows /\ x.version \in Nat
           /\ x.seen \subseteq 1..MaxRows /\ x.stmt \in Statement
<1>1. x \in Row
  <2>1. \A w \in Writers : writer[w].pc = "commit" => writer[w].row \in Row
    BY DEF GrantTypeOK, WriterType, Idle
  <2>2. \A a \in Agents : board[a].pc = "commit" => board[a].row \in Row
    BY DEF GrantTypeOK, BoardType, Idle
  <2> QED BY <2>1, <2>2 DEF Known, GrantTypeOK
<1> QED BY <1>1 DEF Row

(* COALESCE(MAX(version), 0) + 1 exists and lies above every committed row. *)
LEMMA NewVersionAbove ==
    ASSUME GrantAssumption, GrantTypeOK, RowsInOrder, used < MaxRows
    PROVE  /\ NewVersion \in 1..(used + 1)
           /\ \A x \in rows : x.version < NewVersion
<1>0. used \in Nat /\ MaxRows \in Nat
  BY DEF GrantTypeOK, GrantAssumption
<1>1. \A x \in rows : x.version \in Nat /\ x.version <= used
  <2>1. \A x \in rows : x \in Known
    BY DEF Known
  <2>2. \A x \in Known : x.version \in Nat /\ x.id \in Nat /\ x.version <= x.id /\ x.id <= used
    BY RowFields DEF RowsInOrder
  <2> QED BY <1>0, <2>1, <2>2
<1> DEFINE Above == {v \in 1..(MaxRows + 1) : \A x \in rows : x.version < v}
<1>2. used + 1 \in Above
  BY <1>0, <1>1
<1>3. PICK m \in Above : \A y \in Above : m <= y
  <2>1. Above \subseteq Nat
    <3>1. 1..(MaxRows + 1) \subseteq Nat
      BY <1>0
    <3> QED BY <3>1
  <2>2. Above # {}
    BY <1>2
  <2> HIDE DEF Above
  <2> QED BY <2>1, <2>2, SmallestExists
<1> DEFINE Fits(v) == /\ \A x \in rows : x.version < v
                      /\ v = 1 \/ \E x \in rows : x.version = v - 1
<1>4. m \in 1..(MaxRows + 1) /\ Fits(m)
  <2>1. m \in 1..(MaxRows + 1) /\ \A x \in rows : x.version < m
    BY <1>3
  <2>2. CASE m # 1
    <3>1. m - 1 \notin Above /\ m - 1 \in 1..(MaxRows + 1)
      BY <1>0, <1>3, <2>1, <2>2
    <3>2. PICK x \in rows : ~(x.version < m - 1)
      BY <3>1
    <3>3. x.version = m - 1
      BY <1>0, <1>1, <2>1, <3>2
    <3> QED BY <2>1, <3>3
  <2> QED BY <2>1, <2>2
<1> HIDE DEF Fits
<1>5. NewVersion = CHOOSE v \in 1..(MaxRows + 1) : Fits(v)
  BY DEF NewVersion, Fits
<1>6. NewVersion \in 1..(MaxRows + 1) /\ Fits(NewVersion)
  BY <1>4, <1>5
<1> QED BY <1>0, <1>1, <1>6 DEF Fits

LEMMA OrderKept ==
    ASSUME GrantTypeOK, RowsInOrder, Known' \subseteq Known, used' = used
    PROVE  RowsInOrder'
BY DEF RowsInOrder

LEMMA OrderGrows ==
    ASSUME GrantAssumption, GrantTypeOK, RowsInOrder, NEW stmt, TakesId,
           Known' \subseteq Known \cup {Inserted(stmt)}
    PROVE  RowsInOrder'
<1> DEFINE new == Inserted(stmt)
<1>0. used \in Nat /\ used' = used + 1 /\ used < MaxRows
  BY DEF TakesId, GrantTypeOK
<1>1. /\ new.id = used + 1 /\ new.version = NewVersion
      /\ new.seen = {x.id : x \in rows}
  BY DEF Inserted
<1>2. /\ NewVersion \in 1..(used + 1)
      /\ \A x \in rows : x.version < NewVersion
  BY <1>0, NewVersionAbove
<1> HIDE DEF new
<1>3. rows \subseteq Known
  BY DEF Known
<1>4. \A x \in Known : /\ x.id \in Nat /\ x.version \in Nat
                       /\ x.version <= x.id /\ x.id <= used /\ x.seen \subseteq 1..used
  BY RowFields DEF RowsInOrder
<1>5. new.seen \subseteq 1..used
  <2>1. \A x \in rows : x.id \in 1..used
    BY <1>0, <1>3, <1>4, RowFields
  <2> QED BY <1>1, <2>1
<1>6. \A x \in Known' : x \in Known \/ x = new
  BY DEF new
<1>7. \A x \in Known' : x.version <= x.id /\ x.id <= used' /\ x.seen \subseteq 1..used'
  <2>1. 1..used \subseteq 1..used'
    BY <1>0
  <2> QED BY <1>0, <1>1, <1>2, <1>4, <1>5, <1>6, <2>1
<1>8. \A x, y \in Known' : x.id = y.id => x = y
  BY <1>0, <1>1, <1>4, <1>6 DEF RowsInOrder
<1>9. ASSUME NEW x \in Known', NEW y \in Known', x.id \in y.seen PROVE x.version < y.version
  <2>1. CASE y \in Known
    <3>1. x # new
      BY <1>0, <1>1, <1>4, <1>9, <2>1
    <3> QED BY <1>6, <1>9, <2>1, <3>1 DEF RowsInOrder
  <2>2. CASE y = new
    <3>1. PICK z \in rows : z.id = x.id
      BY <1>1, <1>9, <2>2
    <3>2. x # new
      BY <1>0, <1>1, <1>3, <1>4, <3>1
    <3>3. x = z
      BY <1>3, <1>6, <3>1, <3>2 DEF RowsInOrder
    <3> QED BY <1>1, <1>2, <2>2, <3>1, <3>3
  <2> QED BY <1>6, <2>1, <2>2
<1> QED BY <1>7, <1>8, <1>9 DEF RowsInOrder

LEMMA StatementTypes ==
    /\ \A a \in Agents : BoardGrant(a) \in Statement
    /\ \A s \in Statement : IsSubjectMembership(s) => RevokeRole(s) \in Statement
<1>1. \A a \in Agents : BoardGrant(a) \in Statement
  BY DEF BoardGrant, Statement, Verbs, Grantees
<1>2. ASSUME NEW s \in Statement, s.role # NoRole PROVE [s EXCEPT !.verb = "REVOKE"] \in Statement
  <2>1. s \in [verb : {"GRANT", "REVOKE"}, role : Roles, to : Grantees]
    BY <1>2 DEF Statement
  <2>2. [s EXCEPT !.verb = "REVOKE"] \in [verb : {"GRANT", "REVOKE"}, role : Roles, to : Grantees]
    BY <2>1
  <2> QED BY <2>2 DEF Statement
<1> QED BY <1>1, <1>2 DEF IsSubjectMembership, IsMembership, RevokeRole

LEMMA InsertedType ==
    ASSUME GrantAssumption, GrantTypeOK, RowsInOrder, TakesId, NEW stmt \in Statement
    PROVE  Inserted(stmt) \in Row /\ used' \in 0..MaxRows
<1>1. used \in 0..MaxRows /\ MaxRows \in Nat /\ used' = used + 1 /\ used < MaxRows
  BY DEF TakesId, GrantTypeOK, GrantAssumption
<1>2. NewVersion \in Nat
  BY <1>1, NewVersionAbove
<1>3. used + 1 \in 1..MaxRows /\ used' \in 0..MaxRows
  BY <1>1
<1>4. {x.id : x \in rows} \in SUBSET (1..MaxRows)
  BY RowFields DEF Known
<1> QED BY <1>2, <1>3, <1>4 DEF Inserted, Row

LEMMA EpochType ==
    ASSUME GrantAssumption, GrantTypeOK, BumpEpoch
    PROVE  epoch' \in 0..MaxEpoch /\ epoch' = epoch + 1 /\ rearmed' \in BOOLEAN
<1>1. epoch \in 0..MaxEpoch /\ MaxEpoch \in Nat /\ epoch < MaxEpoch /\ epoch' = epoch + 1
  BY DEF GrantTypeOK, GrantAssumption, BumpEpoch
<1>2. epoch' \in 0..MaxEpoch
  BY <1>1
<1>3. rearmed' \in BOOLEAN
  BY DEF BumpEpoch
<1> QED BY <1>1, <1>2, <1>3

LEMMA WriterSet ==
    ASSUME GrantTypeOK, NEW w \in Writers, NEW v \in WriterType,
           writer' = [writer EXCEPT ![w] = v]
    PROVE  writer' \in [Writers -> WriterType]
BY DEF GrantTypeOK

LEMMA BoardSet ==
    ASSUME GrantTypeOK, NEW a \in Agents, NEW v \in BoardType,
           board' = [board EXCEPT ![a] = v]
    PROVE  board' \in [Agents -> BoardType]
BY DEF GrantTypeOK

LEMMA BoardGoto ==
    ASSUME GrantTypeOK, NEW a \in Agents, board[a] # Idle,
           NEW pc \in {"ensure", "insert", "arm", "bump", "ask", "rearm", "retry", "pull"},
           Goto(a, pc)
    PROVE  board' \in [Agents -> BoardType]
<1>1. board[a].join \in BOOLEAN
  BY DEF GrantTypeOK, BoardType
<1>2. [pc |-> pc, join |-> board[a].join] \in BoardType
  BY <1>1 DEF BoardType
<1> QED BY <1>2, BoardSet DEF Goto

LEMMA BoardAnswer ==
    ASSUME GrantTypeOK, NEW a \in Agents, Answer(a)
    PROVE  board' \in [Agents -> BoardType]
BY BoardSet DEF Answer, BoardType

(* What can become known: the rows of the store, or what a request holds.  *)
LEMMA KnownByWriter ==
    ASSUME GrantTypeOK, NEW w \in Writers, NEW v, writer' = [writer EXCEPT ![w] = v],
           NEW New, rows' \subseteq Known \cup New, board' = board,
           v.pc = "commit" => v.row \in Known \cup New
    PROVE  Known' \subseteq Known \cup New
<1>1. \A u \in Writers : writer'[u] = IF u = w THEN v ELSE writer[u]
  BY DEF GrantTypeOK
<1>2. \A u \in Writers : writer[u].pc = "commit" => writer[u].row \in Known
  BY DEF Known
<1>3. \A b \in Agents : board[b].pc = "commit" => board[b].row \in Known
  BY DEF Known
<1> QED BY <1>1, <1>2, <1>3 DEF Known

LEMMA KnownByBoard ==
    ASSUME GrantTypeOK, NEW a \in Agents, NEW v, board' = [board EXCEPT ![a] = v],
           NEW New, rows' \subseteq Known \cup New, writer' = writer,
           v.pc = "commit" => v.row \in Known \cup New
    PROVE  Known' \subseteq Known \cup New
<1>1. \A b \in Agents : board'[b] = IF b = a THEN v ELSE board[b]
  BY DEF GrantTypeOK
<1>2. \A u \in Writers : writer[u].pc = "commit" => writer[u].row \in Known
  BY DEF Known
<1>3. \A b \in Agents : board[b].pc = "commit" => board[b].row \in Known
  BY DEF Known
<1> QED BY <1>1, <1>2, <1>3 DEF Known

LEMMA RowsKnown == rows \subseteq Known
BY DEF Known

LEMMA KnownKeptByWriter ==
    ASSUME GrantTypeOK, NEW w \in Writers, NEW v, writer' = [writer EXCEPT ![w] = v],
           v.pc # "commit", rows' \subseteq Known, board' = board
    PROVE  Known' \subseteq Known
<1>1. Known' \subseteq Known \cup {}
  <2>1. rows' \subseteq Known \cup {} /\ (v.pc = "commit" => v.row \in Known \cup {})
    OBVIOUS
  <2> QED BY <2>1, KnownByWriter
<1> QED BY <1>1

LEMMA KnownKeptByBoard ==
    ASSUME GrantTypeOK, NEW a \in Agents, NEW v, board' = [board EXCEPT ![a] = v],
           v.pc # "commit", rows' \subseteq Known, writer' = writer
    PROVE  Known' \subseteq Known
<1>1. Known' \subseteq Known \cup {}
  <2>1. rows' \subseteq Known \cup {} /\ (v.pc = "commit" => v.row \in Known \cup {})
    OBVIOUS
  <2> QED BY <2>1, KnownByBoard
<1> QED BY <1>1

LEMMA IdleIsNoCommit == Idle.pc # "commit"
BY DEF Idle

-----------------------------------------------------------------------------
(* Types and order, one lemma for each kind of action.                     *)
Sound == GrantTypeOK /\ RowsInOrder

LEMMA SoundPost ==
    ASSUME GrantAssumption, Sound, NEW w \in Writers, NEW stmt \in Statements,
           PostStatement(w, stmt)
    PROVE  Sound'
<1> DEFINE v == [pc |-> "commit", row |-> Inserted(stmt)]
<1>0. GrantTypeOK /\ RowsInOrder /\ stmt \in Statement
  BY DEF Sound, GrantAssumption
<1>1. Inserted(stmt) \in Row /\ used' \in 0..MaxRows
  BY <1>0, InsertedType DEF PostStatement
<1>2. writer' \in [Writers -> WriterType]
  BY <1>0, <1>1, WriterSet DEF PostStatement, WriterType
<1>3. Known' \subseteq Known \cup {Inserted(stmt)}
  <2>1. writer' = [writer EXCEPT ![w] = v] /\ rows' \subseteq Known \cup {Inserted(stmt)}
        /\ board' = board /\ v.row \in Known \cup {Inserted(stmt)}
    BY RowsKnown DEF PostStatement
  <2> HIDE DEF v
  <2> QED BY <1>0, <2>1, KnownByWriter
<1>4. RowsInOrder'
  BY <1>0, <1>3, OrderGrows DEF PostStatement
<1>5. GrantTypeOK'
  BY <1>0, <1>1, <1>2 DEF GrantTypeOK, PostStatement, traces
<1> QED BY <1>4, <1>5 DEF Sound

LEMMA SoundCommit ==
    ASSUME GrantAssumption, Sound, NEW w \in Writers, Commit(w)
    PROVE  Sound'
<1>0. GrantTypeOK /\ RowsInOrder
  BY DEF Sound
<1>1. writer[w].row \in Known
  BY DEF Commit, Known
<1>2. rows' \subseteq Known /\ rows' \subseteq Row
  BY <1>0, <1>1, RowsKnown, RowFields DEF Commit, GrantTypeOK
<1>3. Known' \subseteq Known
  BY <1>0, <1>2, IdleIsNoCommit, KnownKeptByWriter DEF Commit
<1>4. RowsInOrder'
  BY <1>0, <1>3, OrderKept DEF Commit
<1>5. GrantTypeOK'
  BY <1>0, <1>2, WriterSet, EpochType DEF GrantTypeOK, Commit, WriterType
<1> QED BY <1>4, <1>5 DEF Sound

LEMMA SoundRollback ==
    ASSUME GrantAssumption, Sound, NEW w \in Writers, Rollback(w)
    PROVE  Sound'
<1>0. GrantTypeOK /\ RowsInOrder
  BY DEF Sound
<1>1. Known' \subseteq Known
  BY <1>0, RowsKnown, IdleIsNoCommit, KnownKeptByWriter DEF Rollback, store
<1>2. RowsInOrder'
  BY <1>0, <1>1, OrderKept DEF Rollback, store
<1>3. GrantTypeOK'
  BY <1>0, WriterSet DEF GrantTypeOK, Rollback, WriterType, store, traces
<1> QED BY <1>2, <1>3 DEF Sound

LEMMA SoundSelect ==
    ASSUME GrantAssumption, Sound, NEW w \in Writers, DeleteSelect(w)
    PROVE  Sound'
<1>0. GrantTypeOK /\ RowsInOrder
  BY DEF Sound
<1>1. PICK x \in rows : writer' = [writer EXCEPT ![w] = [pc |-> "delete", row |-> x]]
  BY DEF DeleteSelect
<1>2. [pc |-> "delete", row |-> x] \in WriterType
  BY <1>0 DEF GrantTypeOK, WriterType
<1>3. Known' \subseteq Known
  <2> DEFINE v == [pc |-> "delete", row |-> x]
  <2>1. v.pc # "commit" /\ rows' \subseteq Known /\ board' = board
    BY RowsKnown DEF DeleteSelect, store
  <2>2. writer' = [writer EXCEPT ![w] = v]
    BY <1>1
  <2> HIDE DEF v
  <2> QED BY <1>0, <2>1, <2>2, KnownKeptByWriter
<1>4. RowsInOrder'
  BY <1>0, <1>3, OrderKept DEF DeleteSelect, store
<1>5. GrantTypeOK'
  BY <1>0, <1>1, <1>2, WriterSet DEF GrantTypeOK, DeleteSelect, store, traces
<1> QED BY <1>4, <1>5 DEF Sound

LEMMA SoundDelete ==
    ASSUME GrantAssumption, Sound, NEW w \in Writers, DeleteApplies(w)
    PROVE  Sound'
<1> DEFINE x == writer[w].row
<1>0. GrantTypeOK /\ RowsInOrder
  BY DEF Sound
<1>1. x \in Row /\ x.stmt \in Statement
  BY <1>0 DEF GrantTypeOK, WriterType, DeleteApplies, Idle, Row
<1>2. CASE /\ IsSubjectMembership(x.stmt)
           /\ TakesId
           /\ writer' = [writer EXCEPT ![w] =
                           [pc |-> "commit", row |-> Inserted(RevokeRole(x.stmt))]]
           /\ UNCHANGED <<rows, epoch, traces>>
  <2> DEFINE new == Inserted(RevokeRole(x.stmt))
             v == [pc |-> "commit", row |-> new]
  <2>1. new \in Row /\ used' \in 0..MaxRows
    BY <1>0, <1>1, <1>2, InsertedType, StatementTypes
  <2>2. writer' \in [Writers -> WriterType]
    BY <1>0, <1>2, <2>1, WriterSet DEF WriterType
  <2>3. Known' \subseteq Known \cup {new}
    <3>1. writer' = [writer EXCEPT ![w] = v] /\ rows' \subseteq Known \cup {new}
          /\ board' = board /\ v.row \in Known \cup {new}
      BY <1>2, RowsKnown DEF DeleteApplies
    <3> HIDE DEF v
    <3> QED BY <1>0, <3>1, KnownByWriter
  <2>4. RowsInOrder'
    BY <1>0, <1>2, <2>3, OrderGrows
  <2>5. GrantTypeOK'
    BY <1>0, <1>2, <2>1, <2>2 DEF GrantTypeOK, DeleteApplies, traces
  <2> QED BY <2>4, <2>5 DEF Sound
<1>3. CASE /\ x \in rows
           /\ rows' = rows \ {x}
           /\ BumpEpoch
           /\ dropped' = IF IsMembership(x.stmt)
                         THEN dropped \cup {<<x.stmt.to, x.stmt.role>>} ELSE dropped
           /\ writer' = [writer EXCEPT ![w] = Idle]
           /\ UNCHANGED used
  <2>1. Known' \subseteq Known
    BY <1>0, <1>3, RowsKnown, IdleIsNoCommit, KnownKeptByWriter DEF DeleteApplies
  <2>2. RowsInOrder'
    BY <1>0, <1>3, <2>1, OrderKept
  <2>3. IsMembership(x.stmt) => <<x.stmt.to, x.stmt.role>> \in Edges
    BY <1>1 DEF IsMembership, Statement, Edges
  <2>4. dropped' \subseteq Edges
    BY <1>0, <1>3, <2>3 DEF GrantTypeOK
  <2>5. GrantTypeOK'
    BY <1>0, <1>3, <2>4, WriterSet, EpochType DEF GrantTypeOK, DeleteApplies, WriterType
  <2> QED BY <2>2, <2>5 DEF Sound
<1>4. CASE /\ writer' = [writer EXCEPT ![w] = Idle]
           /\ UNCHANGED <<store, traces>>
  <2>1. Known' \subseteq Known
    BY <1>0, <1>4, RowsKnown, IdleIsNoCommit, KnownKeptByWriter DEF DeleteApplies, store
  <2>2. RowsInOrder'
    BY <1>0, <1>4, <2>1, OrderKept DEF store
  <2>3. GrantTypeOK'
    BY <1>0, <1>4, WriterSet DEF GrantTypeOK, DeleteApplies, WriterType, store, traces
  <2> QED BY <2>2, <2>3 DEF Sound
<1> QED BY <1>2, <1>3, <1>4 DEF DeleteApplies

LEMMA ArmType ==
    ASSUME GrantTypeOK, NEW attached \in BOOLEAN, Arm(attached)
    PROVE  gw' \in GatewayType
BY DEF GrantTypeOK, Arm, GatewayType

LEMMA ColdType == GrantAssumption => Cold \in GatewayType
BY DEF Cold, GatewayType, GrantAssumption

LEMMA GotoKnown ==
    ASSUME GrantTypeOK, NEW a \in Agents, NEW pc, pc # "commit", Goto(a, pc),
           rows' \subseteq Known, writer' = writer
    PROVE  Known' \subseteq Known
<1> DEFINE v == [pc |-> pc, join |-> board[a].join]
<1>1. board' = [board EXCEPT ![a] = v] /\ v.pc # "commit"
  BY DEF Goto
<1> HIDE DEF v
<1> QED BY <1>1, KnownKeptByBoard

LEMMA AnswerKnown ==
    ASSUME GrantTypeOK, NEW a \in Agents, Answer(a), rows' \subseteq Known, writer' = writer
    PROVE  Known' \subseteq Known
BY IdleIsNoCommit, KnownKeptByBoard DEF Answer

(* A step that leaves store, writers and dropped edges alone, moves one    *)
(* agent and keeps the gateway's type, is sound.                           *)
LEMMA SoundByAgent ==
    ASSUME Sound, UNCHANGED <<store, writer, dropped>>, gw' \in GatewayType,
           rearmed' \in BOOLEAN, board' \in [Agents -> BoardType], Known' \subseteq Known
    PROVE  Sound'
<1>0. GrantTypeOK /\ RowsInOrder
  BY DEF Sound
<1>1. RowsInOrder'
  BY <1>0, OrderKept DEF store
<1>2. GrantTypeOK'
  BY <1>0 DEF GrantTypeOK, store
<1> QED BY <1>1, <1>2 DEF Sound

LEMMA GotoTyped ==
    ASSUME GrantTypeOK, NEW a \in Agents, board[a] # Idle, UNCHANGED <<store, writer>>,
           NEW pc \in {"ensure", "insert", "arm", "bump", "ask", "rearm", "retry", "pull"},
           Goto(a, pc)
    PROVE  board' \in [Agents -> BoardType] /\ Known' \subseteq Known
BY BoardGoto, GotoKnown, RowsKnown DEF store

LEMMA AnswerTyped ==
    ASSUME GrantTypeOK, NEW a \in Agents, UNCHANGED <<store, writer>>, Answer(a)
    PROVE  board' \in [Agents -> BoardType] /\ Known' \subseteq Known
BY BoardAnswer, AnswerKnown, RowsKnown DEF store

LEMMA NotIdle == \A a \in Agents : board[a].pc # "idle" => board[a] # Idle
BY DEF Idle

LEMMA SoundBegin ==
    ASSUME Sound, NEW a \in Agents, NEW join \in BOOLEAN, BoardBegin(a, join)
    PROVE  Sound'
<1> DEFINE v == [pc |-> "ensure", join |-> join]
<1>0. GrantTypeOK
  BY DEF Sound
<1>1. v \in BoardType /\ v.pc # "commit"
  BY DEF BoardType
<1>2. board' = [board EXCEPT ![a] = v]
  BY DEF BoardBegin
<1> HIDE DEF v
<1>3. board' \in [Agents -> BoardType] /\ Known' \subseteq Known
  BY <1>0, <1>1, <1>2, BoardSet, KnownKeptByBoard, RowsKnown DEF BoardBegin, store
<1> QED BY <1>0, <1>3, SoundByAgent DEF BoardBegin, traces, GrantTypeOK

LEMMA SoundEnsure ==
    ASSUME Sound, NEW a \in Agents, EnsureGrants(a)
    PROVE  Sound'
<1>0. GrantTypeOK /\ board[a] # Idle /\ UNCHANGED <<store, writer, gw, traces>>
  BY NotIdle DEF Sound, EnsureGrants
<1>1. PICK pc \in {"insert", "arm", "ask"} : Goto(a, pc)
  BY DEF EnsureGrants
<1>2. board' \in [Agents -> BoardType] /\ Known' \subseteq Known
  BY <1>0, <1>1, GotoTyped
<1> QED BY <1>0, <1>2, SoundByAgent DEF traces, GrantTypeOK

LEMMA SoundInsert ==
    ASSUME GrantAssumption, Sound, NEW a \in Agents, EnsureInsert(a)
    PROVE  Sound'
<1> DEFINE new == Inserted(BoardGrant(a))
           v == [pc |-> "commit", join |-> board[a].join, row |-> new]
<1>0. GrantTypeOK /\ RowsInOrder
  BY DEF Sound
<1>1. new \in Row /\ used' \in 0..MaxRows
  BY <1>0, InsertedType, StatementTypes DEF EnsureInsert
<1>2. board[a].join \in BOOLEAN /\ board' = [board EXCEPT ![a] = v]
  BY <1>0 DEF EnsureInsert, GrantTypeOK, BoardType, Idle
<1>3. v \in BoardType
  BY <1>1, <1>2 DEF BoardType
<1>4. v.row \in Known \cup {new} /\ rows' \subseteq Known \cup {new} /\ writer' = writer
  BY RowsKnown DEF EnsureInsert
<1> HIDE DEF v
<1>5. board' \in [Agents -> BoardType] /\ Known' \subseteq Known \cup {new}
  BY <1>0, <1>2, <1>3, <1>4, BoardSet, KnownByBoard
<1>6. RowsInOrder'
  BY <1>0, <1>5, OrderGrows DEF EnsureInsert
<1>7. GrantTypeOK'
  BY <1>0, <1>1, <1>5 DEF GrantTypeOK, EnsureInsert, traces
<1> QED BY <1>6, <1>7 DEF Sound

LEMMA SoundEnsureCommit ==
    ASSUME GrantAssumption, Sound, NEW a \in Agents, EnsureCommit(a)
    PROVE  Sound'
<1>0. GrantTypeOK /\ RowsInOrder /\ board[a] # Idle
  BY NotIdle DEF Sound, EnsureCommit
<1>1. board[a].row \in Known
  BY DEF EnsureCommit, Known
<1>2. rows' \subseteq Known /\ rows' \subseteq Row
  BY <1>0, <1>1, RowsKnown, RowFields DEF EnsureCommit, GrantTypeOK
<1>3. PICK pc \in {"arm", "ask"} : Goto(a, pc)
  BY DEF EnsureCommit
<1>4. board' \in [Agents -> BoardType] /\ Known' \subseteq Known
  BY <1>0, <1>2, <1>3, BoardGoto, GotoKnown DEF EnsureCommit
<1>5. RowsInOrder'
  BY <1>0, <1>4, OrderKept DEF EnsureCommit
<1>6. GrantTypeOK'
  BY <1>0, <1>2, <1>4, EpochType DEF GrantTypeOK, EnsureCommit
<1> QED BY <1>5, <1>6 DEF Sound

(* configureQb and the re-arm of a query: the push, then the next step or  *)
(* an answer.                                                              *)
LEMMA SoundArm ==
    ASSUME Sound, NEW a \in Agents, JoinArm(a) \/ QueryRearm(a)
    PROVE  Sound'
<1>0. /\ GrantTypeOK /\ board[a] # Idle /\ UNCHANGED <<store, writer, dropped>>
      /\ rearmed' \in BOOLEAN
  BY NotIdle DEF Sound, JoinArm, QueryRearm
<1>1. \/ \E pc \in {"bump", "retry"} : Goto(a, pc)
      \/ Answer(a)
  BY DEF JoinArm, QueryRearm
<1>2. \E attached \in BOOLEAN : Arm(attached)
  BY DEF JoinArm, QueryRearm
<1>3. gw' \in GatewayType
  BY <1>0, <1>2, ArmType
<1>4. board' \in [Agents -> BoardType] /\ Known' \subseteq Known
  BY <1>0, <1>1, GotoTyped, AnswerTyped
<1> QED BY <1>0, <1>3, <1>4, SoundByAgent

LEMMA SoundBump ==
    ASSUME GrantAssumption, Sound, NEW a \in Agents, JoinBump(a)
    PROVE  Sound'
<1>0. GrantTypeOK /\ RowsInOrder
  BY DEF Sound
<1>1. board' \in [Agents -> BoardType] /\ Known' \subseteq Known
  BY <1>0, BoardAnswer, AnswerKnown, RowsKnown DEF JoinBump
<1>2. RowsInOrder'
  BY <1>0, <1>1, OrderKept DEF JoinBump
<1>3. epoch' \in 0..MaxEpoch
  BY <1>0, EpochType DEF JoinBump, GrantTypeOK
<1>4. rearmed' \in BOOLEAN
  BY <1>0, EpochType DEF JoinBump
<1>5. GrantTypeOK'
  BY <1>0, <1>1, <1>3, <1>4 DEF GrantTypeOK, JoinBump
<1> QED BY <1>2, <1>5 DEF Sound

LEMMA AuthorizeTyped ==
    ASSUME GrantTypeOK, NEW a \in Agents, Authorize(a), UNCHANGED <<store, writer>>
    PROVE  /\ gw' \in GatewayType
           /\ board' \in [Agents -> BoardType] /\ Known' \subseteq Known
<1>1. CASE UNCHANGED gw /\ Answer(a)
  BY <1>1, AnswerTyped DEF GrantTypeOK
<1>2. CASE \E hydrated \in {{}, gw.hydrated} :
              /\ gw' = [gw EXCEPT !.epoch = epoch, !.hydrated = hydrated]
              /\ \/ Answer(a)
                 \/ board' = [board EXCEPT ![a] = [pc |-> "pull", join |-> FALSE]]
  <2> DEFINE v == [pc |-> "pull", join |-> FALSE]
  <2>1. gw' \in GatewayType
    <3>1. \A h \in {{}, gw.hydrated} : [gw EXCEPT !.epoch = epoch, !.hydrated = h] \in GatewayType
      BY DEF GrantTypeOK, GatewayType
    <3> QED BY <1>2, <3>1
  <2>2. v \in BoardType /\ v.pc # "commit"
    BY DEF BoardType
  <2>3. Answer(a) \/ board' = [board EXCEPT ![a] = v]
    BY <1>2
  <2> HIDE DEF v
  <2>4. board' \in [Agents -> BoardType] /\ Known' \subseteq Known
    BY <2>2, <2>3, AnswerTyped, BoardSet, KnownKeptByBoard, RowsKnown DEF store
  <2> QED BY <2>1, <2>4
<1> QED BY <1>1, <1>2 DEF Authorize

LEMMA SoundRelayed ==
    ASSUME Sound, NEW a \in Agents, RelayedQuery(a)
    PROVE  Sound'
BY AuthorizeTyped, SoundByAgent DEF Sound, RelayedQuery, traces, GrantTypeOK

LEMMA SoundGated ==
    ASSUME Sound, NEW a \in Agents, GatedQuery(a)
    PROVE  Sound'
<1>0. GrantTypeOK /\ board[a] # Idle /\ UNCHANGED <<store, writer, traces>>
  BY NotIdle DEF Sound, GatedQuery
<1>1. \/ Authorize(a)
      \/ UNCHANGED gw /\ (Goto(a, "rearm") \/ Answer(a))
  BY DEF GatedQuery
<1>2. /\ gw' \in GatewayType
      /\ board' \in [Agents -> BoardType] /\ Known' \subseteq Known
  BY <1>0, <1>1, AuthorizeTyped, GotoTyped, AnswerTyped DEF GrantTypeOK
<1> QED BY <1>0, <1>2, SoundByAgent DEF traces, GrantTypeOK

LEMMA EdgesOfType ==
    ASSUME GrantTypeOK, NEW on \in SUBSET Slots
    PROVE  /\ EdgesOf(on) \subseteq Edges
           /\ \A e \in EdgesOf(on) : <<"allow", e[2], e[1]>> \in on
<1> SUFFICES ASSUME NEW s \in on, s[2] # NoRole
             PROVE  /\ <<s[3], s[2]>> \in Edges
                    /\ s = <<"allow", s[2], s[3]>>
  BY DEF EdgesOf
<1>1. PICK x \in rows : s = Slot(x.stmt)
  BY DEF Slots
<1>2. x.stmt \in Statement
  BY DEF GrantTypeOK, Row
<1>3. s = <<Family(x.stmt), x.stmt.role, x.stmt.to>>
  BY <1>1 DEF Slot
<1>4. x.stmt.role # NoRole
  BY <1>3
<1>5. /\ x.stmt.role \in Roles /\ x.stmt.to \in Grantees
      /\ x.stmt.verb \in {"GRANT", "REVOKE"}
  BY <1>2, <1>4 DEF Statement
<1> QED BY <1>3, <1>5 DEF Edges, Family

LEMMA SoundPull ==
    ASSUME Sound, NEW a \in Agents, Pull(a)
    PROVE  Sound'
<1>0. GrantTypeOK /\ UNCHANGED <<store, writer, traces>>
  BY DEF Sound, Pull
<1>1. gw' \in GatewayType
  <2>1. CASE UNCHANGED gw
    BY <1>0, <2>1 DEF GrantTypeOK
  <2>2. CASE Hydrate(a)
    <3>1. PICK on \in Outcomes(LastByVersion), stale \in SUBSET gw.edges,
               allowed \in {gw.allowed \cup {a}, gw.allowed \ {a}} :
             gw' = [gw EXCEPT !.hydrated = @ \cup {a}, !.edges = EdgesOf(on) \cup stale,
                              !.allowed = allowed]
      BY <2>2 DEF Hydrate
    <3>2. EdgesOf(on) \subseteq Edges
      BY <1>0, EdgesOfType DEF Outcomes
    <3> QED BY <1>0, <3>1, <3>2 DEF GrantTypeOK, GatewayType
  <2> QED BY <2>1, <2>2 DEF Pull
<1>2. board' \in [Agents -> BoardType] /\ Known' \subseteq Known
  BY <1>0, AnswerTyped DEF Pull
<1> QED BY <1>0, <1>1, <1>2, SoundByAgent DEF traces, GrantTypeOK

LEMMA SoundRearm ==
    ASSUME GrantAssumption, Sound, Rearm \/ Restart
    PROVE  Sound'
<1>0. GrantTypeOK /\ UNCHANGED <<store, writer, board, dropped>> /\ rearmed' \in BOOLEAN
  BY DEF Sound, Rearm, Restart, traces, GrantTypeOK
<1>1. gw' \in GatewayType
  BY <1>0, ArmType, ColdType DEF Rearm, Restart
<1>2. Known' \subseteq Known /\ board' \in [Agents -> BoardType]
  BY <1>0 DEF Known, store, GrantTypeOK
<1> QED BY <1>0, <1>1, <1>2, SoundByAgent

LEMMA SoundNext == GrantAssumption /\ Sound /\ [GrantNext]_grantVars => Sound'
<1> SUFFICES ASSUME GrantAssumption, Sound, [GrantNext]_grantVars PROVE Sound'
  OBVIOUS
<1>1. ASSUME NEW w \in Writers, WriterStep(w) PROVE Sound'
  BY <1>1, SoundPost, SoundCommit, SoundRollback, SoundSelect, SoundDelete DEF WriterStep
<1>2. ASSUME NEW a \in Agents, AgentStep(a) PROVE Sound'
  BY <1>2, SoundBegin, SoundEnsure, SoundInsert, SoundEnsureCommit, SoundArm, SoundBump,
     SoundRelayed, SoundGated, SoundPull DEF AgentStep
<1>3. CASE UNCHANGED grantVars
  BY <1>3 DEF grantVars, Sound, GrantTypeOK, RowsInOrder, Known
<1> QED BY <1>1, <1>2, <1>3, SoundRearm DEF GrantNext

-----------------------------------------------------------------------------
(* What is hydrated.                                                       *)

(* The slots, and what the rows say of an agent, depend on rows and on the *)
(* dropped edges only.                                                     *)
LEMMA SaysStays ==
    ASSUME UNCHANGED <<rows, dropped>>
    PROVE  /\ Slots' = Slots
           /\ Outcomes(LastByVersion)' = Outcomes(LastByVersion)
           /\ \A a, v : SaysOf(a, v)' <=> SaysOf(a, v)
<1>1. \A s : SlotRows(s)' = SlotRows(s)
  BY DEF SlotRows
<1>2. LastByVersion' = LastByVersion
  BY <1>1 DEF LastByVersion
<1>3. Slots' = Slots
  BY DEF Slots
<1>4. Outcomes(LastByVersion)' = Outcomes(LastByVersion)
  BY <1>1, <1>2, <1>3 DEF Outcomes
<1> QED BY <1>3, <1>4 DEF SaysOf

LEMMA SlotsGrow == rows \subseteq rows' => Slots \subseteq Slots'
BY DEF Slots

Hydrated == gw.epoch <= epoch /\ EdgesKnown /\ HydratedFromRows

(* Rows and epoch change together: what was hydrated is out of date.       *)
LEMMA HydratedByBump ==
    ASSUME GrantTypeOK, Hydrated, BumpEpoch, gw' = gw, EdgesKnown'
    PROVE  Hydrated'
<1>1. epoch \in Nat /\ gw.epoch \in Nat /\ epoch' = epoch + 1 /\ gw'.epoch = gw.epoch
  BY DEF GrantTypeOK, GatewayType, BumpEpoch
<1>2. gw'.epoch < epoch'
  BY <1>1 DEF Hydrated
<1>3. gw'.epoch <= epoch' /\ gw'.epoch # epoch'
  BY <1>1, <1>2
<1> QED BY <1>3 DEF Hydrated, HydratedFromRows

LEMMA EdgesKept ==
    ASSUME EdgesKnown, gw' = gw, rows \subseteq rows', dropped' = dropped
    PROVE  EdgesKnown'
BY SlotsGrow DEF EdgesKnown

(* Nothing but the requests moved, and none of them past its bump.         *)
LEMMA HydratedStays ==
    ASSUME Hydrated, UNCHANGED <<rows, epoch, dropped>>, gw' = gw, rearmed' = rearmed,
           \A b \in Agents : board[b].pc = "bump" => board'[b].pc = "bump"
    PROVE  Hydrated'
<1>1. EdgesKnown'
  BY EdgesKept DEF Hydrated
<1>2. Cleared => Cleared'
  BY DEF Cleared
<1> QED BY <1>1, <1>2, SaysStays DEF Hydrated, HydratedFromRows

(* An agent that moves from another step takes nobody past the bump.       *)
LEMMA BumpsStay ==
    ASSUME GrantTypeOK, NEW a \in Agents, board[a].pc # "bump",
           NEW v, board' = [board EXCEPT ![a] = v]
    PROVE  \A b \in Agents : board[b].pc = "bump" => board'[b].pc = "bump"
BY DEF GrantTypeOK

(* A push clears the grants, and the edges with them.                      *)
LEMMA HydratedByArm ==
    ASSUME GrantTypeOK, Hydrated, NEW attached \in BOOLEAN, Arm(attached),
           UNCHANGED <<rows, epoch, dropped>>, Cleared'
    PROVE  Hydrated'
<1>1. /\ gw'.epoch = gw.epoch /\ gw'.edges = {} /\ gw'.allowed = {}
      /\ gw'.hydrated = gw.hydrated
  BY DEF Arm, GrantTypeOK, GatewayType
<1>2. EdgesKnown'
  BY <1>1 DEF EdgesKnown
<1> QED BY <1>1, <1>2 DEF Hydrated, HydratedFromRows

LEMMA HydratedDelete ==
    ASSUME GrantAssumption, Sound, Hydrated, NEW w \in Writers, DeleteApplies(w)
    PROVE  Hydrated'
<1> DEFINE x == writer[w].row
<1>0. GrantTypeOK /\ gw' = gw /\ board' = board /\ EdgesKnown
  BY DEF Sound, DeleteApplies, Hydrated
<1>1. CASE /\ x \in rows
           /\ rows' = rows \ {x}
           /\ BumpEpoch
           /\ dropped' = IF IsMembership(x.stmt)
                         THEN dropped \cup {<<x.stmt.to, x.stmt.role>>} ELSE dropped
  <2>1. ASSUME NEW e \in gw.edges
        PROVE  e \in {d \in Edges : <<"allow", d[2], d[1]>> \in Slots'} \cup dropped'
    <3>1. CASE e \in dropped
      BY <1>1, <3>1
    <3>2. CASE e \in Edges /\ <<"allow", e[2], e[1]>> \in Slots
      <4>1. PICK y \in rows : <<"allow", e[2], e[1]>> = Slot(y.stmt)
        BY <3>2 DEF Slots
      <4>2. CASE y = x
        <5>1. e[2] = x.stmt.role /\ e[1] = x.stmt.to
          BY <4>1, <4>2 DEF Slot
        <5>2. e[2] \in Roles /\ e = <<e[1], e[2]>>
          BY <3>2 DEF Edges
        <5>3. IsMembership(x.stmt)
          BY <5>1, <5>2 DEF IsMembership, GrantAssumption
        <5> QED BY <1>1, <5>1, <5>2, <5>3
      <4>3. CASE y # x
        BY <1>1, <3>2, <4>1, <4>3 DEF Slots
      <4> QED BY <4>2, <4>3
    <3> QED BY <1>0, <2>1, <3>1, <3>2 DEF EdgesKnown
  <2>2. EdgesKnown'
    BY <1>0, <2>1 DEF EdgesKnown
  <2> QED BY <1>0, <1>1, <2>2, HydratedByBump
<1>2. CASE UNCHANGED <<rows, epoch, traces>>
  <2>1. UNCHANGED <<rows, epoch, dropped>> /\ rearmed' = rearmed
    BY <1>2 DEF traces
  <2> QED BY <1>0, <2>1, HydratedStays
<1> QED BY <1>1, <1>2 DEF DeleteApplies, store

LEMMA HydratedWriter ==
    ASSUME GrantAssumption, Sound, Hydrated, NEW w \in Writers, WriterStep(w)
    PROVE  Hydrated'
<1>0. GrantTypeOK /\ EdgesKnown
  BY DEF Sound, Hydrated
<1>1. ASSUME NEW stmt \in Statements, PostStatement(w, stmt) PROVE Hydrated'
  BY <1>1, HydratedStays DEF PostStatement, traces
<1>2. CASE Commit(w)
  BY <1>0, <1>2, HydratedByBump, EdgesKept DEF Commit
<1>3. CASE Rollback(w)
  BY <1>3, HydratedStays DEF Rollback, store, traces
<1>4. CASE DeleteSelect(w)
  BY <1>4, HydratedStays DEF DeleteSelect, store, traces
<1> QED BY <1>1, <1>2, <1>3, <1>4, HydratedDelete DEF WriterStep

(* The pull writes the agent's verdict from the rows' last word, with the  *)
(* edges that no slot covers any more.                                     *)
LEMMA HydratedByPull ==
    ASSUME GrantAssumption, GrantTypeOK, Hydrated, NEW a \in Agents, Hydrate(a),
           UNCHANGED <<rows, epoch, dropped, rearmed>>,
           \A b \in Agents : board[b].pc = "bump" => board'[b].pc = "bump"
    PROVE  Hydrated'
<1> DEFINE stale == {e \in gw.edges : <<"allow", e[2], e[1]>> \notin Slots}
<1>1. PICK on \in Outcomes(LastByVersion) :
         gw' = [gw EXCEPT !.hydrated = @ \cup {a}, !.edges = EdgesOf(on) \cup stale,
                          !.allowed = IF Verdict(a, EdgesOf(on) \cup stale, on)
                                      THEN @ \cup {a} ELSE @ \ {a}]
  BY DEF Hydrate
<1>2. stale \subseteq dropped
  BY DEF Hydrated, EdgesKnown
<1>3. /\ gw'.epoch = gw.epoch
      /\ gw'.hydrated = gw.hydrated \cup {a}
      /\ gw'.edges = EdgesOf(on) \cup stale
      /\ gw'.allowed = IF Verdict(a, EdgesOf(on) \cup stale, on)
                       THEN gw.allowed \cup {a} ELSE gw.allowed \ {a}
  BY <1>1 DEF GrantTypeOK, GatewayType
<1> HIDE DEF stale
<1>4. EdgesKnown'
  <2>1. on \in SUBSET Slots
    BY DEF Outcomes
  <2>2. EdgesOf(on) \subseteq {e \in Edges : <<"allow", e[2], e[1]>> \in Slots}
    BY <2>1, EdgesOfType
  <2> QED BY <1>2, <1>3, <2>2, SaysStays DEF EdgesKnown
<1>5. SaysOf(a, Verdict(a, EdgesOf(on) \cup stale, on))
  BY <1>2 DEF SaysOf
<1>6. Cleared => Cleared'
  BY DEF Cleared
<1>7. Verdict(a, EdgesOf(on) \cup stale, on) \in BOOLEAN
  BY DEF Verdict
<1>8. /\ a \in gw'.allowed => SaysOf(a, TRUE)
      /\ a \notin gw'.allowed => SaysOf(a, FALSE)
  BY <1>3, <1>5, <1>7
<1>9. \A b \in gw.hydrated \ {a} : b \in gw'.allowed <=> b \in gw.allowed
  BY <1>3
<1>10. HydratedFromRows'
  BY <1>3, <1>6, <1>8, <1>9, SaysStays DEF Hydrated, HydratedFromRows
<1> QED BY <1>3, <1>4, <1>10 DEF Hydrated

LEMMA HydratedByAuthorize ==
    ASSUME GrantTypeOK, Hydrated, NEW a \in Agents, Authorize(a), board[a].pc # "bump",
           UNCHANGED <<rows, epoch, dropped, rearmed>>
    PROVE  Hydrated'
<1>1. \A b \in Agents : board[b].pc = "bump" => board'[b].pc = "bump"
  BY BumpsStay DEF Authorize, Answer
<1>2. CASE gw' = gw
  BY <1>1, <1>2, HydratedStays
<1>3. CASE gw' = [gw EXCEPT !.epoch = epoch,
                            !.hydrated = IF epoch # gw.epoch THEN {} ELSE gw.hydrated]
  <2>1. /\ gw'.epoch = epoch /\ gw'.edges = gw.edges /\ gw'.allowed = gw.allowed
        /\ gw'.hydrated = IF epoch # gw.epoch THEN {} ELSE gw.hydrated
    BY <1>3 DEF GrantTypeOK, GatewayType
  <2>2. EdgesKnown'
    BY <2>1, SaysStays DEF Hydrated, EdgesKnown
  <2>3. Cleared => Cleared'
    BY <1>1 DEF Cleared
  <2>4. HydratedFromRows'
    BY <2>1, <2>3, SaysStays DEF Hydrated, HydratedFromRows
  <2>5. epoch \in Nat
    BY DEF GrantTypeOK
  <2> QED BY <2>1, <2>2, <2>4, <2>5 DEF Hydrated
<1> QED BY <1>2, <1>3 DEF Authorize

LEMMA HydratedAgent ==
    ASSUME GrantAssumption, Sound, Hydrated, NEW a \in Agents, AgentStep(a)
    PROVE  Hydrated'
<1>0. GrantTypeOK /\ EdgesKnown
  BY DEF Sound, Hydrated
<1>1. ASSUME NEW join \in BOOLEAN, BoardBegin(a, join) PROVE Hydrated'
  <2>1. board[a].pc # "bump"
    BY <1>1 DEF BoardBegin, Idle
  <2> QED BY <1>0, <1>1, <2>1, BumpsStay, HydratedStays DEF BoardBegin, store, traces
<1>2. CASE EnsureGrants(a)
  BY <1>0, <1>2, BumpsStay, HydratedStays DEF EnsureGrants, Goto, store, traces
<1>3. CASE EnsureInsert(a)
  BY <1>0, <1>3, BumpsStay, HydratedStays DEF EnsureInsert, traces
<1>4. CASE EnsureCommit(a)
  BY <1>0, <1>4, HydratedByBump, EdgesKept DEF EnsureCommit
<1>5. CASE JoinArm(a)
  <2>1. PICK attached \in BOOLEAN : Arm(attached)
    BY <1>5 DEF JoinArm
  <2>2. CASE Goto(a, "bump")
    <3>1. board'[a].pc = "bump"
      BY <1>0, <2>2 DEF Goto, GrantTypeOK
    <3> QED BY <1>0, <1>5, <2>1, <3>1, HydratedByArm DEF JoinArm, Cleared, store
  <2>3. CASE Answer(a)
    <3>1. board'[a] = Idle
      BY <1>0, <2>3 DEF Answer, GrantTypeOK
    <3>2. rearmed'
      BY <1>5, <3>1 DEF JoinArm
    <3> QED BY <1>0, <1>5, <2>1, <3>2, HydratedByArm DEF JoinArm, Cleared, store
  <2> QED BY <1>5, <2>2, <2>3 DEF JoinArm
<1>6. CASE JoinBump(a)
  <2>1. CASE BumpEpoch
    BY <1>0, <1>6, <2>1, HydratedByBump, EdgesKept DEF JoinBump
  <2>2. CASE UNCHANGED epoch /\ rearmed' = TRUE
    <3>1. UNCHANGED <<rows, dropped>> /\ gw' = gw
      BY <1>6 DEF JoinBump
    <3>2. EdgesKnown'
      BY <1>0, <3>1, EdgesKept
    <3>3. Cleared'
      BY <2>2 DEF Cleared
    <3> QED BY <2>2, <3>1, <3>2, <3>3, SaysStays DEF Hydrated, HydratedFromRows
  <2> QED BY <1>6, <2>1, <2>2 DEF JoinBump
<1>7. CASE RelayedQuery(a)
  <2>1. board[a].pc # "bump"
    BY <1>7 DEF RelayedQuery, Idle
  <2> QED BY <1>0, <1>7, <2>1, HydratedByAuthorize DEF RelayedQuery, store, traces
<1>8. CASE GatedQuery(a)
  <2>1. CASE Authorize(a)
    BY <1>0, <1>8, <2>1, HydratedByAuthorize DEF GatedQuery, store, traces
  <2>2. CASE gw' = gw /\ (Goto(a, "rearm") \/ Answer(a))
    BY <1>0, <1>8, <2>2, BumpsStay, HydratedStays DEF GatedQuery, Goto, Answer, store, traces
  <2> QED BY <1>8, <2>1, <2>2 DEF GatedQuery
<1>9. CASE QueryRearm(a)
  BY <1>0, <1>9, HydratedByArm DEF QueryRearm, Cleared, store
<1>10. CASE Pull(a)
  <2>1. \A b \in Agents : board[b].pc = "bump" => board'[b].pc = "bump"
    BY <1>0, <1>10, BumpsStay DEF Pull, Answer
  <2>2. UNCHANGED <<rows, epoch, dropped, rearmed>>
    BY <1>10 DEF Pull, store, traces
  <2> QED BY <1>0, <1>10, <2>1, <2>2, HydratedStays, HydratedByPull DEF Pull
<1> QED BY <1>1, <1>2, <1>3, <1>4, <1>5, <1>6, <1>7, <1>8, <1>9, <1>10 DEF AgentStep

LEMMA HydratedNext ==
    ASSUME GrantAssumption, Sound, Hydrated, [GrantNext]_grantVars
    PROVE  Hydrated'
<1>0. GrantTypeOK /\ EdgesKnown
  BY DEF Sound, Hydrated
<1>1. CASE Rearm
  BY <1>0, <1>1, HydratedByArm DEF Rearm, Cleared, store
<1>2. CASE Restart
  <2>1. gw'.epoch = 0 /\ gw'.edges = {} /\ gw'.hydrated = {} /\ epoch' \in Nat
    BY <1>0, <1>2 DEF Restart, Cold, store, GrantTypeOK
  <2> QED BY <2>1 DEF Hydrated, HydratedFromRows, EdgesKnown
<1>3. CASE UNCHANGED grantVars
  BY <1>3, HydratedStays DEF grantVars
<1> QED BY <1>1, <1>2, <1>3, HydratedWriter, HydratedAgent DEF GrantNext

LEMMA GrantsBegin == GrantAssumption /\ GrantInit => GrantInv
<1> SUFFICES ASSUME GrantAssumption, GrantInit PROVE GrantInv
  OBVIOUS
<1>1. GrantTypeOK
  <2>1. /\ rows = {} /\ used \in 0..MaxRows /\ epoch \in 0..MaxEpoch
        /\ dropped = {}
    BY DEF GrantInit, GrantAssumption
  <2>2. writer \in [Writers -> WriterType] /\ board \in [Agents -> BoardType]
    BY DEF GrantInit, WriterType, BoardType
  <2>3. rearmed \in BOOLEAN
    BY DEF GrantInit
  <2> QED BY <2>1, <2>2, <2>3, ColdType DEF GrantInit, GrantTypeOK
<1>2. Known = {}
  BY IdleIsNoCommit DEF GrantInit, Known
<1>3. gw.epoch = 0 /\ gw.edges = {} /\ gw.hydrated = {} /\ epoch = 0
  BY DEF GrantInit, Cold
<1> QED BY <1>1, <1>2, <1>3 DEF GrantInv, RowsInOrder, EdgesKnown, HydratedFromRows

LEMMA GrantsStay == GrantAssumption /\ GrantInv /\ [GrantNext]_grantVars => GrantInv'
<1> SUFFICES ASSUME GrantAssumption, GrantInv, [GrantNext]_grantVars PROVE GrantInv'
  OBVIOUS
<1>1. Sound /\ Hydrated
  BY DEF GrantInv, Sound, Hydrated
<1>2. Sound' /\ Hydrated'
  BY <1>1, SoundNext, HydratedNext
<1> QED BY <1>2 DEF GrantInv, Sound, Hydrated

LEMMA GrantInvariant == GrantSpec => []GrantInv
BY GrantAssumption, GrantsBegin, GrantsStay, PTL DEF GrantSpec

(* The last statement by version is the last one written: no later INSERT  *)
(* saw it and came out below it.                                           *)
LEMMA LastIsLastWritten ==
    ASSUME GrantTypeOK, RowsInOrder
    PROVE  Outcomes(LastByVersion) \subseteq Outcomes(LastWritten)
<1>1. ASSUME NEW x \in LastByVersion, NEW y \in SlotRows(Slot(x.stmt)), x.id \in y.seen
      PROVE  FALSE
  <2>1. x \in Known /\ y \in Known /\ y.version <= x.version
    BY <1>1, RowsKnown DEF LastByVersion, SlotRows
  <2>2. x.version < y.version
    BY <1>1, <2>1 DEF RowsInOrder
  <2> QED BY <2>1, <2>2, RowFields
<1>2. LastByVersion \subseteq LastWritten
  BY <1>1 DEF LastByVersion, LastWritten
<1> QED BY <1>2 DEF Outcomes

(* More edges never lose a role.                                           *)
LEMMA RolesGrow ==
    ASSUME NEW E, NEW F, E \subseteq F, NEW a
    PROVE  RolesFrom(E, a) \subseteq RolesFrom(F, a)
BY DEF RolesFrom

LEMMA ShownEdges ==
    ASSUME GrantTypeOK, NEW on \in Outcomes(LastByVersion)
    PROVE  EdgesOf(on) \subseteq {<<x.stmt.to, x.stmt.role>> :
              x \in {y \in rows : IsMembership(y.stmt) /\ y.stmt.verb = "GRANT"}}
<1> SUFFICES ASSUME NEW s \in on, s[2] # NoRole
             PROVE  \E x \in rows : /\ IsMembership(x.stmt) /\ x.stmt.verb = "GRANT"
                                    /\ <<s[3], s[2]>> = <<x.stmt.to, x.stmt.role>>
  BY DEF EdgesOf
<1>1. PICK x \in LastByVersion \cap SlotRows(s) : x.stmt.verb \in {"GRANT", "DENY"}
  BY DEF Outcomes
<1>2. x \in rows /\ s = <<Family(x.stmt), x.stmt.role, x.stmt.to>>
  BY <1>1 DEF SlotRows, Slot
<1>3. x.stmt.role # NoRole /\ x.stmt \in Statement
  BY <1>2 DEF GrantTypeOK, Row
<1>4. x.stmt.verb = "GRANT"
  BY <1>1, <1>3 DEF Statement
<1> QED BY <1>2, <1>3, <1>4 DEF IsMembership

(* The store, the requests and the gateway keep their types, for any       *)
(* agents, roles and statements; what a request is about to commit, or has *)
(* selected to delete, is a row the table can hold.                        *)
THEOREM GrantTypeCorrect == GrantSpec => []GrantTypeOK
BY GrantInvariant, PTL DEF GrantInv

(* AllowedAsWritten (authz of the gateway against POST and DELETE /acl):   *)
(* what is allowed to an agent is what the statements allow it, the last   *)
(* written of each slot deciding, except through a dropped edge.           *)
THEOREM AllowsAsWritten == GrantSpec => []AllowedAsWritten
<1>1. GrantInv => AllowedAsWritten
  <2> SUFFICES ASSUME GrantInv, NEW a \in Agents, Fresh(a), a \in gw.allowed
               PROVE  \E on \in Outcomes(LastWritten), extra \in SUBSET dropped :
                         Verdict(a, EdgesOf(on) \cup extra, on)
    BY DEF AllowedAsWritten
  <2>1. SaysOf(a, TRUE)
    BY DEF GrantInv, HydratedFromRows, Fresh
  <2> QED BY <2>1, LastIsLastWritten DEF GrantInv, SaysOf
<1> QED BY <1>1, GrantInvariant, PTL

(* DeniedOnlyAfterRearm (join and refresh-policy pushing the configuration *)
(* to a hydrated gateway): who is denied although every reading of the     *)
(* statements allows it lost its grants to a push that no bump followed.   *)
THEOREM DeniesOnlyAfterRearm == GrantSpec => []DeniedOnlyAfterRearm
<1>1. GrantInv => DeniedOnlyAfterRearm
  <2> SUFFICES ASSUME GrantInv, NEW a \in Agents, Fresh(a), a \notin gw.allowed,
                      \A on \in Outcomes(LastWritten), extra \in SUBSET dropped :
                         Verdict(a, EdgesOf(on) \cup extra, on)
               PROVE  Cleared
    BY DEF DeniedOnlyAfterRearm, Cleared
  <2>1. SaysOf(a, FALSE) \/ Cleared
    BY DEF GrantInv, HydratedFromRows, Fresh
  <2>2. ~SaysOf(a, FALSE)
    BY LastIsLastWritten DEF GrantInv, SaysOf
  <2> QED BY <2>1, <2>2
<1> QED BY <1>1, GrantInvariant, PTL

(* ShownWhenAllowed (grantsForKey against the gateway's authz): an agent   *)
(* that is allowed holds a grant the dashboard shows, reached through the  *)
(* memberships grantsForKey follows, as long as no edge was dropped.       *)
THEOREM ShowsWhatIsAllowed == GrantSpec => []ShownWhenAllowed
<1>1. GrantInv => ShownWhenAllowed
  <2> SUFFICES ASSUME GrantInv, NEW a \in Agents, Fresh(a), a \in gw.allowed, dropped = {}
               PROVE  \E x \in GrantsForKey(a) :
                         Slot(x.stmt)[1] = "allow" /\ ~IsMembership(x.stmt)
    BY DEF ShownWhenAllowed
  <2>1. SaysOf(a, TRUE) /\ GrantTypeOK
    BY DEF GrantInv, HydratedFromRows, Fresh
  <2>2. PICK on \in Outcomes(LastByVersion), extra \in SUBSET dropped :
           Verdict(a, EdgesOf(on) \cup extra, on)
    BY <2>1 DEF SaysOf
  <2>3. EdgesOf(on) \cup extra = EdgesOf(on)
    BY <2>2
  <2>4. PICK p \in {a, Public} \cup RolesFrom(EdgesOf(on), a) :
           <<"allow", NoRole, p>> \in on
    BY <2>2, <2>3 DEF Verdict
  <2>5. p \in {a, Public} \cup RolesShown(a)
    BY <2>1, <2>4, ShownEdges, RolesGrow DEF RolesShown
  <2>6. PICK x \in rows : <<"allow", NoRole, p>> = Slot(x.stmt)
    BY <2>4 DEF Outcomes, Slots
  <2>7. Slot(x.stmt)[1] = "allow" /\ x.stmt.role = NoRole /\ x.stmt.to = p
    BY <2>6 DEF Slot
  <2> QED BY <2>5, <2>7 DEF GrantsForKey, IsMembership
<1> QED BY <1>1, GrantInvariant, PTL
=============================================================================
