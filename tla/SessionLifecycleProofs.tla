----------------------- MODULE SessionLifecycleProofs -----------------------
(***************************************************************************)
(* SessionLifecycle for any number of connects, either policy and any      *)
(* number of failures.  DeniedOnlyWhileKilling is not inductive: RowsOnce  *)
(* and TokensHaveRows say why a token that is being revoked can never      *)
(* belong to a row that becomes live later.                                *)
(***************************************************************************)
EXTENDS SessionLifecycle, TLAPS

BeforeInsert == {"new", "reap", "existing", "push", "configure", "attach", "insert"}

\* A connect has no row before it inserts it.
RowsOnce == \A c \in Conns : conn[c].pc \in BeforeInsert => row[c].status = "none"

\* What a connect means to displace, and what is denied, is a session that exists.
TokensHaveRows ==
    /\ \A c \in Conns : \A d \in conn[c].super : row[d].status # "none"
    /\ \A d \in deny : row[d].status # "none"

\* Only sessions that exist are killed.
KilledHasRow == \A c \in Conns : kill[c] => row[c].status # "none"

\* By the time a connect revokes the tokens it displaced, none of their rows is live.
DisplacedAreClosed ==
    \A c \in Conns : conn[c].pc = "revoke" =>
        \A d \in conn[c].super : row[d].status # "active"

\* The types of the two tables, as TypeOK has them.
RowType == [status : {"none", "active"} \cup ClosedStatus, by : SUBSET Conns]
RowTypes == [Conns -> RowType]
ConnType == [pc : {"new", "reap", "existing", "push", "configure", "attach", "insert", "revoke"}
                  \cup Ended,
             super : SUBSET Conns, attempt : 0..MaxAttempts]
ConnTypes == [Conns -> ConnType]
RestTypes ==
    /\ agent \in {"active", "revoked"} /\ lapsed \in SUBSET Conns /\ del \in {"idle", "close", "done"}
    /\ attached \in {{}} \cup {{c} : c \in Conns} /\ deny \in SUBSET Conns /\ faults \in 0..MaxFaults

LEMMA Types ==
    /\ TypeOK <=> (row \in RowTypes /\ conn \in ConnTypes /\ kill \in [Conns -> BOOLEAN] /\ RestTypes)
    /\ TypeOK' <=> (row' \in RowTypes /\ conn' \in ConnTypes /\ kill' \in [Conns -> BOOLEAN] /\ RestTypes')
BY Zenon DEF TypeOK, RestTypes, RowTypes, ConnTypes, RowType, ConnType

IInv ==
    /\ TypeOK
    /\ RowsOnce /\ TokensHaveRows /\ KilledHasRow /\ DisplacedAreClosed
    /\ OneLiveSessionPerAgent /\ SupersededHasSuccessor /\ DeniedOnlyWhileKilling

LEMMA InitTypes == Init => TypeOK
<1> SUFFICES ASSUME Init PROVE TypeOK
  OBVIOUS
<1> USE LifecycleAssumption
<1>1. row \in RowTypes
  BY DEF Init, NoRow, RowTypes, RowType
<1>2. conn \in ConnTypes
  BY DEF Init, NewConn, ConnTypes, ConnType
<1>3. kill \in [Conns -> BOOLEAN]
  BY Zenon DEF Init
<1>4. RestTypes
  BY DEF Init, RestTypes
<1> QED BY <1>1, <1>2, <1>3, <1>4, Types

LEMMA InitHolds == Init => IInv
<1> SUFFICES ASSUME Init PROVE IInv
  OBVIOUS
<1>1. TypeOK
  BY InitTypes
<1>2. \A c \in Conns : conn[c].pc = "new" /\ conn[c].super = {} /\ row[c].status = "none"
  BY DEF Init, NewConn, NoRow
<1>3. deny = {} /\ \A c \in Conns : ~kill[c]
  BY DEF Init
<1> QED BY <1>1, <1>2, <1>3 DEF IInv, RowsOnce, TokensHaveRows, KilledHasRow, DisplacedAreClosed,
           OneLiveSessionPerAgent, SupersededHasSuccessor, DeniedOnlyWhileKilling, LiveAgentRows

-----------------------------------------------------------------------------
(* A step that only moves one connect along, or changes nothing the other  *)
(* parts of the invariant mention, keeps them.                             *)
LEMMA FaultBound == ASSUME Fault, faults \in 0..MaxFaults PROVE faults' \in 0..MaxFaults
BY LifecycleAssumption DEF Fault

(* Closing rows that exist never reopens one, and never makes a session    *)
(* superseded.                                                             *)
LEMMA CloseKeeps ==
    ASSUME IInv, NEW S \in SUBSET Conns, NEW status \in ClosedStatus \ {"superseded"},
           \A c \in S : row[c].status # "none", CloseRows(S, status)
    PROVE  /\ row' \in RowTypes
           /\ \A c \in Conns : row'[c].status = "active" => row[c].status = "active"
           /\ \A c \in Conns : row'[c].status = "none" <=> row[c].status = "none"
           /\ OneLiveSessionPerAgent' /\ SupersededHasSuccessor'
<1>1. row \in RowTypes /\ \A c \in Conns : row[c] \in RowType
  BY Types DEF IInv, RowTypes
<1>2. \A c \in Conns : /\ c \in S => row'[c] = [row[c] EXCEPT !.status = status]
                       /\ c \notin S => row'[c] = row[c]
  BY DEF CloseRows
<1>3. \A c \in Conns : /\ row'[c].by = row[c].by
                       /\ c \in S => row'[c].status = status
                       /\ c \notin S => row'[c].status = row[c].status
  BY <1>1, <1>2 DEF RowType
<1>4. row' \in RowTypes
  <2>1. \A c \in Conns : [row[c] EXCEPT !.status = status] \in RowType
    BY <1>1 DEF RowType
  <2> QED BY <1>1, <2>1 DEF CloseRows, RowTypes
<1>5. status # "active" /\ status # "none" /\ status # "superseded"
  BY DEF ClosedStatus
<1>6. \A c \in Conns : row'[c].status = "active" => row[c].status = "active"
  BY <1>3, <1>5
<1>7. \A c \in Conns : row'[c].status = "none" <=> row[c].status = "none"
  BY <1>3, <1>5
<1>8. OneLiveSessionPerAgent'
  BY <1>6 DEF IInv, OneLiveSessionPerAgent, LiveAgentRows
<1>9. SupersededHasSuccessor'
  <2> SUFFICES ASSUME NEW c \in Conns, row'[c].status = "superseded"
               PROVE  \E d \in row'[c].by : row'[d].status # "none"
    BY DEF SupersededHasSuccessor
  <2>1. row[c].status = "superseded"
    BY <1>3, <1>5
  <2>2. PICK d \in row[c].by : row[d].status # "none"
    BY <2>1 DEF IInv, SupersededHasSuccessor
  <2>3. d \in Conns
    BY <2>2, <1>1 DEF RowType
  <2> QED BY <2>2, <2>3, <1>3, <1>7
<1> QED BY <1>4, <1>6, <1>7, <1>8, <1>9

(* A step that leaves the rows, the denylist and the kills alone and moves *)
(* one connect from before its insert to a place that is not "revoke".     *)
LEMMA MoveKeeps ==
    ASSUME IInv, TypeOK', UNCHANGED <<row, deny, kill>>, NEW c \in Conns,
           \A d \in Conns \ {c} : conn'[d] = conn[d],
           conn'[c].pc # "revoke",
           conn'[c].pc \in BeforeInsert => conn[c].pc \in BeforeInsert,
           conn'[c].super \subseteq conn[c].super \cup {d \in Conns : row[d].status # "none"}
    PROVE  IInv'
<1>1. RowsOnce'
  BY DEF IInv, RowsOnce
<1>2. TokensHaveRows'
  BY DEF IInv, TokensHaveRows
<1>3. DisplacedAreClosed'
  BY DEF IInv, DisplacedAreClosed
<1>4. OneLiveSessionPerAgent' /\ SupersededHasSuccessor' /\ DeniedOnlyWhileKilling' /\ KilledHasRow'
  BY DEF IInv, KilledHasRow, OneLiveSessionPerAgent, SupersededHasSuccessor, DeniedOnlyWhileKilling, LiveAgentRows
<1> QED BY <1>1, <1>2, <1>3, <1>4 DEF IInv

(* A step that closes rows and moves no connect to "revoke".               *)
LEMMA CloseStepKeeps ==
    ASSUME IInv, TypeOK', NEW S \in SUBSET Conns, NEW status \in ClosedStatus \ {"superseded"},
           \A c \in S : row[c].status # "none", CloseRows(S, status),
           UNCHANGED deny,
           \A c \in Conns : /\ conn'[c].super = conn[c].super
                            /\ conn'[c].pc = "revoke" => conn[c].pc = "revoke"
                            /\ conn'[c].pc \in BeforeInsert => conn[c].pc \in BeforeInsert,
           \A c \in Conns : (kill[c] /\ ~kill'[c]) => c \in S,
           \A c \in Conns : kill'[c] => kill[c]
    PROVE  IInv'
<1>1. /\ \A c \in Conns : row'[c].status = "active" => row[c].status = "active"
      /\ \A c \in Conns : row'[c].status = "none" <=> row[c].status = "none"
      /\ OneLiveSessionPerAgent' /\ SupersededHasSuccessor'
  BY CloseKeeps
<1>2. deny \subseteq Conns /\ \A c \in Conns : conn[c].super \subseteq Conns
  BY DEF IInv, TypeOK
<1>3. RowsOnce'
  BY <1>1 DEF IInv, RowsOnce
<1>4. TokensHaveRows'
  BY <1>1, <1>2 DEF IInv, TokensHaveRows
<1>5. DisplacedAreClosed'
  BY <1>1, <1>2 DEF IInv, DisplacedAreClosed
<1>6. DeniedOnlyWhileKilling'
  <2> SUFFICES ASSUME NEW c \in deny, row'[c].status = "active" PROVE kill'[c]
    BY DEF DeniedOnlyWhileKilling
  <2>1. c \in Conns /\ kill[c]
    BY <1>1, <1>2 DEF IInv, DeniedOnlyWhileKilling
  <2>2. c \notin S
    <3>1. c \in S => row'[c] = [row[c] EXCEPT !.status = status]
      BY <2>1 DEF CloseRows
    <3>2. row[c] \in RowType
      BY <2>1, Types DEF IInv, RowTypes
    <3>3. c \in S => row'[c].status = status
      BY <3>1, <3>2 DEF RowType
    <3> QED BY <3>3 DEF ClosedStatus
  <2> QED BY <2>1, <2>2
<1>7. KilledHasRow'
  BY <1>1 DEF IInv, KilledHasRow
<1> QED BY <1>1, <1>3, <1>4, <1>5, <1>6, <1>7 DEF IInv

(* Goto changes one program counter. *)
LEMMA GotoMoves ==
    ASSUME IInv, NEW c \in Conns,
           NEW pc \in {"new", "reap", "existing", "push", "configure", "attach", "insert", "revoke"}
                     \cup Ended,
           Goto(c, pc)
    PROVE  /\ conn' \in ConnTypes
           /\ \A d \in Conns \ {c} : conn'[d] = conn[d]
           /\ conn'[c].pc = pc /\ conn'[c].super = conn[c].super
BY Types DEF IInv, Goto, ConnTypes, ConnType

(* A new row supersedes what its connect read and is itself live. *)
LEMMA InsertedRows ==
    ASSUME IInv, NEW c \in Conns, Inserted(c)
    PROVE  /\ row' \in RowTypes
           /\ row'[c].status = "active"
           /\ \A d \in Conns \ {c} :
                 /\ d \in conn[c].super => row'[d].status = "superseded" /\ row'[d].by = {c}
                 /\ d \notin conn[c].super => row'[d] = row[d]
<1>1. row \in RowTypes
  BY Types DEF IInv
<1>2. [NoRow EXCEPT !.status = "active"] = [status |-> "active", by |-> {}]
  BY DEF NoRow
<1>3. \A d \in Conns :
        row'[d] = IF d = c THEN [status |-> "active", by |-> {}]
                  ELSE IF d \in conn[c].super THEN [status |-> "superseded", by |-> {c}]
                  ELSE row[d]
  BY <1>2 DEF Inserted
<1>4. \A d \in Conns : row'[d] \in RowType
  BY <1>1, <1>3 DEF RowTypes, RowType, ClosedStatus
<1>5. row' \in RowTypes
  BY <1>4 DEF RowTypes, Inserted
<1> QED BY <1>3, <1>5

-----------------------------------------------------------------------------
(* One lemma per kind of step.                                             *)

\* The steps of a connect that leave rows and denylist alone.
LEMMA EarlyStep ==
    ASSUME IInv, NEW c \in Conns,
           \/ Begin(c) \/ ReadExisting(c) \/ PushAndProvision(c) \/ ConfigureForbidden(c)
           \/ ConfigureDetach(c) \/ ConfigureAttach(c)
    PROVE  IInv'
<1> USE LifecycleAssumption
<1>0. /\ row \in RowTypes /\ conn \in ConnTypes /\ kill \in [Conns -> BOOLEAN] /\ RestTypes
      /\ conn[c] \in ConnType
  BY Types DEF IInv, ConnTypes
<1>1. UNCHANGED <<row, deny, kill, agent, lapsed, del>>
  BY DEF Begin, ReadExisting, PushAndProvision, ConfigureForbidden, ConfigureDetach, ConfigureAttach
<1>2. conn[c].pc \in BeforeInsert
  BY DEF Begin, ReadExisting, PushAndProvision, ConfigureForbidden, ConfigureDetach, ConfigureAttach,
         BeforeInsert
<1>3. RestTypes'
  <2>1. faults' \in 0..MaxFaults
    BY <1>0, FaultBound DEF RestTypes, Begin, ReadExisting, PushAndProvision, ConfigureForbidden,
                            ConfigureDetach, ConfigureAttach
  <2>2. attached' \in {{}} \cup {{d} : d \in Conns}
    BY <1>0 DEF RestTypes, Begin, ReadExisting, PushAndProvision, ConfigureForbidden,
                ConfigureDetach, ConfigureAttach
  <2> QED BY <1>0, <1>1, <2>1, <2>2 DEF RestTypes
<1>4. /\ conn' \in ConnTypes
      /\ \A d \in Conns \ {c} : conn'[d] = conn[d]
      /\ conn'[c].pc # "revoke"
      /\ conn'[c].super \subseteq conn[c].super \cup {d \in Conns : row[d].status # "none"}
  <2>1. CASE ReadExisting(c)
    <3>1. LiveAgentRows \subseteq {d \in Conns : row[d].status # "none"}
      BY DEF LiveAgentRows
    <3>2. LiveAgentRows \in SUBSET Conns
      BY DEF LiveAgentRows
    <3>3. CASE Goto(c, "rejected")
      BY <3>3, GotoMoves DEF Ended
    <3>4. CASE conn' = [conn EXCEPT ![c].pc = "push", ![c].super = LiveAgentRows]
      BY <1>0, <3>1, <3>2, <3>4 DEF ConnTypes, ConnType
    <3> QED BY <2>1, <3>3, <3>4 DEF ReadExisting
  <2>2. CASE ConfigureForbidden(c)
    <3>1. conn[c].pc = "configure"
      BY <2>2 DEF ConfigureForbidden
    <3>2. CASE Goto(c, "failed")
      BY <3>2, GotoMoves DEF Ended
    <3>3. CASE conn[c].attempt < MaxAttempts /\ conn' = [conn EXCEPT ![c].attempt = @ + 1]
      BY <1>0, <3>1, <3>3 DEF ConnTypes, ConnType
    <3> QED BY <2>2, <3>2, <3>3 DEF ConfigureForbidden
  <2>3. CASE Begin(c) \/ PushAndProvision(c) \/ ConfigureDetach(c) \/ ConfigureAttach(c)
    <3>1. \E pc \in {"reap", "push", "configure", "attach", "insert", "failed", "attach_failed"} :
             Goto(c, pc)
      BY <2>3 DEF Begin, PushAndProvision, ConfigureDetach, ConfigureAttach
    <3>2. PICK pc \in {"reap", "push", "configure", "attach", "insert", "failed", "attach_failed"} :
             Goto(c, pc)
      BY <3>1
    <3>3. /\ conn' \in ConnTypes
          /\ \A d \in Conns \ {c} : conn'[d] = conn[d]
          /\ conn'[c].pc = pc /\ conn'[c].super = conn[c].super
      BY <3>2, GotoMoves DEF Ended
    <3> QED BY <3>2, <3>3
  <2> QED BY <2>1, <2>2, <2>3
<1>5. TypeOK'
  BY <1>0, <1>1, <1>3, <1>4, Types
<1> QED BY <1>1, <1>2, <1>4, <1>5, MoveKeeps

\* The steps that close rows.
LEMMA ClosingStep ==
    ASSUME IInv,
           \/ \E c \in Conns : Reap(c) \/ KillMark(c)
           \/ SweepExpired \/ DeleteCloseSessions
    PROVE  IInv'
<1>0. /\ row \in RowTypes /\ conn \in ConnTypes /\ kill \in [Conns -> BOOLEAN] /\ RestTypes
  BY Types DEF IInv
<1>1. ASSUME NEW c \in Conns, Reap(c) PROVE IInv'
  <2> DEFINE S == LiveAgentRows \cap lapsed
  <2>1. S \in SUBSET Conns /\ \A d \in S : row[d].status # "none"
    BY DEF LiveAgentRows
  <2>2. CloseRows(S, "expired") /\ Goto(c, "existing") /\ conn[c].pc = "reap"
        /\ UNCHANGED <<agent, lapsed, kill, del, attached, deny, faults>>
    BY <1>1 DEF Reap
  <2>3. row' \in RowTypes
    BY <2>1, <2>2, CloseKeeps DEF ClosedStatus
  <2>4. /\ conn' \in ConnTypes /\ conn'[c].pc = "existing" /\ conn'[c].super = conn[c].super
        /\ \A d \in Conns \ {c} : conn'[d] = conn[d]
    BY <2>2, GotoMoves
  <2>5. RestTypes'
    BY <1>0, <2>2 DEF RestTypes
  <2>6. TypeOK'
    BY <1>0, <2>2, <2>3, <2>4, <2>5, Types
  <2>7. \A d \in Conns : /\ conn'[d].super = conn[d].super
                         /\ conn'[d].pc = "revoke" => conn[d].pc = "revoke"
                         /\ conn'[d].pc \in BeforeInsert => conn[d].pc \in BeforeInsert
    BY <2>2, <2>4 DEF BeforeInsert
  <2> HIDE DEF S
  <2> QED BY <2>1, <2>2, <2>6, <2>7, CloseStepKeeps DEF ClosedStatus
<1>2. ASSUME NEW c \in Conns, KillMark(c) PROVE IInv'
  <2>1. CloseRows({c}, "killed") /\ kill[c] /\ kill' = [kill EXCEPT ![c] = FALSE]
        /\ UNCHANGED <<agent, lapsed, conn, del, attached, deny, faults>>
    BY <1>2 DEF KillMark
  <2>2. row[c].status # "none"
    BY <2>1 DEF IInv, KilledHasRow
  <2>3. row' \in RowTypes
    BY <2>1, <2>2, CloseKeeps DEF ClosedStatus
  <2>4. RestTypes' /\ conn' \in ConnTypes
    BY <1>0, <2>1 DEF RestTypes
  <2>5. kill' \in [Conns -> BOOLEAN]
    BY <1>0, <2>1, Zenon
  <2>6. TypeOK'
    BY <2>3, <2>4, <2>5, Types
  <2>7. \A d \in Conns : ((kill[d] /\ ~kill'[d]) => d \in {c}) /\ (kill'[d] => kill[d])
    BY <1>0, <2>1
  <2>8. \A d \in {c} : row[d].status # "none"
    BY <2>2
  <2> QED BY <2>1, <2>6, <2>7, <2>8, CloseStepKeeps DEF ClosedStatus
<1>3. ASSUME SweepExpired PROVE IInv'
  <2> DEFINE S == {c \in lapsed : row[c].status = "active"}
  <2>1. S \in SUBSET Conns /\ \A d \in S : row[d].status # "none"
    BY <1>0 DEF RestTypes
  <2>2. CloseRows(S, "expired") /\ UNCHANGED <<agent, lapsed, conn, kill, del, attached, deny, faults>>
    BY <1>3 DEF SweepExpired
  <2>3. row' \in RowTypes
    BY <2>1, <2>2, CloseKeeps DEF ClosedStatus
  <2>4. RestTypes'
    BY <1>0, <2>2 DEF RestTypes
  <2>5. TypeOK'
    BY <1>0, <2>2, <2>3, <2>4, Types
  <2> HIDE DEF S
  <2> QED BY <2>1, <2>2, <2>5, CloseStepKeeps DEF ClosedStatus
<1>4. ASSUME DeleteCloseSessions PROVE IInv'
  <2> DEFINE S == {c \in Conns : row[c].status = "active"}
  <2>1. S \in SUBSET Conns /\ \A d \in S : row[d].status # "none"
    OBVIOUS
  <2>2. CloseRows(S, "revoked") /\ del' = "done"
        /\ UNCHANGED <<agent, lapsed, conn, kill, attached, deny, faults>>
    BY <1>4 DEF DeleteCloseSessions
  <2>3. row' \in RowTypes
    BY <2>1, <2>2, CloseKeeps DEF ClosedStatus
  <2>4. RestTypes'
    BY <1>0, <2>2 DEF RestTypes
  <2>5. TypeOK'
    BY <1>0, <2>2, <2>3, <2>4, Types
  <2> HIDE DEF S
  <2> QED BY <2>1, <2>2, <2>5, CloseStepKeeps DEF ClosedStatus
<1> QED BY <1>1, <1>2, <1>3, <1>4

\* The insert transaction.
LEMMA InsertStep ==
    ASSUME IInv, NEW c \in Conns, Insert(c)
    PROVE  IInv'
<1>0. /\ row \in RowTypes /\ conn \in ConnTypes /\ kill \in [Conns -> BOOLEAN] /\ RestTypes
      /\ conn[c].super \subseteq Conns /\ deny \subseteq Conns
  BY Types DEF IInv, RestTypes, ConnTypes, ConnType
<1>1. /\ conn[c].pc = "insert" /\ row[c].status = "none"
      /\ UNCHANGED <<agent, lapsed, kill, del, attached, deny>>
  BY DEF Insert, IInv, RowsOnce, BeforeInsert
<1>2. faults' \in 0..MaxFaults
  BY <1>0, FaultBound DEF Insert, RestTypes
<1>3. RestTypes'
  BY <1>0, <1>1, <1>2 DEF RestTypes
<1>4. CASE UNCHANGED row /\ (Goto(c, "conflict") \/ Goto(c, "failed"))
  <2>1. PICK pc \in {"conflict", "failed"} : Goto(c, pc)
    BY <1>4
  <2>2. /\ conn' \in ConnTypes
        /\ \A d \in Conns \ {c} : conn'[d] = conn[d]
        /\ conn'[c].pc = pc /\ conn'[c].super = conn[c].super
    BY <2>1, GotoMoves DEF Ended
  <2>3. TypeOK'
    BY <1>0, <1>1, <1>3, <1>4, <2>2, Types
  <2>4. conn'[c].pc # "revoke" /\ conn'[c].pc \notin BeforeInsert
    BY <2>2 DEF BeforeInsert
  <2> QED BY <1>1, <1>4, <2>2, <2>3, <2>4, MoveKeeps
<1>5. CASE ~IndexConflict(c) /\ Inserted(c)
           /\ Goto(c, IF conn[c].super = {} THEN "done" ELSE "revoke")
  <2>1. PICK pc \in {"done", "revoke"} : Goto(c, pc)
    BY <1>5
  <2>2. /\ conn' \in ConnTypes
        /\ \A d \in Conns \ {c} : conn'[d] = conn[d]
        /\ conn'[c].pc = pc /\ conn'[c].super = conn[c].super
    BY <2>1, GotoMoves DEF Ended
  <2>3. /\ row' \in RowTypes
        /\ row'[c].status = "active"
        /\ \A d \in Conns \ {c} :
              /\ d \in conn[c].super => row'[d].status = "superseded" /\ row'[d].by = {c}
              /\ d \notin conn[c].super => row'[d] = row[d]
    BY <1>5, InsertedRows
  <2>4. TypeOK'
    BY <1>0, <1>1, <1>3, <2>2, <2>3, Types
  <2>5. \A d \in Conns : row[d].status # "none" => row'[d].status # "none"
    BY <2>3
  <2>6. \A d \in Conns \ {c} : row'[d].status = "active" => row[d].status = "active"
    BY <2>3
  <2>7. RowsOnce'
    <3>1. conn'[c].pc \notin BeforeInsert
      BY <2>2 DEF BeforeInsert
    <3>2. ASSUME NEW d \in Conns \ {c}, conn'[d].pc \in BeforeInsert PROVE row'[d].status = "none"
      <4>1. row[d].status = "none"
        BY <2>2, <3>2 DEF IInv, RowsOnce
      <4>2. d \notin conn[c].super
        BY <4>1 DEF IInv, TokensHaveRows
      <4> QED BY <4>1, <4>2, <2>3
    <3> QED BY <3>1, <3>2 DEF RowsOnce
  <2>8. TokensHaveRows'
    <3>1. \A d \in Conns : conn'[d].super = conn[d].super /\ conn[d].super \subseteq Conns
      BY <1>0, <2>2 DEF ConnTypes, ConnType
    <3> QED BY <3>1, <1>0, <1>1, <2>5 DEF IInv, TokensHaveRows
  <2>9. KilledHasRow'
    BY <1>1, <2>5 DEF IInv, KilledHasRow
  <2>10. DisplacedAreClosed'
    <3> SUFFICES ASSUME NEW e \in Conns, conn'[e].pc = "revoke", NEW d \in conn'[e].super
                 PROVE  row'[d].status # "active"
      BY DEF DisplacedAreClosed
    <3>1. conn'[e].super = conn[e].super
      BY <2>2
    <3>2. d \in Conns /\ row[d].status # "none"
      BY <3>1, <1>0 DEF IInv, TokensHaveRows, ConnTypes, ConnType
    <3>3. d # c
      BY <3>2, <1>1
    <3>4. CASE e = c
      BY <3>1, <3>2, <3>3, <3>4, <2>3
    <3>5. CASE e # c
      <4>1. row[d].status # "active"
        BY <3>5, <3>1, <2>2 DEF IInv, DisplacedAreClosed
      <4> QED BY <4>1, <3>2, <3>3, <2>6
    <3> QED BY <3>4, <3>5
  <2>11. OneLiveSessionPerAgent'
    <3> SUFFICES ASSUME NEW d \in LiveAgentRows', NEW e \in LiveAgentRows' PROVE d = e
      BY DEF OneLiveSessionPerAgent
    <3>1. \A x \in LiveAgentRows' : x \in Conns \ RunAs /\ row'[x].status = "active"
      BY DEF LiveAgentRows
    <3>2. \A x \in LiveAgentRows' \ {c} : x \in LiveAgentRows /\ x \notin conn[c].super
      BY <3>1, <2>3 DEF LiveAgentRows
    <3>3. c \notin RunAs => LiveAgentRows' \subseteq {c}
      BY <3>2, <1>5 DEF IndexConflict
    <3>4. c \in RunAs => c \notin LiveAgentRows'
      BY <3>1
    <3>5. \A x, y \in LiveAgentRows : x = y
      BY DEF IInv, OneLiveSessionPerAgent
    <3> QED BY <3>2, <3>3, <3>4, <3>5
  <2>12. SupersededHasSuccessor'
    <3> SUFFICES ASSUME NEW d \in Conns, row'[d].status = "superseded"
                 PROVE  \E e \in row'[d].by : row'[e].status # "none"
      BY DEF SupersededHasSuccessor
    <3>1. d # c
      BY <2>3
    <3>2. CASE d \in conn[c].super
      BY <3>1, <3>2, <2>3
    <3>3. CASE d \notin conn[c].super
      <4>1. row'[d] = row[d]
        BY <3>1, <3>3, <2>3
      <4>2. PICK e \in row[d].by : row[e].status # "none"
        BY <4>1 DEF IInv, SupersededHasSuccessor
      <4>3. e \in Conns
        BY <4>2, <1>0 DEF RowTypes, RowType
      <4> QED BY <4>1, <4>2, <4>3, <2>5
    <3> QED BY <3>2, <3>3
  <2>13. DeniedOnlyWhileKilling'
    <3> SUFFICES ASSUME NEW d \in deny, row'[d].status = "active" PROVE kill[d]
      BY <1>1 DEF DeniedOnlyWhileKilling
    <3>1. d # c /\ d \in Conns
      BY <1>0, <1>1 DEF IInv, TokensHaveRows
    <3> QED BY <3>1, <2>6 DEF IInv, DeniedOnlyWhileKilling
  <2> QED BY <2>4, <2>7, <2>8, <2>9, <2>10, <2>11, <2>12, <2>13 DEF IInv
<1> QED BY <1>4, <1>5 DEF Insert

\* A step that may add closed or killed sessions' tokens to the denylist.
LEMMA DenyKeeps ==
    ASSUME IInv, TypeOK', UNCHANGED row,
           \A d \in deny' \ deny : row[d].status # "none" /\ (row[d].status = "active" => kill'[d]),
           \A c \in Conns : kill[c] => kill'[c],
           \A c \in Conns : (kill'[c] /\ ~kill[c]) => row[c].status # "none",
           \A c \in Conns : /\ conn'[c].super = conn[c].super
                            /\ conn'[c].pc = "revoke" => conn[c].pc = "revoke"
                            /\ conn'[c].pc \in BeforeInsert => conn[c].pc \in BeforeInsert
    PROVE  IInv'
<1>1. deny \subseteq Conns
  BY Types DEF IInv, RestTypes
<1>2. RowsOnce' /\ DisplacedAreClosed'
  BY DEF IInv, RowsOnce, DisplacedAreClosed
<1>3. TokensHaveRows' /\ KilledHasRow'
  BY DEF IInv, TokensHaveRows, KilledHasRow
<1>4. OneLiveSessionPerAgent' /\ SupersededHasSuccessor'
  BY DEF IInv, OneLiveSessionPerAgent, SupersededHasSuccessor, LiveAgentRows
<1>5. DeniedOnlyWhileKilling'
  BY <1>1 DEF IInv, DeniedOnlyWhileKilling
<1> QED BY <1>2, <1>3, <1>4, <1>5 DEF IInv

LEMMA DenyingStep ==
    ASSUME IInv, NEW c \in Conns, RevokeDisplaced(c) \/ KillRevoke(c)
    PROVE  IInv'
<1>0. /\ row \in RowTypes /\ conn \in ConnTypes /\ kill \in [Conns -> BOOLEAN] /\ RestTypes
      /\ conn[c].super \subseteq Conns
  BY Types DEF IInv, ConnTypes, ConnType
<1>1. faults' \in 0..MaxFaults
  BY <1>0, FaultBound DEF RevokeDisplaced, KillRevoke, RestTypes
<1>2. CASE RevokeDisplaced(c)
  <2>1. /\ conn[c].pc = "revoke" /\ Goto(c, "done")
        /\ UNCHANGED <<agent, row, lapsed, kill, del, attached>>
        /\ deny' \in {deny, deny \cup conn[c].super}
    BY <1>2 DEF RevokeDisplaced
  <2>2. /\ conn' \in ConnTypes
        /\ \A d \in Conns \ {c} : conn'[d] = conn[d]
        /\ conn'[c].pc = "done" /\ conn'[c].super = conn[c].super
    BY <2>1, GotoMoves DEF Ended
  <2>3. RestTypes'
    BY <1>0, <1>1, <2>1 DEF RestTypes
  <2>4. TypeOK'
    BY <1>0, <2>1, <2>2, <2>3, Types
  <2>5. \A d \in deny' \ deny : row[d].status # "none" /\ row[d].status # "active"
    BY <2>1 DEF IInv, TokensHaveRows, DisplacedAreClosed
  <2>6. \A d \in Conns : /\ conn'[d].super = conn[d].super
                         /\ conn'[d].pc = "revoke" => conn[d].pc = "revoke"
                         /\ conn'[d].pc \in BeforeInsert => conn[d].pc \in BeforeInsert
    BY <2>2 DEF BeforeInsert
  <2> QED BY <2>1, <2>4, <2>5, <2>6, DenyKeeps
<1>3. CASE KillRevoke(c)
  <2>1. /\ row[c].status # "none" /\ ~kill[c] /\ kill' = [kill EXCEPT ![c] = TRUE]
        /\ UNCHANGED <<agent, row, lapsed, conn, del, attached>>
        /\ deny' \in {deny, deny \cup {c}}
    BY <1>3 DEF KillRevoke
  <2>2. kill' \in [Conns -> BOOLEAN]
    BY <1>0, <2>1, Zenon
  <2>3. kill'[c] /\ \A d \in Conns \ {c} : kill'[d] = kill[d]
    BY <1>0, <2>1
  <2>4. RestTypes'
    BY <1>0, <1>1, <2>1 DEF RestTypes
  <2>5. TypeOK'
    BY <1>0, <2>1, <2>2, <2>4, Types
  <2>6. \A d \in deny' \ deny : row[d].status # "none" /\ kill'[d]
    BY <2>1, <2>3
  <2>7. \A d \in Conns : (kill[d] => kill'[d]) /\ ((kill'[d] /\ ~kill[d]) => row[d].status # "none")
    BY <2>1, <2>3
  <2> QED BY <2>1, <2>5, <2>6, <2>7, DenyKeeps
<1> QED BY <1>2, <1>3

\* Expiry, the agent row, restarts and stuttering.
LEMMA OtherStep ==
    ASSUME IInv,
           \/ \E c \in Conns : Lapse(c)
           \/ DeleteAgent \/ GatewayRestart \/ WorkspaceScalesToZero \/ UNCHANGED vars
    PROVE  IInv'
<1>0. /\ row \in RowTypes /\ conn \in ConnTypes /\ kill \in [Conns -> BOOLEAN] /\ RestTypes
  BY Types DEF IInv
<1>1. UNCHANGED <<row, conn, kill>> /\ deny' \subseteq deny
  BY DEF Lapse, DeleteAgent, GatewayRestart, WorkspaceScalesToZero, vars
<1>2. RestTypes'
  <2>1. faults' \in 0..MaxFaults
    BY <1>0, FaultBound DEF RestTypes, Lapse, DeleteAgent, GatewayRestart, WorkspaceScalesToZero, vars
  <2>2. lapsed' \in SUBSET Conns /\ deny' \in SUBSET Conns
    BY <1>0, <1>1 DEF RestTypes, Lapse, DeleteAgent, GatewayRestart, WorkspaceScalesToZero, vars
  <2>3. attached' \in {{}} \cup {{c} : c \in Conns}
    BY <1>0 DEF RestTypes, Lapse, DeleteAgent, GatewayRestart, WorkspaceScalesToZero, vars
  <2>4. agent' \in {"active", "revoked"} /\ del' \in {"idle", "close", "done"}
    BY <1>0 DEF RestTypes, Lapse, DeleteAgent, GatewayRestart, WorkspaceScalesToZero, vars
  <2> QED BY <2>1, <2>2, <2>3, <2>4 DEF RestTypes
<1>3. TypeOK'
  BY <1>0, <1>1, <1>2, Types
<1> QED BY <1>1, <1>3, DenyKeeps

LEMMA StepHolds == IInv /\ [Next]_vars => IInv'
BY EarlyStep, ClosingStep, InsertStep, DenyingStep, OtherStep DEF Next, ConnectStep

-----------------------------------------------------------------------------
(* The inductive invariant holds in every reachable state. *)
THEOREM Inductive == Spec => []IInv
BY InitHolds, StepHolds, PTL DEF Spec

(* Types, for any set of connects and any bound on retries and faults. *)
THEOREM TypeCorrect == Spec => []TypeOK
<1>1. IInv => TypeOK
  BY DEF IInv
<1> QED BY Inductive, <1>1, PTL

(* At most one live session per agent and datalake, for any number of      *)
(* concurrent connects, kills, sweeps and a deletion of the agent.         *)
THEOREM OneLive == Spec => []OneLiveSessionPerAgent
<1>1. IInv => OneLiveSessionPerAgent
  BY DEF IInv
<1> QED BY Inductive, <1>1, PTL

(* A row is superseded only in favour of a row that was inserted. *)
THEOREM SupersedeIsAtomic == Spec => []SupersededHasSuccessor
<1>1. IInv => SupersededHasSuccessor
  BY DEF IInv
<1> QED BY Inductive, <1>1, PTL

(* No connect, won or lost, puts the token of a live session on the        *)
(* gateway's denylist: only a kill of that session does.                   *)
THEOREM LiveTokensStayValid == Spec => []DeniedOnlyWhileKilling
<1>1. IInv => DeniedOnlyWhileKilling
  BY DEF IInv
<1> QED BY Inductive, <1>1, PTL
=============================================================================
