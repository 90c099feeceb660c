--------------------------- MODULE SessionBilling ---------------------------
(***************************************************************************)
(* Billing an organisation's agent sessions: the close paths that stamp    *)
(* ended_at, the cron sweep that expires and debits sessions, the per-     *)
(* query floor, credit-pack grants and the Stripe overage meter            *)
(* (lib/credits.ts, lib/metering.ts, routes/sessions.ts, index.ts).        *)
(*                                                                         *)
(* server.ts fires the cron every 60 s without waiting for the previous    *)
(* tick, so several sweeps run at once (Sweeps); every await of            *)
(* debitSessionDuration is a step of its own, between which the others     *)
(* run, the process may die or the database may refuse the statement.      *)
(***************************************************************************)
EXTENDS CreditLedger, FiniteSets, Functions

CONSTANTS
    Sessions,   \* agent_session rows
    Sweeps,     \* cron ticks that can be in flight at the same time
    Queries,    \* query ids
    Packs,      \* Stripe checkout sessions of credit packs
    Rate,       \* Rate[s]: micro-USD per time unit of the session's compute size
    TTL,        \* session lifetime
    Floor,      \* QUERY_FLOOR_MICRO
    PackMicro,  \* value of a credit pack
    MicroPerCent, \* MICRO_PER_USD / 100
    Batch,      \* LIMIT of the sweep's second pass
    Comped,     \* complimentary org: never cut off
    MaxTime,    \* bound on the clock
    MaxFaults   \* bound on crashes and refused statements

ASSUME BillingAssumption ==
    /\ IsFiniteSet(Sessions) /\ IsFiniteSet(Queries)
    /\ Rate \in [Sessions -> Nat]
    /\ TTL \in Nat /\ Floor \in Nat /\ PackMicro \in Nat /\ Batch \in Nat \ {0}
    /\ MicroPerCent \in Nat \ {0}
    /\ MaxTime \in Nat /\ MaxFaults \in Nat
    /\ Comped \in BOOLEAN

VARIABLES
    now,        \* the database clock
    sess,       \* waddling.agent_session
    sweep,      \* local state of the cron ticks in flight
    qry,        \* life of a query: relayed to the gateway, then debited
    meter,      \* meter[s]: the cents Stripe holds under identifier session:<s>
    paid,       \* the org has an active Stripe subscription
    faults,     \* faults so far
    reclosed    \* history: sessions whose ended_at was overwritten

procVars == <<sweep, qry>>
vars == <<bal, ledger, now, sess, sweep, qry, meter, paid, faults, reclosed>>

SessionKey(s) == <<"session", s>>
QueryKey(q) == <<"query", q>>
PackKey(p) == <<"creditpack", p>>
Keys == {SessionKey(s) : s \in Sessions} \cup {QueryKey(q) : q \in Queries}
            \cup {PackKey(p) : p \in Packs}

NoTime == -1    \* SQL NULL of a timestamp column
NoEvent == -1   \* Stripe has seen no event with this identifier

NewSession == [status |-> "none", started |-> NoTime, expires |-> NoTime,
               ended |-> NoTime, billed |-> FALSE]
Idle == [pc |-> "idle", todo |-> {}, cur |-> {}, micro |-> 0, before |-> 0]

TypeOK ==
    /\ bal \in BalanceRow
    /\ ledger \in LedgerRows(Keys)
    /\ now \in 0..MaxTime
    /\ sess \in [Sessions -> [status : {"none", "connecting", "active", "closed"},
                              started : Int, expires : Int, ended : Int, billed : BOOLEAN]]
    /\ sweep \in [Sweeps -> [pc : {"idle", "select", "next", "balance", "post", "meter", "mark"},
                             todo : SUBSET Sessions, cur : SUBSET Sessions,
                             micro : Nat, before : Int]]
    /\ qry \in [Queries -> {"new", "relayed", "done"}]
    /\ meter \in [Sessions -> Nat \cup {NoEvent}]
    /\ paid \in BOOLEAN
    /\ faults \in 0..MaxFaults
    /\ reclosed \in SUBSET Sessions

Init ==
    /\ LedgerInit
    /\ now = 0
    /\ sess = [s \in Sessions |-> NewSession]
    /\ sweep = [w \in Sweeps |-> Idle]
    /\ qry = [q \in Queries |-> "new"]
    /\ meter = [s \in Sessions |-> NoEvent]
    /\ paid \in BOOLEAN
    /\ faults = 0
    /\ reclosed = {}

IsClosed(s) == sess[s].ended # NoTime

\* Mutant: the window is not capped at expires_at.
ChargeUncapped(s) == Larger(0, sess[s].ended - sess[s].started) * Rate[s]

\* The billable window is capped at expires_at; debit and reconcile share the formula.
Charge(s) == Larger(0, Smaller(sess[s].ended, sess[s].expires) - sess[s].started) * Rate[s]

\* hasCredit: no row, money left, complimentary or paid; a database error also admits.
HasCredit == ~bal.exists \/ bal.total > 0 \/ Comped \/ paid

Fault == faults < MaxFaults /\ faults' = faults + 1

-----------------------------------------------------------------------------
(* Users, agents and Stripe.                                               *)

\* The pre-flight gate of POST /sessions.  The row is inserted awaits later.
Admit(s) ==
    /\ sess[s].status = "none"
    /\ \/ HasCredit /\ UNCHANGED faults
       \/ ~HasCredit /\ Fault
    /\ sess' = [sess EXCEPT ![s].status = "connecting"]
    /\ UNCHANGED <<bal, ledger, now, procVars, meter, paid, reclosed>>

Open(s) ==
    /\ sess[s].status = "connecting"
    /\ now + TTL < MaxTime
    /\ sess' = [sess EXCEPT ![s] = [NewSession EXCEPT !.status = "active",
                                      !.started = now, !.expires = now + TTL]]
    /\ UNCHANGED <<bal, ledger, now, procVars, meter, paid, faults, reclosed>>

\* Kill and supersede: UPDATE ... WHERE id, whatever the row's status is by now.
\* The statuses killed, superseded, revoked and expired are one here: billing never reads them.
Close(s) ==
    /\ sess[s].status \in {"active", "closed"}
    /\ sess' = [sess EXCEPT ![s].status = "closed", ![s].ended = now]
    /\ reclosed' = IF IsClosed(s) THEN reclosed \cup {s} ELSE reclosed
    /\ UNCHANGED <<bal, ledger, now, procVars, meter, paid, faults>>

\* Agent deletion: UPDATE ... WHERE status = 'active'.
RevokeActive(s) ==
    /\ sess[s].status = "active"
    /\ sess' = [sess EXCEPT ![s].status = "closed", ![s].ended = now]
    /\ UNCHANGED <<bal, ledger, now, procVars, meter, paid, faults, reclosed>>

\* Mutant: the gate is not asked.
RelayUngated(q) ==
    /\ qry[q] = "new"
    /\ \E s \in Sessions : sess[s].status = "active"
    /\ qry' = [qry EXCEPT ![q] = "relayed"]
    /\ UNCHANGED <<bal, ledger, now, sess, sweep, meter, paid, faults, reclosed>>

\* POST /:id/query passes the status check and the credit gate and is relayed; one the
\* workspace answers with an error is still charged the floor, one it never took is not.
RelayQuery(q) ==
    /\ qry[q] = "new"
    /\ \E s \in Sessions : sess[s].status = "active"
    /\ \/ HasCredit /\ UNCHANGED faults
       \/ ~HasCredit /\ Fault
    /\ qry' = [qry EXCEPT ![q] = "relayed"]
    /\ UNCHANGED <<bal, ledger, now, sess, sweep, meter, paid, reclosed>>

\* POST /:id/etl goes to the lake's own gateway behind the same two checks, and is charged
\* the same floor.
RunEtl(q) == RelayQuery(q)

\* waitUntil(debitQueryFloor): after the response, best effort.
DebitQueryFloor(q) ==
    /\ qry[q] = "relayed"
    /\ qry' = [qry EXCEPT ![q] = "done"]
    /\ IF Floor > 0 THEN PostEntry(QueryKey(q), -Floor, "topup") ELSE UNCHANGED ledgerVars
    /\ UNCHANGED <<now, sess, sweep, meter, paid, faults, reclosed>>

\* Stripe's webhook, which may deliver the same checkout again.
GrantCredits(p) ==
    /\ PostEntry(PackKey(p), PackMicro, "topup")
    /\ UNCHANGED <<now, sess, procVars, meter, paid, faults, reclosed>>

ChangeSubscription ==
    /\ paid' = ~paid
    /\ UNCHANGED <<bal, ledger, now, sess, procVars, meter, faults, reclosed>>

Tick ==
    /\ now < MaxTime
    /\ now' = now + 1
    /\ UNCHANGED <<bal, ledger, sess, procVars, meter, paid, faults, reclosed>>

-----------------------------------------------------------------------------
(* The cron sweep.  cur is the session being debited, as a set of at most  *)
(* one element.                                                            *)

AbandonedSessions == {s \in Sessions : sess[s].status = "active" /\ sess[s].expires < now}

\* Mutant: abandoned sessions are never closed.
SweepCloseNothing(w) ==
    /\ sweep[w].pc = "idle"
    /\ sweep' = [sweep EXCEPT ![w].pc = "select"]
    /\ UNCHANGED <<bal, ledger, now, sess, qry, meter, paid, faults, reclosed>>

\* Pass 1: expire every session still active past its TTL.
SweepCloseAbandoned(w) ==
    /\ sweep[w].pc = "idle"
    /\ sess' = [s \in Sessions |->
                  IF s \in AbandonedSessions
                  THEN [sess[s] EXCEPT !.status = "closed", !.ended = now]
                  ELSE sess[s]]
    /\ sweep' = [sweep EXCEPT ![w].pc = "select"]
    /\ UNCHANGED <<bal, ledger, now, qry, meter, paid, faults, reclosed>>

Unbilled == {s \in Sessions : IsClosed(s) /\ ~sess[s].billed}

\* Pass 2's SELECT: the Batch longest-closed unbilled sessions.
OldestUnbilled ==
    {b \in SUBSET Unbilled :
        /\ Cardinality(b) = Smaller(Batch, Cardinality(Unbilled))
        /\ \A s \in b, t \in Unbilled \ b : sess[s].ended <= sess[t].ended}

SweepSelect(w) ==
    /\ sweep[w].pc = "select"
    /\ \E b \in OldestUnbilled :
          sweep' = [sweep EXCEPT ![w] = [Idle EXCEPT !.pc = "next", !.todo = b]]
    /\ UNCHANGED <<bal, ledger, now, sess, qry, meter, paid, faults, reclosed>>

SweepDone(w) ==
    /\ sweep[w].pc = "next" /\ sweep[w].todo = {}
    /\ sweep' = [sweep EXCEPT ![w] = Idle]
    /\ UNCHANGED <<bal, ledger, now, sess, qry, meter, paid, faults, reclosed>>

\* debitSessionDuration reads the row; it returns at once if another tick billed it,
\* and throws, to the sweep's catch, if the read fails.
ReadSession(w) ==
    /\ sweep[w].pc = "next"
    /\ \E s \in sweep[w].todo :
          LET rest == [Idle EXCEPT !.pc = "next", !.todo = sweep[w].todo \ {s}]
          IN  \/ /\ sweep' = [sweep EXCEPT ![w] =
                      IF ~IsClosed(s) \/ sess[s].billed
                      THEN rest
                      ELSE [rest EXCEPT !.cur = {s}, !.micro = Charge(s),
                                        !.pc = IF Charge(s) > 0 THEN "balance" ELSE "mark"]]
                 /\ UNCHANGED faults
              \/ sweep' = [sweep EXCEPT ![w] = rest] /\ Fault
    /\ UNCHANGED <<bal, ledger, now, sess, qry, meter, paid, reclosed>>

\* getBalanceMicro answers 0 when the read fails.
ReadBalance(w) ==
    /\ sweep[w].pc = "balance"
    /\ \/ /\ sweep' = [sweep EXCEPT ![w].before = bal.total, ![w].pc = "post"]
          /\ UNCHANGED faults
       \/ /\ sweep' = [sweep EXCEPT ![w].before = 0, ![w].pc = "post"]
          /\ Fault
    /\ UNCHANGED <<bal, ledger, now, sess, qry, meter, paid, reclosed>>

PostDebit(w) ==
    /\ sweep[w].pc = "post"
    /\ \E s \in sweep[w].cur : PostEntry(SessionKey(s), -sweep[w].micro, "topup")
    /\ sweep' = [sweep EXCEPT ![w].pc = "meter"]
    /\ UNCHANGED <<now, sess, qry, meter, paid, faults, reclosed>>

Overage(w) == Larger(0, sweep[w].micro - Larger(0, sweep[w].before))

\* Math.round(micro / MicroPerCent): the meter counts whole cents, half a cent rounds up.
Cents(micro) == (2 * micro + MicroPerCent) \div (2 * MicroPerCent)

\* Mutant: Stripe's identifier is not passed, so a replayed event replaces the first one.
ReportOverageNoIdentifier(w) ==
    /\ sweep[w].pc = "meter"
    /\ sweep' = [sweep EXCEPT ![w].pc = "mark"]
    /\ \E s \in sweep[w].cur : meter' = [meter EXCEPT ![s] = Larger(0, @) + Cents(Overage(w))]
    /\ UNCHANGED <<bal, ledger, now, sess, qry, paid, faults, reclosed>>

\* reportComputeOverage: paid orgs only, deduplicated by Stripe on the identifier;
\* a failure is logged and swallowed, so the sweep goes on to mark the session billed.
ReportOverage(w) ==
    /\ sweep[w].pc = "meter"
    /\ sweep' = [sweep EXCEPT ![w].pc = "mark"]
    /\ \E s \in sweep[w].cur :
          IF Cents(Overage(w)) > 0 /\ paid /\ meter[s] = NoEvent
          THEN \/ meter' = [meter EXCEPT ![s] = Cents(Overage(w))] /\ UNCHANGED faults
               \/ UNCHANGED meter /\ Fault
          ELSE UNCHANGED <<meter, faults>>
    /\ UNCHANGED <<bal, ledger, now, sess, qry, paid, reclosed>>

MarkBilled(w) ==
    /\ sweep[w].pc = "mark"
    /\ sess' = [s \in Sessions |->
                  IF s \in sweep[w].cur THEN [sess[s] EXCEPT !.billed = TRUE] ELSE sess[s]]
    /\ sweep' = [sweep EXCEPT ![w] = [Idle EXCEPT !.pc = "next", !.todo = sweep[w].todo]]
    /\ UNCHANGED <<bal, ledger, now, qry, meter, paid, faults, reclosed>>

\* Mutant: billed_at is stamped in a finally block.
DebitFailsButMarks(w) ==
    /\ sweep[w].pc \in {"balance", "post", "mark"}
    /\ Fault
    /\ sess' = [s \in Sessions |->
                  IF s \in sweep[w].cur THEN [sess[s] EXCEPT !.billed = TRUE] ELSE sess[s]]
    /\ sweep' = [sweep EXCEPT ![w] = [Idle EXCEPT !.pc = "next", !.todo = sweep[w].todo]]
    /\ UNCHANGED <<bal, ledger, now, qry, meter, paid, reclosed>>

\* A statement throws: the catch of the sweep logs it and takes the next session.
DebitFails(w) ==
    /\ sweep[w].pc \in {"post", "mark"}
    /\ Fault
    /\ sweep' = [sweep EXCEPT ![w] = [Idle EXCEPT !.pc = "next", !.todo = sweep[w].todo]]
    /\ UNCHANGED <<bal, ledger, now, sess, qry, meter, paid, reclosed>>

\* The instance dies: the tick is gone, what it committed stays.
Crash(w) ==
    /\ sweep[w].pc # "idle"
    /\ Fault
    /\ sweep' = [sweep EXCEPT ![w] = Idle]
    /\ UNCHANGED <<bal, ledger, now, sess, qry, meter, paid, reclosed>>

SweepStep(w) ==
    \/ SweepCloseAbandoned(w) \/ SweepSelect(w) \/ SweepDone(w)
    \/ ReadSession(w) \/ ReadBalance(w) \/ PostDebit(w) \/ ReportOverage(w) \/ MarkBilled(w)

SessionStep(s) ==
    Admit(s) \/ Open(s) \/ Close(s) \/ RevokeActive(s)

Next ==
    \/ Tick \/ ChangeSubscription
    \/ \E s \in Sessions : SessionStep(s)
    \/ \E q \in Queries : RelayQuery(q) \/ RunEtl(q) \/ DebitQueryFloor(q)
    \/ \E p \in Packs : GrantCredits(p)
    \/ \E w \in Sweeps : SweepStep(w) \/ DebitFails(w) \/ Crash(w)

Spec == Init /\ [][Next]_vars

\* The clock runs and cron keeps ticking; users, Stripe and faults owe nothing.
FairSpec == Spec /\ WF_vars(Tick) /\ \A w \in Sweeps : WF_vars(SweepStep(w))

-----------------------------------------------------------------------------
(* What reconcileDebits flags (read-only: it is the property itself).      *)
Drift(s) ==
    /\ sess[s].billed /\ IsClosed(s)
    /\ IF Charge(s) > 0
       THEN ~HasEntry(SessionKey(s)) \/ EntryOf(SessionKey(s)).amount # -Charge(s)
       ELSE HasEntry(SessionKey(s))

(* Reconciliation finds no drift on a session that was closed once: the    *)
(* billed_at stamp implies exactly one debit, of exactly the charge the    *)
(* row re-derives, under overlapping sweeps, crashes and refused           *)
(* statements (debitSessionDuration, reconcileDebits).  A second kill      *)
(* moves ended_at of a billed row, and reconcileDebits then reports it.    *)
DriftOnlyAfterReclose == \A s \in Sessions : Drift(s) => s \in reclosed

(* No debit exceeds the session's TTL at its rate, however late the sweep  *)
(* or a second kill stamps ended_at (debitSessionDuration's cap).          *)
DebitWithinTTL ==
    \A s \in Sessions : HasEntry(SessionKey(s)) =>
        EntryOf(SessionKey(s)).amount \in -(TTL * Rate[s])..-1

(* Stripe is charged for a session only after the debit is in the ledger,  *)
(* and never for more than that debit, though the balance it takes the     *)
(* excess from was read before the post and may be stale by then; unless   *)
(* the session was closed again between two sweeps' reads.                 *)
MeterWithinDebit ==
    \A s \in Sessions : meter[s] # NoEvent /\ s \notin reclosed =>
        HasEntry(SessionKey(s)) /\ meter[s] <= Cents(-EntryOf(SessionKey(s)).amount)

\* What a session or query that was admitted can still be charged: nothing once its debit is
\* in the ledger, or it is marked billed and no sweep is on its way to post.
BeingDebited(s) == \E w \in Sweeps : s \in sweep[w].cur /\ sweep[w].pc \in {"balance", "post"}
SessionExposure ==
    [s \in Sessions |->
        IF \/ sess[s].status = "none" \/ HasEntry(SessionKey(s))
           \/ sess[s].billed /\ ~BeingDebited(s)
        THEN 0
        ELSE TTL * Rate[s]]
QueryExposure == [q \in Queries |-> IF qry[q] = "relayed" THEN Floor ELSE 0]
Exposure == SumFunction(SessionExposure) + SumFunction(QueryExposure)

(* The gate is asked when a session or query begins and the charge comes   *)
(* when it ends, so an organisation can go below zero; but once it is out  *)
(* of credit its worst final balance is settled: what was admitted before, *)
(* at the price of its full TTL, is all that can still be charged, however *)
(* sweeps, kills and retries interleave (hasCredit, debitSessionDuration). *)
DebtIsSettledAtZero ==
    [][ ~HasCredit /\ faults' = faults =>
            bal'.total - Exposure' >= bal.total - Exposure ]_vars

(* Every session that was opened is eventually billed, though no one ever  *)
(* closes it (sweepExpiredSessions: "the charge always lands here").       *)
OpenGetsBilled ==
    \A s \in Sessions : sess[s].status = "active" ~> sess[s].billed

=============================================================================
