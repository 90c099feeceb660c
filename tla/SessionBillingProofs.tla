------------------------ MODULE SessionBillingProofs ------------------------
(***************************************************************************)
(* SessionBilling for any sets of sessions, overlapping sweeps, queries    *)
(* and packs, any rates, TTL and batch: the ledger's promise, and the      *)
(* three properties that relate a session's row, the sweeps that have read *)
(* it, its debit and what Stripe was told.  The argument is about what a   *)
(* sweep carries from its read to its writes: the charge it has read is    *)
(* still the row's unless the session was closed again in between, and     *)
(* then the session is in `reclosed` for good.                             *)
(*                                                                         *)
(* What an organisation without credit can still be charged is a sum over  *)
(* its sessions and queries.  That a fold computes a sum is shown on the   *)
(* size of the set, that a sum falls with its terms on the smallest set    *)
(* where it would not.                                                     *)
(***************************************************************************)
EXTENDS SessionBilling, CreditLedgerProofs, FiniteSetTheorems, WellFoundedInduction

RowType == [status : {"none", "connecting", "active", "closed"},
            started : Int, expires : Int, ended : Int, billed : BOOLEAN]
SweepType == [pc : {"idle", "select", "next", "balance", "post", "meter", "mark"},
              todo : SUBSET Sessions, cur : SUBSET Sessions, micro : Nat, before : Int]

LedgerOK == bal \in BalanceRow /\ ledger \in LedgerRows(Keys) /\ LedgerIsBalance

\* The part of the type invariant that is not the ledger's.
RestOK ==
    /\ now \in 0..MaxTime
    /\ sess \in [Sessions -> RowType]
    /\ sweep \in [Sweeps -> SweepType]
    /\ qry \in [Queries -> {"new", "relayed", "done"}]
    /\ meter \in [Sessions -> Nat \cup {NoEvent}]
    /\ paid \in BOOLEAN
    /\ faults \in 0..MaxFaults
    /\ reclosed \in SUBSET Sessions

\* A row: its window is the TTL once it is open, ended_at is set when it is closed and only
\* then, and only a closed row is billed.
RowOK(s) ==
    /\ sess[s].status = "closed" <=> IsClosed(s)
    /\ sess[s].status \in {"active", "closed"} => sess[s].expires = sess[s].started + TTL
    /\ sess[s].billed => IsClosed(s)

\* What a sweep carries: a closed session and a charge within its TTL's price, which is the
\* row's charge unless the session was closed again; and past the post, that it was posted.
Carries(w, s) ==
    /\ IsClosed(s)
    /\ sweep[w].micro <= TTL * Rate[s]
    /\ s \notin reclosed => sweep[w].micro = Charge(s)
    /\ sweep[w].pc # "mark" => sweep[w].micro > 0
    /\ sweep[w].pc \in {"meter", "mark"} /\ sweep[w].micro > 0 => HasEntry(SessionKey(s))

SweepOK(w) ==
    sweep[w].pc \in {"balance", "post", "meter", "mark"} =>
        \E s \in Sessions : sweep[w].cur = {s} /\ Carries(w, s)

\* A debit: of a closed session, within its TTL's price, and the row's charge unless the
\* session was closed again.
DebitOK(s) ==
    HasEntry(SessionKey(s)) =>
        /\ IsClosed(s)
        /\ EntryOf(SessionKey(s)).amount \in -(TTL * Rate[s])..-1
        /\ s \notin reclosed => EntryOf(SessionKey(s)).amount = -Charge(s)

\* The stamp comes after the debit.
BilledOK(s) == sess[s].billed /\ s \notin reclosed /\ Charge(s) > 0 => HasEntry(SessionKey(s))

MeterOK(s) ==
    meter[s] # NoEvent /\ s \notin reclosed =>
        HasEntry(SessionKey(s)) /\ meter[s] <= Cents(-EntryOf(SessionKey(s)).amount)

BillingOK ==
    /\ \A s \in Sessions : RowOK(s) /\ DebitOK(s) /\ BilledOK(s) /\ MeterOK(s)
    /\ \A w \in Sweeps : SweepOK(w)

IInv == RestOK /\ LedgerOK /\ BillingOK

-----------------------------------------------------------------------------
(* Arithmetic: the price of a window, and the meter's cents.               *)

LEMMA TimesMonotone ==
    ASSUME NEW a \in Nat, NEW b \in Nat, NEW r \in Nat, a <= b
    PROVE  a * r \in Nat /\ a * r <= b * r
<1>1. b - a \in Nat /\ (b - a) * r >= 0
  OBVIOUS
<1>2. b * r = a * r + (b - a) * r
  OBVIOUS
<1> QED BY <1>1, <1>2

LEMMA DivMonotone ==
    ASSUME NEW x \in Nat, NEW y \in Nat, NEW k \in Nat \ {0}, x <= y
    PROVE  x \div k \in Nat /\ x \div k <= y \div k
OBVIOUS

LEMMA CentsMonotone ==
    ASSUME NEW a \in Nat, NEW b \in Nat, a <= b
    PROVE  Cents(a) \in Nat /\ Cents(a) <= Cents(b)
<1>1. 2 * MicroPerCent \in Nat \ {0}
  BY BillingAssumption
<1>2. 2 * a + MicroPerCent \in Nat /\ 2 * b + MicroPerCent \in Nat
      /\ 2 * a + MicroPerCent <= 2 * b + MicroPerCent
  BY BillingAssumption
<1> QED BY <1>1, <1>2, DivMonotone DEF Cents

(* A closed session is charged for at most its TTL. *)
LEMMA ChargeWithinTTL ==
    ASSUME RestOK, NEW s \in Sessions, RowOK(s), IsClosed(s)
    PROVE  Charge(s) \in Nat /\ Charge(s) <= TTL * Rate[s]
<1> DEFINE window == Larger(0, Smaller(sess[s].ended, sess[s].expires) - sess[s].started)
<1>1. /\ sess[s].ended \in Int /\ sess[s].started \in Int
      /\ sess[s].expires = sess[s].started + TTL
      /\ TTL \in Nat /\ Rate[s] \in Nat
  BY BillingAssumption DEF RestOK, RowType, RowOK
<1>2. window \in Nat /\ window <= TTL
  BY <1>1 DEF Larger, Smaller
<1>3. Charge(s) = window * Rate[s]
  BY DEF Charge
<1> HIDE DEF window
<1> QED BY <1>1, <1>2, <1>3, TimesMonotone

LEMMA KeysApart ==
    /\ \A s, t \in Sessions : SessionKey(s) = SessionKey(t) => s = t
    /\ \A s \in Sessions, q \in Queries : SessionKey(s) # QueryKey(q)
    /\ \A s \in Sessions, p \in Packs : SessionKey(s) # PackKey(p)
BY DEF SessionKey, QueryKey, PackKey

-----------------------------------------------------------------------------
(* What a step leaves alone.                                               *)

\* Nothing of the session changes.
Same(s) ==
    /\ sess'[s] = sess[s] /\ meter'[s] = meter[s]
    /\ s \notin reclosed' => s \notin reclosed
    /\ HasEntry(SessionKey(s))' <=> HasEntry(SessionKey(s))
    /\ HasEntry(SessionKey(s)) => EntryOf(SessionKey(s))' = EntryOf(SessionKey(s))

\* Nothing a sweep carries of the session is lost.
Forward(s) ==
    /\ IsClosed(s) => IsClosed(s)' /\ (s \notin reclosed' => Charge(s)' = Charge(s))
    /\ s \notin reclosed' => s \notin reclosed
    /\ HasEntry(SessionKey(s)) => HasEntry(SessionKey(s))'

SessionOK(s) == RowOK(s) /\ DebitOK(s) /\ BilledOK(s) /\ MeterOK(s)

LEMMA SameSession ==
    ASSUME NEW s \in Sessions, SessionOK(s), Same(s)
    PROVE  SessionOK(s)' /\ Forward(s)
BY DEF SessionOK, RowOK, DebitOK, BilledOK, MeterOK, Same, Forward, IsClosed, Charge

LEMMA SameSweep ==
    ASSUME NEW w \in Sweeps, SweepOK(w), sweep'[w] = sweep[w], \A s \in Sessions : Forward(s)
    PROVE  SweepOK(w)'
<1> SUFFICES ASSUME sweep[w].pc \in {"balance", "post", "meter", "mark"}
             PROVE  \E s \in Sessions : sweep'[w].cur = {s} /\ Carries(w, s)'
  BY DEF SweepOK
<1>1. PICK s \in Sessions : sweep[w].cur = {s} /\ Carries(w, s)
  BY DEF SweepOK
<1>2. Carries(w, s)'
  BY <1>1 DEF Carries, Forward
<1> QED BY <1>1, <1>2

LEMMA SameLedger ==
    ASSUME UNCHANGED ledger
    PROVE  \A k : (HasEntry(k)' <=> HasEntry(k)) /\ EntryOf(k)' = EntryOf(k)
BY DEF HasEntry, EntryOf

(* A step that touches no row, entry or meter event. *)
LEMMA QuietStep ==
    ASSUME BillingOK, UNCHANGED <<ledger, sess, meter, reclosed>>
    PROVE  /\ \A s \in Sessions : SessionOK(s)' /\ Forward(s)
           /\ \A w \in Sweeps : sweep'[w] = sweep[w] => SweepOK(w)'
<1>1. ASSUME NEW s \in Sessions PROVE SessionOK(s)' /\ Forward(s)
  <2>1. Same(s)
    BY SameLedger DEF Same
  <2> QED BY <2>1, SameSession DEF BillingOK, SessionOK
<1> QED BY <1>1, SameSweep DEF BillingOK

(* postEntry, seen from the sessions: no entry is lost or rewritten, and   *)
(* only the posted key can be new.                                         *)
LEMMA PostEntrySeen ==
    ASSUME NEW key \in Keys, NEW amount \in Int, NEW bucket, LedgerOK,
           PostEntry(key, amount, bucket)
    PROVE  /\ LedgerOK'
           /\ HasEntry(key)'
           /\ ~HasEntry(key) => EntryOf(key)'.amount = amount
           /\ \A k : k # key => (HasEntry(k)' <=> HasEntry(k))
           /\ \A k : HasEntry(k) => HasEntry(k)' /\ EntryOf(k)' = EntryOf(k)
<1>1. LedgerOK' /\ LedgerGrows
  BY PostEntryKeepsLedger DEF LedgerOK
<1>2. /\ HasEntry(key)'
      /\ ~HasEntry(key) => EntryOf(key)'.amount = amount
      /\ \A k : k # key => (HasEntry(k)' <=> HasEntry(k))
  BY PostEntryEnters DEF LedgerOK
<1>3. ASSUME NEW k, HasEntry(k) PROVE HasEntry(k)' /\ EntryOf(k)' = EntryOf(k)
  BY <1>1, <1>3, EntryStays DEF LedgerOK
<1> QED BY <1>1, <1>2, <1>3

-----------------------------------------------------------------------------
(* Types.                                                                  *)

\* A sweep between two sessions.
LEMMA Resting ==
    ASSUME NEW b \in SUBSET Sessions
    PROVE  /\ [Idle EXCEPT !.pc = "next", !.todo = b] \in SweepType
           /\ [Idle EXCEPT !.pc = "next", !.todo = b].pc = "next"
<1>1. Idle \in SweepType
  BY DEF Idle, SweepType
<1> QED BY <1>1 DEF SweepType

(* What ReportOverage may send to Stripe: never more than the charge. *)
LEMMA OverageWithinCharge ==
    ASSUME NEW w \in Sweeps, sweep[w].micro \in Nat, sweep[w].before \in Int
    PROVE  Cents(Overage(w)) \in Nat /\ Cents(Overage(w)) <= Cents(sweep[w].micro)
<1>1. Overage(w) \in Nat /\ Overage(w) <= sweep[w].micro
  BY DEF Overage, Larger
<1> QED BY <1>1, CentsMonotone

LEMMA StepKeepsRest == ASSUME RestOK, BillingOK, [Next]_vars PROVE RestOK'
<1> USE DEF RestOK
<1>0. /\ MaxTime \in Nat /\ MaxFaults \in Nat /\ TTL \in Nat
      /\ now \in Int /\ faults \in Int /\ 0 <= now /\ 0 <= faults
      /\ Idle \in SweepType /\ NewSession \in RowType /\ NoTime \in Int
  BY BillingAssumption DEF Idle, NewSession, SweepType, RowType, NoTime
<1>f. Fault => faults' \in 0..MaxFaults
  BY <1>0 DEF Fault
<1>1. CASE Tick
  BY <1>1, <1>0 DEF Tick, procVars
<1>2. CASE ChangeSubscription
  BY <1>2 DEF ChangeSubscription, procVars
<1>3. ASSUME NEW s \in Sessions, SessionStep(s) PROVE RestOK'
  <2>1. CASE Admit(s)
    BY <2>1, <1>f DEF Admit, procVars, RowType
  <2>2. CASE Open(s)
    <3>1. now + TTL \in Int
      BY <1>0
    <3>2. sess' \in [Sessions -> RowType]
      BY <2>2, <1>0, <3>1 DEF Open, RowType
    <3> QED BY <2>2, <3>2 DEF Open, procVars
  <2>3. CASE Close(s)
    BY <2>3, <1>0 DEF Close, procVars, RowType
  <2>4. CASE RevokeActive(s)
    BY <2>4, <1>0 DEF RevokeActive, procVars, RowType
  <2> QED BY <1>3, <2>1, <2>2, <2>3, <2>4 DEF SessionStep
<1>4. ASSUME NEW q \in Queries, RelayQuery(q) \/ RunEtl(q) \/ DebitQueryFloor(q) PROVE RestOK'
  BY <1>4, <1>f DEF RelayQuery, RunEtl, DebitQueryFloor
<1>5. ASSUME NEW p \in Packs, GrantCredits(p) PROVE RestOK'
  BY <1>5 DEF GrantCredits, procVars
<1>6. ASSUME NEW w \in Sweeps, SweepStep(w) \/ DebitFails(w) \/ Crash(w) PROVE RestOK'
  <2>0. sweep[w] \in SweepType
    OBVIOUS
  <2>1. CASE SweepCloseAbandoned(w)
    <3>1. sess' \in [Sessions -> RowType]
      BY <2>1, <1>0 DEF SweepCloseAbandoned, RowType
    <3>2. [sweep[w] EXCEPT !.pc = "select"] \in SweepType
      BY <2>0 DEF SweepType
    <3>3. sweep' = [sweep EXCEPT ![w] = [sweep[w] EXCEPT !.pc = "select"]]
      BY <2>1 DEF SweepCloseAbandoned
    <3>4. sweep' \in [Sweeps -> SweepType]
      BY <3>2, <3>3
    <3> QED BY <2>1, <3>1, <3>4 DEF SweepCloseAbandoned
  <2>2. CASE SweepSelect(w)
    <3>1. PICK b \in OldestUnbilled :
             sweep' = [sweep EXCEPT ![w] = [Idle EXCEPT !.pc = "next", !.todo = b]]
      BY <2>2 DEF SweepSelect
    <3>2. b \in SUBSET Sessions
      BY DEF OldestUnbilled, Unbilled
    <3>3. [Idle EXCEPT !.pc = "next", !.todo = b] \in SweepType
      BY <3>2, Resting
    <3> QED BY <2>2, <3>1, <3>3 DEF SweepSelect
  <2>3. CASE SweepDone(w)
    BY <2>3, <1>0 DEF SweepDone
  <2>4. CASE ReadSession(w)
    <3>1. PICK s \in sweep[w].todo :
            LET rest == [Idle EXCEPT !.pc = "next", !.todo = sweep[w].todo \ {s}]
            IN  \/ /\ sweep' = [sweep EXCEPT ![w] =
                        IF ~IsClosed(s) \/ sess[s].billed
                        THEN rest
                        ELSE [rest EXCEPT !.cur = {s}, !.micro = Charge(s),
                                  !.pc = IF Charge(s) > 0 THEN "balance" ELSE "mark"]]
                   /\ UNCHANGED faults
                \/ sweep' = [sweep EXCEPT ![w] = rest] /\ Fault
      BY <2>4 DEF ReadSession
    <3> DEFINE rest == [Idle EXCEPT !.pc = "next", !.todo = sweep[w].todo \ {s}]
               carrying == [rest EXCEPT !.cur = {s}, !.micro = Charge(s),
                                  !.pc = IF Charge(s) > 0 THEN "balance" ELSE "mark"]
    <3>2. s \in Sessions /\ rest \in SweepType
      BY <2>0, Resting DEF SweepType
    <3>3. IsClosed(s) => carrying \in SweepType
      BY <3>2, ChargeWithinTTL DEF BillingOK, Idle, SweepType
    <3> HIDE DEF rest, carrying
    <3>4. \E v \in SweepType : sweep' = [sweep EXCEPT ![w] = v]
      BY <3>1, <3>2, <3>3 DEF rest, carrying
    <3>5. faults' \in 0..MaxFaults
      BY <3>1, <1>f
    <3> QED BY <2>4, <3>4, <3>5 DEF ReadSession
  <2>5. CASE ReadBalance(w)
    BY <2>5, <2>0, <1>f DEF ReadBalance, SweepType
  <2>6. CASE PostDebit(w)
    BY <2>6, <2>0 DEF PostDebit, SweepType
  <2>7. CASE ReportOverage(w)
    <3>1. Cents(Overage(w)) \in Nat
      BY <2>0, OverageWithinCharge DEF SweepType
    <3>2. sweep' \in [Sweeps -> SweepType]
      BY <2>7, <2>0 DEF ReportOverage, SweepType
    <3>3. meter' \in [Sessions -> Nat \cup {NoEvent}] /\ faults' \in 0..MaxFaults
      BY <2>7, <3>1, <1>f DEF ReportOverage
    <3> QED BY <2>7, <3>2, <3>3 DEF ReportOverage
  <2>8. CASE MarkBilled(w)
    <3>1. sweep' \in [Sweeps -> SweepType]
      BY <2>8, <2>0, Resting DEF MarkBilled, SweepType
    <3>2. \A s \in Sessions : [sess[s] EXCEPT !.billed = TRUE] \in RowType
      BY DEF RowType
    <3>3. sess' \in [Sessions -> RowType]
      BY <2>8, <3>2 DEF MarkBilled
    <3> QED BY <2>8, <3>1, <3>3 DEF MarkBilled
  <2>9. CASE DebitFails(w)
    <3>1. sweep' \in [Sweeps -> SweepType]
      BY <2>9, <2>0, Resting DEF DebitFails, SweepType
    <3> QED BY <2>9, <3>1, <1>f DEF DebitFails
  <2>10. CASE Crash(w)
    BY <2>10, <1>0, <1>f DEF Crash
  <2> QED BY <1>6, <2>1, <2>2, <2>3, <2>4, <2>5, <2>6, <2>7, <2>8, <2>9, <2>10 DEF SweepStep
<1>7. CASE UNCHANGED vars
  BY <1>7 DEF vars, procVars
<1> QED BY <1>1, <1>2, <1>3, <1>4, <1>5, <1>6, <1>7 DEF Next

-----------------------------------------------------------------------------
(* The ledger: a step posts under a session's, a query's or a pack's key,  *)
(* or leaves it alone.                                                     *)

LEMMA StepKeepsLedger ==
    ASSUME RestOK, LedgerOK, [Next]_vars
    PROVE  LedgerOK' /\ LedgerGrows /\ Books
<1>1. ASSUME NEW key \in Keys, NEW amount \in Int, PostEntry(key, amount, "topup")
      PROVE  LedgerOK' /\ LedgerGrows /\ Books
  BY <1>1, PostEntryKeepsLedger, PostEntryBooks DEF LedgerOK
<1>2. ASSUME UNCHANGED ledgerVars
      PROVE  LedgerOK' /\ LedgerGrows /\ Books
  <2>1. LedgerOK'
    BY <1>2 DEF LedgerOK, ledgerVars, LedgerIsBalance, BalanceBefore
  <2>2. LedgerGrows
    BY <1>2 DEF LedgerOK, LedgerRows, LedgerGrows, ledgerVars
  <2> QED BY <1>2, <2>1, <2>2, NoEntryBooks
<1>3. CASE Tick \/ ChangeSubscription
  BY <1>2, <1>3 DEF Tick, ChangeSubscription, ledgerVars
<1>4. ASSUME NEW s \in Sessions, SessionStep(s) PROVE UNCHANGED ledgerVars
  BY <1>4 DEF SessionStep, Admit, Open, Close, RevokeActive, ledgerVars
<1>5. ASSUME NEW q \in Queries, RelayQuery(q) \/ RunEtl(q) \/ DebitQueryFloor(q)
      PROVE  LedgerOK' /\ LedgerGrows /\ Books
  <2>1. CASE DebitQueryFloor(q)
    <3>1. QueryKey(q) \in Keys /\ -Floor \in Int
      BY BillingAssumption DEF Keys
    <3> QED BY <1>1, <1>2, <2>1, <3>1 DEF DebitQueryFloor
  <2>2. CASE RelayQuery(q) \/ RunEtl(q)
    BY <1>2, <2>2 DEF RelayQuery, RunEtl, ledgerVars
  <2> QED BY <1>5, <2>1, <2>2
<1>6. ASSUME NEW p \in Packs, GrantCredits(p) PROVE LedgerOK' /\ LedgerGrows /\ Books
  <2>1. PackKey(p) \in Keys /\ PackMicro \in Int
    BY BillingAssumption DEF Keys
  <2> QED BY <1>1, <1>6, <2>1 DEF GrantCredits
<1>7. ASSUME NEW w \in Sweeps, SweepStep(w) \/ DebitFails(w) \/ Crash(w)
      PROVE  LedgerOK' /\ LedgerGrows /\ Books
  <2>1. CASE PostDebit(w)
    <3>1. PICK s \in sweep[w].cur : PostEntry(SessionKey(s), -sweep[w].micro, "topup")
      BY <2>1 DEF PostDebit
    <3>2. sweep[w].cur \subseteq Sessions /\ sweep[w].micro \in Nat
      BY DEF RestOK, SweepType
    <3>3. SessionKey(s) \in Keys /\ -sweep[w].micro \in Int
      BY <3>2 DEF Keys
    <3> QED BY <1>1, <3>1, <3>3
  <2>2. CASE ~PostDebit(w)
    <3>1. UNCHANGED ledgerVars
      BY <1>7, <2>2 DEF SweepStep, SweepCloseAbandoned, SweepSelect, SweepDone, ReadSession,
            ReadBalance, ReportOverage, MarkBilled, DebitFails, Crash, ledgerVars
    <3> QED BY <1>2, <3>1
  <2> QED BY <2>1, <2>2
<1>8. CASE UNCHANGED vars
  BY <1>2, <1>8 DEF vars, ledgerVars
<1> QED BY <1>2, <1>3, <1>4, <1>5, <1>6, <1>7, <1>8 DEF Next

-----------------------------------------------------------------------------
(* The sessions' steps.                                                    *)

(* A row that is not closed has no debit, no stamp and no event to keep in *)
(* step with.                                                              *)
LEMMA OpenRow ==
    ASSUME NEW s \in Sessions, SessionOK(s), ~IsClosed(s), RowOK(s)', ~sess'[s].billed,
           UNCHANGED ledger, meter'[s] = meter[s], s \notin reclosed' => s \notin reclosed
    PROVE  SessionOK(s)' /\ Forward(s)
<1>1. ~HasEntry(SessionKey(s)) /\ ~HasEntry(SessionKey(s))'
  BY SameLedger DEF SessionOK, DebitOK
<1> QED BY <1>1 DEF SessionOK, DebitOK, BilledOK, MeterOK, Forward

LEMMA SessionStepKeepsBilling ==
    ASSUME IInv, NEW s \in Sessions, SessionStep(s)
    PROVE  BillingOK'
<1> SUFFICES \A t \in Sessions : SessionOK(t)' /\ Forward(t)
  <2>1. sweep' = sweep
    BY DEF SessionStep, Admit, Open, Close, RevokeActive, procVars
  <2> QED BY <2>1, SameSweep DEF IInv, BillingOK, SessionOK
<1>1. UNCHANGED <<ledger, meter>> /\ reclosed \subseteq reclosed'
  BY DEF SessionStep, Admit, Open, Close, RevokeActive
<1>2. \A t \in Sessions : sess[t] \in RowType /\ SessionOK(t)
  BY DEF IInv, RestOK, BillingOK, SessionOK
<1>3. ASSUME NEW t \in Sessions, t # s PROVE SessionOK(t)' /\ Forward(t)
  <2>1. sess'[t] = sess[t]
    BY <1>3 DEF IInv, RestOK, SessionStep, Admit, Open, Close, RevokeActive
  <2>2. Same(t)
    BY <1>1, <2>1, SameLedger DEF Same
  <2> QED BY <1>2, <2>2, SameSession
<1>4. now \in Nat /\ now # NoTime /\ TTL \in Nat
  BY BillingAssumption DEF IInv, RestOK, NoTime
<1>5. sess \in [Sessions -> RowType]
  BY DEF IInv, RestOK
<1>6. CASE Admit(s)
  <2>1. sess[s].status = "none" /\ sess'[s] = [sess[s] EXCEPT !.status = "connecting"]
    BY <1>5, <1>6 DEF Admit
  <2>2. ~IsClosed(s) /\ ~sess'[s].billed /\ RowOK(s)'
    BY <1>2, <2>1 DEF SessionOK, RowOK, IsClosed, RowType
  <2> QED BY <1>1, <1>2, <1>3, <2>2, OpenRow
<1>7. CASE Open(s)
  <2>1. /\ sess[s].status = "connecting"
        /\ sess'[s] = [NewSession EXCEPT !.status = "active", !.started = now,
                                         !.expires = now + TTL]
    BY <1>5, <1>7 DEF Open
  <2>2. now + TTL \in Int /\ now \in Int
    BY <1>4
  <2>3. /\ sess'[s].status = "active" /\ sess'[s].started = now
        /\ sess'[s].expires = now + TTL /\ sess'[s].ended = NoTime /\ ~sess'[s].billed
    <3>1. NewSession \in RowType /\ NewSession.ended = NoTime /\ ~NewSession.billed
      BY DEF NewSession, RowType, NoTime
    <3> QED BY <2>1, <2>2, <3>1 DEF RowType
  <2>4. ~IsClosed(s)
    BY <1>2, <2>1 DEF SessionOK, RowOK
  <2>5. RowOK(s)'
    BY <2>3 DEF RowOK, IsClosed
  <2> QED BY <1>1, <1>2, <1>3, <2>3, <2>4, <2>5, OpenRow
<1>8. CASE RevokeActive(s) \/ Close(s)
  <2>1. /\ sess[s].status \in {"active", "closed"}
        /\ sess'[s] = [sess[s] EXCEPT !.status = "closed", !.ended = now]
    BY <1>5, <1>8 DEF RevokeActive, Close
  <2>2. /\ sess'[s].status = "closed" /\ sess'[s].ended = now
        /\ sess'[s].started = sess[s].started /\ sess'[s].expires = sess[s].expires
        /\ sess'[s].billed = sess[s].billed
    BY <1>2, <2>1 DEF RowType
  <2>3. RowOK(s)' /\ IsClosed(s)'
    BY <1>2, <1>4, <2>1, <2>2 DEF SessionOK, RowOK, IsClosed
  <2>4. CASE IsClosed(s)
    <3>1. s \in reclosed'
      BY <1>2, <1>8, <2>4 DEF RevokeActive, Close, SessionOK, RowOK
    <3>2. DebitOK(s)'
      BY <1>1, <1>2, <2>3, <3>1, SameLedger DEF SessionOK, DebitOK
    <3>3. BilledOK(s)' /\ MeterOK(s)'
      BY <3>1 DEF BilledOK, MeterOK
    <3>4. Forward(s)
      BY <1>1, <2>3, <3>1, SameLedger DEF Forward
    <3>5. SessionOK(s)'
      BY <2>3, <3>2, <3>3 DEF SessionOK
    <3> QED BY <1>3, <3>4, <3>5
  <2>5. CASE ~IsClosed(s)
    <3>1. ~sess'[s].billed
      BY <1>2, <2>2, <2>5 DEF SessionOK, RowOK
    <3> QED BY <1>1, <1>2, <1>3, <2>3, <2>5, <3>1, OpenRow
  <2> QED BY <2>4, <2>5
<1> QED BY <1>6, <1>7, <1>8 DEF SessionStep

-----------------------------------------------------------------------------
(* The sweeps' steps.                                                      *)

LEMMA SweepCloseKeepsBilling ==
    ASSUME IInv, NEW w \in Sweeps, SweepCloseAbandoned(w)
    PROVE  BillingOK'
<1>1. \A t \in Sessions : sess[t] \in RowType /\ SessionOK(t)
  BY DEF IInv, RestOK, BillingOK, SessionOK
<1>2. now # NoTime
  BY DEF IInv, RestOK, NoTime
<1>3. ASSUME NEW s \in Sessions PROVE SessionOK(s)' /\ Forward(s)
  <2>1. CASE s \in AbandonedSessions
    <3>1. /\ sess[s].status = "active"
          /\ sess'[s] = [sess[s] EXCEPT !.status = "closed", !.ended = now]
      BY <2>1 DEF SweepCloseAbandoned, AbandonedSessions
    <3>2. /\ sess'[s].status = "closed" /\ sess'[s].ended = now
          /\ sess'[s].started = sess[s].started /\ sess'[s].expires = sess[s].expires
          /\ sess'[s].billed = sess[s].billed
      BY <1>1, <3>1 DEF RowType
    <3>3. ~IsClosed(s) /\ ~sess'[s].billed /\ RowOK(s)'
      BY <1>1, <1>2, <3>1, <3>2 DEF SessionOK, RowOK, IsClosed
    <3> QED BY <1>1, <3>3, OpenRow DEF SweepCloseAbandoned
  <2>2. CASE s \notin AbandonedSessions
    <3>1. Same(s)
      BY <2>2, SameLedger DEF SweepCloseAbandoned, Same
    <3> QED BY <1>1, <3>1, SameSession
  <2> QED BY <2>1, <2>2
<1>4. ASSUME NEW v \in Sweeps PROVE SweepOK(v)'
  <2>1. CASE v = w
    <3>1. sweep'[w].pc = "select"
      BY DEF IInv, RestOK, SweepType, SweepCloseAbandoned
    <3> QED BY <2>1, <3>1 DEF SweepOK
  <2>2. CASE v # w
    <3>1. sweep'[v] = sweep[v]
      BY <2>2 DEF IInv, RestOK, SweepCloseAbandoned
    <3> QED BY <1>3, <3>1, SameSweep DEF IInv, BillingOK
  <2> QED BY <2>1, <2>2
<1> QED BY <1>3, <1>4 DEF BillingOK, SessionOK

(* debitSessionDuration's read: what the sweep now carries is the row's.   *)
LEMMA ReadSessionKeepsBilling ==
    ASSUME IInv, NEW w \in Sweeps, ReadSession(w)
    PROVE  BillingOK'
<1>1. /\ \A s \in Sessions : SessionOK(s)' /\ Forward(s)
      /\ \A v \in Sweeps : sweep'[v] = sweep[v] => SweepOK(v)'
  BY QuietStep DEF IInv, ReadSession
<1>2. \A v \in Sweeps \ {w} : sweep'[v] = sweep[v]
  BY DEF IInv, RestOK, ReadSession
<1>3. SweepOK(w)'
  <2>1. PICK s \in sweep[w].todo :
          LET rest == [Idle EXCEPT !.pc = "next", !.todo = sweep[w].todo \ {s}]
          IN  \/ sweep' = [sweep EXCEPT ![w] =
                      IF ~IsClosed(s) \/ sess[s].billed
                      THEN rest
                      ELSE [rest EXCEPT !.cur = {s}, !.micro = Charge(s),
                                !.pc = IF Charge(s) > 0 THEN "balance" ELSE "mark"]]
              \/ sweep' = [sweep EXCEPT ![w] = rest]
    BY DEF ReadSession
  <2> DEFINE rest == [Idle EXCEPT !.pc = "next", !.todo = sweep[w].todo \ {s}]
             carrying == [rest EXCEPT !.cur = {s}, !.micro = Charge(s),
                                !.pc = IF Charge(s) > 0 THEN "balance" ELSE "mark"]
  <2>2. s \in Sessions /\ rest \in SweepType /\ rest.pc = "next"
    BY Resting DEF IInv, RestOK, SweepType
  <2>3. /\ carrying.cur = {s} /\ carrying.micro = Charge(s)
        /\ carrying.pc = IF Charge(s) > 0 THEN "balance" ELSE "mark"
    <3> HIDE DEF rest
    <3> QED BY <2>2 DEF SweepType
  <2> HIDE DEF rest, carrying
  <2>4. sweep'[w] = rest \/ (IsClosed(s) /\ sweep'[w] = carrying)
    BY <2>1 DEF IInv, RestOK, rest, carrying
  <2>5. CASE sweep'[w] = rest
    BY <2>2, <2>5 DEF SweepOK
  <2>6. CASE IsClosed(s) /\ sweep'[w] = carrying
    <3>1. Charge(s) \in Nat /\ Charge(s) <= TTL * Rate[s]
      BY <2>2, <2>6, ChargeWithinTTL DEF IInv, BillingOK
    <3>2. IsClosed(s)' /\ (s \notin reclosed' => Charge(s)' = Charge(s))
      BY <1>1, <2>2, <2>6 DEF Forward
    <3>3. Carries(w, s)'
      BY <2>3, <2>6, <3>1, <3>2 DEF Carries
    <3> QED BY <2>2, <2>3, <2>6, <3>3 DEF SweepOK
  <2> QED BY <2>4, <2>5, <2>6
<1> QED BY <1>1, <1>2, <1>3 DEF BillingOK, SessionOK

LEMMA ReadBalanceKeepsBilling ==
    ASSUME IInv, NEW w \in Sweeps, ReadBalance(w)
    PROVE  BillingOK'
<1>1. /\ \A s \in Sessions : SessionOK(s)' /\ Forward(s)
      /\ \A v \in Sweeps : sweep'[v] = sweep[v] => SweepOK(v)'
  BY QuietStep DEF IInv, ReadBalance
<1>2. \A v \in Sweeps \ {w} : sweep'[v] = sweep[v]
  BY DEF IInv, RestOK, ReadBalance
<1>3. SweepOK(w)'
  <2>1. PICK s \in Sessions : sweep[w].cur = {s} /\ Carries(w, s)
    BY DEF IInv, BillingOK, SweepOK, ReadBalance
  <2>2. /\ sweep[w].pc = "balance" /\ sweep'[w].pc = "post"
        /\ sweep'[w].cur = sweep[w].cur /\ sweep'[w].micro = sweep[w].micro
    BY DEF IInv, RestOK, SweepType, ReadBalance
  <2>3. Carries(w, s)'
    BY <1>1, <2>1, <2>2 DEF Carries, Forward
  <2> QED BY <2>1, <2>2, <2>3 DEF SweepOK
<1> QED BY <1>1, <1>2, <1>3 DEF BillingOK, SessionOK

(* The sweep lets go of its session: done, failed, died or only selecting. *)
LEMMA SweepLetsGo ==
    ASSUME IInv, NEW w \in Sweeps,
           SweepSelect(w) \/ SweepDone(w) \/ DebitFails(w) \/ Crash(w)
    PROVE  BillingOK'
<1>1. /\ \A s \in Sessions : SessionOK(s)' /\ Forward(s)
      /\ \A v \in Sweeps : sweep'[v] = sweep[v] => SweepOK(v)'
  <2>1. UNCHANGED <<ledger, sess, meter, reclosed>>
    BY DEF SweepSelect, SweepDone, DebitFails, Crash
  <2> QED BY <2>1, QuietStep DEF IInv
<1>2. \A v \in Sweeps \ {w} : sweep'[v] = sweep[v]
  BY DEF IInv, RestOK, SweepSelect, SweepDone, DebitFails, Crash
<1>3. sweep'[w].pc \in {"idle", "next"}
  <2>1. CASE SweepSelect(w)
    <3>1. PICK b \in OldestUnbilled :
             sweep' = [sweep EXCEPT ![w] = [Idle EXCEPT !.pc = "next", !.todo = b]]
      BY <2>1 DEF SweepSelect
    <3>2. b \in SUBSET Sessions
      BY DEF OldestUnbilled, Unbilled
    <3> QED BY <3>1, <3>2, Resting DEF IInv, RestOK
  <2>2. CASE DebitFails(w)
    BY <2>2, Resting DEF IInv, RestOK, SweepType, DebitFails
  <2>3. CASE SweepDone(w) \/ Crash(w)
    BY <2>3 DEF IInv, RestOK, SweepDone, Crash, Idle
  <2> QED BY <2>1, <2>2, <2>3
<1>4. SweepOK(w)'
  BY <1>3 DEF SweepOK
<1> QED BY <1>1, <1>2, <1>4 DEF BillingOK, SessionOK

(* The debit: posted under the session's key with the charge the sweep     *)
(* carries, or a replay of another sweep's.                                *)
LEMMA PostDebitKeepsBilling ==
    ASSUME IInv, NEW w \in Sweeps, PostDebit(w)
    PROVE  BillingOK'
<1>1. /\ sweep[w].pc = "post" /\ sweep[w].micro \in Nat
      /\ sweep'[w].pc = "meter"
      /\ sweep'[w].cur = sweep[w].cur /\ sweep'[w].micro = sweep[w].micro
      /\ \A v \in Sweeps \ {w} : sweep'[v] = sweep[v]
      /\ UNCHANGED <<sess, meter, reclosed>>
  BY DEF IInv, RestOK, SweepType, PostDebit
<1>2. PICK s \in Sessions : sweep[w].cur = {s} /\ Carries(w, s)
  BY <1>1 DEF IInv, BillingOK, SweepOK
<1> DEFINE key == SessionKey(s)
<1>3. PostEntry(key, -sweep[w].micro, "topup")
  BY <1>2 DEF PostDebit
<1>4. key \in Keys /\ -sweep[w].micro \in Int
  BY <1>1 DEF Keys
<1>5. /\ HasEntry(key)'
      /\ ~HasEntry(key) => EntryOf(key)'.amount = -sweep[w].micro
      /\ \A k : k # key => (HasEntry(k)' <=> HasEntry(k))
      /\ \A k : HasEntry(k) => HasEntry(k)' /\ EntryOf(k)' = EntryOf(k)
  BY <1>3, <1>4, PostEntrySeen DEF IInv
<1>6. \A t \in Sessions : sess[t] \in RowType /\ SessionOK(t)
  BY DEF IInv, RestOK, BillingOK, SessionOK
<1>7. ASSUME NEW t \in Sessions, t # s \/ HasEntry(key) PROVE SessionOK(t)' /\ Forward(t)
  <2>1. HasEntry(SessionKey(t))' <=> HasEntry(SessionKey(t))
    BY <1>5, <1>7, KeysApart
  <2>2. Same(t)
    BY <1>1, <1>5, <2>1 DEF Same
  <2> QED BY <1>6, <2>2, SameSession
<1>8. ASSUME ~HasEntry(key) PROVE SessionOK(s)' /\ Forward(s)
  <2>1. EntryOf(SessionKey(s))'.amount = -sweep[w].micro
    BY <1>5, <1>8
  <2>2. /\ IsClosed(s)' /\ Charge(s)' = Charge(s)
        /\ sweep[w].micro <= TTL * Rate[s] /\ sweep[w].micro > 0
        /\ s \notin reclosed => sweep[w].micro = Charge(s)
    BY <1>1, <1>2 DEF Carries, IsClosed, Charge
  <2>3. TTL * Rate[s] \in Nat
    BY BillingAssumption
  <2>4. -sweep[w].micro \in -(TTL * Rate[s])..-1
    BY <1>1, <2>2, <2>3
  <2>5. DebitOK(s)'
    BY <1>1, <2>1, <2>2, <2>4 DEF DebitOK
  <2>6. RowOK(s)' /\ BilledOK(s)'
    BY <1>1, <1>5, <1>6 DEF SessionOK, RowOK, BilledOK, IsClosed
  <2>7. MeterOK(s)'
    BY <1>1, <1>6, <1>8 DEF SessionOK, MeterOK
  <2>8. Forward(s)
    BY <1>1, <1>5, <2>2 DEF Forward
  <2> QED BY <2>5, <2>6, <2>7, <2>8 DEF SessionOK
<1>9. \A t \in Sessions : SessionOK(t)' /\ Forward(t)
  BY <1>7, <1>8
<1>10. SweepOK(w)'
  <2>1. Carries(w, s)'
    BY <1>1, <1>2, <1>5, <1>9 DEF Carries, Forward
  <2> QED BY <1>1, <1>2, <2>1 DEF SweepOK
<1>11. \A v \in Sweeps \ {w} : SweepOK(v)'
  BY <1>1, <1>9, SameSweep DEF IInv, BillingOK
<1> QED BY <1>9, <1>10, <1>11 DEF BillingOK, SessionOK

(* Stripe is told the part of the carried charge the balance did not       *)
(* cover, after the debit of that charge.                                  *)
LEMMA ReportOverageKeepsBilling ==
    ASSUME IInv, NEW w \in Sweeps, ReportOverage(w)
    PROVE  BillingOK'
<1>1. /\ sweep[w].pc = "meter" /\ sweep[w].micro \in Nat /\ sweep[w].before \in Int
      /\ sweep'[w].pc = "mark"
      /\ sweep'[w].cur = sweep[w].cur /\ sweep'[w].micro = sweep[w].micro
      /\ \A v \in Sweeps \ {w} : sweep'[v] = sweep[v]
      /\ UNCHANGED <<ledger, sess, reclosed>>
  BY DEF IInv, RestOK, SweepType, ReportOverage
<1>2. PICK s \in Sessions : sweep[w].cur = {s} /\ Carries(w, s)
  BY <1>1 DEF IInv, BillingOK, SweepOK
<1>3. \A t \in Sessions : sess[t] \in RowType /\ SessionOK(t)
  BY DEF IInv, RestOK, BillingOK, SessionOK
<1>4. /\ \A t \in Sessions \ {s} : meter'[t] = meter[t]
      /\ meter'[s] = meter[s] \/ meter'[s] = Cents(Overage(w))
  BY <1>2 DEF IInv, RestOK, ReportOverage
<1>5. ASSUME NEW t \in Sessions, meter'[t] = meter[t] PROVE SessionOK(t)' /\ Forward(t)
  <2>1. Same(t)
    BY <1>1, <1>5, SameLedger DEF Same
  <2> QED BY <1>3, <2>1, SameSession
<1>6. ASSUME meter'[s] = Cents(Overage(w)) PROVE SessionOK(s)' /\ Forward(s)
  <2>1. RowOK(s)' /\ DebitOK(s)' /\ BilledOK(s)' /\ Forward(s)
    BY <1>1, <1>3, SameLedger
       DEF SessionOK, RowOK, DebitOK, BilledOK, Forward, IsClosed, Charge
  <2>2. MeterOK(s)'
    <3> SUFFICES ASSUME s \notin reclosed
                 PROVE  /\ HasEntry(SessionKey(s))
                        /\ Cents(Overage(w)) <= Cents(-EntryOf(SessionKey(s)).amount)
      BY <1>1, <1>6, SameLedger DEF MeterOK
    <3>1. HasEntry(SessionKey(s)) /\ sweep[w].micro = Charge(s)
      BY <1>1, <1>2 DEF Carries
    <3>2. EntryOf(SessionKey(s)).amount = -sweep[w].micro
      BY <1>3, <3>1 DEF SessionOK, DebitOK
    <3>3. -EntryOf(SessionKey(s)).amount = sweep[w].micro
      BY <1>1, <3>2
    <3>4. Cents(Overage(w)) <= Cents(sweep[w].micro)
      BY <1>1, OverageWithinCharge
    <3> QED BY <3>1, <3>3, <3>4
  <2> QED BY <2>1, <2>2 DEF SessionOK
<1>7. \A t \in Sessions : SessionOK(t)' /\ Forward(t)
  BY <1>4, <1>5, <1>6
<1>8. SweepOK(w)'
  <2>1. Carries(w, s)'
    BY <1>1, <1>2, <1>7 DEF Carries, Forward
  <2> QED BY <1>1, <1>2, <2>1 DEF SweepOK
<1>9. \A v \in Sweeps \ {w} : SweepOK(v)'
  BY <1>1, <1>7, SameSweep DEF IInv, BillingOK
<1> QED BY <1>7, <1>8, <1>9 DEF BillingOK, SessionOK

(* The stamp: whatever the sweep carried is on the ledger by now. *)
LEMMA MarkBilledKeepsBilling ==
    ASSUME IInv, NEW w \in Sweeps, MarkBilled(w)
    PROVE  BillingOK'
<1>1. /\ sweep[w].pc = "mark" /\ sweep[w] \in SweepType
      /\ \A v \in Sweeps \ {w} : sweep'[v] = sweep[v]
      /\ UNCHANGED <<ledger, meter, reclosed>>
  BY DEF IInv, RestOK, MarkBilled
<1>2. PICK s \in Sessions : sweep[w].cur = {s} /\ Carries(w, s)
  BY <1>1 DEF IInv, BillingOK, SweepOK
<1>3. \A t \in Sessions : sess[t] \in RowType /\ SessionOK(t)
  BY DEF IInv, RestOK, BillingOK, SessionOK
<1>4. ASSUME NEW t \in Sessions \ {s} PROVE SessionOK(t)' /\ Forward(t)
  <2>1. sess'[t] = sess[t]
    BY <1>2 DEF MarkBilled
  <2>2. Same(t)
    BY <1>1, <2>1, SameLedger DEF Same
  <2> QED BY <1>3, <2>2, SameSession
<1>5. SessionOK(s)' /\ Forward(s)
  <2>1. sess'[s] = [sess[s] EXCEPT !.billed = TRUE]
    BY <1>2 DEF MarkBilled
  <2>2. /\ sess'[s].status = sess[s].status /\ sess'[s].ended = sess[s].ended
        /\ sess'[s].started = sess[s].started /\ sess'[s].expires = sess[s].expires
    BY <1>3, <2>1 DEF RowType
  <2>3. (IsClosed(s)' <=> IsClosed(s)) /\ Charge(s)' = Charge(s)
    BY <2>2 DEF IsClosed, Charge
  <2>4. RowOK(s)'
    BY <1>2, <1>3, <2>2, <2>3 DEF Carries, SessionOK, RowOK
  <2>5. DebitOK(s)' /\ MeterOK(s)'
    BY <1>1, <1>3, <2>3, SameLedger DEF SessionOK, DebitOK, MeterOK
  <2>6. BilledOK(s)'
    <3>1. s \notin reclosed /\ Charge(s) > 0 => HasEntry(SessionKey(s))
      BY <1>1, <1>2 DEF Carries
    <3> QED BY <1>1, <2>3, <3>1, SameLedger DEF BilledOK
  <2>7. Forward(s)
    BY <1>1, <2>3, SameLedger DEF Forward
  <2> QED BY <2>4, <2>5, <2>6, <2>7 DEF SessionOK
<1>6. SweepOK(w)'
  <2>1. sweep'[w] = [Idle EXCEPT !.pc = "next", !.todo = sweep[w].todo]
    BY DEF IInv, RestOK, MarkBilled
  <2>2. sweep'[w].pc = "next"
    BY <1>1, <2>1, Resting DEF SweepType
  <2> QED BY <2>2 DEF SweepOK
<1>7. \A v \in Sweeps \ {w} : SweepOK(v)'
  BY <1>1, <1>4, <1>5, SameSweep DEF IInv, BillingOK
<1> QED BY <1>4, <1>5, <1>6, <1>7 DEF BillingOK, SessionOK

-----------------------------------------------------------------------------
(* The invariant, and what follows from it.                                *)

(* A debit or a grant under a key that is no session's. *)
LEMMA OtherPostKeepsBilling ==
    ASSUME IInv, NEW key \in Keys, \A s \in Sessions : SessionKey(s) # key,
           NEW amount \in Int, PostEntry(key, amount, "topup"),
           UNCHANGED <<sess, sweep, meter, reclosed>>
    PROVE  BillingOK'
<1>1. /\ \A k : k # key => (HasEntry(k)' <=> HasEntry(k))
      /\ \A k : HasEntry(k) => HasEntry(k)' /\ EntryOf(k)' = EntryOf(k)
  BY PostEntrySeen DEF IInv
<1>2. ASSUME NEW s \in Sessions PROVE SessionOK(s)' /\ Forward(s)
  <2>1. Same(s)
    BY <1>1 DEF Same
  <2> QED BY <2>1, SameSession DEF IInv, BillingOK, SessionOK
<1> QED BY <1>2, SameSweep DEF IInv, BillingOK, SessionOK

LEMMA StepKeepsBilling == ASSUME IInv, [Next]_vars PROVE BillingOK'
<1>1. ASSUME UNCHANGED <<ledger, sess, sweep, meter, reclosed>> PROVE BillingOK'
  BY <1>1, QuietStep DEF IInv, BillingOK, SessionOK
<1>2. CASE Tick \/ ChangeSubscription
  BY <1>1, <1>2 DEF Tick, ChangeSubscription, procVars
<1>3. ASSUME NEW q \in Queries, RelayQuery(q) \/ RunEtl(q) \/ DebitQueryFloor(q)
      PROVE  BillingOK'
  <2>1. CASE DebitQueryFloor(q) /\ Floor > 0
    <3>1. /\ QueryKey(q) \in Keys /\ -Floor \in Int
          /\ \A s \in Sessions : SessionKey(s) # QueryKey(q)
      BY BillingAssumption, KeysApart DEF Keys
    <3> QED BY <2>1, <3>1, OtherPostKeepsBilling DEF DebitQueryFloor
  <2>2. CASE DebitQueryFloor(q) /\ ~(Floor > 0)
    BY <1>1, <2>2 DEF DebitQueryFloor, ledgerVars
  <2>3. CASE RelayQuery(q) \/ RunEtl(q)
    BY <1>1, <2>3 DEF RelayQuery, RunEtl
  <2> QED BY <1>3, <2>1, <2>2, <2>3
<1>4. ASSUME NEW p \in Packs, GrantCredits(p) PROVE BillingOK'
  <2>1. PackKey(p) \in Keys /\ PackMicro \in Int /\ \A s \in Sessions : SessionKey(s) # PackKey(p)
    BY BillingAssumption, KeysApart DEF Keys
  <2> QED BY <1>4, <2>1, OtherPostKeepsBilling DEF GrantCredits, procVars
<1>5. ASSUME NEW w \in Sweeps, SweepStep(w) \/ DebitFails(w) \/ Crash(w) PROVE BillingOK'
  BY <1>5, SweepCloseKeepsBilling, ReadSessionKeepsBilling, ReadBalanceKeepsBilling,
     SweepLetsGo, PostDebitKeepsBilling, ReportOverageKeepsBilling, MarkBilledKeepsBilling
     DEF SweepStep
<1>6. CASE UNCHANGED vars
  BY <1>1, <1>6 DEF vars, procVars
<1> QED BY <1>2, <1>3, <1>4, <1>5, <1>6, SessionStepKeepsBilling DEF Next

LEMMA InitHolds == ASSUME Init PROVE IInv
<1>1. LedgerOK
  BY LedgerInitHolds DEF Init, LedgerOK
<1>2. RestOK
  <2>1. NewSession \in RowType /\ Idle \in SweepType
    BY DEF NewSession, RowType, NoTime, Idle, SweepType
  <2> QED BY <2>1, BillingAssumption DEF Init, RestOK
<1>3. \A s \in Sessions : ~HasEntry(SessionKey(s))
  BY DEF Init, LedgerInit, HasEntry
<1>4. ASSUME NEW s \in Sessions PROVE SessionOK(s)
  <2>1. sess[s].status = "none" /\ sess[s].ended = NoTime /\ ~sess[s].billed /\ meter[s] = NoEvent
    BY DEF Init, NewSession
  <2> QED BY <1>3, <2>1 DEF SessionOK, RowOK, DebitOK, BilledOK, MeterOK, IsClosed
<1>5. \A w \in Sweeps : SweepOK(w)
  BY DEF Init, Idle, SweepOK
<1> QED BY <1>1, <1>2, <1>4, <1>5 DEF IInv, BillingOK, SessionOK

LEMMA Inductive == Spec => []IInv
<1>1. Init => IInv
  BY InitHolds
<1>2. IInv /\ [Next]_vars => IInv'
  BY StepKeepsRest, StepKeepsLedger, StepKeepsBilling DEF IInv
<1> QED BY <1>1, <1>2, PTL DEF Spec

(* The tables' columns and the ticks' locals stay in their types, for any  *)
(* batch, rates and number of ticks in flight.                             *)
THEOREM TypeCorrect == Spec => []TypeOK
<1>1. IInv => TypeOK
  BY DEF IInv, RestOK, LedgerOK, TypeOK, RowType, SweepType
<1> QED BY <1>1, Inductive, PTL

(* The balance row is the ledger's sum and no idempotency key is booked    *)
(* twice, whatever sweeps, queries and webhooks post (postEntry).          *)
THEOREM BillingKeepsLedger == Spec => []LedgerIsBalance
<1>1. IInv => LedgerIsBalance
  BY DEF IInv, LedgerOK
<1> QED BY <1>1, Inductive, PTL

(* Billing implements the ledger's abstract specification: each of its     *)
(* steps books one fresh key or none (postEntry from every caller).        *)
THEOREM BillingKeepsPromise == Spec => KeepsPromise
<1>1. Init => Promise!Init
  BY LedgerInitBooksNothing DEF Init
<1>2. IInv /\ [Next]_vars => [Promise!Next]_<<Booked, bal.total>>
  BY StepKeepsLedger DEF IInv, Books
<1> QED BY <1>1, <1>2, Inductive, PTL DEF Spec, KeepsPromise, Promise!Spec

(* Reconciliation finds drift only on sessions closed twice: the stamp,    *)
(* the debit and the charge the row re-derives agree under any number of   *)
(* overlapping sweeps, crashes and refused statements                      *)
(* (debitSessionDuration, reconcileDebits).                                *)
THEOREM NoDriftUnlessReclosed == Spec => []DriftOnlyAfterReclose
<1>1. IInv => DriftOnlyAfterReclose
  <2> SUFFICES ASSUME IInv, NEW s \in Sessions, Drift(s), s \notin reclosed
               PROVE  FALSE
    BY DEF DriftOnlyAfterReclose
  <2>1. RowOK(s) /\ DebitOK(s) /\ BilledOK(s) /\ IsClosed(s) /\ sess[s].billed
    BY DEF IInv, BillingOK, Drift
  <2>2. Charge(s) \in Nat
    BY <2>1, ChargeWithinTTL DEF IInv
  <2>3. CASE Charge(s) > 0
    BY <2>1, <2>3 DEF Drift, BilledOK, DebitOK
  <2>4. CASE ~(Charge(s) > 0)
    <3>1. HasEntry(SessionKey(s)) /\ Charge(s) = 0
      BY <2>2, <2>4 DEF Drift
    <3>2. EntryOf(SessionKey(s)).amount = 0
      BY <2>1, <3>1 DEF DebitOK
    <3>3. EntryOf(SessionKey(s)).amount \in -(TTL * Rate[s])..-1
      BY <2>1, <3>1 DEF DebitOK
    <3> QED BY <3>2, <3>3
  <2> QED BY <2>3, <2>4
<1> QED BY <1>1, Inductive, PTL

(* No session is debited more than its TTL's price, at any rate and        *)
(* however often and late its row is closed (debitSessionDuration's cap).  *)
THEOREM NoDebitPastTTL == Spec => []DebitWithinTTL
<1>1. IInv => DebitWithinTTL
  BY DEF IInv, BillingOK, DebitOK, DebitWithinTTL
<1> QED BY <1>1, Inductive, PTL

(* Stripe hears of a session only after its debit and never of more than   *)
(* that debit, however stale the balance the excess was taken from, unless *)
(* the session was closed again (reportComputeOverage).                    *)
THEOREM MeterNeverOverDebit == Spec => []MeterWithinDebit
<1>1. IInv => MeterWithinDebit
  BY DEF IInv, BillingOK, MeterOK, MeterWithinDebit
<1> QED BY <1>1, Inductive, PTL

-----------------------------------------------------------------------------
(* Sums over finite sets.                                                  *)

(* A set of naturals has a smallest element: the intervals below its       *)
(* elements are finite sets, and inclusion is well founded on those.       *)
LEMMA SmallestExists ==
    ASSUME NEW T, T \subseteq Nat, T # {}
    PROVE  \E x \in T : \A y \in T : x <= y
<1> DEFINE Below == {1..n : n \in T}
<1>1. Below \subseteq FiniteSubsetsOf(Nat) /\ Below # {}
  <2> SUFFICES ASSUME NEW n \in T PROVE 1..n \in FiniteSubsetsOf(Nat)
    OBVIOUS
  <2>1. IsFiniteSet(1..n)
    BY FS_Interval
  <2> QED BY <2>1 DEF FiniteSubsetsOf
<1>2. PICK S \in Below : \A U \in Below : <<U, S>> \notin StrictSubsetOrdering(Nat)
  <2> HIDE DEF Below
  <2>1. IsWellFoundedOn(StrictSubsetOrdering(Nat), FiniteSubsetsOf(Nat))
    BY FS_StrictSubsetOrderingWellFounded
  <2> QED BY <1>1, <2>1, WFMin
<1>3. PICK x \in T : S = 1..x
  BY <1>2
<1>4. ASSUME NEW y \in T, y < x PROVE FALSE
  <2>1. 1..y \subseteq 1..x /\ x \in 1..x /\ x \notin 1..y
    BY <1>4
  <2>2. 1..y \in Below /\ 1..y \in SUBSET Nat /\ 1..x \in SUBSET Nat
    OBVIOUS
  <2>3. <<1..y, 1..x>> \in StrictSubsetOrdering(Nat)
    BY <2>1, <2>2 DEF StrictSubsetOrdering
  <2> QED BY <1>2, <1>3, <2>2, <2>3
<1> QED BY <1>4

Pick(s) == CHOOSE x \in s : TRUE

\* What a fold over the subsets of D computes, one element at a time.
SumEquation(it, f, s) == it[s] = IF s = {} THEN 0 ELSE f[Pick(s)] + it[s \ {Pick(s)}]

(* Some function of the subsets of a finite set is the sum over each: up   *)
(* to size 0, and up to n + 1 when it is up to n.                          *)
LEMMA SumsExist ==
    ASSUME NEW D, IsFiniteSet(D), NEW f \in [D -> Int]
    PROVE  \E it \in [SUBSET D -> Int] : \A s \in SUBSET D : SumEquation(it, f, s)
<1> DEFINE UpTo(n) == \E it \in [SUBSET D -> Int] :
                        \A s \in SUBSET D : Cardinality(s) <= n => SumEquation(it, f, s)
           T == {n \in Nat : ~UpTo(n)}
<1>1. \A s \in SUBSET D : /\ IsFiniteSet(s) /\ Cardinality(s) \in Nat
                          /\ Cardinality(s) <= Cardinality(D)
  BY FS_Subset, FS_CardinalityType
<1>2. \A s \in SUBSET D : s # {} =>
         /\ Pick(s) \in s /\ s \ {Pick(s)} \in SUBSET D
         /\ Cardinality(s \ {Pick(s)}) = Cardinality(s) - 1
  BY <1>1, FS_RemoveElement DEF Pick
<1>3. UpTo(0)
  <2>1. [s \in SUBSET D |-> 0] \in [SUBSET D -> Int]
    OBVIOUS
  <2>2. ASSUME NEW s \in SUBSET D, Cardinality(s) <= 0
        PROVE  SumEquation([t \in SUBSET D |-> 0], f, s)
    <3>1. s = {}
      BY <1>1, <2>2, FS_EmptySet
    <3> QED BY <3>1 DEF SumEquation
  <2> QED BY <2>1, <2>2
<1>4. ASSUME NEW n \in Nat, UpTo(n) PROVE UpTo(n + 1)
  <2>1. PICK it \in [SUBSET D -> Int] :
            \A s \in SUBSET D : Cardinality(s) <= n => SumEquation(it, f, s)
    BY <1>4
  <2> DEFINE next == [s \in SUBSET D |-> IF s = {} THEN 0 ELSE f[Pick(s)] + it[s \ {Pick(s)}]]
  <2>2. next \in [SUBSET D -> Int]
    <3> SUFFICES ASSUME NEW s \in SUBSET D, s # {} PROVE f[Pick(s)] + it[s \ {Pick(s)}] \in Int
      OBVIOUS
    <3>1. Pick(s) \in D /\ s \ {Pick(s)} \in SUBSET D
      BY <1>2
    <3>2. f[Pick(s)] \in Int /\ it[s \ {Pick(s)}] \in Int
      BY <3>1
    <3> QED BY <3>2
  <2>3. ASSUME NEW s \in SUBSET D, Cardinality(s) <= n + 1 PROVE SumEquation(next, f, s)
    <3>1. CASE s = {}
      BY <3>1 DEF SumEquation
    <3>2. CASE s # {}
      <4>1. Cardinality(s \ {Pick(s)}) <= n /\ s \ {Pick(s)} \in SUBSET D
        BY <1>1, <1>2, <2>3, <3>2
      <4>2. SumEquation(it, f, s \ {Pick(s)})
        BY <2>1, <4>1
      <4>3. next[s \ {Pick(s)}] = it[s \ {Pick(s)}]
        BY <4>1, <4>2 DEF SumEquation
      <4> QED BY <3>2, <4>3 DEF SumEquation
    <3> QED BY <3>1, <3>2
  <2> HIDE DEF next
  <2> QED BY <2>2, <2>3
<1>5. UpTo(Cardinality(D))
  <2> HIDE DEF UpTo
  <2>1. SUFFICES T = {}
    BY <1>1
  <2>2. SUFFICES ASSUME T # {} PROVE FALSE
    OBVIOUS
  <2>3. PICK m \in T : \A n \in T : m <= n
    <3>1. T \subseteq Nat
      OBVIOUS
    <3> HIDE DEF T
    <3> QED BY <2>2, <3>1, SmallestExists
  <2>4. m \in Nat /\ m # 0 /\ ~UpTo(m)
    BY <1>3
  <2>5. UpTo(m - 1)
    BY <2>3, <2>4
  <2> QED BY <1>4, <2>4, <2>5
<1> QED BY <1>1, <1>5

(* SumFunction is a choice of one.                                         *)
LEMMA SumIsFold ==
    ASSUME NEW D, IsFiniteSet(D), NEW f \in [D -> Int]
    PROVE  \E it : /\ \A s \in SUBSET D : SumEquation(it, f, s)
                   /\ SumFunction(f) = it[D]
<1> DEFINE Fold(it) == it = [s \in SUBSET D |->
                               IF s = {} THEN 0
                               ELSE f[CHOOSE x \in s : TRUE] + it[s \ {CHOOSE x \in s : TRUE}]]
<1>1. SumFunction(f) = (CHOOSE it : Fold(it))[D]
  BY DOMAIN f = D DEF SumFunction, SumFunctionOnSet, FoldFunctionOnSet, MapThenFoldSet
<1>2. \E it : Fold(it)
  <2>1. PICK it \in [SUBSET D -> Int] : \A s \in SUBSET D : SumEquation(it, f, s)
    BY SumsExist
  <2> DEFINE sums == [s \in SUBSET D |-> IF s = {} THEN 0 ELSE f[Pick(s)] + it[s \ {Pick(s)}]]
  <2>2. \A s \in SUBSET D : it[s] = sums[s]
    BY <2>1 DEF SumEquation
  <2>3. it = sums
    <3>1. sums = [s \in SUBSET D |-> sums[s]] /\ it = [s \in SUBSET D |-> it[s]]
      OBVIOUS
    <3> HIDE DEF sums
    <3> QED BY <2>2, <3>1
  <2>4. Fold(it)
    BY <2>3 DEF Pick
  <2> HIDE DEF Fold
  <2> QED BY <2>4
<1>3. PICK it : Fold(it) /\ it = CHOOSE i : Fold(i)
  BY <1>2
<1>4. \A s \in SUBSET D : SumEquation(it, f, s)
  BY <1>3 DEF SumEquation, Pick
<1> QED BY <1>1, <1>3, <1>4

(* A sum whose terms do not grow, and one of them falls by d, falls by d   *)
(* at least.                                                               *)
LEMMA SumFalls ==
    ASSUME NEW D, IsFiniteSet(D), NEW f \in [D -> Int], NEW g \in [D -> Int],
           NEW x \in D, NEW d \in Nat,
           \A y \in D : f[y] + (IF y = x THEN d ELSE 0) <= g[y]
    PROVE  /\ SumFunction(f) \in Int /\ SumFunction(g) \in Int
           /\ SumFunction(f) + d <= SumFunction(g)
<1>1. PICK F : /\ \A s \in SUBSET D : SumEquation(F, f, s)
               /\ SumFunction(f) = F[D]
  BY SumIsFold
<1>2. PICK G : /\ \A s \in SUBSET D : SumEquation(G, g, s)
               /\ SumFunction(g) = G[D]
  BY SumIsFold
<1> DEFINE Falls(s) == /\ F[s] \in Int /\ G[s] \in Int
                       /\ F[s] + (IF x \in s THEN d ELSE 0) <= G[s]
           Bad == {s \in SUBSET D : ~Falls(s)}
<1>3. Bad = {}
  <2> SUFFICES ASSUME Bad # {} PROVE FALSE
    OBVIOUS
  <2>1. PICK s \in Bad : \A t \in Bad : <<t, s>> \notin StrictSubsetOrdering(D)
    <3>1. IsWellFoundedOn(StrictSubsetOrdering(D), FiniteSubsetsOf(D))
      BY FS_StrictSubsetOrderingWellFounded
    <3>2. Bad \subseteq FiniteSubsetsOf(D)
      BY FS_Subset DEF FiniteSubsetsOf
    <3> HIDE DEF Bad
    <3> QED BY <3>1, <3>2, WFMin
  <2>2. s \in SUBSET D /\ ~Falls(s)
    OBVIOUS
  <2>3. SumEquation(F, f, s) /\ SumEquation(G, g, s)
    BY <1>1, <1>2, <2>2
  <2>4. s # {}
    BY <2>2, <2>3 DEF SumEquation
  <2> DEFINE p == Pick(s)
             t == s \ {p}
  <2>5. p \in s /\ p \in D
    BY <2>2, <2>4 DEF Pick
  <2>6. t \in SUBSET D /\ <<t, s>> \in StrictSubsetOrdering(D)
    BY <2>2, <2>5 DEF StrictSubsetOrdering
  <2>7. Falls(t)
    BY <2>1, <2>6
  <2>8. F[s] = f[p] + F[t] /\ G[s] = g[p] + G[t]
    BY <2>3, <2>4 DEF SumEquation
  <2>9. f[p] \in Int /\ g[p] \in Int /\ f[p] + (IF p = x THEN d ELSE 0) <= g[p]
    BY <2>5
  <2>10. (x \in s <=> x = p \/ x \in t) /\ ~(x = p /\ x \in t)
    BY <2>5
  <2> HIDE DEF t, p
  <2> QED BY <2>2, <2>7, <2>8, <2>9, <2>10
<1>4. Falls(D)
  BY <1>3
<1> QED BY <1>1, <1>2, <1>4

(* A sum whose terms do not grow does not grow.                            *)
LEMMA SumKept ==
    ASSUME NEW D, IsFiniteSet(D), NEW f \in [D -> Int], NEW g \in [D -> Int],
           \A y \in D : f[y] <= g[y]
    PROVE  SumFunction(f) \in Int /\ SumFunction(g) \in Int /\ SumFunction(f) <= SumFunction(g)
<1>1. CASE D = {}
  <2>1. ASSUME NEW h \in [D -> Int] PROVE SumFunction(h) = 0
    <3>1. PICK H : /\ \A s \in SUBSET D : SumEquation(H, h, s)
                   /\ SumFunction(h) = H[D]
      BY SumIsFold
    <3>2. SumEquation(H, h, D)
      BY <3>1
    <3> QED BY <1>1, <3>1, <3>2 DEF SumEquation
  <2> QED BY <2>1
<1>2. CASE D # {}
  <2>1. PICK x \in D, d \in Nat : d = 0
    BY <1>2
  <2>2. \A y \in D : f[y] + (IF y = x THEN d ELSE 0) <= g[y]
    BY <2>1
  <2>3. SumFunction(f) \in Int /\ SumFunction(g) \in Int /\ SumFunction(f) + d <= SumFunction(g)
    BY <2>2, SumFalls
  <2> QED BY <2>1, <2>3
<1> QED BY <1>1, <1>2

-----------------------------------------------------------------------------
(* The exposure of an organisation.                                        *)

\* Nothing more can be charged for the session.
Settled(s) ==
    \/ sess[s].status = "none" \/ HasEntry(SessionKey(s))
    \/ sess[s].billed /\ ~BeingDebited(s)

LEMMA ExposureTypes ==
    /\ SessionExposure \in [Sessions -> Int] /\ SessionExposure' \in [Sessions -> Int]
    /\ QueryExposure \in [Queries -> Int] /\ QueryExposure' \in [Queries -> Int]
    /\ IsFiniteSet(Sessions) /\ IsFiniteSet(Queries)
    /\ \A s \in Sessions :
          /\ TTL * Rate[s] \in Nat
          /\ SessionExposure[s] = (IF Settled(s) THEN 0 ELSE TTL * Rate[s])
          /\ SessionExposure'[s] = (IF Settled(s)' THEN 0 ELSE TTL * Rate[s])
    /\ \A q \in Queries :
          /\ QueryExposure[q] = (IF qry[q] = "relayed" THEN Floor ELSE 0)
          /\ QueryExposure'[q] = (IF qry'[q] = "relayed" THEN Floor ELSE 0)
    /\ Floor \in Nat
<1>1. \A s \in Sessions : TTL * Rate[s] \in Nat
  BY BillingAssumption
<1> QED BY <1>1, BillingAssumption DEF SessionExposure, QueryExposure, Settled

LEMMA SessionsKept ==
    ASSUME \A s \in Sessions : Settled(s) => Settled(s)'
    PROVE  /\ SumFunction(SessionExposure) \in Int /\ SumFunction(SessionExposure') \in Int
           /\ SumFunction(SessionExposure') <= SumFunction(SessionExposure)
<1> DEFINE f == SessionExposure'
           g == SessionExposure
<1>1. /\ f \in [Sessions -> Int] /\ g \in [Sessions -> Int] /\ IsFiniteSet(Sessions)
      /\ \A s \in Sessions : f[s] <= g[s]
  BY ExposureTypes
<1> HIDE DEF f, g
<1>2. SumFunction(f) \in Int /\ SumFunction(g) \in Int /\ SumFunction(f) <= SumFunction(g)
  BY <1>1, SumKept
<1> QED BY <1>2 DEF f, g

LEMMA QueriesKept ==
    ASSUME \A q \in Queries : qry'[q] = "relayed" => qry[q] = "relayed"
    PROVE  /\ SumFunction(QueryExposure) \in Int /\ SumFunction(QueryExposure') \in Int
           /\ SumFunction(QueryExposure') <= SumFunction(QueryExposure)
<1> DEFINE f == QueryExposure'
           g == QueryExposure
<1>1. /\ f \in [Queries -> Int] /\ g \in [Queries -> Int] /\ IsFiniteSet(Queries)
      /\ \A q \in Queries : f[q] <= g[q]
  BY ExposureTypes
<1> HIDE DEF f, g
<1>2. SumFunction(f) \in Int /\ SumFunction(g) \in Int /\ SumFunction(f) <= SumFunction(g)
  BY <1>1, SumKept
<1> QED BY <1>2 DEF f, g

\* What DebtIsSettledAtZero says of a step.
DebtSettled == bal'.total - Exposure' >= bal.total - Exposure

LEMMA NothingCharged ==
    ASSUME LedgerOK, LedgerOK', bal'.total >= bal.total,
           \A s \in Sessions : Settled(s) => Settled(s)',
           \A q \in Queries : qry'[q] = "relayed" => qry[q] = "relayed"
    PROVE  DebtSettled
<1>1. bal.total \in Int /\ bal'.total \in Int
  BY DEF LedgerOK, BalanceRow
<1>2. Exposure \in Int /\ Exposure' \in Int /\ Exposure' <= Exposure
  BY SessionsKept, QueriesKept DEF Exposure
<1> HIDE DEF Exposure
<1> QED BY <1>1, <1>2 DEF DebtSettled

(* postEntry moves the total by its amount, or not at all on a replay. *)
LEMMA PostMovesTotal ==
    ASSUME NEW key, NEW amount \in Int, LedgerOK, PostEntry(key, amount, "topup")
    PROVE  bal'.total = IF HasEntry(key) THEN bal.total ELSE bal.total + amount
<1>1. bal \in BalanceRow /\ bal.total = bal.tier + bal.topup
  BY DEF LedgerOK, LedgerIsBalance
<1>2. bal.tier \in Int /\ bal.topup \in Int /\ bal.total \in Int
  BY <1>1 DEF BalanceRow
<1>3. FromTier(-amount) \in Int
  BY <1>2 DEF FromTier, Larger, Smaller
<1>4. CASE HasEntry(key)
  BY <1>1, <1>4 DEF PostEntry, Replay, BalanceRow
<1>5. CASE ~HasEntry(key)
  <2>1. CASE amount >= 0
    BY <1>1, <1>2, <1>5, <2>1 DEF PostEntry, PostFresh, Record
  <2>2. CASE ~(amount >= 0)
    <3>1. bal'.total = bal.tier - FromTier(-amount)
                         + (bal.topup - (-amount - FromTier(-amount)))
      BY <1>5, <2>2 DEF PostEntry, PostFresh, Record
    <3> QED BY <1>1, <1>2, <1>3, <1>5, <3>1
  <2> QED BY <2>1, <2>2
<1> QED BY <1>4, <1>5

LEMMA RowsKeepSettled ==
    ASSUME UNCHANGED <<sess, sweep>>, \A k : HasEntry(k) => HasEntry(k)'
    PROVE  \A s \in Sessions : Settled(s) => Settled(s)'
BY DEF Settled, BeingDebited

(* The debit of a session: what its TTL costs is no longer exposed. *)
LEMMA PostDebitSettles ==
    ASSUME IInv, IInv', NEW w \in Sweeps, PostDebit(w)
    PROVE  DebtSettled
<1>1. /\ sweep[w].pc = "post" /\ sweep[w].micro \in Nat
      /\ sweep'[w].pc = "meter" /\ sweep'[w].cur = sweep[w].cur
      /\ \A v \in Sweeps \ {w} : sweep'[v] = sweep[v]
      /\ UNCHANGED <<sess, qry>>
  BY DEF IInv, RestOK, SweepType, PostDebit
<1>2. PICK s \in Sessions : sweep[w].cur = {s} /\ Carries(w, s)
  BY <1>1 DEF IInv, BillingOK, SweepOK
<1> DEFINE key == SessionKey(s)
<1>3. PostEntry(key, -sweep[w].micro, "topup") /\ key \in Keys /\ -sweep[w].micro \in Int
  BY <1>1, <1>2 DEF PostDebit, Keys
<1>4. HasEntry(key)' /\ \A k : HasEntry(k) => HasEntry(k)'
  BY <1>3, PostEntrySeen DEF IInv
<1>5. \A t \in Sessions : BeingDebited(t)' => BeingDebited(t)
  BY <1>1 DEF BeingDebited
<1>6. \A t \in Sessions : Settled(t) => Settled(t)'
  BY <1>1, <1>4, <1>5 DEF Settled
<1>7. CASE HasEntry(key)
  <2>1. bal'.total = bal.total
    BY <1>3, <1>7, PostMovesTotal DEF IInv
  <2>2. bal.total \in Int
    BY DEF IInv, LedgerOK, BalanceRow
  <2> QED BY <1>1, <1>6, <2>1, <2>2, NothingCharged DEF IInv
<1>8. CASE ~HasEntry(key)
  <2>1. bal'.total = bal.total - sweep[w].micro /\ bal.total \in Int
    <3>1. bal.total \in Int
      BY DEF IInv, LedgerOK, BalanceRow
    <3> QED BY <1>1, <1>3, <1>8, <3>1, PostMovesTotal DEF IInv
  <2>2. ~Settled(s) /\ Settled(s)'
    <3>1. BeingDebited(s)
      BY <1>1, <1>2 DEF BeingDebited
    <3>2. sess[s].status # "none"
      BY <1>2 DEF Carries, IInv, BillingOK, RowOK
    <3> QED BY <1>4, <1>8, <3>1, <3>2 DEF Settled
  <2>3. sweep[w].micro <= TTL * Rate[s]
    BY <1>2 DEF Carries
  <2> DEFINE f == SessionExposure'
             g == SessionExposure
             d == sweep[w].micro
  <2>4. \A t \in Sessions : f[t] + (IF t = s THEN d ELSE 0) <= g[t]
    BY <1>1, <1>6, <2>2, <2>3, ExposureTypes
  <2>5. f \in [Sessions -> Int] /\ g \in [Sessions -> Int] /\ IsFiniteSet(Sessions) /\ d \in Nat
    BY <1>1, ExposureTypes
  <2> HIDE DEF f, g, d
  <2>6. /\ SumFunction(f) \in Int /\ SumFunction(g) \in Int
        /\ SumFunction(f) + d <= SumFunction(g)
    BY <2>4, <2>5, SumFalls
  <2>7. /\ SumFunction(SessionExposure) \in Int /\ SumFunction(SessionExposure') \in Int
        /\ SumFunction(SessionExposure') + sweep[w].micro <= SumFunction(SessionExposure)
    BY <2>6 DEF f, g, d
  <2>8. /\ SumFunction(QueryExposure) \in Int /\ SumFunction(QueryExposure') \in Int
        /\ SumFunction(QueryExposure') <= SumFunction(QueryExposure)
    BY <1>1, QueriesKept
  <2> QED BY <1>1, <2>1, <2>7, <2>8 DEF DebtSettled, Exposure
<1> QED BY <1>7, <1>8

(* The debit of a query: its floor is no longer exposed. *)
LEMMA QueryDebitSettles ==
    ASSUME IInv, IInv', NEW q \in Queries, DebitQueryFloor(q)
    PROVE  DebtSettled
<1>1. /\ qry[q] = "relayed" /\ qry'[q] = "done"
      /\ \A p \in Queries \ {q} : qry'[p] = qry[p]
      /\ UNCHANGED <<sess, sweep>>
  BY DEF IInv, RestOK, DebitQueryFloor
<1>2. QueryKey(q) \in Keys /\ -Floor \in Int /\ Floor \in Nat
  BY BillingAssumption DEF Keys
<1>3. bal.total \in Int
  BY DEF IInv, LedgerOK, BalanceRow
<1>4. bal'.total >= bal.total - Floor /\ \A k : HasEntry(k) => HasEntry(k)'
  <2>1. CASE Floor > 0
    <3>1. PostEntry(QueryKey(q), -Floor, "topup")
      BY <2>1 DEF DebitQueryFloor
    <3>2. bal'.total = bal.total \/ bal'.total = bal.total + (-Floor)
      BY <1>2, <3>1, PostMovesTotal DEF IInv
    <3> QED BY <1>2, <1>3, <3>1, <3>2, PostEntrySeen DEF IInv
  <2>2. CASE ~(Floor > 0)
    BY <1>2, <1>3, <2>2, SameLedger DEF DebitQueryFloor, ledgerVars
  <2> QED BY <2>1, <2>2
<1>5. \A s \in Sessions : Settled(s) => Settled(s)'
  BY <1>1, <1>4, RowsKeepSettled
<1> DEFINE f == QueryExposure'
           g == QueryExposure
<1>6. \A p \in Queries : f[p] + (IF p = q THEN Floor ELSE 0) <= g[p]
  BY <1>1, ExposureTypes
<1>7. f \in [Queries -> Int] /\ g \in [Queries -> Int] /\ IsFiniteSet(Queries)
  BY ExposureTypes
<1> HIDE DEF f, g
<1>8. /\ SumFunction(f) \in Int /\ SumFunction(g) \in Int
      /\ SumFunction(f) + Floor <= SumFunction(g)
  BY <1>2, <1>6, <1>7, SumFalls
<1>9. /\ SumFunction(QueryExposure) \in Int /\ SumFunction(QueryExposure') \in Int
      /\ SumFunction(QueryExposure') + Floor <= SumFunction(QueryExposure)
  BY <1>8 DEF f, g
<1>10. /\ SumFunction(SessionExposure) \in Int /\ SumFunction(SessionExposure') \in Int
       /\ SumFunction(SessionExposure') <= SumFunction(SessionExposure)
  BY <1>5, SessionsKept
<1>11. bal'.total \in Int
  BY DEF IInv, LedgerOK, BalanceRow
<1> QED BY <1>2, <1>3, <1>4, <1>9, <1>10, <1>11 DEF DebtSettled, Exposure

(* No session's row or sweep comes to owe more: a row that is read for a   *)
(* debit was not billed.                                                   *)
LEMMA SweepKeepsSettled ==
    ASSUME IInv, NEW w \in Sweeps,
           SweepCloseAbandoned(w) \/ SweepSelect(w) \/ SweepDone(w) \/ ReadSession(w)
             \/ ReadBalance(w) \/ ReportOverage(w) \/ MarkBilled(w)
    PROVE  \A s \in Sessions : Settled(s) => Settled(s)'
<1> SUFFICES ASSUME NEW s \in Sessions, Settled(s) PROVE Settled(s)'
  OBVIOUS
<1>1. UNCHANGED ledger
  BY DEF SweepCloseAbandoned, SweepSelect, SweepDone, ReadSession, ReadBalance, ReportOverage,
         MarkBilled
<1>2. \A k : HasEntry(k)' <=> HasEntry(k)
  BY <1>1, SameLedger
<1>3. sess \in [Sessions -> RowType] /\ sweep \in [Sweeps -> SweepType]
  BY DEF IInv, RestOK
<1>4. /\ sess[s].status = "none" => sess'[s].status = "none"
      /\ sess[s].billed => sess'[s].billed
  <2>1. CASE SweepCloseAbandoned(w)
    BY <1>3, <2>1 DEF SweepCloseAbandoned, AbandonedSessions, RowType
  <2>2. CASE MarkBilled(w)
    BY <1>3, <2>2 DEF MarkBilled, RowType
  <2>3. CASE UNCHANGED sess
    BY <2>3
  <2> QED BY <2>1, <2>2, <2>3
          DEF SweepSelect, SweepDone, ReadSession, ReadBalance, ReportOverage
<1>5. \A v \in Sweeps \ {w} : sweep'[v] = sweep[v]
  BY <1>3 DEF SweepCloseAbandoned, SweepSelect, SweepDone, ReadSession, ReadBalance,
              ReportOverage, MarkBilled
<1>6. s \in sweep'[w].cur /\ sweep'[w].pc \in {"balance", "post"} =>
         \/ s \in sweep[w].cur /\ sweep[w].pc \in {"balance", "post"}
         \/ ~sess[s].billed
  <2>1. CASE SweepCloseAbandoned(w) \/ ReportOverage(w)
    <3>1. sweep[w] \in SweepType
      BY <1>3
    <3>2. SweepCloseAbandoned(w) => sweep'[w].pc = "select"
      BY <1>3, <3>1 DEF SweepCloseAbandoned, SweepType
    <3>3. ReportOverage(w) => sweep'[w].pc = "mark"
      BY <1>3, <3>1 DEF ReportOverage, SweepType
    <3> QED BY <2>1, <3>2, <3>3
  <2>2. CASE SweepSelect(w) \/ SweepDone(w) \/ MarkBilled(w)
    <3>1. SweepSelect(w) => sweep'[w].pc = "next"
      <4>1. \A b \in OldestUnbilled : b \in SUBSET Sessions
        BY DEF OldestUnbilled, Unbilled
      <4> QED BY <1>3, <4>1, Resting DEF SweepSelect
    <3>2. MarkBilled(w) => sweep'[w].pc = "next"
      <4>1. sweep[w].todo \in SUBSET Sessions
        BY <1>3 DEF SweepType
      <4>2. [Idle EXCEPT !.pc = "next", !.todo = sweep[w].todo].pc = "next"
        BY <4>1, Resting
      <4> QED BY <1>3, <4>2 DEF MarkBilled
    <3>3. SweepDone(w) => sweep'[w].pc = "idle"
      BY <1>3 DEF SweepDone, Idle
    <3> QED BY <2>2, <3>1, <3>2, <3>3
  <2>3. CASE ReadBalance(w)
    BY <1>3, <2>3 DEF ReadBalance, SweepType
  <2>4. CASE ReadSession(w)
    <3>1. PICK t \in sweep[w].todo :
            LET rest == [Idle EXCEPT !.pc = "next", !.todo = sweep[w].todo \ {t}]
            IN  \/ sweep' = [sweep EXCEPT ![w] =
                        IF ~IsClosed(t) \/ sess[t].billed
                        THEN rest
                        ELSE [rest EXCEPT !.cur = {t}, !.micro = Charge(t),
                                  !.pc = IF Charge(t) > 0 THEN "balance" ELSE "mark"]]
                \/ sweep' = [sweep EXCEPT ![w] = rest]
      BY <2>4 DEF ReadSession
    <3> DEFINE rest == [Idle EXCEPT !.pc = "next", !.todo = sweep[w].todo \ {t}]
               carrying == [rest EXCEPT !.cur = {t}, !.micro = Charge(t),
                                  !.pc = IF Charge(t) > 0 THEN "balance" ELSE "mark"]
    <3>2. rest \in SweepType /\ rest.pc = "next"
      BY <1>3, Resting DEF SweepType
    <3>3. carrying.cur = {t}
      <4> HIDE DEF rest
      <4> QED BY <3>2 DEF SweepType
    <3> HIDE DEF rest, carrying
    <3>4. sweep'[w] = rest \/ (~sess[t].billed /\ sweep'[w] = carrying)
      BY <1>3, <3>1 DEF rest, carrying
    <3> QED BY <3>2, <3>3, <3>4
  <2> QED BY <2>1, <2>2, <2>3, <2>4
<1>7. BeingDebited(s)' => BeingDebited(s) \/ ~sess[s].billed
  BY <1>5, <1>6 DEF BeingDebited
<1> QED BY <1>2, <1>4, <1>7 DEF Settled

LEMMA StepSettles ==
    ASSUME IInv, IInv', Next, ~HasCredit, faults' = faults
    PROVE  DebtSettled
<1>1. ~Fault
  BY DEF Fault, IInv, RestOK
<1>2. bal.total \in Int
  BY DEF IInv, LedgerOK, BalanceRow
<1>3. CASE Tick \/ ChangeSubscription
  BY <1>2, <1>3, RowsKeepSettled, SameLedger, NothingCharged
     DEF Tick, ChangeSubscription, procVars, IInv
<1>4. ASSUME NEW s \in Sessions, SessionStep(s) PROVE DebtSettled
  <2>1. UNCHANGED <<bal, ledger, sweep, qry>>
    BY <1>4 DEF SessionStep, Admit, Open, Close, RevokeActive, procVars
  <2>2. \A k : HasEntry(k) => HasEntry(k)'
    BY <2>1, SameLedger
  <2>3. ASSUME NEW t \in Sessions, Settled(t) PROVE Settled(t)'
    <3>1. /\ sess \in [Sessions -> RowType] /\ RowOK(t)
      BY DEF IInv, RestOK, BillingOK
    <3>2. /\ sess[t].status = "none" => sess'[t].status = "none"
          /\ sess[t].billed => sess'[t].billed
      <4>1. CASE Open(s)
        BY <3>1, <4>1 DEF Open, RowOK, RowType
      <4>2. CASE Close(s) \/ RevokeActive(s)
        BY <3>1, <4>2 DEF Close, RevokeActive, RowType
      <4> QED BY <1>1, <1>4, <4>1, <4>2 DEF SessionStep, Admit
    <3> QED BY <2>1, <2>2, <2>3, <3>2 DEF Settled, BeingDebited
  <2> QED BY <1>2, <2>1, <2>3, NothingCharged DEF IInv
<1>5. ASSUME NEW q \in Queries, RelayQuery(q) \/ RunEtl(q) \/ DebitQueryFloor(q)
      PROVE  DebtSettled
  BY <1>1, <1>5, QueryDebitSettles DEF RelayQuery, RunEtl
<1>6. ASSUME NEW p \in Packs, GrantCredits(p) PROVE DebtSettled
  <2>1. PackKey(p) \in Keys /\ PackMicro \in Int /\ PackMicro >= 0
    BY BillingAssumption DEF Keys
  <2>2. PostEntry(PackKey(p), PackMicro, "topup") /\ UNCHANGED <<sess, sweep, qry>>
    BY <1>6 DEF GrantCredits, procVars
  <2>3. bal'.total >= bal.total
    BY <1>2, <2>1, <2>2, PostMovesTotal DEF IInv
  <2>4. \A k : HasEntry(k) => HasEntry(k)'
    BY <2>1, <2>2, PostEntrySeen DEF IInv
  <2> QED BY <2>2, <2>3, <2>4, RowsKeepSettled, NothingCharged DEF IInv
<1>7. ASSUME NEW w \in Sweeps, SweepStep(w) \/ DebitFails(w) \/ Crash(w) PROVE DebtSettled
  <2>1. CASE PostDebit(w)
    BY <2>1, PostDebitSettles
  <2>2. CASE SweepCloseAbandoned(w) \/ SweepSelect(w) \/ SweepDone(w) \/ ReadSession(w)
               \/ ReadBalance(w) \/ ReportOverage(w) \/ MarkBilled(w)
    <3>1. UNCHANGED <<bal, qry>>
      BY <2>2 DEF SweepCloseAbandoned, SweepSelect, SweepDone, ReadSession, ReadBalance,
                  ReportOverage, MarkBilled
    <3> QED BY <1>2, <2>2, <3>1, SweepKeepsSettled, NothingCharged DEF IInv
  <2> QED BY <1>1, <1>7, <2>1, <2>2 DEF SweepStep, DebitFails, Crash
<1> QED BY <1>3, <1>4, <1>5, <1>6, <1>7 DEF Next

(* An organisation out of credit: no step without a refused statement or a *)
(* crash takes its balance, less all that admitted sessions and queries    *)
(* can still be charged, any lower, for any number of sessions, queries    *)
(* and overlapping sweeps (hasCredit, debitSessionDuration).               *)
THEOREM DebtSettles == Spec => DebtIsSettledAtZero
<1>1. IInv /\ IInv' /\ [Next]_vars => [~HasCredit /\ faults' = faults => DebtSettled]_vars
  BY StepSettles
<1> QED BY <1>1, Inductive, PTL DEF Spec, DebtIsSettledAtZero, DebtSettled
=============================================================================
