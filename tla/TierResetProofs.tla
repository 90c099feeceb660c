-------------------------- MODULE TierResetProofs --------------------------
(***************************************************************************)
(* TierReset for every set of ticks and plans, every allotment and every   *)
(* bound: the types, the ledger invariant, the bound on expiring credit,   *)
(* and that no reset touches purchased credit.  The three invariants are   *)
(* proved together, since the ledger lemmas need the types and the bound   *)
(* needs the ledger's buckets to be integers.                              *)
(***************************************************************************)
EXTENDS TierEnvelope, CreditLedgerProofs

IInv == TypeOK /\ LedgerIsBalance /\ TierNeverAccumulates

(* The part of the type invariant that is not the ledger's. *)
RestOK ==
    /\ period \in 0..MaxPeriod
    /\ sub \in AllPlans
    /\ trial \in BOOLEAN
    /\ hook \in [pc : {"noorg", "trial", "plan", "fallback", "reset", "done"}, plan : AllPlans,
                 period : 0..MaxPeriod]
    /\ tick \in [Ticks -> [pc : {"idle", "plan", "fallback", "reset"}, plan : AllPlans,
                           period : 0..MaxPeriod]]
    /\ debits \in 0..MaxDebits /\ grants \in 0..MaxGrants /\ faults \in 0..MaxFaults

LedgerOK == bal \in BalanceRow /\ ledger \in LedgerRows(Keys) /\ LedgerIsBalance

LEMMA Split == IInv <=> (RestOK /\ LedgerOK /\ TierNeverAccumulates)
BY DEF IInv, TypeOK, RestOK, LedgerOK

(* What postEntry does to the expiring bucket when nothing is granted to   *)
(* it: it pays debits first, and never more than it holds.                 *)
LEMMA PostEntryTier ==
    ASSUME NEW key, NEW amount \in Int, bal \in BalanceRow, bal.tier >= 0,
           PostEntry(key, amount, "topup")
    PROVE  bal'.tier >= 0 /\ bal'.tier <= bal.tier /\ bal'.tier \in Int
<1>0. bal.tier \in Int /\ bal.topup \in Int
  BY DEF BalanceRow
<1>1. CASE HasEntry(key)
  BY <1>0, <1>1 DEF PostEntry, Replay, BalanceRow
<1>2. CASE ~HasEntry(key) /\ amount >= 0
  BY <1>0, <1>2 DEF PostEntry, PostFresh, Record
<1>3. CASE ~HasEntry(key) /\ ~(amount >= 0)
  <2>1. bal'.tier = bal.tier - FromTier(-amount)
    BY <1>3 DEF PostEntry, PostFresh, Record
  <2>2. FromTier(-amount) \in Int /\ FromTier(-amount) >= 0 /\ FromTier(-amount) <= bal.tier
    BY <1>0, <1>3 DEF FromTier, Larger, Smaller
  <2> QED BY <1>0, <2>1, <2>2
<1> QED BY <1>1, <1>2, <1>3

(* What resetTierBucket does to the two buckets. *)
LEMMA ResetBuckets ==
    ASSUME NEW key, NEW target \in Int, bal \in BalanceRow, ResetTierBucket(key, target)
    PROVE  (bal'.tier = bal.tier \/ bal'.tier = target) /\ bal'.topup = bal.topup
<1>1. CASE HasEntry(key)
  BY <1>1 DEF ResetTierBucket, Replay, BalanceRow
<1>2. CASE ~HasEntry(key)
  BY <1>2 DEF ResetTierBucket, Record
<1> QED BY <1>1, <1>2

LEMMA ResetKeyInKeys == ASSUME NEW p \in 0..MaxPeriod PROVE ResetKey(p) \in Keys
BY DEF Keys

LEMMA PlanReadFaults ==
    ASSUME NEW plan, SubscriptionRead(plan) \/ TrialRead(plan), faults \in 0..MaxFaults
    PROVE  faults' \in 0..MaxFaults
BY TierAssumption DEF SubscriptionRead, TrialRead, Fault

-----------------------------------------------------------------------------
(* A reset of the current or an earlier period's key keeps the ledger part *)
(* of the invariant, whichever plan was read.                              *)
LEMMA ResetKeeps ==
    ASSUME LedgerOK, TierNeverAccumulates, NEW p \in 0..MaxPeriod, NEW plan \in AllPlans,
           ResetTierBucket(ResetKey(p), Allotment[plan])
    PROVE  LedgerOK' /\ TierNeverAccumulates' /\ LedgerGrows /\ bal'.topup = bal.topup
<1>1. ResetKey(p) \in Keys
  BY ResetKeyInKeys
<1>2. Allotment[plan] \in Nat
  BY TierAssumption DEF AllPlans
<1>3. LedgerOK' /\ LedgerGrows
  BY <1>1, <1>2, ResetTierBucketKeepsLedger DEF LedgerOK
<1>4. (bal'.tier = bal.tier \/ bal'.tier = Allotment[plan]) /\ bal'.topup = bal.topup
  BY <1>2, ResetBuckets DEF LedgerOK
<1>5. TierNeverAccumulates'
  BY <1>2, <1>4 DEF TierNeverAccumulates
<1> QED BY <1>3, <1>4, <1>5

(* And so does an entry of any amount in the other bucket. *)
LEMMA PostKeeps ==
    ASSUME LedgerOK, TierNeverAccumulates, NEW key \in Keys, NEW amount \in Int,
           PostEntry(key, amount, "topup")
    PROVE  LedgerOK' /\ TierNeverAccumulates' /\ LedgerGrows
<1>1. LedgerOK' /\ LedgerGrows
  BY PostEntryKeepsLedger DEF LedgerOK
<1>2. bal'.tier >= 0 /\ bal'.tier <= bal.tier /\ bal'.tier \in Int
  BY PostEntryTier DEF LedgerOK, TierNeverAccumulates
<1>3. PICK q \in AllPlans : bal.tier <= Allotment[q]
  BY DEF TierNeverAccumulates
<1>4. Allotment[q] \in Nat /\ bal.tier \in Int
  BY TierAssumption DEF AllPlans, LedgerOK, BalanceRow
<1>5. bal'.tier <= Allotment[q]
  BY <1>2, <1>3, <1>4
<1> QED BY <1>1, <1>2, <1>5 DEF TierNeverAccumulates

LEMMA AmountsNat == Amounts \subseteq Nat
BY TierAssumption DEF Amounts, AllPlans

LEMMA Unchanged ==
    ASSUME LedgerOK, TierNeverAccumulates, UNCHANGED ledgerVars
    PROVE  LedgerOK' /\ TierNeverAccumulates' /\ LedgerGrows
<1>1. bal' = bal /\ ledger' = ledger
  BY DEF ledgerVars
<1>2. LedgerGrows
  BY <1>1 DEF LedgerGrows, LedgerOK, LedgerRows
<1> QED BY <1>1, <1>2 DEF LedgerOK, LedgerIsBalance, BalanceBefore, TierNeverAccumulates

(* The initial state. *)
LEMMA InitHolds == Init => IInv
<1> SUFFICES ASSUME Init PROVE RestOK /\ LedgerOK /\ TierNeverAccumulates
  BY Split
<1>1. LedgerOK
  BY LedgerInitHolds DEF Init, LedgerOK
<1>2. RestOK
  <2>1. trial \in BOOLEAN
    BY Zenon DEF Init
  <2>2. hook \in [pc : {"noorg", "trial", "plan", "fallback", "reset", "done"}, plan : AllPlans,
                 period : 0..MaxPeriod]
    BY TierAssumption DEF Init, NewProc, AllPlans
  <2>3. tick \in [Ticks -> [pc : {"idle", "plan", "fallback", "reset"}, plan : AllPlans,
                           period : 0..MaxPeriod]]
    BY TierAssumption DEF Init, NewProc, AllPlans
  <2>4. /\ period \in 0..MaxPeriod /\ sub \in AllPlans
        /\ debits \in 0..MaxDebits /\ grants \in 0..MaxGrants /\ faults \in 0..MaxFaults
    BY TierAssumption DEF Init, AllPlans
  <2> QED BY <2>1, <2>2, <2>3, <2>4 DEF RestOK
<1>3. bal.tier = 0 /\ "free" \in AllPlans /\ Allotment["free"] \in Nat
  BY TierAssumption DEF Init, LedgerInit, AllPlans
<1> QED BY <1>1, <1>2, <1>3 DEF TierNeverAccumulates

(* Every step keeps the invariant, grows the ledger and, if it books a     *)
(* reset, leaves the topup bucket alone.                                   *)
LEMMA StepHolds ==
    ASSUME IInv, [Next]_vars
    PROVE  IInv' /\ LedgerGrows
<1> USE TierAssumption
<1>0. RestOK /\ LedgerOK /\ TierNeverAccumulates
  BY Split
<1> SUFFICES RestOK' /\ LedgerOK' /\ TierNeverAccumulates' /\ LedgerGrows
  BY DEF IInv, TypeOK, RestOK, LedgerOK
<1>1. CASE CreateOrganization \/ TrialEnds \/ ChangeSubscription \/ NextPeriod
           \/ StartTrial \/ SeedReadSubscription \/ SeedReadTrial
  <2>1. UNCHANGED ledgerVars
    BY <1>1 DEF CreateOrganization, TrialEnds, ChangeSubscription, NextPeriod, StartTrial,
                SeedReadSubscription, SeedReadTrial, ledgerVars
  <2>2. ASSUME CreateOrganization PROVE RestOK'
    BY <2>2, <1>0 DEF CreateOrganization, RestOK, NewProc, AllPlans
  <2>3. ASSUME TrialEnds PROVE RestOK'
    <3>1. trial' \in BOOLEAN
      BY <2>3, Zenon DEF TrialEnds
    <3>2. UNCHANGED <<period, sub, hook, tick, debits, grants, faults>>
      BY <2>3 DEF TrialEnds
    <3> QED BY <3>1, <3>2, <1>0 DEF RestOK
  <2>4. ASSUME ChangeSubscription PROVE RestOK'
    BY <2>4, <1>0 DEF ChangeSubscription, RestOK
  <2>5. ASSUME NextPeriod PROVE RestOK'
    BY <2>5, <1>0 DEF NextPeriod, RestOK
  <2>6. ASSUME StartTrial PROVE RestOK'
    <3>1. trial' \in BOOLEAN
      BY <2>6, <1>0, Zenon DEF StartTrial, RestOK
    <3>2. faults' \in 0..MaxFaults
      BY <2>6, <1>0 DEF StartTrial, RestOK, Fault
    <3>3. hook' \in [pc : {"noorg", "trial", "plan", "fallback", "reset", "done"}, plan : AllPlans,
                    period : 0..MaxPeriod]
      BY <2>6, <1>0 DEF StartTrial, RestOK
    <3>4. UNCHANGED <<period, sub, tick, debits, grants>>
      BY <2>6 DEF StartTrial
    <3> QED BY <3>1, <3>2, <3>3, <3>4, <1>0 DEF RestOK
  <2>7. ASSUME SeedReadSubscription PROVE RestOK'
    <3>1. PICK plan \in AllPlans :
             /\ SubscriptionRead(plan)
             /\ hook' = AfterSubscription([hook EXCEPT !.period = period], plan)
      BY <2>7 DEF SeedReadSubscription
    <3>2. faults' \in 0..MaxFaults
      BY <3>1, <1>0, PlanReadFaults DEF RestOK
    <3> QED BY <2>7, <3>1, <3>2, <1>0 DEF SeedReadSubscription, AfterSubscription, RestOK
  <2>8. ASSUME SeedReadTrial PROVE RestOK'
    <3>1. PICK plan \in AllPlans :
             /\ TrialRead(plan)
             /\ hook' = [hook EXCEPT !.pc = "reset", !.plan = plan]
      BY <2>8 DEF SeedReadTrial
    <3>2. faults' \in 0..MaxFaults
      BY <3>1, <1>0, PlanReadFaults DEF RestOK
    <3> QED BY <2>8, <3>1, <3>2, <1>0 DEF SeedReadTrial, RestOK
  <2> QED BY <1>1, <2>1, <2>2, <2>3, <2>4, <2>5, <2>6, <2>7, <2>8, <1>0, Unchanged
<1>2. CASE SeedReset
  <2>1. RestOK'
    BY <1>2, <1>0 DEF SeedReset, RestOK, Fault, NewProc, AllPlans
  <2>2. hook.period \in 0..MaxPeriod /\ hook.plan \in AllPlans
    BY <1>0 DEF RestOK
  <2> QED BY <1>2, <2>1, <2>2, <1>0, ResetKeeps, Unchanged DEF SeedReset
<1>3. ASSUME NEW m \in Amounts \ {0}, Usage(m) PROVE RestOK' /\ LedgerOK' /\ TierNeverAccumulates' /\ LedgerGrows
  <2>1. RestOK'
    BY <1>3, <1>0 DEF Usage, RestOK
  <2>2. <<"usage", debits>> \in Keys /\ -m \in Int
    BY <1>0, AmountsNat DEF Keys, RestOK
  <2> QED BY <1>3, <2>1, <2>2, <1>0, PostKeeps DEF Usage
<1>4. ASSUME NEW m \in Amounts \ {0}, TopUp(m) PROVE RestOK' /\ LedgerOK' /\ TierNeverAccumulates' /\ LedgerGrows
  <2>1. RestOK'
    BY <1>4, <1>0 DEF TopUp, RestOK
  <2>2. <<"topup", grants>> \in Keys /\ m \in Int
    BY <1>0, AmountsNat DEF Keys, RestOK
  <2> QED BY <1>4, <2>1, <2>2, <1>0, PostKeeps DEF TopUp
<1>5. ASSUME NEW t \in Ticks, TickSelectDue(t) \/ TickReadSubscription(t) \/ TickReadTrial(t) \/ TickCrash(t)
      PROVE RestOK' /\ LedgerOK' /\ TierNeverAccumulates' /\ LedgerGrows
  <2>1. UNCHANGED ledgerVars
    BY <1>5 DEF TickSelectDue, TickReadSubscription, TickReadTrial, TickCrash, ledgerVars
  <2>2. ASSUME TickSelectDue(t) PROVE RestOK'
    BY <2>2, <1>0 DEF TickSelectDue, RestOK, NewProc, AllPlans
  <2>3. ASSUME TickReadSubscription(t) PROVE RestOK'
    <3>1. PICK plan \in AllPlans :
             /\ SubscriptionRead(plan)
             /\ tick' = [tick EXCEPT ![t] = AfterSubscription(tick[t], plan)]
      BY <2>3 DEF TickReadSubscription
    <3>2. faults' \in 0..MaxFaults
      BY <3>1, <1>0, PlanReadFaults DEF RestOK
    <3>3. tick' \in [Ticks -> [pc : {"idle", "plan", "fallback", "reset"}, plan : AllPlans,
                               period : 0..MaxPeriod]]
      BY <3>1, <1>0 DEF AfterSubscription, RestOK
    <3> QED BY <2>3, <3>2, <3>3, <1>0 DEF TickReadSubscription, RestOK
  <2>5. ASSUME TickReadTrial(t) PROVE RestOK'
    <3>1. PICK plan \in AllPlans :
             /\ TrialRead(plan)
             /\ tick' = [tick EXCEPT ![t].pc = "reset", ![t].plan = plan]
      BY <2>5 DEF TickReadTrial
    <3>2. faults' \in 0..MaxFaults
      BY <3>1, <1>0, PlanReadFaults DEF RestOK
    <3>3. tick' \in [Ticks -> [pc : {"idle", "plan", "fallback", "reset"}, plan : AllPlans,
                               period : 0..MaxPeriod]]
      BY <3>1, <1>0 DEF RestOK
    <3> QED BY <2>5, <3>2, <3>3, <1>0 DEF TickReadTrial, RestOK
  <2>4. ASSUME TickCrash(t) PROVE RestOK'
    BY <2>4, <1>0 DEF TickCrash, RestOK, Fault, NewProc, AllPlans
  <2> QED BY <1>5, <2>1, <2>2, <2>3, <2>4, <2>5, <1>0, Unchanged
<1>6. ASSUME NEW t \in Ticks, TickReset(t)
      PROVE RestOK' /\ LedgerOK' /\ TierNeverAccumulates' /\ LedgerGrows
  <2>1. RestOK'
    BY <1>6, <1>0 DEF TickReset, RestOK, Fault, NewProc, AllPlans
  <2>2. tick[t].period \in 0..MaxPeriod /\ tick[t].plan \in AllPlans
    BY <1>0 DEF RestOK
  <2> QED BY <1>6, <2>1, <2>2, <1>0, ResetKeeps, Unchanged DEF TickReset
<1>7. CASE UNCHANGED vars
  <2>1. UNCHANGED ledgerVars /\ RestOK'
    BY <1>7, <1>0 DEF vars, ledgerVars, RestOK
  <2> QED BY <2>1, <1>0, Unchanged
<1> QED
  BY <1>1, <1>2, <1>3, <1>4, <1>5, <1>6, <1>7 DEF Next, HookStep, TickStep

-----------------------------------------------------------------------------
(* The inductive invariant holds in every reachable state. *)
THEOREM Inductive == Spec => []IInv
<1>1. IInv /\ [Next]_vars => IInv'
  BY StepHolds
<1> QED BY InitHolds, <1>1, PTL DEF Spec

(* Types, for every value of the constants. *)
THEOREM TypeCorrect == Spec => []TypeOK
<1>1. IInv => TypeOK
  BY DEF IInv
<1> QED BY Inductive, <1>1, PTL

(* The ledger and the balance row agree after every reset, debit, top-up   *)
(* and replay, however ticks and the hook interleave and fail.             *)
THEOREM LedgerCorrect == Spec => []LedgerIsBalance
<1>1. IInv => LedgerIsBalance
  BY DEF IInv
<1> QED BY Inductive, <1>1, PTL

(* Expiring credit stays between zero and the largest allotment, for ever  *)
(* and for any number of periods.                                          *)
THEOREM TierBounded == Spec => []TierNeverAccumulates
<1>1. IInv => TierNeverAccumulates
  BY DEF IInv
<1> QED BY Inductive, <1>1, PTL

(* Usage and top-ups book under keys of their own, never a reset's. *)
LEMMA OtherKeysAreNotResets ==
    ASSUME LedgerOK, NEW p \in 0..MaxPeriod, NEW m, Usage(m) \/ TopUp(m),
           ~HasEntry(ResetKey(p)), HasEntry(ResetKey(p))'
    PROVE  FALSE
<1>0. ledger' # ledger
  BY DEF HasEntry
<1>1. PICK key : (key = <<"usage", debits>> \/ key = <<"topup", grants>>)
                 /\ (PostEntry(key, -m, "topup") \/ PostEntry(key, m, "topup"))
  BY DEF Usage, TopUp
<1>2. key # ResetKey(p)
  BY <1>1 DEF ResetKey
<1>3. \E amount, after : ledger' = Append(ledger, [key |-> key, amount |-> amount, after |-> after])
  BY <1>0, <1>1 DEF PostEntry, PostFresh, Record, Replay
<1>4. PICK r : ledger' = Append(ledger, r) /\ r.key = key
  BY <1>3
<1>5. Len(ledger) \in Nat /\ DOMAIN ledger = 1..Len(ledger)
      /\ ledger \in Seq([key : Keys, amount : Int, after : Int])
  BY DEF LedgerOK, LedgerRows
<1>6. \A i \in DOMAIN ledger' : ledger'[i].key # ResetKey(p)
  BY <1>2, <1>4, <1>5 DEF HasEntry
<1> QED BY <1>6 DEF HasEntry

(* A step that books a tier_reset entry leaves purchased credit as it was. *)
LEMMA ResetStepKeepsTopup ==
    ASSUME IInv, [Next]_vars, NEW p \in 0..MaxPeriod,
           ~HasEntry(ResetKey(p)), HasEntry(ResetKey(p))'
    PROVE  bal'.topup = bal.topup
<1>0. RestOK /\ LedgerOK /\ TierNeverAccumulates
  BY Split
<1>1. ledger' # ledger
  BY DEF HasEntry
<1>2. CASE SeedReset
  <2>1. hook.plan \in AllPlans
    BY <1>0 DEF RestOK
  <2>2. Allotment[hook.plan] \in Int
    BY <2>1, TierAssumption DEF AllPlans
  <2>3. ResetTierBucket(ResetKey(hook.period), Allotment[hook.plan])
    BY <1>1, <1>2 DEF SeedReset, ledgerVars
  <2> QED BY <2>2, <2>3, <1>0, ResetBuckets DEF LedgerOK
<1>3. ASSUME NEW t \in Ticks, TickReset(t) PROVE bal'.topup = bal.topup
  <2>1. tick[t].plan \in AllPlans
    BY <1>0 DEF RestOK
  <2>2. Allotment[tick[t].plan] \in Int
    BY <2>1, TierAssumption DEF AllPlans
  <2>3. ResetTierBucket(ResetKey(tick[t].period), Allotment[tick[t].plan])
    BY <1>1, <1>3 DEF TickReset, ledgerVars
  <2> QED BY <2>2, <2>3, <1>0, ResetBuckets DEF LedgerOK
<1>4. ASSUME NEW m \in Amounts \ {0}, Usage(m) \/ TopUp(m) PROVE FALSE
  BY <1>0, <1>4, OtherKeysAreNotResets
<1>5. CASE \/ CreateOrganization \/ StartTrial \/ SeedReadSubscription \/ SeedReadTrial \/ TrialEnds
          \/ ChangeSubscription \/ NextPeriod \/ UNCHANGED vars
          \/ \E t \in Ticks : TickSelectDue(t) \/ TickReadSubscription(t) \/ TickReadTrial(t) \/ TickCrash(t)
  BY <1>1, <1>5 DEF CreateOrganization, StartTrial, SeedReadSubscription, SeedReadTrial, TrialEnds, ChangeSubscription,
                    NextPeriod, TickSelectDue, TickReadSubscription, TickReadTrial, TickCrash, vars
<1> QED BY <1>2, <1>3, <1>4, <1>5 DEF Next, HookStep, TickStep

(* Purchased credit survives every monthly reset. *)
THEOREM TopupSurvivesReset == Spec => ResetKeepsTopup
<1> DEFINE Keeps == \A p \in 0..MaxPeriod :
       (~HasEntry(ResetKey(p)) /\ HasEntry(ResetKey(p))') => bal'.topup = bal.topup
<1>1. IInv /\ [Next]_vars => [Keeps]_vars
  BY ResetStepKeepsTopup
<1> QED BY Inductive, <1>1, PTL DEF Spec, ResetKeepsTopup

(* No ledger row is ever changed or removed. *)
THEOREM LedgerAppendOnly == Spec => AppendOnly
<1>1. IInv /\ [Next]_vars => [LedgerGrows]_ledgerVars
  BY StepHolds
<1> QED BY Inductive, <1>1, PTL DEF Spec, AppendOnly

-----------------------------------------------------------------------------
(* Every step books one fresh key or none.                                 *)
LEMMA StepBooks == ASSUME IInv, [Next]_vars PROVE Books
<1>0. RestOK /\ LedgerOK
  BY Split
<1>1. ASSUME NEW p \in 0..MaxPeriod, NEW plan \in AllPlans,
             ResetTierBucket(ResetKey(p), Allotment[plan])
      PROVE  Books
  <2>1. ResetKey(p) \in Keys /\ Allotment[plan] \in Int
    BY ResetKeyInKeys, TierAssumption DEF AllPlans
  <2> QED BY <1>0, <1>1, <2>1, ResetTierBucketBooks DEF LedgerOK
<1>2. CASE SeedReset
  <2>1. hook.period \in 0..MaxPeriod /\ hook.plan \in AllPlans
    BY <1>0 DEF RestOK
  <2> QED BY <1>1, <1>2, <2>1, NoEntryBooks DEF SeedReset
<1>3. ASSUME NEW t \in Ticks, TickReset(t) PROVE Books
  <2>1. tick[t].period \in 0..MaxPeriod /\ tick[t].plan \in AllPlans
    BY <1>0 DEF RestOK
  <2> QED BY <1>1, <1>3, <2>1, NoEntryBooks DEF TickReset
<1>4. ASSUME NEW m \in Amounts, Usage(m) PROVE Books
  <2>1. <<"usage", debits>> \in Keys /\ -m \in Int
    BY <1>0, <1>4, TierAssumption, AmountsNat DEF Keys, RestOK, Usage
  <2> QED BY <1>0, <1>4, <2>1, PostEntryBooks DEF Usage, LedgerOK
<1>5. ASSUME NEW m \in Amounts, TopUp(m) PROVE Books
  <2>1. <<"topup", grants>> \in Keys /\ m \in Int
    BY <1>0, <1>5, TierAssumption, AmountsNat DEF Keys, RestOK, TopUp
  <2> QED BY <1>0, <1>5, <2>1, PostEntryBooks DEF TopUp, LedgerOK
<1>6. CASE \/ CreateOrganization \/ StartTrial \/ SeedReadSubscription \/ SeedReadTrial \/ TrialEnds
          \/ ChangeSubscription \/ NextPeriod \/ UNCHANGED vars
          \/ \E t \in Ticks : TickSelectDue(t) \/ TickReadSubscription(t) \/ TickReadTrial(t) \/ TickCrash(t)
  <2>1. UNCHANGED ledgerVars
    BY <1>6 DEF CreateOrganization, StartTrial, SeedReadSubscription, SeedReadTrial, TrialEnds,
                ChangeSubscription, NextPeriod, TickSelectDue, TickReadSubscription,
                TickReadTrial, TickCrash, vars, ledgerVars
  <2> QED BY <2>1, NoEntryBooks
<1> QED BY <1>2, <1>3, <1>4, <1>5, <1>6 DEF Next, HookStep, TickStep

(* The monthly reset, the seed, usage and top-ups implement the abstract   *)
(* ledger: each period's reset and each charge is booked under its key     *)
(* once and for good, and the balance row is what was booked, whichever    *)
(* of overlapping ticks and the hook comes first or is repeated.           *)
THEOREM TierResetKeepsPromise == Spec => KeepsPromise
<1>1. Init => Promise!Init
  BY LedgerInitBooksNothing DEF Init
<1>2. IInv /\ [Next]_vars => Books
  BY StepBooks
<1> QED BY Inductive, <1>1, <1>2, PTL DEF Spec, KeepsPromise, Promise!Spec, Books

-----------------------------------------------------------------------------
(* Which plan's envelope a period gets.  A process whose lookup for its    *)
(* period was not spoilt knows a plan that was held since that period      *)
(* began; between its two reads it knows that there is no subscription.    *)
Sound(proc) ==
    /\ proc.period <= period
    /\ proc.period \notin misread =>
          /\ proc.pc = "fallback" => sub = "free"
          /\ proc.pc = "reset" => proc.plan \in held[proc.period]

EnvelopeInv ==
    /\ held \in [0..MaxPeriod -> SUBSET AllPlans]
    /\ \A p \in 0..MaxPeriod : p <= period => PlanNow \in held[p]
    /\ Sound(hook)
    /\ \A t \in Ticks : Sound(tick[t])

LEMMA PlanNowIsPlan ==
    ASSUME sub \in AllPlans
    PROVE  PlanNow \in AllPlans
BY TierAssumption DEF PlanNow, AllPlans

LEMMA EnvelopeInitHolds == EnvelopeInit => EnvelopeInv
<1> SUFFICES ASSUME EnvelopeInit PROVE EnvelopeInv
  OBVIOUS
<1>1. RestOK /\ Init
  BY InitHolds, Split DEF EnvelopeInit
<1>2. PlanNow \in AllPlans
  BY <1>1, PlanNowIsPlan DEF RestOK
<1>3. held = [p \in 0..MaxPeriod |-> IF p = period THEN {PlanNow} ELSE {}]
  BY DEF EnvelopeInit
<1> HIDE DEF PlanNow
<1>4. held \in [0..MaxPeriod -> SUBSET AllPlans]
  BY <1>2, <1>3
<1>5. period = 0 /\ hook = NewProc("noorg") /\ \A t \in Ticks : tick[t] = NewProc("idle")
  BY <1>1 DEF Init
<1>6. \A p \in 0..MaxPeriod : p <= period => PlanNow \in held[p]
  BY <1>3, <1>5
<1> QED BY <1>4, <1>5, <1>6 DEF EnvelopeInv, Sound, NewProc

(* A process that its step leaves alone, and whose lookup that step did    *)
(* not spoil, stays sound.                                                 *)
LEMMA SoundStays ==
    ASSUME NEW proc, Sound(proc), proc.period \in 0..MaxPeriod,
           period \in 0..MaxPeriod, period' \in 0..MaxPeriod, period <= period',
           misread \subseteq misread',
           \A p \in 0..MaxPeriod : held[p] \subseteq held'[p],
           proc.pc = "fallback" /\ sub' # sub => proc.period \in misread'
    PROVE  /\ proc.period <= period'
           /\ proc.period \notin misread' =>
                 /\ proc.pc = "fallback" => sub' = "free"
                 /\ proc.pc = "reset" => proc.plan \in held'[proc.period]
BY DEF Sound

(* What a step does to the histories. *)
LEMMA Histories ==
    ASSUME IInv, IInv', EnvelopeInv, EnvelopeNext
    PROVE  /\ held' \in [0..MaxPeriod -> SUBSET AllPlans]
           /\ \A p \in 0..MaxPeriod : held[p] \subseteq held'[p]
           /\ \A p \in 0..MaxPeriod : p <= period' => PlanNow' \in held'[p]
           /\ misread \subseteq misread'
           /\ SpoiltPeriods \subseteq misread'
<1>1. PlanNow' \in AllPlans
  <2>1. sub' \in AllPlans
    BY DEF IInv, TypeOK
  <2> QED BY <2>1, TierAssumption DEF PlanNow, AllPlans
<1>2. /\ held' = [p \in 0..MaxPeriod |->
                   IF p <= period' THEN held[p] \cup {PlanNow'} ELSE held[p]]
      /\ misread' = misread \cup SpoiltPeriods
  BY DEF EnvelopeNext
<1>3. held \in [0..MaxPeriod -> SUBSET AllPlans]
  BY DEF EnvelopeInv
<1> HIDE DEF PlanNow
<1>4. held' \in [0..MaxPeriod -> SUBSET AllPlans]
  BY <1>1, <1>2, <1>3
<1>5. \A p \in 0..MaxPeriod : held[p] \subseteq held'[p]
  BY <1>2
<1>6. \A p \in 0..MaxPeriod : p <= period' => PlanNow' \in held'[p]
  BY <1>2
<1> QED BY <1>2, <1>4, <1>5, <1>6

(* What the first read answers, when it is not spoilt. *)
LEMMA UnspoiltSubscription ==
    ASSUME NEW plan, SubscriptionRead(plan), faults' = faults, faults \in Nat
    PROVE  plan = sub
BY DEF SubscriptionRead, Fault

LEMMA UnspoiltTrial ==
    ASSUME NEW plan, TrialRead(plan), faults' = faults, faults \in Nat, sub = "free"
    PROVE  plan = PlanNow
BY DEF TrialRead, Fault, PlanNow

Proc == [pc : {"noorg", "idle", "trial", "plan", "fallback", "reset", "done"},
         plan : AllPlans, period : 0..MaxPeriod]

\* Sound after the step, of a record that is given by its value.
SoundNext(proc) ==
    /\ proc.period <= period'
    /\ proc.period \notin misread' =>
          /\ proc.pc = "fallback" => sub' = "free"
          /\ proc.pc = "reset" => proc.plan \in held'[proc.period]

\* What Histories says, for the lemmas on one process.
HistoriesGrow ==
    /\ period \in 0..MaxPeriod /\ period' \in 0..MaxPeriod /\ period <= period'
    /\ misread \subseteq misread'
    /\ \A p \in 0..MaxPeriod : held[p] \subseteq held'[p]
    /\ \A p \in 0..MaxPeriod : p <= period => PlanNow \in held[p]

(* The first read: an unspoilt answer is the subscription of now.          *)
LEMMA SubscriptionReadSound ==
    ASSUME NEW proc \in Proc,
           NEW plan, SubscriptionRead(plan), HistoriesGrow, faults \in Nat,
           UNCHANGED sub, proc.period <= period,
           faults' # faults => proc.period \in misread',
           NEW q, q = AfterSubscription(proc, plan)
    PROVE  SoundNext(q)
<1>0. proc.period \in 0..MaxPeriod
  BY DEF Proc
<1>1. /\ q.period = proc.period /\ q.plan = plan
      /\ q.pc = IF plan = "free" THEN "fallback" ELSE "reset"
  BY DEF AfterSubscription, Proc
<1>2. q.period <= period'
  BY <1>0, <1>1 DEF HistoriesGrow
<1>3. ASSUME q.period \notin misread' PROVE plan = sub
  BY <1>1, <1>3, UnspoiltSubscription
<1>4. ASSUME q.period \notin misread', q.pc = "fallback" PROVE sub' = "free"
  BY <1>1, <1>3, <1>4
<1>5. ASSUME q.period \notin misread', q.pc = "reset" PROVE q.plan \in held'[q.period]
  <2>1. plan = sub /\ sub # "free"
    BY <1>1, <1>3, <1>5
  <2>2. PlanNow = sub
    BY <2>1 DEF PlanNow
  <2> HIDE DEF PlanNow
  <2> QED BY <1>0, <1>1, <2>1, <2>2 DEF HistoriesGrow
<1> QED BY <1>2, <1>4, <1>5 DEF SoundNext

(* The second read, of a process that found no subscription. *)
LEMMA TrialReadSound ==
    ASSUME NEW proc \in Proc,
           NEW plan, TrialRead(plan), HistoriesGrow, faults \in Nat,
           proc.pc = "fallback", Sound(proc),
           faults' # faults => proc.period \in misread',
           NEW q, q.period = proc.period, q.plan = plan, q.pc = "reset"
    PROVE  SoundNext(q)
<1>0. proc.period \in 0..MaxPeriod
  BY DEF Proc
<1>1. q.period = proc.period /\ q.plan = plan /\ q.pc = "reset"
  OBVIOUS
<1>2. q.period <= period'
  BY <1>0, <1>1 DEF HistoriesGrow, Sound
<1>3. ASSUME q.period \notin misread' PROVE q.plan \in held'[q.period]
  <2>1. sub = "free"
    BY <1>1, <1>3 DEF Sound, HistoriesGrow
  <2>2. plan = PlanNow
    BY <1>1, <1>3, <2>1, UnspoiltTrial
  <2> QED BY <1>0, <1>1, <2>2 DEF HistoriesGrow, Sound
<1> QED BY <1>1, <1>2, <1>3 DEF SoundNext

(* A process that starts, or is done. *)
LEMMA OtherwiseSound ==
    ASSUME NEW proc, proc.pc \notin {"fallback", "reset"}, proc.period <= period'
    PROVE  SoundNext(proc)
BY DEF SoundNext

LEMMA StaysSound ==
    ASSUME NEW proc, Sound(proc), proc.period \in 0..MaxPeriod, HistoriesGrow,
           proc.pc = "fallback" /\ sub' # sub => proc.period \in misread'
    PROVE  SoundNext(proc)
BY DEF Sound, SoundNext, HistoriesGrow

LEMMA PeriodGrows == ASSUME IInv, Next PROVE period <= period' /\ period \in Int
<1>1. period \in 0..MaxPeriod
  BY DEF IInv, TypeOK
<1>2. period' = period \/ period' = period + 1
  BY DEF Next, CreateOrganization, HookStep, StartTrial, SeedReadSubscription, SeedReadTrial,
         SeedReset, TrialEnds, ChangeSubscription, NextPeriod, Usage, TopUp, TickStep,
         TickSelectDue, TickReadSubscription, TickReadTrial, TickReset, TickCrash
<1> QED BY <1>1, <1>2, TierAssumption

LEMMA TicksStaySound ==
    ASSUME IInv, IInv', EnvelopeInv, EnvelopeNext, HistoriesGrow, NEW t \in Ticks
    PROVE  SoundNext(tick'[t])
<1> DEFINE P == tick[t].period
<1>1. /\ tick \in [Ticks -> [pc : {"idle", "plan", "fallback", "reset"}, plan : AllPlans,
                             period : 0..MaxPeriod]]
      /\ faults \in 0..MaxFaults /\ MaxFaults \in Nat
      /\ period \in 0..MaxPeriod
  BY TierAssumption DEF IInv, TypeOK
<1>2. tick[t] \in Proc /\ faults \in Nat
  BY <1>1 DEF Proc
<1>3. Sound(tick[t]) /\ P <= period /\ P \in 0..MaxPeriod
  BY <1>1 DEF EnvelopeInv, Sound
<1>4. Spoilt(tick[t], tick'[t]) => P \in misread'
  <2>1. SpoiltPeriods \subseteq misread'
    BY Histories
  <2> QED BY <2>1 DEF SpoiltPeriods
<1>5. CASE tick'[t] = tick[t]
  <2>1. tick[t].pc = "fallback" /\ sub' # sub => P \in misread'
    BY <1>4 DEF Spoilt
  <2> QED BY <1>3, <1>5, <2>1, StaysSound
<1>6. CASE TickSelectDue(t)
  <2>1. tick'[t] = [NewProc("plan") EXCEPT !.period = period]
    BY <1>1, <1>6 DEF TickSelectDue
  <2>2. tick'[t].pc = "plan" /\ tick'[t].period = period
    BY <2>1 DEF NewProc
  <2> QED BY <2>2, OtherwiseSound DEF HistoriesGrow
<1>7. CASE TickReadSubscription(t)
  <2>1. PICK plan \in AllPlans :
           SubscriptionRead(plan) /\ tick' = [tick EXCEPT ![t] = AfterSubscription(tick[t], plan)]
    BY <1>7 DEF TickReadSubscription
  <2>2. tick'[t] = AfterSubscription(tick[t], plan) /\ tick[t].pc = "plan" /\ UNCHANGED sub
    BY <1>1, <1>7, <2>1 DEF TickReadSubscription
  <2>3. tick'[t].pc \in {"fallback", "reset"}
    BY <2>2 DEF AfterSubscription
  <2>4. faults' # faults => P \in misread'
    BY <1>4, <2>2, <2>3 DEF Spoilt
  <2>5. tick[t] \in Proc /\ faults \in Nat /\ P <= period /\ SubscriptionRead(plan)
    BY <1>2, <1>3, <2>1
  <2> QED BY <2>2, <2>4, <2>5, SubscriptionReadSound
<1>8. CASE TickReadTrial(t)
  <2>1. PICK plan \in AllPlans :
           TrialRead(plan) /\ tick' = [tick EXCEPT ![t].pc = "reset", ![t].plan = plan]
    BY <1>8 DEF TickReadTrial
  <2>2. tick'[t] = [tick[t] EXCEPT !.pc = "reset", !.plan = plan] /\ tick[t].pc = "fallback"
    BY <1>1, <1>8, <2>1 DEF TickReadTrial
  <2>3. tick'[t].pc = "reset" /\ tick'[t].plan = plan /\ tick'[t].period = tick[t].period
    BY <1>1, <2>2
  <2>4. faults' # faults => P \in misread'
    BY <1>4, <2>2, <2>3 DEF Spoilt
  <2>5. tick[t] \in Proc /\ faults \in Nat /\ Sound(tick[t]) /\ TrialRead(plan)
    BY <1>2, <1>3, <2>1
  <2> QED BY <2>2, <2>3, <2>4, <2>5, TrialReadSound
<1>9. CASE TickReset(t) \/ TickCrash(t)
  <2>1. tick'[t] = NewProc("idle")
    BY <1>1, <1>9 DEF TickReset, TickCrash
  <2>2. tick'[t].pc = "idle" /\ tick'[t].period <= period'
    BY <2>1 DEF NewProc, HistoriesGrow
  <2> QED BY <2>2, OtherwiseSound
<1>10. \/ tick'[t] = tick[t] \/ TickSelectDue(t) \/ TickReadSubscription(t) \/ TickReadTrial(t)
       \/ TickReset(t) \/ TickCrash(t)
  <2>1. ASSUME NEW u \in Ticks \ {t}, TickStep(u) \/ TickCrash(u) PROVE tick'[t] = tick[t]
    BY <1>1, <2>1 DEF TickStep, TickSelectDue, TickReadSubscription, TickReadTrial, TickReset,
                      TickCrash
  <2>2. ASSUME CreateOrganization \/ HookStep \/ TrialEnds \/ ChangeSubscription \/ NextPeriod
               \/ \E m \in Amounts \ {0} : Usage(m) \/ TopUp(m)
        PROVE  tick' = tick
    BY <2>2 DEF CreateOrganization, HookStep, StartTrial, SeedReadSubscription, SeedReadTrial,
                SeedReset, TrialEnds, ChangeSubscription, NextPeriod, Usage, TopUp
  <2> QED BY <2>1, <2>2 DEF EnvelopeNext, Next, TickStep
<1> QED BY <1>5, <1>6, <1>7, <1>8, <1>9, <1>10

LEMMA HookStaysSound ==
    ASSUME IInv, IInv', EnvelopeInv, EnvelopeNext, HistoriesGrow
    PROVE  SoundNext(hook')
<1>1. /\ hook \in [pc : {"noorg", "trial", "plan", "fallback", "reset", "done"},
                   plan : AllPlans, period : 0..MaxPeriod]
      /\ faults \in 0..MaxFaults /\ MaxFaults \in Nat
      /\ period \in 0..MaxPeriod
  BY TierAssumption DEF IInv, TypeOK
<1>2. hook \in Proc /\ faults \in Nat
  BY <1>1 DEF Proc
<1>3. Sound(hook) /\ hook.period <= period /\ hook.period \in 0..MaxPeriod
  BY <1>1 DEF EnvelopeInv, Sound
<1>4. Spoilt(hook, hook') => hook'.period \in misread'
  <2>1. SpoiltPeriods \subseteq misread'
    BY Histories
  <2> QED BY <2>1 DEF SpoiltPeriods
<1>5. CASE hook' = hook
  <2>1. hook.pc = "fallback" /\ sub' # sub => hook.period \in misread'
    BY <1>4, <1>5 DEF Spoilt
  <2> QED BY <1>3, <1>5, <2>1, StaysSound
<1>6. CASE CreateOrganization \/ SeedReset
  <2>1. hook'.pc \in {"trial", "done"} /\ hook'.period <= period'
    BY <1>6 DEF CreateOrganization, SeedReset, NewProc, HistoriesGrow
  <2> QED BY <2>1, OtherwiseSound
<1>7. CASE StartTrial
  <2>1. hook'.pc = "plan" /\ hook'.period <= period'
    BY <1>1, <1>3, <1>7 DEF StartTrial
  <2> QED BY <2>1, OtherwiseSound
<1>8. CASE SeedReadSubscription
  <2> DEFINE h == [hook EXCEPT !.period = period]
  <2>1. PICK plan \in AllPlans :
           SubscriptionRead(plan) /\ hook' = AfterSubscription(h, plan)
    BY <1>8 DEF SeedReadSubscription
  <2>2. hook.pc = "plan" /\ UNCHANGED sub
    BY <1>8 DEF SeedReadSubscription
  <2>3. h \in Proc /\ h.period = period
    BY <1>1, <1>2 DEF Proc
  <2> HIDE DEF h
  <2>4. hook'.pc \in {"fallback", "reset"} /\ hook'.period = h.period
    BY <2>1, <2>3 DEF AfterSubscription, Proc
  <2>5. faults' # faults => h.period \in misread'
    BY <1>4, <2>2, <2>4 DEF Spoilt
  <2> QED BY <1>1, <1>2, <2>1, <2>2, <2>3, <2>5, SubscriptionReadSound
<1>9. CASE SeedReadTrial
  <2>1. PICK plan \in AllPlans :
           TrialRead(plan) /\ hook' = [hook EXCEPT !.pc = "reset", !.plan = plan]
    BY <1>9 DEF SeedReadTrial
  <2>2. hook.pc = "fallback" /\ hook'.pc = "reset" /\ hook'.period = hook.period /\ hook'.plan = plan
    BY <1>1, <1>9, <2>1 DEF SeedReadTrial
  <2>3. faults' # faults => hook.period \in misread'
    BY <1>4, <2>2 DEF Spoilt
  <2>4. hook \in Proc /\ faults \in Nat /\ Sound(hook) /\ TrialRead(plan)
    BY <1>2, <1>3, <2>1
  <2> QED BY <2>2, <2>3, <2>4, TrialReadSound
<1>10. \/ hook' = hook \/ CreateOrganization \/ StartTrial \/ SeedReadSubscription
       \/ SeedReadTrial \/ SeedReset
  BY DEF EnvelopeNext, Next, HookStep, TrialEnds, ChangeSubscription, NextPeriod, Usage, TopUp,
         TickStep, TickSelectDue, TickReadSubscription, TickReadTrial, TickReset, TickCrash
<1> QED BY <1>5, <1>6, <1>7, <1>8, <1>9, <1>10

LEMMA EnvelopeStepHolds ==
    ASSUME IInv, EnvelopeInv, [EnvelopeNext]_envelopeVars
    PROVE  EnvelopeInv'
<1>1. CASE UNCHANGED envelopeVars
  BY <1>1 DEF envelopeVars, vars, EnvelopeInv, Sound, PlanNow
<1>2. CASE EnvelopeNext
  <2>1. IInv'
    BY <1>2, StepHolds DEF EnvelopeNext
  <2>2. HistoriesGrow
    <3>1. period \in 0..MaxPeriod /\ period' \in 0..MaxPeriod
      BY <2>1 DEF IInv, TypeOK
    <3>2. period <= period'
      BY <1>2, PeriodGrows DEF EnvelopeNext
    <3>3. \A p \in 0..MaxPeriod : p <= period => PlanNow \in held[p]
      BY DEF EnvelopeInv
    <3> QED BY <1>2, <2>1, <3>1, <3>2, <3>3, Histories DEF HistoriesGrow
  <2>3. \A t \in Ticks : Sound(tick[t])'
    BY <1>2, <2>1, <2>2, TicksStaySound DEF Sound, SoundNext
  <2>4. Sound(hook)'
    BY <1>2, <2>1, <2>2, HookStaysSound DEF Sound, SoundNext
  <2>5. /\ held' \in [0..MaxPeriod -> SUBSET AllPlans]
        /\ \A p \in 0..MaxPeriod : p <= period' => PlanNow' \in held'[p]
    BY <1>2, <2>1, Histories
  <2> QED BY <2>3, <2>4, <2>5 DEF EnvelopeInv
<1> QED BY <1>1, <1>2

(* The reset that books a period's entry takes the envelope of the plan    *)
(* its process read.                                                       *)
LEMMA ResetTakesEnvelope ==
    ASSUME NEW q \in 0..MaxPeriod, NEW plan, NEW p \in 0..MaxPeriod,
           ResetTierBucket(ResetKey(q), Allotment[plan]),
           LedgerOK, ~HasEntry(ResetKey(p)), HasEntry(ResetKey(p))'
    PROVE  p = q /\ bal'.tier = Allotment[plan]
<1>1. ledger' # ledger
  BY DEF HasEntry
<1>2. ~HasEntry(ResetKey(q)) /\ Record(ResetKey(q), Allotment[plan] - bal.tier, Allotment[plan], bal.topup)
  BY <1>1 DEF ResetTierBucket, Replay
<1>3. PICK r : ledger' = Append(ledger, r) /\ r.key = ResetKey(q)
  BY <1>2 DEF Record
<1>4. Len(ledger) \in Nat /\ DOMAIN ledger = 1..Len(ledger)
      /\ ledger \in Seq([key : Keys, amount : Int, after : Int])
  BY DEF LedgerOK, LedgerRows
<1>5. PICK i \in DOMAIN ledger' : ledger'[i].key = ResetKey(p)
  BY DEF HasEntry
<1>6. ledger'[i] = r
  BY <1>3, <1>4, <1>5 DEF HasEntry
<1>7. p = q
  BY <1>3, <1>5, <1>6 DEF ResetKey
<1> QED BY <1>2, <1>7 DEF Record

LEMMA EnvelopeStepTakesHeld ==
    ASSUME IInv, EnvelopeInv, Next, NEW p \in 0..MaxPeriod,
           ~HasEntry(ResetKey(p)), HasEntry(ResetKey(p))', p \notin misread
    PROVE  \E plan \in held[p] : bal'.tier = Allotment[plan]
<1>0. RestOK /\ LedgerOK
  BY Split
<1>1. ledger' # ledger
  BY DEF HasEntry
<1>2. ASSUME NEW proc, Sound(proc), proc.pc = "reset", proc.period \in 0..MaxPeriod,
             ResetTierBucket(ResetKey(proc.period), Allotment[proc.plan])
      PROVE  \E plan \in held[p] : bal'.tier = Allotment[plan]
  <2>1. p = proc.period /\ bal'.tier = Allotment[proc.plan]
    BY <1>0, <1>2, ResetTakesEnvelope
  <2> QED BY <1>2, <2>1 DEF Sound
<1>3. CASE SeedReset
  <2>1. hook.pc = "reset" /\ ResetTierBucket(ResetKey(hook.period), Allotment[hook.plan])
    BY <1>1, <1>3 DEF SeedReset, ledgerVars
  <2>2. hook.period \in 0..MaxPeriod /\ Sound(hook)
    BY <1>0 DEF RestOK, EnvelopeInv
  <2> QED BY <1>2, <2>1, <2>2
<1>4. ASSUME NEW t \in Ticks, TickReset(t)
      PROVE  \E plan \in held[p] : bal'.tier = Allotment[plan]
  <2>1. tick[t].pc = "reset" /\ ResetTierBucket(ResetKey(tick[t].period), Allotment[tick[t].plan])
    BY <1>1, <1>4 DEF TickReset, ledgerVars
  <2>2. tick[t].period \in 0..MaxPeriod /\ Sound(tick[t])
    BY <1>0 DEF RestOK, EnvelopeInv
  <2> QED BY <1>2, <2>1, <2>2
<1>5. ASSUME NEW m \in Amounts \ {0}, Usage(m) \/ TopUp(m) PROVE FALSE
  BY <1>0, <1>5, OtherKeysAreNotResets
<1>6. CASE \/ CreateOrganization \/ StartTrial \/ SeedReadSubscription \/ SeedReadTrial \/ TrialEnds
          \/ ChangeSubscription \/ NextPeriod
          \/ \E t \in Ticks : TickSelectDue(t) \/ TickReadSubscription(t) \/ TickReadTrial(t) \/ TickCrash(t)
  BY <1>1, <1>6 DEF CreateOrganization, StartTrial, SeedReadSubscription, SeedReadTrial, TrialEnds,
                    ChangeSubscription, NextPeriod, TickSelectDue, TickReadSubscription,
                    TickReadTrial, TickCrash
<1> QED BY <1>3, <1>4, <1>5, <1>6 DEF Next, HookStep, TickStep

(* EnvelopeSpec is TierReset with histories: what holds of TierReset holds *)
(* of it.                                                                  *)
LEMMA EnvelopeInductive == EnvelopeSpec => [](IInv /\ EnvelopeInv)
<1>1. EnvelopeInit => IInv /\ EnvelopeInv
  BY InitHolds, EnvelopeInitHolds DEF EnvelopeInit
<1>2. IInv /\ EnvelopeInv /\ [EnvelopeNext]_envelopeVars => (IInv /\ EnvelopeInv)'
  <2> SUFFICES ASSUME IInv, EnvelopeInv, [EnvelopeNext]_envelopeVars
               PROVE  IInv' /\ EnvelopeInv'
    OBVIOUS
  <2>1. [Next]_vars
    BY DEF EnvelopeNext, envelopeVars
  <2> QED BY <2>1, StepHolds, EnvelopeStepHolds
<1> QED BY <1>1, <1>2, PTL DEF EnvelopeSpec

(* The envelope a period is pinned to is that of a plan the organisation   *)
(* was on since the period began, for any number of ticks, periods and     *)
(* plans, unless the lookup for that period was spoilt.                    *)
THEOREM EnvelopeHeld == EnvelopeSpec => EnvelopeWasHeld
<1> DEFINE Held == \A p \in 0..MaxPeriod :
       (~HasEntry(ResetKey(p)) /\ HasEntry(ResetKey(p))' /\ p \notin misread) =>
           \E plan \in held[p] : bal'.tier = Allotment[plan]
<1>1. IInv /\ EnvelopeInv /\ [EnvelopeNext]_envelopeVars => [Held]_envelopeVars
  BY EnvelopeStepTakesHeld DEF EnvelopeNext
<1> QED BY EnvelopeInductive, <1>1, PTL DEF EnvelopeSpec, EnvelopeWasHeld
=============================================================================
