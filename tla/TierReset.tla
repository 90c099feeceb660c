----------------------------- MODULE TierReset -----------------------------
(***************************************************************************)
(* The monthly tier-credit reset: the cron driver resetAllTierCredits and  *)
(* the new-org hook afterCreateOrganization race for the one ledger entry  *)
(* tier_reset:<org>:<period> (lib/credits.ts, lib/entitlements.ts,         *)
(* lib/auth.ts).  Both read the subscription, then the trial, then set the *)
(* bucket: the plan may change, and a lookup fail, in between.                             *)
(***************************************************************************)
EXTENDS CreditLedger

CONSTANTS
    Ticks,       \* cron ticks that can be in flight at the same time
    Plans,       \* paid plans
    Allotment,   \* tierMonthlyMicro of each plan and of "free"
    TrialPlan,   \* the plan the local trial grants ('pro')
    MaxPeriod,   \* bound on billing periods
    MaxDebits,   \* bound on usage debits
    MaxGrants,   \* bound on top-ups
    MaxFaults    \* bound on failed statements

ASSUME TierAssumption ==
    /\ TrialPlan \in Plans /\ "free" \notin Plans
    /\ Allotment \in [Plans \cup {"free"} -> Nat]
    /\ MaxPeriod \in Nat /\ MaxDebits \in Nat /\ MaxGrants \in Nat /\ MaxFaults \in Nat

VARIABLES
    period,    \* currentBillingPeriod
    sub,       \* plan of the active Stripe subscription, "free" when there is none
    trial,     \* organization.trialEndsAt is in the future
    hook,      \* afterCreateOrganization: where it is, the plan and the period it read
    tick,      \* the same for each cron tick
    debits,    \* usage debits so far
    grants,    \* top-ups so far
    faults     \* failed statements so far

vars == <<bal, ledger, period, sub, trial, hook, tick, debits, grants, faults>>

AllPlans == Plans \cup {"free"}
ResetKey(p) == <<"tier_reset", p>>
Keys == {ResetKey(p) : p \in 0..MaxPeriod} \cup {<<"usage", n>> : n \in 0..MaxDebits}
            \cup {<<"topup", n>> : n \in 0..MaxGrants}

NewProc(pc) == [pc |-> pc, plan |-> "free", period |-> 0]

TypeOK ==
    /\ bal \in BalanceRow
    /\ ledger \in LedgerRows(Keys)
    /\ period \in 0..MaxPeriod
    /\ sub \in AllPlans
    /\ trial \in BOOLEAN
    /\ hook \in [pc : {"noorg", "trial", "plan", "fallback", "reset", "done"}, plan : AllPlans,
                 period : 0..MaxPeriod]
    /\ tick \in [Ticks -> [pc : {"idle", "plan", "fallback", "reset"}, plan : AllPlans,
                           period : 0..MaxPeriod]]
    /\ debits \in 0..MaxDebits /\ grants \in 0..MaxGrants /\ faults \in 0..MaxFaults

Init ==
    /\ LedgerInit
    /\ period = 0
    /\ sub = "free"
    /\ trial = FALSE
    /\ hook = NewProc("noorg")
    /\ tick = [t \in Ticks |-> NewProc("idle")]
    /\ debits = 0 /\ grants = 0 /\ faults = 0

Fault == faults < MaxFaults /\ faults' = faults + 1
OrgExists == hook.pc # "noorg"

\* getActivePlanName's two lookups: the subscription, else the trial, else free.  Either
\* answers "none" when the statement fails (.catch(() => null)).
SubscriptionRead(plan) ==
    \/ plan = sub /\ UNCHANGED faults
    \/ sub # "free" /\ plan = "free" /\ Fault

AfterSubscription(proc, plan) ==
    [proc EXCEPT !.plan = plan, !.pc = IF plan = "free" THEN "fallback" ELSE "reset"]

\* Mutant: the trial is not looked at.
TrialReadNone(plan) == plan = "free" /\ UNCHANGED faults

TrialRead(plan) ==
    \/ plan = (IF trial THEN TrialPlan ELSE "free") /\ UNCHANGED faults
    \/ trial /\ plan = "free" /\ Fault

-----------------------------------------------------------------------------
(* The organisation and its subscription.                                  *)

\* Better Auth inserts the organization row and runs the hook after it.
CreateOrganization ==
    /\ hook.pc = "noorg"
    /\ hook' = NewProc("trial")
    /\ UNCHANGED <<bal, ledger, period, sub, trial, tick, debits, grants, faults>>

\* The hook's first statement; its failure is logged and the hook goes on.
StartTrial ==
    /\ hook.pc = "trial"
    /\ hook' = [hook EXCEPT !.pc = "plan"]
    /\ \/ trial' = TRUE /\ UNCHANGED faults
       \/ UNCHANGED trial /\ Fault
    /\ UNCHANGED <<bal, ledger, period, sub, tick, debits, grants>>

\* The seed: period and plan, then the reset; a failure is left to the next cron tick.
SeedReadSubscription ==
    /\ hook.pc = "plan"
    /\ \E plan \in AllPlans :
          /\ SubscriptionRead(plan)
          /\ hook' = AfterSubscription([hook EXCEPT !.period = period], plan)
    /\ UNCHANGED <<bal, ledger, period, sub, trial, tick, debits, grants>>

SeedReadTrial ==
    /\ hook.pc = "fallback"
    /\ \E plan \in AllPlans :
          /\ TrialRead(plan)
          /\ hook' = [hook EXCEPT !.pc = "reset", !.plan = plan]
    /\ UNCHANGED <<bal, ledger, period, sub, trial, tick, debits, grants>>

SeedReset ==
    /\ hook.pc = "reset"
    /\ \/ ResetTierBucket(ResetKey(hook.period), Allotment[hook.plan]) /\ UNCHANGED faults
       \/ UNCHANGED ledgerVars /\ Fault
    /\ hook' = NewProc("done")
    /\ UNCHANGED <<period, sub, trial, tick, debits, grants>>

TrialEnds ==
    /\ trial /\ trial' = FALSE
    /\ UNCHANGED <<bal, ledger, period, sub, hook, tick, debits, grants, faults>>

\* Stripe webhooks: subscribe, change plan, cancel.
ChangeSubscription ==
    /\ OrgExists
    /\ \E p \in AllPlans \ {sub} : sub' = p
    /\ UNCHANGED <<bal, ledger, period, trial, hook, tick, debits, grants, faults>>

NextPeriod ==
    /\ period < MaxPeriod
    /\ period' = period + 1
    /\ UNCHANGED <<bal, ledger, sub, trial, hook, tick, debits, grants, faults>>

\* Usage: a session or query debit of any size up to the largest allotment.
Usage(micro) ==
    /\ OrgExists /\ debits < MaxDebits
    /\ debits' = debits + 1
    /\ PostEntry(<<"usage", debits>>, -micro, "topup")
    /\ UNCHANGED <<period, sub, trial, hook, tick, grants, faults>>

TopUp(micro) ==
    /\ OrgExists /\ grants < MaxGrants
    /\ grants' = grants + 1
    /\ PostEntry(<<"topup", grants>>, micro, "topup")
    /\ UNCHANGED <<period, sub, trial, hook, tick, debits, faults>>

-----------------------------------------------------------------------------
(* resetAllTierCredits, one org.                                           *)

\* Mutant: the LEFT JOIN looks for any tier_reset row, not this period's.
TickSelectDueOnce(t) ==
    /\ tick[t].pc = "idle" /\ OrgExists
    /\ ~ \E p \in 0..MaxPeriod : HasEntry(ResetKey(p))
    /\ tick' = [tick EXCEPT ![t] = [NewProc("plan") EXCEPT !.period = period]]
    /\ UNCHANGED <<bal, ledger, period, sub, trial, hook, debits, grants, faults>>

\* The tick takes the period of its start and selects the org if it is not reset yet.
TickSelectDue(t) ==
    /\ tick[t].pc = "idle" /\ OrgExists
    /\ ~HasEntry(ResetKey(period))
    /\ tick' = [tick EXCEPT ![t] = [NewProc("plan") EXCEPT !.period = period]]
    /\ UNCHANGED <<bal, ledger, period, sub, trial, hook, debits, grants, faults>>

TickReadSubscription(t) ==
    /\ tick[t].pc = "plan"
    /\ \E plan \in AllPlans :
          /\ SubscriptionRead(plan)
          /\ tick' = [tick EXCEPT ![t] = AfterSubscription(tick[t], plan)]
    /\ UNCHANGED <<bal, ledger, period, sub, trial, hook, debits, grants>>

TickReadTrial(t) ==
    /\ tick[t].pc = "fallback"
    /\ \E plan \in AllPlans :
          /\ TrialRead(plan)
          /\ tick' = [tick EXCEPT ![t].pc = "reset", ![t].plan = plan]
    /\ UNCHANGED <<bal, ledger, period, sub, trial, hook, debits, grants>>

TickReset(t) ==
    /\ tick[t].pc = "reset"
    /\ \/ /\ ResetTierBucket(ResetKey(tick[t].period), Allotment[tick[t].plan])
          /\ UNCHANGED faults
       \/ UNCHANGED ledgerVars /\ Fault
    /\ tick' = [tick EXCEPT ![t] = NewProc("idle")]
    /\ UNCHANGED <<period, sub, trial, hook, debits, grants>>

TickCrash(t) ==
    /\ tick[t].pc # "idle" /\ Fault
    /\ tick' = [tick EXCEPT ![t] = NewProc("idle")]
    /\ UNCHANGED <<bal, ledger, period, sub, trial, hook, debits, grants>>

Amounts == {Allotment[p] : p \in AllPlans} \cup {1}

TickStep(t) ==
    TickSelectDue(t) \/ TickReadSubscription(t) \/ TickReadTrial(t) \/ TickReset(t)
HookStep == StartTrial \/ SeedReadSubscription \/ SeedReadTrial \/ SeedReset

Next ==
    \/ CreateOrganization \/ HookStep \/ TrialEnds \/ ChangeSubscription \/ NextPeriod
    \/ \E m \in Amounts \ {0} : Usage(m) \/ TopUp(m)
    \/ \E t \in Ticks : TickStep(t) \/ TickCrash(t)

Spec == Init /\ [][Next]_vars

\* Cron keeps ticking; the period ends only at the bound.
FairSpec == Spec /\ \A t \in Ticks : WF_vars(TickStep(t))

-----------------------------------------------------------------------------
(* Expiring credit never accumulates: whatever is unused, the tier bucket  *)
(* stays between zero and the largest allotment, because resets SET it and *)
(* top-ups and refunds go to the other bucket (resetTierBucket, postEntry).*)
TierNeverAccumulates ==
    bal.tier >= 0 /\ \E p \in AllPlans : bal.tier <= Allotment[p]

(* Purchased top-ups survive every reset: a step that books a tier_reset   *)
(* entry leaves the topup bucket as it was, even when it is negative.      *)
ResetKeepsTopup ==
    [][ \A p \in 0..MaxPeriod :
          (~HasEntry(ResetKey(p)) /\ HasEntry(ResetKey(p))') => bal'.topup = bal.topup ]_vars

(* Once the org exists, the current period's reset lands, or the period is *)
(* over: a failed or lost tick is repaired by the next one.                *)
ResetLands ==
    \A p \in 0..MaxPeriod :
        (OrgExists /\ period = p) ~> (HasEntry(ResetKey(p)) \/ period # p)

=============================================================================
