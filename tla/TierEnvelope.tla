---------------------------- MODULE TierEnvelope ----------------------------
(***************************************************************************)
(* TierReset with two history variables, for the question TierReset alone  *)
(* cannot ask: which plan's envelope does a period get?  The reset's key   *)
(* pins the first one booked for the whole period, and getActivePlanName   *)
(* answers a lower plan when a lookup fails (lib/entitlements.ts).         *)
(***************************************************************************)
EXTENDS TierReset

VARIABLES
    held,      \* held[p]: the plans the org was on since period p began
    misread    \* the periods for which some process had its lookup spoilt

envelopeVars == <<vars, held, misread>>

PlanNow ==
    IF sub # "free" THEN sub
    ELSE IF trial THEN TrialPlan ELSE "free"

\* p becomes q in a step that spoils its lookup: one of its two statements fails, or the
\* subscription changes between them.
Spoilt(p, q) ==
    \/ p.pc \in {"plan", "fallback"} /\ q.pc \in {"fallback", "reset"} /\ q # p
       /\ faults' # faults
    \/ p.pc = "fallback" /\ sub' # sub

SpoiltPeriods ==
    {tick[t].period : t \in {u \in Ticks : Spoilt(tick[u], tick'[u])}}
        \cup (IF Spoilt(hook, hook') THEN {hook'.period} ELSE {})

EnvelopeInit ==
    /\ Init
    /\ held = [p \in 0..MaxPeriod |-> IF p = period THEN {PlanNow} ELSE {}]
    /\ misread = {}

EnvelopeNext ==
    /\ Next
    /\ held' = [p \in 0..MaxPeriod |->
                   IF p <= period' THEN held[p] \cup {PlanNow'} ELSE held[p]]
    /\ misread' = misread \cup SpoiltPeriods

EnvelopeSpec ==
    /\ EnvelopeInit /\ [][EnvelopeNext]_envelopeVars
    /\ \A t \in Ticks : WF_vars(TickStep(t))

(* The envelope a period is pinned to is that of a plan the organisation   *)
(* was on since the period began, however the plan changes and the trial   *)
(* ends between the lookup and the reset, and whichever of the hook and    *)
(* the overlapping ticks wins; only a lookup for that very period that     *)
(* failed, or found neither the subscription nor the trial because one was *)
(* exchanged for the other between its two reads, pins another             *)
(* (getActivePlanName, resetTierBucket).                                   *)
EnvelopeWasHeld ==
    [][ \A p \in 0..MaxPeriod :
          (~HasEntry(ResetKey(p)) /\ HasEntry(ResetKey(p))' /\ p \notin misread) =>
              \E plan \in held[p] : bal'.tier = Allotment[plan] ]_envelopeVars
=============================================================================
