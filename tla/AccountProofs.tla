--------------------------- MODULE AccountProofs ---------------------------
(***************************************************************************)
(* How an account is opened to its people and agents: the organization of  *)
(* OrgPlan, for any finite sets of users and requests, then the device     *)
(* links of DeviceLink, for any sets of links, claims and polls.           *)
(*                                                                         *)
(* OrgPlan.  Every property relates what a handler read to what is there   *)
(* when it writes, so OrgInv says what each request in flight still knows: *)
(*   - TeamInv: whom a request refers to, and that a target was no owner   *)
(*     when it was read;                                                   *)
(*   - PlanInv: what a gate let through lies below the best plan so far;   *)
(*   - CustomerInv: a customer once set is kept, and a sound checkout goes *)
(*     by it;                                                              *)
(*   - BillingInv: a checkout without company faces no active subscription,*)
(*     and no incomplete one that it will not cancel.                      *)
(*                                                                         *)
(* DeviceLink.  LinkInv says where a key can be: KeyPlaced that a key in a *)
(* row was put there by its own claim and was not handed out yet,          *)
(* HandedPlaced that a key handed out came from its own claim's link.      *)
(***************************************************************************)
EXTENDS OrgPlan, DeviceLink, TLAPS, FiniteSetTheorems

\* What a request refers to between its read and its write.
RefFits(q) ==
  /\ q.at \in {"seatPlan", "seatCount", "insertInvite", "setRoleWrite", "removeWrite"}
       => q.ref \in Users
  /\ q.at \in {"resend", "revokeWrite", "changeWrite", "cancelWrite"} => q.ref \in Requests
RefsFit == \A r \in Requests : RefFits(req[r])

InvitesFit == \A i \in Pending : invite[i].email \in Users

\* A target was no owner when it was read: its rank lay below the caller's.
RankBelow(q) == q.at \in {"setRoleWrite", "removeWrite"} => q.seen <= 2
RanksBelow == \A r \in Requests : RankBelow(req[r])

BestPlan ==
  /\ history.best \in {"pro", "max"}
  /\ \A s \in ActiveRows : row[s].plan = "max" => history.best = "max"

\* What a gate let through was counted below the allowance of the best plan.
CapFits(q, best) ==
  /\ q.at = "seatCount" => q.cap <= Seats[best]
  /\ q.at = "insertInvite" => q.seen < Seats[best]
  /\ q.at = "lakeCount" => q.cap <= Lakes[best]
  /\ q.at = "insertLake" => q.seen < Lakes[best]
CapsWithin == \A r \in Requests : CapFits(req[r], history.best)

TeamInv == RefsFit /\ InvitesFit /\ RanksBelow /\ OwnerRemains
PlanInv == BestPlan /\ CapsWithin /\ AllowanceHeld

\* Once an organization has a customer it keeps it, and a sound checkout goes by it.
CustFits(r, q, cust) ==
  /\ q.at = "discard" => cust \notin {None, r}
  /\ q.sound /\ q.at = "winner" => cust # None
  /\ q.sound /\ q.at \in {"discard", "list", "sweep"} => q.cust = cust /\ cust # None
SubFits(t, cust) ==
  t.sound /\ t.status \in {"incomplete", "active"} => t.customer = cust /\ cust # None
CustomerInv ==
  /\ \A d \in deleted : customer \notin {None, d}
  /\ \A r \in Requests : CustFits(r, req[r], customer) /\ SubFits(sub[r], customer)

AtCheckout == {"customer", "mint", "winner", "discard", "list", "sweep"}
Live(s) == sub[s].status \in {"incomplete", "active"}

\* A sound checkout without company since its guard faces no active subscription, and
\* after its list no incomplete one that it will not cancel.
LoneFits(r) ==
  req[r].sound /\ req[r].alone =>
    /\ req[r].at \in AtCheckout => \A s \in Requests : sub[s].status # "active"
    /\ req[r].at = "sweep" =>
         \A s \in Requests : sub[s].status = "incomplete" /\ sub[s].sound => s \in req[r].listed
OneClean ==
  \A s, t \in Requests : s # t /\ Live(s) /\ Live(t) => ~(sub[s].clean /\ sub[t].clean)
BillingInv ==
  /\ \A r \in Requests : LoneFits(r)
  /\ \A s \in Requests : sub[s].clean => sub[s].sound
  /\ \A s \in Requests : Live(s) => req[s].at = "done"
  /\ OneClean

\* What a step of another request leaves of q.
Kept(q) ==
  /\ req'[q].at = req[q].at /\ req'[q].rank = req[q].rank /\ req'[q].ref = req[q].ref
  /\ req'[q].cap = req[q].cap /\ req'[q].seen = req[q].seen /\ req'[q].cust = req[q].cust
  /\ req'[q].listed = req[q].listed /\ req'[q].sound = req[q].sound
  /\ req'[q].alone => req[q].alone

OrgInv == TypeOK /\ TeamInv /\ PlanInv /\ CustomerInv /\ BillingInv

USE DEF At, Goto, Answer, CallFails, team, stripe

LEMMA OrgInitTypes == ASSUME OrgAssumption, Init PROVE TypeOK
<1>1. Fresh \in ReqType /\ NoInvite \in InviteType /\ NoSub \in SubType /\ NoRow \in RowType
  BY DEF Fresh, ReqType, Stages, NoInvite, InviteType, NoSub, SubType, NoRow, RowType, Plans
<1>2. history \in HistoryType
  BY DEF Init, HistoryType, Plans
<1> QED BY <1>1, <1>2 DEF Init, TypeOK, RoleType, OrgAssumption

LEMMA AnsweredType == Answered \in ReqType /\ Answered.at = "done"
<1>1. Fresh \in ReqType
  BY DEF Fresh, ReqType, Stages
<1> HIDE DEF Fresh
<1> QED BY <1>1 DEF Answered, ReqType, Stages

LEMMA AllowancesTyped ==
  /\ Seats = [free |-> 1, pro |-> 3, max |-> 10] /\ Lakes = [free |-> 1, pro |-> 2, max |-> 10]
  /\ \A p \in Plans : Seats[p] \in Nat /\ Lakes[p] \in Nat
BY DEF Seats, Lakes, Plans

LEMMA SeatsFinite ==
  ASSUME OrgAssumption
  PROVE  /\ IsFiniteSet({u \in Users : IsMember(u)}) /\ IsFiniteSet(Pending)
         /\ SeatsUsed \in Nat
<1>1. IsFiniteSet(Users) /\ IsFiniteSet(Requests)
  BY DEF OrgAssumption
<1>2. IsFiniteSet({u \in Users : IsMember(u)})
  BY <1>1, FS_Subset
<1>3. Pending \subseteq Requests
  BY DEF Pending
<1>4. IsFiniteSet(Pending)
  BY <1>1, <1>3, FS_Subset
<1>5. /\ Cardinality({u \in Users : IsMember(u)}) \in Nat /\ Cardinality(Pending) \in Nat
  BY <1>2, <1>4, FS_CardinalityType
<1> QED BY <1>2, <1>4, <1>5 DEF SeatsUsed

\* The steps of Next, by what they change.
TeamStep(r) ==
  \/ Begin(r) \/ RequestThrows(r) \/ InviteLook(r) \/ SeatPlan(r) \/ SeatCount(r)
  \/ InsertInvite(r) \/ ResendInvite(r) \/ SettingsInvite(r) \/ RevokeInvite(r)
  \/ RevokeWrite(r) \/ SetRoleTarget(r) \/ RemoveTarget(r) \/ SetRoleWrite(r) \/ RemoveWrite(r)
LakeStep(r) ==
  \/ LakePlan(r) \/ LakeCount(r) \/ InsertLake(r) \/ OnboardLake(r) \/ DeleteLake(r)
CheckoutStep(r) ==
  \/ CheckoutGuard(r) \/ ReadCustomer(r) \/ ClaimCustomer(r) \/ ReadWinner(r)
  \/ DiscardCustomer(r) \/ ListIncomplete(r) \/ SweepIncomplete(r) \/ CreateSubscription(r)
StripeStep(r) ==
  \/ ReadActive(r) \/ ChangeSubscription(r) \/ CancelSubscription(r) \/ PaymentConfirmed(r)
  \/ PeriodEnds(r) \/ SubscriptionWebhook(r)
RequestStep(r) ==
  TeamStep(r) \/ LakeStep(r) \/ CheckoutStep(r) \/ StripeStep(r) \/ AcceptInvite(r)
OtherStep == TrialEnds \/ \E u \in Users : PromoteOwner(u) \/ LeaveOrganization(u)

LEMMA NextSplits == Next <=> (\E r \in Requests : RequestStep(r)) \/ OtherStep
BY DEF Next, RequestStep, TeamStep, LakeStep, CheckoutStep, StripeStep, OtherStep

LEMMA PlansNowTyped == ASSUME TypeOK PROVE PlansNow \subseteq Plans
BY DEF TypeOK, PlansNow, ActiveRows, RowType, Plans

LEMMA ReqEdits ==
  ASSUME NEW q \in ReqType
  PROVE  /\ [q EXCEPT !.alone = FALSE] \in ReqType
         /\ \A a \in Stages, k \in 0..3 : [q EXCEPT !.at = a, !.rank = k] \in ReqType
         /\ \A a \in Stages, i \in Requests : [q EXCEPT !.at = a, !.ref = i] \in ReqType
         /\ \A a \in Stages, found \in SUBSET Requests :
               [q EXCEPT !.at = a, !.listed = found] \in ReqType
<1>1. [q EXCEPT !.alone = FALSE] \in ReqType
  BY DEF ReqType
<1>2. ASSUME NEW a \in Stages, NEW k \in 0..3 PROVE [q EXCEPT !.at = a, !.rank = k] \in ReqType
  BY DEF ReqType
<1>3. ASSUME NEW a \in Stages, NEW i \in Requests PROVE [q EXCEPT !.at = a, !.ref = i] \in ReqType
  BY DEF ReqType
<1>4. ASSUME NEW a \in Stages, NEW found \in SUBSET Requests
      PROVE  [q EXCEPT !.at = a, !.listed = found] \in ReqType
  BY DEF ReqType
<1> QED BY <1>1, <1>2, <1>3, <1>4

LEMMA OverlappedTyped ==
  ASSUME req \in [Requests -> ReqType], NEW r \in Requests
  PROVE  Overlapped(r) \in [Requests -> ReqType] /\ Overlapped(r)[r] = req[r]
<1>1. \A q \in Requests : [req[q] EXCEPT !.alone = FALSE] \in ReqType
  BY ReqEdits
<1> QED BY <1>1 DEF Overlapped

LEMMA ReqTyped ==
  ASSUME OrgAssumption, TypeOK, NEW r \in Requests, RequestStep(r)
  PROVE  req' \in [Requests -> ReqType]
<1>0. req \in [Requests -> ReqType] /\ customer \in Requests \cup {None} /\ lakes \in Nat
  BY DEF TypeOK
<1>1. ASSUME Begin(r) PROVE req' \in [Requests -> ReqType]
  <2>1. PICK u \in Users, op \in {"invite", "setRole", "remove", "revoke", "checkout", "change",
                                "cancel"} :
           req' = [req EXCEPT ![r].at = op,
                              ![r].rank = IF op \in {"setRole", "remove"}
                                          THEN RoleRank[role[u]] ELSE 0]
    BY <1>1 DEF Begin
  <2>2. RoleRank[role[u]] \in 0..3
    BY DEF TypeOK, RoleType, RoleRank
  <2>3. op \in Stages
    BY DEF Stages
  <2> DEFINE rank == IF op \in {"setRole", "remove"} THEN RoleRank[role[u]] ELSE 0
  <2>4. rank \in 0..3
    BY <2>2
  <2> HIDE DEF rank
  <2>5. [req[r] EXCEPT !.at = op, !.rank = rank] \in ReqType
    BY <1>0, <2>3, <2>4, ReqEdits
  <2>6. req' = [req EXCEPT ![r] = [req[r] EXCEPT !.at = op, !.rank = rank]]
    BY <2>1 DEF rank
  <2> QED BY <1>0, <2>5, <2>6
<1>2. ASSUME RequestThrows(r) PROVE req' \in [Requests -> ReqType]
  BY <1>2, <1>0, AnsweredType DEF RequestThrows, ReqType, Stages
<1>3. ASSUME InviteLook(r) PROVE req' \in [Requests -> ReqType]
  BY <1>3, <1>0, AnsweredType DEF InviteLook, ReqType, Stages, Pending
<1>4. ASSUME SeatPlan(r) PROVE req' \in [Requests -> ReqType]
  BY <1>4, <1>0, AnsweredType, PlansNowTyped, AllowancesTyped DEF SeatPlan, ReadAllowance,
         ReqType, Stages
<1>5. ASSUME SeatCount(r) PROVE req' \in [Requests -> ReqType]
  BY <1>5, <1>0, AnsweredType, SeatsFinite DEF SeatCount, ReqType, Stages
<1>6. ASSUME InsertInvite(r) PROVE req' \in [Requests -> ReqType]
  BY <1>6, <1>0, AnsweredType DEF InsertInvite, ReqType, Stages
<1>7. ASSUME ResendInvite(r) PROVE req' \in [Requests -> ReqType]
  BY <1>7, <1>0, AnsweredType DEF ResendInvite, ReqType, Stages
<1>8. ASSUME SettingsInvite(r) PROVE req' \in [Requests -> ReqType]
  BY <1>8, <1>0, AnsweredType DEF SettingsInvite, ReqType, Stages
<1>9. ASSUME RevokeInvite(r) PROVE req' \in [Requests -> ReqType]
  <2>1. PICK i \in Requests : req' = [req EXCEPT ![r].at = "revokeWrite", ![r].ref = i]
    BY <1>9 DEF RevokeInvite
  <2>2. [req[r] EXCEPT !.at = "revokeWrite", !.ref = i] \in ReqType
    BY <1>0, ReqEdits DEF Stages
  <2>3. req' = [req EXCEPT ![r] = [req[r] EXCEPT !.at = "revokeWrite", !.ref = i]]
    BY <2>1
  <2> QED BY <1>0, <2>2, <2>3
<1>10. ASSUME RevokeWrite(r) PROVE req' \in [Requests -> ReqType]
  BY <1>10, <1>0, AnsweredType DEF RevokeWrite, ReqType, Stages
<1>11. ASSUME SetRoleTarget(r) PROVE req' \in [Requests -> ReqType]
  BY <1>11, <1>0, AnsweredType DEF SetRoleTarget, ReadTarget, ReqType, Stages, RoleRank,
         IsMember
<1>12. ASSUME RemoveTarget(r) PROVE req' \in [Requests -> ReqType]
  BY <1>12, <1>0, AnsweredType DEF RemoveTarget, ReadTarget, ReqType, Stages, RoleRank, IsMember
<1>13. ASSUME SetRoleWrite(r) PROVE req' \in [Requests -> ReqType]
  BY <1>13, <1>0, AnsweredType DEF SetRoleWrite, ReqType, Stages
<1>14. ASSUME RemoveWrite(r) PROVE req' \in [Requests -> ReqType]
  BY <1>14, <1>0, AnsweredType DEF RemoveWrite, ReqType, Stages
<1>15. ASSUME LakePlan(r) PROVE req' \in [Requests -> ReqType]
  BY <1>15, <1>0, AnsweredType, PlansNowTyped, AllowancesTyped DEF LakePlan, ReadAllowance,
         ReqType, Stages
<1>16. ASSUME LakeCount(r) PROVE req' \in [Requests -> ReqType]
  BY <1>16, <1>0, AnsweredType DEF LakeCount, ReqType, Stages
<1>17. ASSUME InsertLake(r) PROVE req' \in [Requests -> ReqType]
  BY <1>17, <1>0, AnsweredType DEF InsertLake, ReqType, Stages
<1>18. ASSUME OnboardLake(r) PROVE req' \in [Requests -> ReqType]
  BY <1>18, <1>0, AnsweredType DEF OnboardLake, ReqType, Stages
<1>19. ASSUME DeleteLake(r) PROVE req' \in [Requests -> ReqType]
  BY <1>19, <1>0, AnsweredType DEF DeleteLake, ReqType, Stages
<1>20. ASSUME CheckoutGuard(r) PROVE req' \in [Requests -> ReqType]
  BY <1>20, <1>0, AnsweredType DEF CheckoutGuard, Unsound, ReqType, Stages
<1>21. ASSUME ReadCustomer(r) PROVE req' \in [Requests -> ReqType]
  BY <1>21, <1>0 DEF ReadCustomer, Unsound, ReqType, Stages
<1>22. ASSUME ClaimCustomer(r) PROVE req' \in [Requests -> ReqType]
  BY <1>22, <1>0 DEF ClaimCustomer, Unsound, ReqType, Stages
<1>23. ASSUME ReadWinner(r) PROVE req' \in [Requests -> ReqType]
  BY <1>23, <1>0 DEF ReadWinner, Unsound, ReqType, Stages
<1>24. ASSUME DiscardCustomer(r) PROVE req' \in [Requests -> ReqType]
  BY <1>24, <1>0 DEF DiscardCustomer, ReqType, Stages
<1>25. ASSUME ListIncomplete(r) PROVE req' \in [Requests -> ReqType]
  <2> DEFINE found == {s \in Requests : sub[s].status = "incomplete" /\ sub[s].customer = req[r].cust}
  <2>1. req' = [req EXCEPT ![r].at = "sweep", ![r].listed = found]
    BY <1>25 DEF ListIncomplete
  <2>2. found \in SUBSET Requests
    OBVIOUS
  <2> HIDE DEF found
  <2>3. [req[r] EXCEPT !.at = "sweep", !.listed = found] \in ReqType
    BY <1>0, <2>2, ReqEdits DEF Stages
  <2>4. req' = [req EXCEPT ![r] = [req[r] EXCEPT !.at = "sweep", !.listed = found]]
    BY <2>1
  <2> QED BY <1>0, <2>3, <2>4
<1>26. ASSUME SweepIncomplete(r) PROVE req' \in [Requests -> ReqType]
  BY <1>26, <1>0 DEF SweepIncomplete, Unsound, ReqType, Stages
<1>27. ASSUME CreateSubscription(r) PROVE req' \in [Requests -> ReqType]
  BY <1>27, <1>0, AnsweredType, OverlappedTyped DEF CreateSubscription
<1>28. ASSUME ReadActive(r) PROVE req' \in [Requests -> ReqType]
  BY <1>28, <1>0, AnsweredType DEF ReadActive, ReqType, Stages, ActiveRows
<1>29. ASSUME ChangeSubscription(r) PROVE req' \in [Requests -> ReqType]
  BY <1>29, <1>0, AnsweredType DEF ChangeSubscription, ReqType, Stages
<1>30. ASSUME CancelSubscription(r) PROVE req' \in [Requests -> ReqType]
  BY <1>30, <1>0, AnsweredType DEF CancelSubscription, ReqType, Stages
<1>31. ASSUME PaymentConfirmed(r) PROVE req' \in [Requests -> ReqType]
  BY <1>31, <1>0, OverlappedTyped DEF PaymentConfirmed
<1>32. ASSUME PeriodEnds(r) \/ SubscriptionWebhook(r) \/ AcceptInvite(r)
     PROVE  req' \in [Requests -> ReqType]
  BY <1>32, <1>0 DEF PeriodEnds, SubscriptionWebhook, AcceptInvite
<1> QED BY <1>1, <1>2, <1>3, <1>4, <1>5, <1>6, <1>7, <1>8, <1>9, <1>10, <1>11, <1>12,
           <1>13, <1>14, <1>15, <1>16, <1>17, <1>18, <1>19, <1>20, <1>21, <1>22, <1>23,
           <1>24, <1>25, <1>26, <1>27, <1>28, <1>29, <1>30, <1>31, <1>32
        DEF RequestStep, TeamStep, LakeStep, CheckoutStep, StripeStep

LEMMA SubTyped ==
  ASSUME OrgAssumption, TypeOK, NEW r \in Requests, RequestStep(r)
  PROVE  sub' \in [Requests -> SubType]
<1>1. sub \in [Requests -> SubType] /\ req \in [Requests -> ReqType]
  BY DEF TypeOK
<1>2. ASSUME SweepIncomplete(r) PROVE sub' \in [Requests -> SubType]
  BY <1>2, <1>1 DEF SweepIncomplete, Unsound, SubType
<1>3. ASSUME CreateSubscription(r) PROVE sub' \in [Requests -> SubType]
  <2>1. PICK p \in SelfServePlans : \/ sub' = sub
                                  \/ sub' = [sub EXCEPT ![r] =
                                       [status |-> "incomplete", plan |-> p,
                                        customer |-> req[r].cust, ending |-> FALSE,
                                        sound |-> req[r].sound,
                                        clean |-> req[r].sound /\ req[r].alone]]
    BY <1>3 DEF CreateSubscription, SelfServePlans
  <2>2. p \in Plans /\ req[r].cust \in Requests \cup {None} /\ req[r].sound \in BOOLEAN
    BY <1>1 DEF SelfServePlans, Plans, ReqType
  <2>3. req[r].alone \in BOOLEAN
    BY <1>1 DEF ReqType
  <2> DEFINE new == [status |-> "incomplete", plan |-> p, customer |-> req[r].cust,
                     ending |-> FALSE, sound |-> req[r].sound,
                     clean |-> req[r].sound /\ req[r].alone]
  <2>4. new \in SubType
    BY <2>2, <2>3 DEF SubType
  <2>5. sub' \in {sub, [sub EXCEPT ![r] = new]}
    BY <2>1
  <2> HIDE DEF new
  <2> QED BY <1>1, <2>4, <2>5
<1>4. ASSUME ChangeSubscription(r) PROVE sub' \in [Requests -> SubType]
  <2>1. PICK s \in {req[r].ref}, p \in SelfServePlans : sub' \in {sub, [sub EXCEPT ![s].plan = p]}
    BY <1>4 DEF ChangeSubscription
  <2>2. p \in Plans
    BY DEF SelfServePlans, Plans
  <2> QED BY <1>1, <2>1, <2>2 DEF SubType
<1>5. ASSUME CancelSubscription(r) PROVE sub' \in [Requests -> SubType]
  <2>1. PICK s \in {req[r].ref}, b \in BOOLEAN : sub' \in {sub, [sub EXCEPT ![s].ending = b]}
    BY <1>5 DEF CancelSubscription
  <2> QED BY <1>1, <2>1 DEF SubType
<1>6. ASSUME PaymentConfirmed(r) \/ PeriodEnds(r) PROVE sub' \in [Requests -> SubType]
  BY <1>6, <1>1 DEF PaymentConfirmed, Overlapped, PeriodEnds, SubType
<1>7. \/ sub' = sub
      \/ SweepIncomplete(r) \/ CreateSubscription(r) \/ ChangeSubscription(r)
      \/ CancelSubscription(r) \/ PaymentConfirmed(r) \/ PeriodEnds(r)
  BY DEF RequestStep, TeamStep, LakeStep, CheckoutStep, StripeStep, Begin, RequestThrows,
         InviteLook, SeatPlan, ReadAllowance, SeatCount, InsertInvite, ResendInvite,
         SettingsInvite, RevokeInvite, RevokeWrite, SetRoleTarget, ReadTarget, RemoveTarget,
         SetRoleWrite, RemoveWrite, LakePlan, LakeCount, InsertLake, OnboardLake, DeleteLake,
         CheckoutGuard, Unsound, ReadCustomer, ClaimCustomer, ReadWinner, DiscardCustomer,
         ListIncomplete, ReadActive, SubscriptionWebhook, AcceptInvite
<1> QED BY <1>1, <1>2, <1>3, <1>4, <1>5, <1>6, <1>7

LEMMA HistoryTyped ==
  ASSUME OrgAssumption, TypeOK, NEW r \in Requests, RequestStep(r)
  PROVE  history' \in HistoryType
<1>1. history \in HistoryType /\ sub \in [Requests -> SubType]
  BY DEF TypeOK
<1>2. ASSUME InsertInvite(r) \/ SettingsInvite(r) PROVE history' \in HistoryType
  BY <1>2, <1>1 DEF InsertInvite, SettingsInvite, HistoryType
<1>3. ASSUME SetRoleWrite(r) \/ RemoveWrite(r) PROVE history' \in HistoryType
  BY <1>3, <1>1 DEF SetRoleWrite, RemoveWrite, HistoryType, PromotedSince
<1>4. ASSUME InsertLake(r) \/ OnboardLake(r) PROVE history' \in HistoryType
  BY <1>4, <1>1 DEF InsertLake, OnboardLake, HistoryType
<1>5. ASSUME SubscriptionWebhook(r) PROVE history' \in HistoryType
  BY <1>5, <1>1 DEF SubscriptionWebhook, HistoryType, SubType, Larger
<1>6. \/ history' = history
      \/ InsertInvite(r) \/ SettingsInvite(r) \/ SetRoleWrite(r) \/ RemoveWrite(r)
      \/ InsertLake(r) \/ OnboardLake(r) \/ SubscriptionWebhook(r)
  BY DEF RequestStep, TeamStep, LakeStep, CheckoutStep, StripeStep, Begin, RequestThrows,
         InviteLook, SeatPlan, ReadAllowance, SeatCount, ResendInvite, RevokeInvite,
         RevokeWrite, SetRoleTarget, ReadTarget, RemoveTarget, LakePlan, LakeCount, DeleteLake,
         CheckoutGuard, Unsound, ReadCustomer, ClaimCustomer, ReadWinner, DiscardCustomer,
         ListIncomplete, SweepIncomplete, CreateSubscription, Overlapped, ReadActive,
         ChangeSubscription, CancelSubscription, PaymentConfirmed, PeriodEnds, AcceptInvite
<1> QED BY <1>1, <1>2, <1>3, <1>4, <1>5, <1>6

LEMMA TeamTyped ==
  ASSUME OrgAssumption, TypeOK, RefsFit, NEW r \in Requests, RequestStep(r)
  PROVE  role' \in [Users -> RoleType] /\ invite' \in [Requests -> InviteType]
<1>1. /\ role \in [Users -> RoleType] /\ invite \in [Requests -> InviteType]
      /\ req \in [Requests -> ReqType]
  BY DEF TypeOK
<1>2. ASSUME InsertInvite(r) PROVE invite' \in [Requests -> InviteType] /\ role' = role
  BY <1>2, <1>1 DEF InsertInvite, RefsFit, RefFits, InviteType
<1>3. ASSUME SettingsInvite(r) PROVE invite' \in [Requests -> InviteType] /\ role' = role
  BY <1>3, <1>1 DEF SettingsInvite, InviteType
<1>4. ASSUME ResendInvite(r) PROVE invite' \in [Requests -> InviteType] /\ role' = role
  BY <1>4, <1>1 DEF ResendInvite, RefsFit, RefFits, InviteType
<1>5. ASSUME RevokeWrite(r) PROVE invite' \in [Requests -> InviteType] /\ role' = role
  BY <1>5, <1>1 DEF RevokeWrite, RefsFit, RefFits, InviteType
<1>6. ASSUME SetRoleWrite(r) \/ RemoveWrite(r)
     PROVE  role' \in [Users -> RoleType] /\ invite' = invite
  BY <1>6, <1>1 DEF SetRoleWrite, RemoveWrite, RefsFit, RefFits, RoleType
<1>7. ASSUME AcceptInvite(r)
     PROVE  invite' \in [Requests -> InviteType] /\ role' \in [Users -> RoleType]
  BY <1>7, <1>1 DEF AcceptInvite, Pending, InviteType, RoleType
<1>8. \/ UNCHANGED team
      \/ InsertInvite(r) \/ SettingsInvite(r) \/ ResendInvite(r) \/ RevokeWrite(r)
      \/ SetRoleWrite(r) \/ RemoveWrite(r) \/ AcceptInvite(r)
  BY DEF RequestStep, TeamStep, LakeStep, CheckoutStep, StripeStep, Begin, RequestThrows,
         InviteLook, SeatPlan, ReadAllowance, SeatCount, RevokeInvite, SetRoleTarget,
         ReadTarget, RemoveTarget, LakePlan, LakeCount, InsertLake, OnboardLake, DeleteLake,
         CheckoutGuard, Unsound, ReadCustomer, ClaimCustomer, ReadWinner, DiscardCustomer,
         ListIncomplete, SweepIncomplete, CreateSubscription, Overlapped, ReadActive,
         ChangeSubscription, CancelSubscription, PaymentConfirmed, PeriodEnds,
         SubscriptionWebhook
<1> QED BY <1>1, <1>2, <1>3, <1>4, <1>5, <1>6, <1>7, <1>8 DEF team

LEMMA RestTyped ==
  ASSUME OrgAssumption, TypeOK, NEW r \in Requests, RequestStep(r)
  PROVE  /\ lakes' \in Nat /\ trial' \in BOOLEAN /\ customer' \in Requests \cup {None}
         /\ deleted' \subseteq Requests /\ row' \in [Requests -> RowType]
         /\ faults' \in 0..MaxFaults
<1>1. /\ lakes \in Nat /\ trial \in BOOLEAN /\ customer \in Requests \cup {None}
      /\ deleted \subseteq Requests /\ row \in [Requests -> RowType] /\ faults \in 0..MaxFaults
      /\ MaxFaults \in Nat /\ sub \in [Requests -> SubType]
  BY DEF TypeOK, OrgAssumption
<1>2. ASSUME InsertLake(r) \/ OnboardLake(r) \/ DeleteLake(r) PROVE lakes' \in Nat
  BY <1>2, <1>1 DEF InsertLake, OnboardLake, DeleteLake
<1>3. lakes' = lakes \/ InsertLake(r) \/ OnboardLake(r) \/ DeleteLake(r)
  BY DEF RequestStep, TeamStep, LakeStep, CheckoutStep, StripeStep, Begin, RequestThrows,
         InviteLook, SeatPlan, ReadAllowance, SeatCount, InsertInvite, ResendInvite,
         SettingsInvite, RevokeInvite, RevokeWrite, SetRoleTarget, ReadTarget, RemoveTarget,
         SetRoleWrite, RemoveWrite, LakePlan, LakeCount, CheckoutGuard, Unsound, ReadCustomer,
         ClaimCustomer, ReadWinner, DiscardCustomer, ListIncomplete, SweepIncomplete,
         CreateSubscription, Overlapped, ReadActive, ChangeSubscription, CancelSubscription,
         PaymentConfirmed, PeriodEnds, SubscriptionWebhook, AcceptInvite
<1>4. trial' = trial
  BY DEF RequestStep, TeamStep, LakeStep, CheckoutStep, StripeStep, Begin, RequestThrows,
         InviteLook, SeatPlan, ReadAllowance, SeatCount, InsertInvite, ResendInvite,
         SettingsInvite, RevokeInvite, RevokeWrite, SetRoleTarget, ReadTarget, RemoveTarget,
         SetRoleWrite, RemoveWrite, LakePlan, LakeCount, InsertLake, OnboardLake, DeleteLake,
         CheckoutGuard, Unsound, ReadCustomer, ClaimCustomer, ReadWinner, DiscardCustomer,
         ListIncomplete, SweepIncomplete, CreateSubscription, Overlapped, ReadActive,
         ChangeSubscription, CancelSubscription, PaymentConfirmed, PeriodEnds,
         SubscriptionWebhook, AcceptInvite
<1>5. ASSUME ClaimCustomer(r) PROVE customer' \in Requests \cup {None} /\ deleted' = deleted
  BY <1>5, <1>1 DEF ClaimCustomer, Unsound
<1>6. ASSUME DiscardCustomer(r) PROVE customer' = customer /\ deleted' \subseteq Requests
  BY <1>6, <1>1 DEF DiscardCustomer
<1>7. UNCHANGED <<customer, deleted>> \/ ClaimCustomer(r) \/ DiscardCustomer(r)
  BY DEF RequestStep, TeamStep, LakeStep, CheckoutStep, StripeStep, Begin, RequestThrows,
         InviteLook, SeatPlan, ReadAllowance, SeatCount, InsertInvite, ResendInvite,
         SettingsInvite, RevokeInvite, RevokeWrite, SetRoleTarget, ReadTarget, RemoveTarget,
         SetRoleWrite, RemoveWrite, LakePlan, LakeCount, InsertLake, OnboardLake, DeleteLake,
         CheckoutGuard, Unsound, ReadCustomer, ReadWinner, ListIncomplete, SweepIncomplete,
         CreateSubscription, Overlapped, ReadActive, ChangeSubscription, CancelSubscription,
         PaymentConfirmed, PeriodEnds, SubscriptionWebhook, AcceptInvite
<1>8. ASSUME SubscriptionWebhook(r) PROVE row' \in [Requests -> RowType]
  BY <1>8, <1>1 DEF SubscriptionWebhook, RowType, SubType
<1>9. row' = row \/ SubscriptionWebhook(r)
  BY DEF RequestStep, TeamStep, LakeStep, CheckoutStep, StripeStep, Begin, RequestThrows,
         InviteLook, SeatPlan, ReadAllowance, SeatCount, InsertInvite, ResendInvite,
         SettingsInvite, RevokeInvite, RevokeWrite, SetRoleTarget, ReadTarget, RemoveTarget,
         SetRoleWrite, RemoveWrite, LakePlan, LakeCount, InsertLake, OnboardLake, DeleteLake,
         CheckoutGuard, Unsound, ReadCustomer, ClaimCustomer, ReadWinner, DiscardCustomer,
         ListIncomplete, SweepIncomplete, CreateSubscription, Overlapped, ReadActive,
         ChangeSubscription, CancelSubscription, PaymentConfirmed, PeriodEnds, AcceptInvite
<1>10. (faults' = faults \/ (faults < MaxFaults /\ faults' = faults + 1))
  BY DEF RequestStep, TeamStep, LakeStep, CheckoutStep, StripeStep, Begin, RequestThrows,
         InviteLook, SeatPlan, ReadAllowance, SeatCount, InsertInvite, ResendInvite,
         SettingsInvite, RevokeInvite, RevokeWrite, SetRoleTarget, ReadTarget, RemoveTarget,
         SetRoleWrite, RemoveWrite, LakePlan, LakeCount, InsertLake, OnboardLake, DeleteLake,
         CheckoutGuard, Unsound, ReadCustomer, ClaimCustomer, ReadWinner, DiscardCustomer,
         ListIncomplete, SweepIncomplete, CreateSubscription, Overlapped, ReadActive,
         ChangeSubscription, CancelSubscription, PaymentConfirmed, PeriodEnds,
         SubscriptionWebhook, AcceptInvite
<1>11. faults' \in 0..MaxFaults
  BY <1>1, <1>10
<1> QED BY <1>1, <1>2, <1>3, <1>4, <1>5, <1>6, <1>7, <1>8, <1>9, <1>11

LEMMA TypesKept ==
  ASSUME OrgAssumption, TypeOK, RefsFit, Next
  PROVE  TypeOK'
<1>1. ASSUME NEW r \in Requests, RequestStep(r) PROVE TypeOK'
  BY <1>1, ReqTyped, SubTyped, HistoryTyped, TeamTyped, RestTyped DEF TypeOK
<1>2. CASE OtherStep
  BY <1>2 DEF OtherStep, TrialEnds, PromoteOwner, LeaveOrganization, TypeOK, RoleType
<1> QED BY <1>1, <1>2, NextSplits

-----------------------------------------------------------------------------
(* A step of a request leaves the others where they are, or takes their    *)
(* claim to have had no company; and there is one way to each stage that   *)
(* the invariants speak of.                                                *)
RefStages == {"seatPlan", "seatCount", "insertInvite", "setRoleWrite", "removeWrite", "resend",
              "revokeWrite", "changeWrite", "cancelWrite"}

Arrives(r) ==
  /\ req'[r].at \in RefStages =>
       \/ InviteLook(r) \/ SeatPlan(r) \/ SeatCount(r) \/ SetRoleTarget(r) \/ RemoveTarget(r)
       \/ RevokeInvite(r) \/ ReadActive(r)
  /\ req'[r].at \in {"lakeCount", "insertLake"} => LakePlan(r) \/ LakeCount(r)
  /\ req'[r].at \in AtCheckout =>
       \/ CheckoutGuard(r) \/ ReadCustomer(r) \/ ClaimCustomer(r) \/ ReadWinner(r)
       \/ DiscardCustomer(r) \/ ListIncomplete(r) \/ SweepIncomplete(r)

LEMMA OthersKept ==
  ASSUME OrgAssumption, TypeOK, TypeOK', NEW r \in Requests, RequestStep(r)
  PROVE  \A q \in Requests \ {r} : Kept(q)
<1>1. req \in [Requests -> ReqType] /\ req' \in [Requests -> ReqType]
  BY DEF TypeOK
<1>2. ASSUME CreateSubscription(r) \/ PaymentConfirmed(r)
      PROVE  \A q \in Requests \ {r} : req'[q] \in {req[q], [req[q] EXCEPT !.alone = FALSE]}
  <2>1. \A q \in Requests \ {r} : Overlapped(r)[q] = [req[q] EXCEPT !.alone = FALSE]
    BY DEF Overlapped
  <2>2. \A q \in Requests \ {r} : \/ req'[q] = req[q] \/ req'[q] = Overlapped(r)[q]
    BY <1>1, <1>2, OverlappedTyped DEF CreateSubscription, PaymentConfirmed
  <2> QED BY <2>1, <2>2
<1>3. ASSUME NEW q \in Requests, req'[q] \in {req[q], [req[q] EXCEPT !.alone = FALSE]}
      PROVE  Kept(q)
  BY <1>1, <1>3 DEF Kept, ReqType
<1>4. ASSUME Begin(r) \/ RequestThrows(r) \/ InviteLook(r) \/ SeatPlan(r) \/ SeatCount(r)
            \/ InsertInvite(r) \/ ResendInvite(r)
     PROVE  \A q \in Requests \ {r} : req'[q] = req[q]
  BY <1>4, <1>1 DEF Begin, RequestThrows, InviteLook, SeatPlan, ReadAllowance, SeatCount,
         InsertInvite, ResendInvite
<1>5. ASSUME SettingsInvite(r) \/ RevokeInvite(r) \/ RevokeWrite(r) \/ SetRoleTarget(r)
            \/ RemoveTarget(r) \/ SetRoleWrite(r) \/ RemoveWrite(r)
     PROVE  \A q \in Requests \ {r} : req'[q] = req[q]
  BY <1>5, <1>1 DEF SettingsInvite, RevokeInvite, RevokeWrite, SetRoleTarget, ReadTarget,
         RemoveTarget, SetRoleWrite, RemoveWrite
<1>6. ASSUME LakePlan(r) \/ LakeCount(r) \/ InsertLake(r) \/ OnboardLake(r)
            \/ DeleteLake(r)
     PROVE  \A q \in Requests \ {r} : req'[q] = req[q]
  BY <1>6, <1>1 DEF LakePlan, ReadAllowance, LakeCount, InsertLake, OnboardLake, DeleteLake
<1>7. ASSUME CheckoutGuard(r) \/ ReadCustomer(r) \/ ClaimCustomer(r) \/ ReadWinner(r)
     PROVE  \A q \in Requests \ {r} : req'[q] = req[q]
  BY <1>7, <1>1 DEF CheckoutGuard, Unsound, ReadCustomer, ClaimCustomer, ReadWinner
<1>8. ASSUME DiscardCustomer(r) \/ SweepIncomplete(r)
     PROVE  \A q \in Requests \ {r} : req'[q] = req[q]
  BY <1>8, <1>1 DEF DiscardCustomer, SweepIncomplete, Unsound
<1>9. ASSUME ListIncomplete(r) PROVE \A q \in Requests \ {r} : req'[q] = req[q]
  <2>1. PICK found : req' = [req EXCEPT ![r].at = "sweep", ![r].listed = found]
    BY <1>9 DEF ListIncomplete
  <2> QED BY <1>1, <2>1
<1>10. ASSUME ReadActive(r) \/ ChangeSubscription(r) \/ CancelSubscription(r)
            \/ PeriodEnds(r) \/ SubscriptionWebhook(r) \/ AcceptInvite(r)
     PROVE  \A q \in Requests \ {r} : req'[q] = req[q]
  BY <1>10, <1>1 DEF ReadActive, ChangeSubscription, CancelSubscription, PeriodEnds,
         SubscriptionWebhook, AcceptInvite
<1> QED BY <1>2, <1>3, <1>4, <1>5, <1>6, <1>7, <1>8, <1>9, <1>10
  DEF RequestStep, TeamStep, LakeStep, CheckoutStep, StripeStep

LEMMA Arrivals ==
  ASSUME OrgAssumption, TypeOK, TypeOK', NEW r \in Requests, RequestStep(r)
  PROVE  req'[r] = req[r] \/ Arrives(r)
<1>1. req \in [Requests -> ReqType]
  BY DEF TypeOK
<1>2. ASSUME req'[r].at \notin RefStages \cup AtCheckout \cup {"lakeCount", "insertLake"}
      PROVE  Arrives(r)
  BY <1>2 DEF Arrives
<1>3. ASSUME RequestThrows(r) \/ InsertInvite(r) \/ ResendInvite(r) \/ SettingsInvite(r)
            \/ RevokeWrite(r) \/ SetRoleWrite(r)
     PROVE  req'[r].at = "done"
  BY <1>3, <1>1, AnsweredType DEF RequestThrows, InsertInvite, ResendInvite, SettingsInvite,
         RevokeWrite, SetRoleWrite
<1>4. ASSUME RemoveWrite(r) \/ InsertLake(r) \/ OnboardLake(r) \/ DeleteLake(r)
            \/ ChangeSubscription(r) \/ CancelSubscription(r)
     PROVE  req'[r].at = "done"
  BY <1>4, <1>1, AnsweredType DEF RemoveWrite, InsertLake, OnboardLake, DeleteLake,
         ChangeSubscription, CancelSubscription
<1>5. ASSUME CreateSubscription(r) PROVE req'[r].at = "done"
  BY <1>5, <1>1, AnsweredType, OverlappedTyped DEF CreateSubscription, Overlapped
<1>6. ASSUME PaymentConfirmed(r) \/ PeriodEnds(r) \/ SubscriptionWebhook(r)
            \/ AcceptInvite(r)
     PROVE  req'[r] = req[r]
  BY <1>6, <1>1, OverlappedTyped DEF PaymentConfirmed, Overlapped, PeriodEnds,
         SubscriptionWebhook, AcceptInvite
<1>7. ASSUME Begin(r)
     PROVE  req'[r].at \notin RefStages \cup AtCheckout \cup {"lakeCount", "insertLake"}
  BY <1>7, <1>1 DEF Begin, RefStages, AtCheckout, ReqType
<1>8. ASSUME InviteLook(r) \/ SeatPlan(r) \/ SeatCount(r)
     PROVE  req'[r].at \in RefStages \cup {"done"}
  BY <1>8, <1>1, AnsweredType DEF InviteLook, SeatPlan, ReadAllowance, SeatCount, RefStages,
         ReqType
<1>9. ASSUME RevokeInvite(r) \/ ReadActive(r) PROVE req'[r].at \in RefStages \cup {"done"}
  BY <1>9, <1>1, AnsweredType DEF RevokeInvite, ReadActive, RefStages, ReqType
<1>10. ASSUME SetRoleTarget(r) \/ RemoveTarget(r) PROVE req'[r].at \in RefStages \cup {"done"}
  <2>1. ASSUME NEW from, NEW to, ReadTarget(r, from, to) PROVE req'[r].at \in {"done", to}
    BY <2>1, <1>1, AnsweredType DEF ReadTarget, ReqType
  <2> QED BY <1>10, <2>1 DEF SetRoleTarget, RemoveTarget, RefStages
<1>11. ASSUME LakePlan(r) \/ LakeCount(r) PROVE req'[r].at \in {"lakeCount", "insertLake", "done"}
  BY <1>11, <1>1, AnsweredType DEF LakePlan, ReadAllowance, LakeCount, ReqType
<1>12. ASSUME CheckoutGuard(r) \/ ReadCustomer(r) PROVE req'[r].at \in AtCheckout \cup {"done"}
  BY <1>12, <1>1, AnsweredType DEF CheckoutGuard, Unsound, ReadCustomer, AtCheckout, ReqType
<1>13. ASSUME ClaimCustomer(r) \/ ReadWinner(r) PROVE req'[r].at \in AtCheckout \cup {"done"}
  BY <1>13, <1>1 DEF ClaimCustomer, Unsound, ReadWinner, AtCheckout, ReqType
<1>14. ASSUME DiscardCustomer(r) \/ ListIncomplete(r) \/ SweepIncomplete(r)
     PROVE  req'[r].at \in AtCheckout \cup {"done"}
  BY <1>14, <1>1 DEF DiscardCustomer, ListIncomplete, SweepIncomplete, Unsound, AtCheckout,
         ReqType
<1>15. /\ RefStages \cap (AtCheckout \cup {"lakeCount", "insertLake", "done"}) = {}
       /\ AtCheckout \cap {"lakeCount", "insertLake", "done"} = {}
  BY DEF RefStages, AtCheckout
<1> QED BY <1>2, <1>3, <1>4, <1>5, <1>6, <1>7, <1>8, <1>9, <1>10, <1>11, <1>12, <1>13, <1>14, <1>15
  DEF RequestStep, TeamStep, LakeStep, CheckoutStep, StripeStep, Arrives

-----------------------------------------------------------------------------
(* The team: a reference is what its write takes it for, a target ranks    *)
(* below an owner when it is read, and an owner who is demoted or removed  *)
(* was promoted since.                                                     *)
LEMMA RefsHold ==
  ASSUME OrgAssumption, TypeOK, TypeOK', RefsFit, NEW r \in Requests, RequestStep(r)
  PROVE  RefsFit'
<1>1. /\ req \in [Requests -> ReqType] /\ row \in [Requests -> RowType]
  BY DEF TypeOK
<1>2. ASSUME NEW q \in Requests \ {r} PROVE RefFits(req'[q])
  BY OthersKept DEF Kept, RefsFit, RefFits
<1>3. ASSUME req'[r].at \notin RefStages PROVE RefFits(req'[r])
  BY <1>3 DEF RefFits, RefStages
<1>4. ASSUME req'[r] = req[r] PROVE RefFits(req'[r])
  BY <1>4 DEF RefsFit
<1>5. ASSUME InviteLook(r) PROVE RefFits(req'[r])
  BY <1>5, <1>1, AnsweredType DEF InviteLook, Pending, ReqType, RefFits
<1>6. ASSUME SeatPlan(r) PROVE RefFits(req'[r])
  BY <1>6, <1>1 DEF SeatPlan, ReadAllowance, ReqType, RefFits, RefsFit
<1>7. ASSUME SeatCount(r) PROVE RefFits(req'[r])
  BY <1>7, <1>1, AnsweredType DEF SeatCount, ReqType, RefFits, RefsFit
<1>8. ASSUME NEW from, NEW to \in {"setRoleWrite", "removeWrite"}, ReadTarget(r, from, to)
      PROVE  RefFits(req'[r])
  BY <1>8, <1>1, AnsweredType DEF ReadTarget, ReqType, RefFits
<1>9. ASSUME RevokeInvite(r) PROVE RefFits(req'[r])
  BY <1>9, <1>1 DEF RevokeInvite, ReqType, RefFits
<1>10. ASSUME ReadActive(r) PROVE RefFits(req'[r])
  BY <1>10, <1>1, AnsweredType DEF ReadActive, ActiveRows, ReqType, RefFits
<1>11. RefFits(req'[r])
  BY <1>3, <1>4, <1>5, <1>6, <1>7, <1>8, <1>9, <1>10, Arrivals
     DEF Arrives, SetRoleTarget, RemoveTarget
<1> QED BY <1>2, <1>11 DEF RefsFit

LEMMA RanksHold ==
  ASSUME OrgAssumption, TypeOK, TypeOK', RanksBelow, NEW r \in Requests, RequestStep(r)
  PROVE  RanksBelow'
<1>1. /\ req \in [Requests -> ReqType] /\ role \in [Users -> RoleType]
  BY DEF TypeOK
<1>2. ASSUME NEW q \in Requests \ {r} PROVE RankBelow(req'[q])
  BY OthersKept DEF Kept, RanksBelow, RankBelow
<1>3. ASSUME req'[r].at \notin {"setRoleWrite", "removeWrite"} PROVE RankBelow(req'[r])
  BY <1>3 DEF RankBelow
<1>4. ASSUME req'[r] = req[r] PROVE RankBelow(req'[r])
  BY <1>4 DEF RanksBelow
<1>5. ASSUME NEW from, NEW to \in {"setRoleWrite", "removeWrite"}, ReadTarget(r, from, to)
      PROVE  RankBelow(req'[r])
  BY <1>5, <1>1, AnsweredType DEF ReadTarget, ReqType, RankBelow, RoleRank, RoleType
<1>6. ASSUME InviteLook(r) \/ SeatPlan(r) \/ SeatCount(r)
     PROVE  req'[r].at \notin {"setRoleWrite", "removeWrite"}
  BY <1>6, <1>1, AnsweredType DEF InviteLook, SeatPlan, ReadAllowance, SeatCount, ReqType
<1>7. ASSUME RevokeInvite(r) \/ ReadActive(r)
     PROVE  req'[r].at \notin {"setRoleWrite", "removeWrite"}
  BY <1>7, <1>1, AnsweredType DEF RevokeInvite, ReadActive, ReqType
<1>8. RankBelow(req'[r])
  BY <1>3, <1>4, <1>5, <1>6, <1>7, Arrivals DEF Arrives, SetRoleTarget, RemoveTarget, RefStages
<1> QED BY <1>2, <1>8 DEF RanksBelow

LEMMA InvitesHold ==
  ASSUME OrgAssumption, TypeOK, RefsFit, InvitesFit, NEW r \in Requests, RequestStep(r)
  PROVE  InvitesFit'
<1>1. /\ invite \in [Requests -> InviteType]
  BY DEF TypeOK
<1>2. ASSUME InsertInvite(r) PROVE InvitesFit'
  BY <1>2, <1>1 DEF InsertInvite, InvitesFit, Pending, RefsFit, RefFits
<1>3. ASSUME SettingsInvite(r) PROVE InvitesFit'
  BY <1>3, <1>1 DEF SettingsInvite, InvitesFit, Pending
<1>4. ASSUME ResendInvite(r) \/ RevokeWrite(r) \/ AcceptInvite(r) PROVE InvitesFit'
  BY <1>4, <1>1 DEF ResendInvite, RevokeWrite, AcceptInvite, InvitesFit, Pending, InviteType
<1>5. \/ invite' = invite
      \/ InsertInvite(r) \/ SettingsInvite(r) \/ ResendInvite(r) \/ RevokeWrite(r)
      \/ AcceptInvite(r)
  BY DEF RequestStep, TeamStep, LakeStep, CheckoutStep, StripeStep, Begin, RequestThrows,
         InviteLook, SeatPlan, ReadAllowance, SeatCount, RevokeInvite, SetRoleTarget,
         ReadTarget, RemoveTarget, SetRoleWrite, RemoveWrite, LakePlan, LakeCount, InsertLake,
         OnboardLake, DeleteLake, CheckoutGuard, Unsound, ReadCustomer, ClaimCustomer,
         ReadWinner, DiscardCustomer, ListIncomplete, SweepIncomplete, CreateSubscription,
         Overlapped, ReadActive, ChangeSubscription, CancelSubscription, PaymentConfirmed,
         PeriodEnds, SubscriptionWebhook
<1> QED BY <1>2, <1>3, <1>4, <1>5 DEF InvitesFit, Pending

LEMMA OwnerStays ==
  ASSUME OrgAssumption, TypeOK, RefsFit, InvitesFit, RanksBelow, OwnerRemains,
         NEW r \in Requests, RequestStep(r)
  PROVE  OwnerRemains'
<1>1. /\ role \in [Users -> RoleType] /\ history \in HistoryType /\ req \in [Requests -> ReqType]
      /\ invite \in [Requests -> InviteType]
  BY DEF TypeOK
<1>2. ASSUME SetRoleWrite(r) \/ RemoveWrite(r) PROVE OwnerRemains'
  <2>1. req[r].ref \in Users /\ req[r].seen \in Nat /\ req[r].seen <= 2
    BY <1>1, <1>2 DEF SetRoleWrite, RemoveWrite, RefsFit, RefFits, RanksBelow, RankBelow, ReqType
  <2>2. CASE role[req[r].ref] = "owner"
    <3>1. PromotedSince(r)
      BY <2>1, <2>2 DEF PromotedSince, RoleRank
    <3> QED BY <1>1, <1>2, <3>1 DEF SetRoleWrite, RemoveWrite, OwnerRemains, HistoryType
  <2>3. CASE role[req[r].ref] # "owner"
    <3>1. \A u \in Owners : role'[u] = "owner"
      BY <1>1, <1>2, <2>3 DEF SetRoleWrite, RemoveWrite, Owners
    <3>2. history.usurped => history'.usurped
      BY <1>1, <1>2 DEF SetRoleWrite, RemoveWrite, HistoryType
    <3> QED BY <3>1, <3>2 DEF OwnerRemains, Owners
  <2> QED BY <2>2, <2>3
<1>3. ASSUME AcceptInvite(r) PROVE OwnerRemains'
  BY <1>1, <1>3 DEF AcceptInvite, OwnerRemains, Owners
<1>4. ASSUME role' = role, history'.usurped = history.usurped PROVE OwnerRemains'
  BY <1>4 DEF OwnerRemains, Owners
<1>5. ASSUME InsertInvite(r) \/ SettingsInvite(r) \/ InsertLake(r) \/ OnboardLake(r)
     PROVE  history'.usurped = history.usurped
  BY <1>5, <1>1 DEF InsertInvite, SettingsInvite, InsertLake, OnboardLake, HistoryType
<1>6. ASSUME SubscriptionWebhook(r) PROVE history'.usurped = history.usurped
  BY <1>6, <1>1 DEF SubscriptionWebhook, HistoryType
<1>7. \/ history' = history
      \/ InsertInvite(r) \/ SettingsInvite(r) \/ InsertLake(r) \/ OnboardLake(r)
      \/ SubscriptionWebhook(r) \/ SetRoleWrite(r) \/ RemoveWrite(r)
  BY DEF RequestStep, TeamStep, LakeStep, CheckoutStep, StripeStep, Begin, RequestThrows,
         InviteLook, SeatPlan, ReadAllowance, SeatCount, ResendInvite, RevokeInvite,
         RevokeWrite, SetRoleTarget, ReadTarget, RemoveTarget, LakePlan, LakeCount, DeleteLake,
         CheckoutGuard, Unsound, ReadCustomer, ClaimCustomer, ReadWinner, DiscardCustomer,
         ListIncomplete, SweepIncomplete, CreateSubscription, Overlapped, ReadActive,
         ChangeSubscription, CancelSubscription, PaymentConfirmed, PeriodEnds, AcceptInvite
<1>8. role' = role \/ SetRoleWrite(r) \/ RemoveWrite(r) \/ AcceptInvite(r)
  BY DEF RequestStep, TeamStep, LakeStep, CheckoutStep, StripeStep, Begin, RequestThrows,
         InviteLook, SeatPlan, ReadAllowance, SeatCount, InsertInvite, ResendInvite,
         SettingsInvite, RevokeInvite, RevokeWrite, SetRoleTarget, ReadTarget, RemoveTarget,
         LakePlan, LakeCount, InsertLake, OnboardLake, DeleteLake, CheckoutGuard, Unsound,
         ReadCustomer, ClaimCustomer, ReadWinner, DiscardCustomer, ListIncomplete,
         SweepIncomplete, CreateSubscription, Overlapped, ReadActive, ChangeSubscription,
         CancelSubscription, PaymentConfirmed, PeriodEnds, SubscriptionWebhook
<1> QED BY <1>2, <1>3, <1>4, <1>5, <1>6, <1>7, <1>8

-----------------------------------------------------------------------------
(* The plan: the best one so far only grows, and no plan in force is       *)
(* better, so a count that passed a gate lay below its allowance.          *)
LEMMA BestGrows ==
  ASSUME OrgAssumption, TypeOK, BestPlan, NEW r \in Requests, RequestStep(r)
  PROVE  /\ BestPlan'
         /\ Seats[history.best] <= Seats[history'.best]
         /\ Lakes[history.best] <= Lakes[history'.best]
<1>1. /\ row \in [Requests -> RowType] /\ history \in HistoryType /\ sub \in [Requests -> SubType]
  BY DEF TypeOK
<1>2. ASSUME SubscriptionWebhook(r)
      PROVE  /\ BestPlan'
             /\ history.best = "max" => history'.best = "max"
  <2>1. /\ row' = [row EXCEPT ![r] = [status |-> sub[r].status, plan |-> sub[r].plan]]
        /\ history'.best = IF sub[r].status = "active" THEN Larger(history.best, sub[r].plan)
                           ELSE history.best
        /\ sub[r].plan \in Plans
    BY <1>1, <1>2 DEF SubscriptionWebhook, HistoryType, SubType
  <2>2. /\ Larger(history.best, sub[r].plan) \in {"pro", "max"}
        /\ history.best = "max" \/ sub[r].plan = "max" => Larger(history.best, sub[r].plan) = "max"
    BY <2>1, AllowancesTyped DEF Larger, BestPlan, Plans
  <2>3. \A s \in Requests \ {r} : row'[s] = row[s]
    BY <1>1, <2>1
  <2>4. row'[r].status = sub[r].status /\ row'[r].plan = sub[r].plan
    BY <1>1, <2>1
  <2> QED BY <2>1, <2>2, <2>3, <2>4 DEF BestPlan, ActiveRows
<1>3. ASSUME row' = row, history'.best = history.best PROVE BestPlan'
  BY <1>3 DEF BestPlan, ActiveRows
<1>4. history.best \in {"pro", "max"}
  BY DEF BestPlan
<1>5. ASSUME InsertInvite(r) \/ SettingsInvite(r) \/ SetRoleWrite(r) \/ RemoveWrite(r)
            \/ InsertLake(r) \/ OnboardLake(r)
     PROVE  history'.best = history.best
  BY <1>5, <1>1 DEF InsertInvite, SettingsInvite, SetRoleWrite, RemoveWrite, InsertLake,
         OnboardLake, HistoryType
<1>6. \/ history' = history
      \/ InsertInvite(r) \/ SettingsInvite(r) \/ SetRoleWrite(r) \/ RemoveWrite(r)
      \/ InsertLake(r) \/ OnboardLake(r) \/ SubscriptionWebhook(r)
  BY DEF RequestStep, TeamStep, LakeStep, CheckoutStep, StripeStep, Begin, RequestThrows,
         InviteLook, SeatPlan, ReadAllowance, SeatCount, ResendInvite, RevokeInvite,
         RevokeWrite, SetRoleTarget, ReadTarget, RemoveTarget, LakePlan, LakeCount, DeleteLake,
         CheckoutGuard, Unsound, ReadCustomer, ClaimCustomer, ReadWinner, DiscardCustomer,
         ListIncomplete, SweepIncomplete, CreateSubscription, Overlapped, ReadActive,
         ChangeSubscription, CancelSubscription, PaymentConfirmed, PeriodEnds, AcceptInvite
<1>7. row' = row \/ SubscriptionWebhook(r)
  BY DEF RequestStep, TeamStep, LakeStep, CheckoutStep, StripeStep, Begin, RequestThrows,
         InviteLook, SeatPlan, ReadAllowance, SeatCount, InsertInvite, ResendInvite,
         SettingsInvite, RevokeInvite, RevokeWrite, SetRoleTarget, ReadTarget, RemoveTarget,
         SetRoleWrite, RemoveWrite, LakePlan, LakeCount, InsertLake, OnboardLake, DeleteLake,
         CheckoutGuard, Unsound, ReadCustomer, ClaimCustomer, ReadWinner, DiscardCustomer,
         ListIncomplete, SweepIncomplete, CreateSubscription, Overlapped, ReadActive,
         ChangeSubscription, CancelSubscription, PaymentConfirmed, PeriodEnds, AcceptInvite
<1>8. BestPlan' /\ (history'.best = history.best \/ (history.best = "pro" /\ history'.best = "max"))
  <2>1. BestPlan'
    BY <1>2, <1>3, <1>5, <1>6, <1>7
  <2>2. history.best = "max" => history'.best = "max"
    BY <1>2, <1>5, <1>6
  <2>3. history'.best \in {"pro", "max"}
    BY <2>1 DEF BestPlan
  <2> QED BY <1>4, <2>1, <2>2, <2>3
<1> QED BY <1>4, <1>8, AllowancesTyped

LEMMA PlansNowBounded ==
  ASSUME TypeOK, BestPlan
  PROVE  \A p \in PlansNow \cup {"free"} :
            Seats[p] <= Seats[history.best] /\ Lakes[p] <= Lakes[history.best]
<1>1. ASSUME NEW p \in PlansNow PROVE p \in {"free", "pro"} \/ (p = "max" /\ history.best = "max")
  BY PlansNowTyped DEF PlansNow, ActiveRows, BestPlan, Plans
<1> QED BY <1>1, AllowancesTyped DEF BestPlan

LEMMA CapsHold ==
  ASSUME OrgAssumption, TypeOK, TypeOK', BestPlan, CapsWithin, NEW r \in Requests, RequestStep(r)
  PROVE  CapsWithin'
<1>1. /\ req \in [Requests -> ReqType] /\ req' \in [Requests -> ReqType] /\ lakes \in Nat
      /\ history.best \in {"pro", "max"} /\ history'.best \in {"pro", "max"}
  BY BestGrows DEF TypeOK, BestPlan
<1>2. ASSUME NEW q \in ReqType, CapFits(q, history.best) PROVE CapFits(q, history'.best)
  BY <1>1, <1>2, BestGrows, AllowancesTyped DEF CapFits, ReqType
<1>3. ASSUME NEW q \in Requests \ {r} PROVE CapFits(req'[q], history'.best)
  <2>1. CapFits(req'[q], history.best)
    BY OthersKept DEF Kept, CapsWithin, CapFits
  <2> QED BY <1>1, <1>2, <2>1
<1>4. ASSUME req'[r].at \notin {"seatCount", "insertInvite", "lakeCount", "insertLake"}
      PROVE  CapFits(req'[r], history'.best)
  BY <1>4 DEF CapFits
<1>5. ASSUME req'[r] = req[r] PROVE CapFits(req'[r], history'.best)
  BY <1>1, <1>2, <1>5 DEF CapsWithin
<1>6. ASSUME NEW from, NEW to \in {"seatCount", "lakeCount"}, NEW limit,
             ReadAllowance(r, from, to, limit)
      PROVE  \E p \in PlansNow \cup {"free"} : req'[r].at = to /\ req'[r].cap = limit[p]
  BY <1>1, <1>6 DEF ReadAllowance, ReqType
<1>7. ASSUME SeatPlan(r) PROVE CapFits(req'[r], history.best)
  BY <1>6, <1>7, PlansNowBounded DEF SeatPlan, CapFits
<1>8. ASSUME LakePlan(r) PROVE CapFits(req'[r], history.best)
  BY <1>6, <1>8, PlansNowBounded DEF LakePlan, CapFits
<1>9. ASSUME SeatCount(r) PROVE CapFits(req'[r], history.best)
  <2>1. req[r].cap <= Seats[history.best] /\ req[r].cap \in Nat
    BY <1>1, <1>9 DEF SeatCount, CapsWithin, CapFits, ReqType
  <2>2. \/ req'[r].at = "done"
        \/ req'[r].at = "insertInvite" /\ req'[r].seen = SeatsUsed /\ ~(SeatsUsed >= req[r].cap)
    BY <1>1, <1>9, AnsweredType DEF SeatCount, ReqType
  <2> QED BY <1>1, <2>1, <2>2, SeatsFinite, AllowancesTyped DEF CapFits, Plans
<1>10. ASSUME LakeCount(r) PROVE CapFits(req'[r], history.best)
  <2>1. req[r].cap <= Lakes[history.best] /\ req[r].cap \in Nat
    BY <1>1, <1>10 DEF LakeCount, CapsWithin, CapFits, ReqType
  <2>2. \/ req'[r].at = "done"
        \/ req'[r].at = "insertLake" /\ req'[r].seen = lakes /\ ~(lakes >= req[r].cap)
    BY <1>1, <1>10, AnsweredType DEF LakeCount, ReqType
  <2> QED BY <1>1, <2>1, <2>2, AllowancesTyped DEF CapFits, Plans
<1>11. ASSUME InviteLook(r)
     PROVE  req'[r].at \notin {"seatCount", "insertInvite", "lakeCount", "insertLake"}
  BY <1>11, <1>1, AnsweredType DEF InviteLook, ReqType
<1>12. ASSUME RevokeInvite(r) \/ ReadActive(r)
     PROVE  req'[r].at \notin {"seatCount", "insertInvite", "lakeCount", "insertLake"}
  BY <1>12, <1>1, AnsweredType DEF RevokeInvite, ReadActive, ReqType
<1>13. ASSUME NEW from, NEW to \in {"setRoleWrite", "removeWrite"}, ReadTarget(r, from, to)
       PROVE  req'[r].at \notin {"seatCount", "insertInvite", "lakeCount", "insertLake"}
  BY <1>13, <1>1, AnsweredType DEF ReadTarget, ReqType
<1>14. ASSUME CapFits(req'[r], history.best) PROVE CapFits(req'[r], history'.best)
  BY <1>1, <1>2, <1>14
<1>15. CapFits(req'[r], history'.best)
  BY <1>4, <1>5, <1>7, <1>8, <1>9, <1>10, <1>11, <1>12, <1>13, <1>14, Arrivals
     DEF Arrives, SetRoleTarget, RemoveTarget, RefStages
<1> QED BY <1>3, <1>15 DEF CapsWithin

(* The seats: an insertion takes one, an acceptance turns an invitation    *)
(* into a member, every other step takes none.                             *)
Members == {u \in Users : IsMember(u)}

LEMMA SeatsCounted ==
  ASSUME OrgAssumption
  PROVE  /\ SeatsUsed = Cardinality(Members) + Cardinality(Pending)
         /\ IsFiniteSet(Members) /\ IsFiniteSet(Pending)
         /\ Cardinality(Members) \in Nat /\ Cardinality(Pending) \in Nat
BY SeatsFinite, FS_CardinalityType DEF SeatsUsed, Members

LEMMA SeatsCountedNext ==
  ASSUME OrgAssumption
  PROVE  SeatsUsed' = Cardinality(Members') + Cardinality(Pending')
BY DEF SeatsUsed, Members

LEMMA SeatsShrink ==
  ASSUME OrgAssumption, Members' \subseteq Members, Pending' \subseteq Pending
  PROVE  SeatsUsed' <= SeatsUsed /\ SeatsUsed' \in Nat
<1>1. /\ IsFiniteSet(Members') /\ Cardinality(Members') <= Cardinality(Members)
      /\ IsFiniteSet(Pending') /\ Cardinality(Pending') <= Cardinality(Pending)
  BY SeatsCounted, FS_Subset
<1>2. Cardinality(Members') \in Nat /\ Cardinality(Pending') \in Nat
  BY <1>1, FS_CardinalityType
<1> QED BY <1>1, <1>2, SeatsCounted, SeatsCountedNext

LEMMA OneMore ==
  ASSUME NEW S, NEW x, IsFiniteSet(S)
  PROVE  IsFiniteSet(S \cup {x}) /\ Cardinality(S \cup {x}) <= Cardinality(S) + 1
<1>1. Cardinality(S) \in Nat
  BY FS_CardinalityType
<1>2. /\ IsFiniteSet(S \cup {x})
      /\ Cardinality(S \cup {x}) \in {Cardinality(S), Cardinality(S) + 1}
  BY FS_AddElement
<1> QED BY <1>1, <1>2

LEMMA SeatTaken ==
  ASSUME OrgAssumption, NEW r, Members' = Members, Pending' \subseteq Pending \cup {r}
  PROVE  SeatsUsed' <= SeatsUsed + 1 /\ SeatsUsed' \in Nat
<1>1. /\ IsFiniteSet(Pending \cup {r}) /\ Cardinality(Pending \cup {r}) <= Cardinality(Pending) + 1
  BY SeatsCounted, OneMore
<1>2. /\ IsFiniteSet(Pending') /\ Cardinality(Pending') <= Cardinality(Pending \cup {r})
  BY <1>1, FS_Subset
<1>3. Cardinality(Pending \cup {r}) \in Nat /\ Cardinality(Pending') \in Nat
  BY <1>1, <1>2, FS_CardinalityType
<1> QED BY <1>1, <1>2, <1>3, SeatsCounted, SeatsCountedNext

LEMMA SeatPassedOn ==
  ASSUME OrgAssumption, NEW i \in Pending, NEW e, Members' = Members \cup {e}, Pending' = Pending \ {i}
  PROVE  SeatsUsed' <= SeatsUsed /\ SeatsUsed' \in Nat
<1>1. /\ IsFiniteSet(Members') /\ Cardinality(Members') <= Cardinality(Members) + 1
  BY SeatsCounted, OneMore
<1>2. /\ IsFiniteSet(Pending') /\ Cardinality(Pending') = Cardinality(Pending) - 1
  BY SeatsCounted, FS_RemoveElement
<1>3. Cardinality(Members') \in Nat /\ Cardinality(Pending') \in Nat
  BY <1>1, <1>2, FS_CardinalityType
<1> QED BY <1>1, <1>2, <1>3, SeatsCounted, SeatsCountedNext

LEMMA SeatsHold ==
  ASSUME OrgAssumption, TypeOK, TypeOK', RefsFit, InvitesFit, BestPlan, CapsWithin, NEW r \in Requests,
         RequestStep(r), SeatsUsed <= Seats[history.best] + history.seatsRaced + history.ungated
  PROVE  SeatsUsed' <= Seats[history'.best] + history'.seatsRaced + history'.ungated
<1>1. /\ role \in [Users -> RoleType] /\ invite \in [Requests -> InviteType]
      /\ history \in HistoryType /\ req \in [Requests -> ReqType] /\ req[r].seen \in Nat
  BY DEF TypeOK, ReqType
<1>2. /\ history.seatsRaced \in Nat /\ history.ungated \in Nat
      /\ SeatsUsed \in Nat
      /\ Seats[history.best] \in Nat /\ Seats[history'.best] \in Nat
      /\ Seats[history.best] <= Seats[history'.best]
  BY <1>1, BestGrows, SeatsFinite, AllowancesTyped DEF BestPlan, Plans, HistoryType
<1>3. ASSUME InsertInvite(r)
      PROVE  SeatsUsed' <= Seats[history'.best] + history'.seatsRaced + history'.ungated
  <2>1. Members' = Members /\ Pending' \subseteq Pending \cup {r}
    BY <1>1, <1>3 DEF InsertInvite, Members, IsMember, Pending
  <2>2. /\ history'.ungated = history.ungated /\ history'.best = history.best
        /\ history'.seatsRaced = history.seatsRaced + IF SeatsUsed > req[r].seen THEN 1 ELSE 0
    BY <1>1, <1>3 DEF InsertInvite, HistoryType
  <2>3. req[r].seen < Seats[history.best]
    BY <1>3 DEF InsertInvite, CapsWithin, CapFits
  <2>4. SeatsUsed' <= SeatsUsed + 1 /\ SeatsUsed' \in Nat
    BY <2>1, SeatTaken
  <2> QED BY <1>1, <1>2, <2>2, <2>3, <2>4
<1>4. ASSUME SettingsInvite(r)
      PROVE  SeatsUsed' <= Seats[history'.best] + history'.seatsRaced + history'.ungated
  <2>1. Members' = Members /\ Pending' \subseteq Pending \cup {r}
    BY <1>1, <1>4 DEF SettingsInvite, Members, IsMember, Pending
  <2>2. /\ history'.ungated = history.ungated + 1 /\ history'.best = history.best
        /\ history'.seatsRaced = history.seatsRaced
    BY <1>1, <1>4 DEF SettingsInvite, HistoryType
  <2>3. SeatsUsed' <= SeatsUsed + 1 /\ SeatsUsed' \in Nat
    BY <2>1, SeatTaken
  <2> QED BY <1>2, <2>2, <2>3
<1>5. ASSUME AcceptInvite(r) PROVE SeatsUsed' <= SeatsUsed /\ SeatsUsed' \in Nat
  <2>1. r \in Pending /\ invite[r].email \in Users /\ invite[r].role \in {"member", "admin"}
    BY <1>1, <1>5 DEF AcceptInvite, InvitesFit, InviteType
  <2>2. Pending' = Pending \ {r}
    BY <1>1, <1>5 DEF AcceptInvite, Pending
  <2>3. Members' = Members \cup {invite[r].email}
    BY <1>1, <1>5, <2>1 DEF AcceptInvite, Members, IsMember
  <2> QED BY <2>1, <2>2, <2>3, SeatPassedOn
<1>6. ASSUME ResendInvite(r) \/ RevokeWrite(r) PROVE Members' \subseteq Members /\ Pending' \subseteq Pending
  BY <1>1, <1>6 DEF ResendInvite, RevokeWrite, Members, IsMember, Pending, InviteType
<1>7. ASSUME SetRoleWrite(r) \/ RemoveWrite(r) PROVE Members' \subseteq Members /\ Pending' \subseteq Pending
  BY <1>1, <1>7 DEF SetRoleWrite, RemoveWrite, Members, IsMember, Pending
<1>8. ASSUME role' = role, invite' = invite PROVE Members' \subseteq Members /\ Pending' \subseteq Pending
  BY <1>8 DEF Members, IsMember, Pending
<1>9. \/ (role' = role /\ invite' = invite)
      \/ InsertInvite(r) \/ SettingsInvite(r) \/ ResendInvite(r) \/ RevokeWrite(r)
      \/ SetRoleWrite(r) \/ RemoveWrite(r) \/ AcceptInvite(r)
  BY DEF RequestStep, TeamStep, LakeStep, CheckoutStep, StripeStep, Begin, RequestThrows,
         InviteLook, SeatPlan, ReadAllowance, SeatCount, RevokeInvite, SetRoleTarget,
         ReadTarget, RemoveTarget, LakePlan, LakeCount, InsertLake, OnboardLake, DeleteLake,
         CheckoutGuard, Unsound, ReadCustomer, ClaimCustomer, ReadWinner, DiscardCustomer,
         ListIncomplete, SweepIncomplete, CreateSubscription, Overlapped, ReadActive,
         ChangeSubscription, CancelSubscription, PaymentConfirmed, PeriodEnds,
         SubscriptionWebhook
<1>10. ASSUME SetRoleWrite(r) \/ RemoveWrite(r) \/ InsertLake(r) \/ OnboardLake(r)
            \/ SubscriptionWebhook(r)
     PROVE  history'.seatsRaced = history.seatsRaced /\ history'.ungated = history.ungated
  BY <1>10, <1>1 DEF SetRoleWrite, RemoveWrite, InsertLake, OnboardLake, SubscriptionWebhook,
         HistoryType
<1>11. \/ history' = history
      \/ InsertInvite(r) \/ SettingsInvite(r) \/ SetRoleWrite(r) \/ RemoveWrite(r)
      \/ InsertLake(r) \/ OnboardLake(r) \/ SubscriptionWebhook(r)
  BY DEF RequestStep, TeamStep, LakeStep, CheckoutStep, StripeStep, Begin, RequestThrows,
         InviteLook, SeatPlan, ReadAllowance, SeatCount, ResendInvite, RevokeInvite,
         RevokeWrite, SetRoleTarget, ReadTarget, RemoveTarget, LakePlan, LakeCount, DeleteLake,
         CheckoutGuard, Unsound, ReadCustomer, ClaimCustomer, ReadWinner, DiscardCustomer,
         ListIncomplete, SweepIncomplete, CreateSubscription, Overlapped, ReadActive,
         ChangeSubscription, CancelSubscription, PaymentConfirmed, PeriodEnds, AcceptInvite
<1>12. InsertInvite(r) \/ SettingsInvite(r) \/ (SeatsUsed' <= SeatsUsed /\ SeatsUsed' \in Nat)
  BY <1>5, <1>6, <1>7, <1>8, <1>9, SeatsShrink
<1>13. \/ InsertInvite(r) \/ SettingsInvite(r)
       \/ history'.seatsRaced = history.seatsRaced /\ history'.ungated = history.ungated
  BY <1>10, <1>11
<1> QED BY <1>2, <1>3, <1>4, <1>12, <1>13

LEMMA LakesHold ==
  ASSUME OrgAssumption, TypeOK, TypeOK', BestPlan, CapsWithin, NEW r \in Requests,
         RequestStep(r), lakes <= Lakes[history.best] + history.lakesRaced + history.onboarded
  PROVE  lakes' <= Lakes[history'.best] + history'.lakesRaced + history'.onboarded
<1>1. /\ history \in HistoryType /\ req \in [Requests -> ReqType] /\ req[r].seen \in Nat
  BY DEF TypeOK, ReqType
<1>2. /\ history.lakesRaced \in Nat /\ history.onboarded \in Nat
      /\ lakes \in Nat /\ lakes' \in Nat
      /\ Lakes[history.best] \in Nat /\ Lakes[history'.best] \in Nat
      /\ Lakes[history.best] <= Lakes[history'.best]
  BY <1>1, BestGrows, AllowancesTyped DEF BestPlan, Plans, HistoryType, TypeOK
<1>3. ASSUME InsertLake(r)
      PROVE  lakes' <= Lakes[history'.best] + history'.lakesRaced + history'.onboarded
  <2>1. /\ history'.onboarded = history.onboarded /\ history'.best = history.best
        /\ history'.lakesRaced = history.lakesRaced + IF lakes > req[r].seen THEN 1 ELSE 0
        /\ lakes' = lakes + 1
    BY <1>1, <1>3 DEF InsertLake, HistoryType
  <2>2. req[r].seen < Lakes[history.best]
    BY <1>3 DEF InsertLake, CapsWithin, CapFits
  <2> QED BY <1>1, <1>2, <2>1, <2>2
<1>4. ASSUME OnboardLake(r)
      PROVE  lakes' <= Lakes[history'.best] + history'.lakesRaced + history'.onboarded
  <2>1. /\ history'.onboarded = history.onboarded + 1 /\ history'.best = history.best
        /\ history'.lakesRaced = history.lakesRaced /\ lakes' = lakes + 1
    BY <1>1, <1>4 DEF OnboardLake, HistoryType
  <2> QED BY <1>2, <2>1
<1>5. DeleteLake(r) => lakes' <= lakes
  BY <1>2 DEF DeleteLake
<1>6. lakes' = lakes \/ InsertLake(r) \/ OnboardLake(r) \/ DeleteLake(r)
  BY DEF RequestStep, TeamStep, LakeStep, CheckoutStep, StripeStep, Begin, RequestThrows,
         InviteLook, SeatPlan, ReadAllowance, SeatCount, InsertInvite, ResendInvite,
         SettingsInvite, RevokeInvite, RevokeWrite, SetRoleTarget, ReadTarget, RemoveTarget,
         SetRoleWrite, RemoveWrite, LakePlan, LakeCount, CheckoutGuard, Unsound, ReadCustomer,
         ClaimCustomer, ReadWinner, DiscardCustomer, ListIncomplete, SweepIncomplete,
         CreateSubscription, Overlapped, ReadActive, ChangeSubscription, CancelSubscription,
         PaymentConfirmed, PeriodEnds, SubscriptionWebhook, AcceptInvite
<1>7. ASSUME InsertInvite(r) \/ SettingsInvite(r) \/ SetRoleWrite(r) \/ RemoveWrite(r)
            \/ SubscriptionWebhook(r)
     PROVE  history'.lakesRaced = history.lakesRaced /\ history'.onboarded = history.onboarded
  BY <1>7, <1>1 DEF InsertInvite, SettingsInvite, SetRoleWrite, RemoveWrite,
         SubscriptionWebhook, HistoryType
<1>8. \/ history' = history
      \/ InsertInvite(r) \/ SettingsInvite(r) \/ SetRoleWrite(r) \/ RemoveWrite(r)
      \/ SubscriptionWebhook(r) \/ InsertLake(r) \/ OnboardLake(r)
  BY DEF RequestStep, TeamStep, LakeStep, CheckoutStep, StripeStep, Begin, RequestThrows,
         InviteLook, SeatPlan, ReadAllowance, SeatCount, ResendInvite, RevokeInvite,
         RevokeWrite, SetRoleTarget, ReadTarget, RemoveTarget, LakePlan, LakeCount, DeleteLake,
         CheckoutGuard, Unsound, ReadCustomer, ClaimCustomer, ReadWinner, DiscardCustomer,
         ListIncomplete, SweepIncomplete, CreateSubscription, Overlapped, ReadActive,
         ChangeSubscription, CancelSubscription, PaymentConfirmed, PeriodEnds, AcceptInvite
<1>9. \/ InsertLake(r) \/ OnboardLake(r)
      \/ history'.lakesRaced = history.lakesRaced /\ history'.onboarded = history.onboarded
  BY <1>7, <1>8
<1> QED BY <1>2, <1>3, <1>4, <1>5, <1>6, <1>9

-----------------------------------------------------------------------------
(* Subscriptions: apart from the one that is created, a step keeps what    *)
(* they were created with, brings none to life, and makes one active only  *)
(* when its payment is confirmed.                                          *)
SubKept(t) ==
  /\ sub'[t].sound = sub[t].sound /\ sub'[t].clean = sub[t].clean
  /\ sub'[t].customer = sub[t].customer
  /\ sub'[t].status \in {sub[t].status, "active", "canceled"}
  /\ sub'[t].status = "active" => Live(t)

Creates(r) ==
  \E p \in SelfServePlans :
    /\ CreateSubscription(r)
    /\ sub' = [sub EXCEPT ![r] = [status |-> "incomplete", plan |-> p, customer |-> req[r].cust,
                                 ending |-> FALSE, sound |-> req[r].sound,
                                 clean |-> req[r].sound /\ req[r].alone]]
    /\ \A q \in Requests \ {r} : ~req'[q].alone

LEMMA CreationSteps ==
  ASSUME TypeOK, NEW r \in Requests, CreateSubscription(r)
  PROVE  sub' = sub \/ Creates(r)
<1>1. req \in [Requests -> ReqType]
  BY DEF TypeOK
<1>2. CASE req[r].cust \in deleted
  BY <1>2 DEF CreateSubscription
<1>3. CASE req[r].cust \notin deleted
  <2>1. req' = [Overlapped(r) EXCEPT ![r] = Answered]
    BY <1>3 DEF CreateSubscription
  <2>2. \A q \in Requests \ {r} : ~Overlapped(r)[q].alone
    BY <1>1 DEF Overlapped, ReqType
  <2>3. \A q \in Requests \ {r} : req'[q] = Overlapped(r)[q]
    BY <2>1, <1>1, OverlappedTyped
  <2> QED BY <1>3, <2>2, <2>3 DEF CreateSubscription, Creates
<1> QED BY <1>2, <1>3

LEMMA SubSteps ==
  ASSUME OrgAssumption, TypeOK, NEW r \in Requests, RequestStep(r)
  PROVE  Creates(r) \/ \A t \in Requests : SubKept(t)
<1>1. sub \in [Requests -> SubType]
  BY DEF TypeOK
<1>2. ASSUME sub' = sub PROVE \A t \in Requests : SubKept(t)
  BY <1>1, <1>2 DEF SubKept, Live
<1>3. ASSUME SweepIncomplete(r) PROVE \A t \in Requests : SubKept(t)
  BY <1>3, <1>1 DEF SweepIncomplete, Unsound, SubKept, Live, SubType
<1>4. ASSUME ChangeSubscription(r) PROVE \A t \in Requests : SubKept(t)
  BY <1>4, <1>1 DEF ChangeSubscription, SubKept, Live, SubType
<1>5. ASSUME CancelSubscription(r) PROVE \A t \in Requests : SubKept(t)
  BY <1>5, <1>1 DEF CancelSubscription, SubKept, Live, SubType
<1>6. ASSUME PaymentConfirmed(r) PROVE \A t \in Requests : SubKept(t)
  BY <1>6, <1>1 DEF PaymentConfirmed, Overlapped, SubKept, Live, SubType
<1>7. ASSUME PeriodEnds(r) PROVE \A t \in Requests : SubKept(t)
  BY <1>7, <1>1 DEF PeriodEnds, SubKept, Live, SubType
<1>8. \/ sub' = sub
      \/ SweepIncomplete(r) \/ CreateSubscription(r) \/ ChangeSubscription(r)
      \/ CancelSubscription(r) \/ PaymentConfirmed(r) \/ PeriodEnds(r)
  BY DEF RequestStep, TeamStep, LakeStep, CheckoutStep, StripeStep, Begin, RequestThrows,
         InviteLook, SeatPlan, ReadAllowance, SeatCount, InsertInvite, ResendInvite,
         SettingsInvite, RevokeInvite, RevokeWrite, SetRoleTarget, ReadTarget, RemoveTarget,
         SetRoleWrite, RemoveWrite, LakePlan, LakeCount, InsertLake, OnboardLake, DeleteLake,
         CheckoutGuard, Unsound, ReadCustomer, ClaimCustomer, ReadWinner, DiscardCustomer,
         ListIncomplete, ReadActive, SubscriptionWebhook, AcceptInvite
<1> QED BY <1>2, <1>3, <1>4, <1>5, <1>6, <1>7, <1>8, CreationSteps

(* The customer.                                                           *)
LEMMA CustomerStays ==
  ASSUME OrgAssumption, TypeOK, CustomerInv, NEW r \in Requests, RequestStep(r)
  PROVE  /\ customer' = customer \/ customer = None
         /\ \A q \in Requests, v \in ReqType :
               CustFits(q, v, customer) => CustFits(q, v, customer')
         /\ \A t \in SubType : SubFits(t, customer) => SubFits(t, customer')
<1>1. customer' = customer \/ customer = None
  <2>1. ClaimCustomer(r) => customer' = customer \/ customer = None
    BY DEF ClaimCustomer
  <2>2. customer' = customer \/ ClaimCustomer(r)
    BY DEF RequestStep, TeamStep, LakeStep, CheckoutStep, StripeStep, Begin, RequestThrows,
           InviteLook, SeatPlan, ReadAllowance, SeatCount, InsertInvite, ResendInvite,
           SettingsInvite, RevokeInvite, RevokeWrite, SetRoleTarget, ReadTarget, RemoveTarget,
           SetRoleWrite, RemoveWrite, LakePlan, LakeCount, InsertLake, OnboardLake, DeleteLake,
           CheckoutGuard, Unsound, ReadCustomer, ReadWinner, DiscardCustomer, ListIncomplete,
           SweepIncomplete, CreateSubscription, Overlapped, ReadActive, ChangeSubscription,
           CancelSubscription, PaymentConfirmed, PeriodEnds, SubscriptionWebhook, AcceptInvite
  <2> QED BY <2>1, <2>2
<1> QED BY <1>1 DEF CustFits, SubFits

LEMMA DeletedHold ==
  ASSUME OrgAssumption, TypeOK, CustomerInv, NEW r \in Requests, RequestStep(r)
  PROVE  \A d \in deleted' : customer' \notin {None, d}
<1>1. ASSUME DiscardCustomer(r) PROVE \A d \in deleted' : customer \notin {None, d} /\ customer' = customer
  BY <1>1 DEF DiscardCustomer, CustomerInv, CustFits
<1>2. deleted = {} \/ customer' = customer
  BY CustomerStays DEF CustomerInv
<1>3. deleted' = deleted \/ DiscardCustomer(r)
  BY DEF RequestStep, TeamStep, LakeStep, CheckoutStep, StripeStep, Begin, RequestThrows,
         InviteLook, SeatPlan, ReadAllowance, SeatCount, InsertInvite, ResendInvite,
         SettingsInvite, RevokeInvite, RevokeWrite, SetRoleTarget, ReadTarget, RemoveTarget,
         SetRoleWrite, RemoveWrite, LakePlan, LakeCount, InsertLake, OnboardLake, DeleteLake,
         CheckoutGuard, Unsound, ReadCustomer, ClaimCustomer, ReadWinner, ListIncomplete,
         SweepIncomplete, CreateSubscription, Overlapped, ReadActive, ChangeSubscription,
         CancelSubscription, PaymentConfirmed, PeriodEnds, SubscriptionWebhook, AcceptInvite
<1> QED BY <1>1, <1>2, <1>3 DEF CustomerInv

LEMMA CheckoutHolds ==
  ASSUME OrgAssumption, TypeOK, TypeOK', CustomerInv, NEW r \in Requests, RequestStep(r)
  PROVE  \A q \in Requests : CustFits(q, req'[q], customer')
<1>1. /\ req \in [Requests -> ReqType] /\ req' \in [Requests -> ReqType]
      /\ customer \in Requests \cup {None} /\ None \notin Requests
  BY DEF TypeOK, OrgAssumption
<1>2. ASSUME NEW q \in Requests, CustFits(q, req'[q], customer) PROVE CustFits(q, req'[q], customer')
  BY <1>1, <1>2, CustomerStays
<1>3. ASSUME NEW q \in Requests \ {r} PROVE CustFits(q, req'[q], customer)
  BY OthersKept DEF Kept, CustomerInv, CustFits
<1>4. ASSUME req'[r].at \notin {"winner", "discard", "list", "sweep"} PROVE CustFits(r, req'[r], customer)
  BY <1>4 DEF CustFits
<1>5. ASSUME req'[r] = req[r] PROVE CustFits(r, req'[r], customer)
  BY <1>5 DEF CustomerInv
<1>6. ASSUME CheckoutGuard(r) PROVE req'[r].at \notin {"winner", "discard", "list", "sweep"}
  BY <1>6, <1>1, AnsweredType DEF CheckoutGuard, Unsound, ReqType
<1>7. ASSUME ReadCustomer(r) PROVE CustFits(r, req'[r], customer)
  BY <1>7, <1>1 DEF ReadCustomer, Unsound, ReqType, CustFits
<1>8. ASSUME ClaimCustomer(r) PROVE CustFits(r, req'[r], customer')
  BY <1>1, <1>8 DEF ClaimCustomer, Unsound, ReqType, CustFits
<1>9. ASSUME ReadWinner(r) PROVE CustFits(r, req'[r], customer)
  BY <1>9, <1>1 DEF ReadWinner, Unsound, ReqType, CustFits, CustomerInv
<1>10. ASSUME DiscardCustomer(r) PROVE CustFits(r, req'[r], customer)
  BY <1>10, <1>1 DEF DiscardCustomer, ReqType, CustFits, CustomerInv
<1>11. ASSUME ListIncomplete(r) PROVE CustFits(r, req'[r], customer)
  <2>1. PICK found : req' = [req EXCEPT ![r].at = "sweep", ![r].listed = found]
    BY <1>11 DEF ListIncomplete
  <2>2. req'[r].at = "sweep" /\ req'[r].sound = req[r].sound /\ req'[r].cust = req[r].cust
    BY <1>1, <2>1 DEF ReqType
  <2>3. req[r].at = "list"
    BY <1>11 DEF ListIncomplete
  <2> QED BY <2>2, <2>3 DEF CustFits, CustomerInv
<1>12. ASSUME SweepIncomplete(r) PROVE CustFits(r, req'[r], customer)
  BY <1>12, <1>1 DEF SweepIncomplete, Unsound, ReqType, CustFits, CustomerInv
<1>13. CustFits(r, req'[r], customer')
  BY <1>2, <1>4, <1>5, <1>6, <1>7, <1>8, <1>9, <1>10, <1>11, <1>12, Arrivals
     DEF Arrives, AtCheckout
<1> QED BY <1>2, <1>3, <1>13

LEMMA CustomerHolds ==
  ASSUME OrgAssumption, TypeOK, TypeOK', CustomerInv, NEW r \in Requests, RequestStep(r)
  PROVE  CustomerInv'
<1>1. /\ sub \in [Requests -> SubType] /\ sub' \in [Requests -> SubType]
  BY DEF TypeOK
<1>2. ASSUME NEW t \in Requests, SubKept(t) PROVE SubFits(sub'[t], customer)
  BY <1>2 DEF SubKept, CustomerInv, SubFits, Live
<1>3. ASSUME Creates(r), NEW t \in Requests PROVE SubFits(sub'[t], customer)
  <2>1. req[r].at = "sweep"
    BY <1>3 DEF Creates, CreateSubscription
  <2>2. CASE t = r
    BY <1>1, <1>3, <2>1, <2>2 DEF Creates, CustomerInv, CustFits, SubFits
  <2>3. CASE t # r
    BY <1>1, <1>3, <2>3 DEF Creates, CustomerInv
  <2> QED BY <2>2, <2>3
<1>4. \A t \in Requests : SubFits(sub'[t], customer')
  BY <1>1, <1>2, <1>3, SubSteps, CustomerStays
<1> QED BY <1>4, CheckoutHolds, DeletedHold DEF CustomerInv

-----------------------------------------------------------------------------
(* Double billing.                                                         *)
LEMMA DoneStays ==
  ASSUME OrgAssumption, TypeOK, TypeOK', NEW r \in Requests, RequestStep(r),
         NEW s \in Requests, req[s].at = "done"
  PROVE  req'[s].at = "done"
<1>1. CASE s # r
  BY <1>1, OthersKept DEF Kept
<1>2. CASE s = r
  <2>1. \/ req[r].at # "done"
        \/ PaymentConfirmed(r) \/ PeriodEnds(r) \/ SubscriptionWebhook(r) \/ AcceptInvite(r)
    BY DEF RequestStep, TeamStep, LakeStep, CheckoutStep, StripeStep, Begin, RequestThrows,
           InviteLook, SeatPlan, ReadAllowance, SeatCount, InsertInvite, ResendInvite,
           SettingsInvite, RevokeInvite, RevokeWrite, SetRoleTarget, ReadTarget, RemoveTarget,
           SetRoleWrite, RemoveWrite, LakePlan, LakeCount, InsertLake, OnboardLake, DeleteLake,
           CheckoutGuard, Unsound, ReadCustomer, ClaimCustomer, ReadWinner, DiscardCustomer,
           ListIncomplete, SweepIncomplete, CreateSubscription, Overlapped, ReadActive,
           ChangeSubscription, CancelSubscription
  <2>2. \/ req'[r].at = req[r].at
        \/ ~(PaymentConfirmed(r) \/ PeriodEnds(r) \/ SubscriptionWebhook(r) \/ AcceptInvite(r))
    BY OverlappedTyped DEF TypeOK, PaymentConfirmed, PeriodEnds, SubscriptionWebhook, AcceptInvite
  <2> QED BY <1>2, <2>1, <2>2
<1> QED BY <1>1, <1>2

LEMMA LiveAreDone ==
  ASSUME OrgAssumption, TypeOK, TypeOK', BillingInv, NEW r \in Requests, RequestStep(r)
  PROVE  /\ \A s \in Requests : Live(s)' => req'[s].at = "done"
         /\ \A s \in Requests : sub'[s].clean => sub'[s].sound
<1>1. /\ sub \in [Requests -> SubType] /\ req \in [Requests -> ReqType]
      /\ \A s \in Requests : sub[s].status \in {"none", "incomplete", "active", "canceled"}
      /\ req[r].sound \in BOOLEAN /\ req[r].alone \in BOOLEAN
  BY DEF TypeOK, SubType, ReqType
<1>2. ASSUME NEW s \in Requests, SubKept(s)
      PROVE  (Live(s)' => req'[s].at = "done") /\ (sub'[s].clean => sub'[s].sound)
  <2>1. Live(s)' => Live(s)
    BY <1>2 DEF SubKept, Live
  <2> QED BY <1>2, <2>1, DoneStays DEF SubKept, BillingInv
<1>3. ASSUME Creates(r), NEW s \in Requests
      PROVE  (Live(s)' => req'[s].at = "done") /\ (sub'[s].clean => sub'[s].sound)
  <2>1. req'[r].at = "done"
    BY <1>1, <1>3, AnsweredType, OverlappedTyped DEF Creates, CreateSubscription
  <2>2. CASE s = r
    BY <1>1, <1>3, <2>1, <2>2 DEF Creates
  <2>3. CASE s # r
    BY <1>1, <1>3, <2>3, DoneStays DEF Creates, Live, BillingInv
  <2> QED BY <2>2, <2>3
<1> QED BY <1>2, <1>3, SubSteps

(* An active subscription comes from a payment, which everyone else in     *)
(* flight takes for company.                                               *)
LEMMA Activation ==
  ASSUME OrgAssumption, TypeOK, TypeOK', BillingInv, NEW r \in Requests, RequestStep(r),
         NEW s \in Requests, sub[s].status # "active", sub'[s].status = "active"
  PROVE  /\ req'[r].at = "done"
         /\ \A q \in Requests \ {r} : ~req'[q].alone
<1>1. /\ sub \in [Requests -> SubType] /\ req \in [Requests -> ReqType]
  BY DEF TypeOK
<1>2. ASSUME SweepIncomplete(r) PROVE sub'[s].status # "active"
  BY <1>2, <1>1 DEF SweepIncomplete, Unsound, SubType
<1>3. ASSUME CreateSubscription(r) PROVE sub'[s].status # "active"
  BY <1>3, <1>1 DEF CreateSubscription, Overlapped, SubType
<1>4. ASSUME ChangeSubscription(r) PROVE sub'[s].status # "active"
  BY <1>4, <1>1 DEF ChangeSubscription, SubType
<1>5. ASSUME CancelSubscription(r) PROVE sub'[s].status # "active"
  BY <1>5, <1>1 DEF CancelSubscription, SubType
<1>6. ASSUME PeriodEnds(r) PROVE sub'[s].status # "active"
  BY <1>6, <1>1 DEF PeriodEnds, SubType
<1>7. ASSUME PaymentConfirmed(r)
      PROVE  req'[r].at = "done" /\ \A q \in Requests \ {r} : ~req'[q].alone
  <2>1. req[r].at = "done"
    BY <1>7 DEF PaymentConfirmed, BillingInv, Live
  <2>2. \A q \in Requests \ {r} : ~Overlapped(r)[q].alone
    BY <1>1 DEF Overlapped, ReqType
  <2> QED BY <1>1, <1>7, <2>1, <2>2, OverlappedTyped DEF PaymentConfirmed
<1>8. \/ sub' = sub
      \/ SweepIncomplete(r) \/ CreateSubscription(r) \/ ChangeSubscription(r)
      \/ CancelSubscription(r) \/ PaymentConfirmed(r) \/ PeriodEnds(r)
  BY DEF RequestStep, TeamStep, LakeStep, CheckoutStep, StripeStep, Begin, RequestThrows,
         InviteLook, SeatPlan, ReadAllowance, SeatCount, InsertInvite, ResendInvite,
         SettingsInvite, RevokeInvite, RevokeWrite, SetRoleTarget, ReadTarget, RemoveTarget,
         SetRoleWrite, RemoveWrite, LakePlan, LakeCount, InsertLake, OnboardLake, DeleteLake,
         CheckoutGuard, Unsound, ReadCustomer, ClaimCustomer, ReadWinner, DiscardCustomer,
         ListIncomplete, ReadActive, SubscriptionWebhook, AcceptInvite
<1> QED BY <1>2, <1>3, <1>4, <1>5, <1>6, <1>7, <1>8

LEMMA OthersLone ==
  ASSUME OrgAssumption, TypeOK, TypeOK', BillingInv, NEW r \in Requests, RequestStep(r),
         NEW q \in Requests \ {r}
  PROVE  LoneFits(q)'
<1>1. CASE Creates(r)
  BY <1>1 DEF Creates, LoneFits
<1>2. CASE \A t \in Requests : SubKept(t)
  <2>1. CASE req'[q].alone
    <3>1. \A s \in Requests : sub'[s].status = "active" => sub[s].status = "active"
      BY <2>1, Activation
    <3>2. \A s \in Requests : sub'[s].status = "incomplete" /\ sub'[s].sound
                               => sub[s].status = "incomplete" /\ sub[s].sound
      BY <1>2 DEF SubKept
    <3> QED BY <3>1, <3>2, OthersKept DEF Kept, LoneFits, BillingInv
  <2>2. CASE ~req'[q].alone
    BY <2>2 DEF LoneFits
  <2> QED BY <2>1, <2>2
<1> QED BY <1>1, <1>2, SubSteps

LEMMA SelfLone ==
  ASSUME OrgAssumption, TypeOK, TypeOK', CustomerInv, BillingInv, NEW r \in Requests, RequestStep(r)
  PROVE  LoneFits(r)'
<1>1. /\ sub \in [Requests -> SubType] /\ req \in [Requests -> ReqType]
      /\ row \in [Requests -> RowType]
  BY DEF TypeOK
<1>2. ASSUME req'[r].at \notin AtCheckout PROVE LoneFits(r)'
  BY <1>2 DEF LoneFits, AtCheckout
<1>3. ASSUME req'[r] = req[r], req'[r].at \in AtCheckout PROVE LoneFits(r)'
  <2>1. req'[r].at # "done"
    BY <1>3 DEF AtCheckout
  <2>2. \A s \in Requests : sub'[s].status = "active" => sub[s].status = "active"
    BY <2>1, Activation
  <2>3. ~Creates(r)
    <3>1. ASSUME Creates(r) PROVE req'[r].at = "done"
      BY <1>1, <3>1, AnsweredType, OverlappedTyped DEF Creates, CreateSubscription
    <3> QED BY <2>1, <3>1
  <2>4. \A s \in Requests : sub'[s].status = "incomplete" /\ sub'[s].sound
                             => sub[s].status = "incomplete" /\ sub[s].sound
    BY <2>3, SubSteps DEF SubKept
  <2> QED BY <1>3, <2>2, <2>4 DEF LoneFits, BillingInv
<1>4. ASSUME CheckoutGuard(r) PROVE LoneFits(r)'
  <2>1. \/ req'[r].at = "done"
        \/ ~req'[r].sound
        \/ ActiveRows = {} /\ req'[r].at = "customer" /\ req'[r].alone = NothingUnseen /\ sub' = sub
    BY <1>1, <1>4, AnsweredType DEF CheckoutGuard, Unsound, ReqType
  <2> QED BY <2>1 DEF LoneFits, AtCheckout, NothingUnseen
<1>5. ASSUME \/ ~req'[r].sound
             \/ /\ req[r].at \in AtCheckout /\ req'[r].at # "sweep" /\ sub' = sub
                /\ req'[r].sound = req[r].sound /\ req'[r].alone = req[r].alone
      PROVE  LoneFits(r)'
  BY <1>5 DEF LoneFits, BillingInv
<1>6. ASSUME ReadCustomer(r)
      PROVE  \/ ~req'[r].sound
             \/ /\ req[r].at \in AtCheckout /\ req'[r].at # "sweep" /\ sub' = sub
                /\ req'[r].sound = req[r].sound /\ req'[r].alone = req[r].alone
  BY <1>1, <1>6 DEF ReadCustomer, Unsound, ReqType, AtCheckout
<1>7. ASSUME ClaimCustomer(r)
      PROVE  \/ ~req'[r].sound
             \/ /\ req[r].at \in AtCheckout /\ req'[r].at # "sweep" /\ sub' = sub
                /\ req'[r].sound = req[r].sound /\ req'[r].alone = req[r].alone
  BY <1>1, <1>7 DEF ClaimCustomer, Unsound, ReqType, AtCheckout
<1>8. ASSUME ReadWinner(r)
      PROVE  \/ ~req'[r].sound
             \/ /\ req[r].at \in AtCheckout /\ req'[r].at # "sweep" /\ sub' = sub
                /\ req'[r].sound = req[r].sound /\ req'[r].alone = req[r].alone
  BY <1>1, <1>8 DEF ReadWinner, Unsound, ReqType, AtCheckout
<1>9. ASSUME DiscardCustomer(r)
      PROVE  \/ ~req'[r].sound
             \/ /\ req[r].at \in AtCheckout /\ req'[r].at # "sweep" /\ sub' = sub
                /\ req'[r].sound = req[r].sound /\ req'[r].alone = req[r].alone
  BY <1>1, <1>9 DEF DiscardCustomer, ReqType, AtCheckout
<1>10. ASSUME ListIncomplete(r) PROVE LoneFits(r)'
  <2> DEFINE found == {s \in Requests : sub[s].status = "incomplete" /\ sub[s].customer = req[r].cust}
  <2>1. req' = [req EXCEPT ![r].at = "sweep", ![r].listed = found] /\ req[r].at = "list" /\ sub' = sub
    BY <1>10 DEF ListIncomplete
  <2>2. req[r].sound => \A s \in Requests : sub[s].status = "incomplete" /\ sub[s].sound => s \in found
    BY <2>1 DEF CustomerInv, CustFits, SubFits
  <2> HIDE DEF found
  <2>3. /\ req'[r].at = "sweep" /\ req'[r].listed = found
        /\ req'[r].sound = req[r].sound /\ req'[r].alone = req[r].alone
    BY <1>1, <2>1 DEF ReqType
  <2> QED BY <2>1, <2>2, <2>3 DEF LoneFits, BillingInv, AtCheckout
<1>11. ASSUME SweepIncomplete(r) PROVE LoneFits(r)'
  <2>1. PICK s \in req[r].listed :
           \/ ~req'[r].sound
           \/ /\ req[r].at = "sweep" /\ req'[r].at = "sweep" /\ req'[r].listed = req[r].listed \ {s}
              /\ req'[r].sound = req[r].sound /\ req'[r].alone = req[r].alone
              /\ sub' = [sub EXCEPT ![s].status = "canceled"]
    BY <1>1, <1>11 DEF SweepIncomplete, Unsound, ReqType
  <2>2. CASE ~req'[r].sound
    BY <2>2 DEF LoneFits
  <2>3. CASE /\ req[r].at = "sweep" /\ req'[r].at = "sweep" /\ req'[r].listed = req[r].listed \ {s}
             /\ req'[r].sound = req[r].sound /\ req'[r].alone = req[r].alone
             /\ sub' = [sub EXCEPT ![s].status = "canceled"]
    <3>1. \A t \in Requests : /\ sub'[t].status # "canceled" => t # s /\ sub'[t] = sub[t]
      BY <1>1, <2>3 DEF SubType
    <3> QED BY <2>3, <3>1 DEF LoneFits, BillingInv, AtCheckout
  <2> QED BY <2>1, <2>2, <2>3
<1> QED BY <1>2, <1>3, <1>4, <1>5, <1>6, <1>7, <1>8, <1>9, <1>10, <1>11, Arrivals DEF Arrives

LEMMA OneCleanHolds ==
  ASSUME OrgAssumption, TypeOK, TypeOK', CustomerInv, BillingInv, NEW r \in Requests, RequestStep(r)
  PROVE  OneClean'
<1>1. sub \in [Requests -> SubType] /\ req \in [Requests -> ReqType]
  BY DEF TypeOK
<1>2. CASE \A t \in Requests : SubKept(t)
  <2>1. \A t \in Requests : (Live(t)' => Live(t)) /\ sub'[t].clean = sub[t].clean
    BY <1>2 DEF SubKept, Live
  <2> QED BY <2>1 DEF OneClean, BillingInv
<1>3. CASE Creates(r)
  <2>1. \A t \in Requests \ {r} : sub'[t] = sub[t]
    BY <1>1, <1>3 DEF Creates
  <2>2. ASSUME sub'[r].clean, NEW t \in Requests \ {r}, Live(t), sub[t].clean PROVE FALSE
    <3>1. req[r].sound /\ req[r].alone
      <4>1. req[r].sound \in BOOLEAN /\ req[r].alone \in BOOLEAN
        BY <1>1 DEF ReqType
      <4>2. sub'[r].clean = (req[r].sound /\ req[r].alone)
        BY <1>1, <1>3 DEF Creates
      <4> QED BY <2>2, <4>1, <4>2
    <3>2. req[r].at = "sweep" /\ req[r].listed = {}
      BY <1>3 DEF Creates, CreateSubscription
    <3>3. sub[t].status # "active"
      BY <3>1, <3>2 DEF BillingInv, LoneFits, AtCheckout
    <3>4. sub[t].sound
      BY <2>2 DEF BillingInv
    <3>5. sub[t].status # "incomplete"
      BY <3>1, <3>2, <3>4 DEF BillingInv, LoneFits
    <3> QED BY <2>2, <3>3, <3>5 DEF Live
  <2> QED BY <2>1, <2>2 DEF OneClean, BillingInv, Live
<1> QED BY <1>2, <1>3, SubSteps

LEMMA BillingHolds ==
  ASSUME OrgAssumption, TypeOK, TypeOK', CustomerInv, BillingInv, NEW r \in Requests, RequestStep(r)
  PROVE  BillingInv'
BY OthersLone, SelfLone, LiveAreDone, OneCleanHolds DEF BillingInv

-----------------------------------------------------------------------------
(* All together.                                                           *)
LEMMA OrgInitHolds == ASSUME OrgAssumption, Init PROVE OrgInv
<1>1. TypeOK
  BY OrgInitTypes
<1>2. \A r \in Requests : /\ req[r].at = "new"
                          /\ sub[r].status = "none" /\ sub[r].clean /\ sub[r].sound
                          /\ row[r].status = "none" /\ invite[r].status = "none"
  BY DEF Init, Fresh, NoSub, NoRow, NoInvite
<1>3. TeamInv
  BY <1>2 DEF TeamInv, RefsFit, RefFits, InvitesFit, Pending, RanksBelow, RankBelow, OwnerRemains,
              Init
<1>4. BestPlan /\ CapsWithin
  BY <1>2 DEF Init, BestPlan, ActiveRows, CapsWithin, CapFits
<1>5. AllowanceHeld
  <2>1. Pending = {}
    BY <1>2 DEF Pending
  <2>2. Cardinality(Pending) = 0
    BY <2>1, FS_EmptySet
  <2>3. Cardinality(Members) <= 3 /\ Cardinality(Members) \in Nat
    BY SeatsCounted DEF Init, Members, Seats
  <2>4. SeatsUsed <= 3
    BY <2>2, <2>3, SeatsCounted
  <2> QED BY <2>4, SeatsFinite DEF Init, AllowanceHeld, Seats, Lakes, OrgAssumption
<1>6. CustomerInv
  BY <1>2 DEF Init, CustomerInv, CustFits, SubFits
<1>7. BillingInv
  BY <1>2 DEF BillingInv, LoneFits, AtCheckout, Live, OneClean
<1> QED BY <1>1, <1>3, <1>4, <1>5, <1>6, <1>7 DEF OrgInv, PlanInv

LEMMA RequestKeeps ==
  ASSUME OrgAssumption, OrgInv, TypeOK', NEW r \in Requests, RequestStep(r)
  PROVE  OrgInv'
<1>1. TypeOK /\ RefsFit /\ InvitesFit /\ RanksBelow /\ OwnerRemains /\ BestPlan /\ CapsWithin
      /\ AllowanceHeld /\ CustomerInv /\ BillingInv
  BY DEF OrgInv, TeamInv, PlanInv
<1>2. TeamInv'
  BY <1>1, RefsHold, InvitesHold, RanksHold, OwnerStays DEF TeamInv
<1>3. PlanInv'
  BY <1>1, BestGrows, CapsHold, SeatsHold, LakesHold DEF PlanInv, AllowanceHeld
<1>4. CustomerInv' /\ BillingInv'
  BY <1>1, CustomerHolds, BillingHolds
<1> QED BY <1>2, <1>3, <1>4 DEF OrgInv

\* Better Auth's steps and the end of the trial change members and the trial only.
LEMMA OtherKeeps ==
  ASSUME OrgAssumption, OrgInv, TypeOK', OtherStep
  PROVE  OrgInv'
<1>1. TypeOK /\ RefsFit /\ InvitesFit /\ RanksBelow /\ OwnerRemains /\ BestPlan /\ CapsWithin
      /\ AllowanceHeld /\ CustomerInv /\ BillingInv
  BY DEF OrgInv, TeamInv, PlanInv
<1>2. UNCHANGED <<invite, lakes, customer, deleted, sub, row, req, history>>
  BY DEF OtherStep, TrialEnds, PromoteOwner, LeaveOrganization
<1>3. OwnerRemains' /\ Members' \subseteq Members
  <2>1. role \in [Users -> RoleType]
    BY <1>1 DEF TypeOK
  <2>2. ASSUME NEW u \in Users, PromoteOwner(u) PROVE OwnerRemains' /\ Members' \subseteq Members
    BY <2>1, <2>2 DEF PromoteOwner, OwnerRemains, Owners, Members, IsMember
  <2>3. ASSUME NEW u \in Users, LeaveOrganization(u)
        PROVE  OwnerRemains' /\ Members' \subseteq Members
    BY <1>1, <2>1, <2>3 DEF LeaveOrganization, OwnerRemains, Owners, Members, IsMember
  <2>4. CASE TrialEnds
    BY <1>1, <2>4 DEF TrialEnds, OwnerRemains, Owners, Members, IsMember
  <2> QED BY <2>2, <2>3, <2>4 DEF OtherStep
<1>4. TeamInv'
  BY <1>1, <1>2, <1>3 DEF TeamInv, RefsFit, InvitesFit, Pending, RanksBelow
<1>5. PlanInv'
  <2>1. SeatsUsed' <= SeatsUsed /\ SeatsUsed' \in Nat /\ SeatsUsed \in Nat
    BY <1>2, <1>3, SeatsShrink, SeatsFinite DEF Pending
  <2>2. history \in HistoryType /\ Seats[history.best] \in Nat
    BY <1>1, AllowancesTyped DEF TypeOK, BestPlan, Plans
  <2>3. history.seatsRaced \in Nat /\ history.ungated \in Nat
    BY <2>2 DEF HistoryType
  <2>4. AllowanceHeld'
    BY <1>1, <1>2, <2>1, <2>2, <2>3 DEF AllowanceHeld
  <2> QED BY <1>1, <1>2, <2>4 DEF PlanInv, BestPlan, ActiveRows, CapsWithin
<1>6. CustomerInv' /\ BillingInv'
  BY <1>1, <1>2 DEF CustomerInv, BillingInv, LoneFits, Live, OneClean
<1> QED BY <1>4, <1>5, <1>6 DEF OrgInv

LEMMA OrgStepHolds == ASSUME OrgAssumption, OrgInv, [Next]_vars PROVE OrgInv'
<1>1. CASE Next
  <2>1. TypeOK'
    BY <1>1, TypesKept DEF OrgInv, TeamInv
  <2> QED BY <1>1, <2>1, NextSplits, RequestKeeps, OtherKeeps
<1>2. CASE UNCHANGED vars
  <2>1. TypeOK' /\ TeamInv'
    BY <1>2 DEF vars, OrgInv, TypeOK, TeamInv, RefsFit, InvitesFit, Pending, RanksBelow,
                OwnerRemains, Owners
  <2>2. PlanInv'
    BY <1>2 DEF vars, OrgInv, PlanInv, BestPlan, ActiveRows, CapsWithin, AllowanceHeld, SeatsUsed,
                Pending, IsMember
  <2>3. CustomerInv' /\ BillingInv'
    BY <1>2 DEF vars, OrgInv, CustomerInv, BillingInv, LoneFits, Live, OneClean
  <2> QED BY <2>1, <2>2, <2>3 DEF OrgInv
<1> QED BY <1>1, <1>2

LEMMA OrgInductive == ASSUME OrgAssumption PROVE Spec => []OrgInv
<1>1. Init => OrgInv
  BY OrgInitHolds
<1>2. OrgInv /\ [Next]_vars => OrgInv'
  BY OrgStepHolds
<1> QED BY <1>1, <1>2, PTL DEF Spec

(* Every record of OrgPlan keeps its type.                                 *)
THEOREM OrgTypes == ASSUME OrgAssumption PROVE Spec => []TypeOK
<1>1. OrgInv => TypeOK
  BY DEF OrgInv
<1> QED BY <1>1, OrgInductive, PTL

(* The seats and lakes of an organization stay within the best plan it has *)
(* had, up to the counts that were overtaken and the insertions past no    *)
(* gate, whatever invitations, removals, plan changes and lake creations   *)
(* overlap.                                                                *)
THEOREM AllowanceKept == ASSUME OrgAssumption PROVE Spec => []AllowanceHeld
<1>1. OrgInv => AllowanceHeld
  BY DEF OrgInv, PlanInv
<1> QED BY <1>1, OrgInductive, PTL

(* An organization loses its last owner only through a write that names    *)
(* someone promoted since the handler read the rank.                       *)
THEOREM OwnerKept == ASSUME OrgAssumption PROVE Spec => []OwnerRemains
<1>1. OrgInv => OwnerRemains
  BY DEF OrgInv, TeamInv
<1> QED BY <1>1, OrgInductive, PTL

(* What a checkout without failed calls sells is paid on the customer the  *)
(* webhook resolves, which is never a deleted one, however many checkouts  *)
(* mint customers at once.                                                 *)
THEOREM PaidCustomerResolves == ASSUME OrgAssumption PROVE Spec => []PaidOnOrgCustomer
<1>1. ASSUME OrgAssumption, OrgInv PROVE PaidOnOrgCustomer
  <2>1. customer \notin deleted
    BY <1>1 DEF OrgInv, CustomerInv
  <2>2. \A s \in Requests : SubFits(sub[s], customer)
    BY <1>1 DEF OrgInv, CustomerInv
  <2> QED BY <2>1, <2>2 DEF PaidOnOrgCustomer, SubFits
<1>2. OrgInv => PaidOnOrgCustomer
  BY <1>1
<1> QED BY <1>2, OrgInductive, PTL

(* No two subscriptions of clean checkouts are live at once, however often *)
(* and by whomever a checkout is abandoned and tried again.                *)
THEOREM NeverBilledTwice == ASSUME OrgAssumption PROVE Spec => []BilledOnce
<1>1. OrgInv => BilledOnce
  BY DEF OrgInv, BillingInv, OneClean, BilledOnce, Live
<1> QED BY <1>1, OrgInductive, PTL

-----------------------------------------------------------------------------
(* The device links.                                                       *)
ClaimPcs == {"idle", "key", "agent", "flip", "ok", "failed"}
LinkType == [status: {"none", "pending", "claimed", "expired"},
             key: Claims \cup {NoClaim}, agent: Claims \cup {NoClaim}, over: BOOLEAN]
ClaimType == [pc: ClaimPcs, link: SUBSET Links]
PollType == [pc: {"idle", "read", "deliver"}, link: SUBSET Links]
HandedType == [Claims \X Claims -> Nat]

LEMMA LinkTypes ==
    LinkTypeOK <=> /\ link \in [Links -> LinkType] /\ claim \in [Claims -> ClaimType]
               /\ poll \in [Polls -> PollType] /\ handed \in [Links -> HandedType]
               /\ starts \in 0..MaxPerWindow
               /\ keys \subseteq Claims /\ agents \subseteq Claims /\ holds \subseteq Links
BY Zenon DEF LinkTypeOK, LinkType, ClaimType, ClaimPcs, PollType, HandedType

LEMMA LinkTypesNext ==
    LinkTypeOK' <=> /\ link' \in [Links -> LinkType] /\ claim' \in [Claims -> ClaimType]
                /\ poll' \in [Polls -> PollType] /\ handed' \in [Links -> HandedType]
                /\ starts' \in 0..MaxPerWindow
                /\ keys' \subseteq Claims /\ agents' \subseteq Claims /\ holds' \subseteq Links
BY Zenon DEF LinkTypeOK, LinkType, ClaimType, ClaimPcs, PollType, HandedType

\* A request that is on its way selected one link, and has its agent once it inserted it.
ClaimsSelectOne ==
    \A c \in Claims :
        /\ claim[c].pc \in {"key", "agent", "flip", "ok"} => \E l \in Links : claim[c].link = {l}
        /\ claim[c].pc \in {"flip", "ok"} => c \in agents

KeyPlaced ==
    \A l \in Links, c \in Claims : link[l].key = c =>
        /\ claim[c].pc = "ok" /\ claim[c].link = {l} /\ link[l].agent = c
        /\ \A m \in Links, a \in Claims : handed[m][<<c, a>>] = 0

HandedPlaced ==
    \A l \in Links, c, a \in Claims : handed[l][<<c, a>>] > 0 =>
        claim[c].pc = "ok" /\ claim[c].link = {l} /\ a = c

AtMostOnce == \A l \in Links, c, a \in Claims : handed[l][<<c, a>>] <= 1

LinkInv == LinkTypeOK /\ ClaimsSelectOne /\ KeyPlaced /\ HandedPlaced /\ AtMostOnce

LEMMA LinkImplies == LinkInv => KeyHandedOnce /\ HandedPairMatches
<1> SUFFICES ASSUME LinkInv PROVE KeyHandedOnce /\ HandedPairMatches
  OBVIOUS
<1>1. \A l \in Links, c \in Claims : \A a \in HandedAgents(l, c) :
         a = c /\ claim[c].pc = "ok" /\ claim[c].link = {l} /\ c \in agents
  BY DEF LinkInv, HandedPlaced, HandedAgents, ClaimsSelectOne
<1>2. HandedPairMatches
  BY <1>1 DEF HandedPairMatches
<1>3. \A c \in Claims, l, m \in Links :
         (HandedAgents(l, c) # {} /\ HandedAgents(m, c) # {}) => l = m
  <2> SUFFICES ASSUME NEW c \in Claims, NEW l \in Links, NEW m \in Links,
                      HandedAgents(l, c) # {}, HandedAgents(m, c) # {}
               PROVE  l = m
    OBVIOUS
  <2>1. claim[c].link = {l} /\ claim[c].link = {m}
    BY <1>1
  <2> QED BY <2>1
<1> QED BY <1>2, <1>3 DEF KeyHandedOnce, LinkInv, AtMostOnce

LEMMA LinkInitHolds == LinkInit => LinkInv
<1> SUFFICES ASSUME LinkInit PROVE LinkInv
  OBVIOUS
<1>1. link \in [Links -> LinkType]
  <2>1. Absent \in LinkType
    BY Zenon DEF Absent, LinkType
  <2> QED BY <2>1 DEF LinkInit
<1>2. claim \in [Claims -> ClaimType] /\ poll \in [Polls -> PollType]
  BY DEF LinkInit, ClaimType, ClaimPcs, PollType
<1>3. handed \in [Links -> HandedType]
  BY DEF LinkInit, HandedType
<1>4. starts \in 0..MaxPerWindow /\ keys \subseteq Claims /\ agents \subseteq Claims /\ holds \subseteq Links
  BY DeviceLinkAssumption DEF LinkInit
<1>5. LinkTypeOK
  BY <1>1, <1>2, <1>3, <1>4, LinkTypes
<1>6. \A l \in Links : link[l].key = NoClaim /\ \A c, a \in Claims : handed[l][<<c, a>>] = 0
  BY DEF LinkInit, Absent
<1>7. \A c \in Claims : claim[c].pc = "idle"
  BY DEF LinkInit
<1> QED BY <1>5, <1>6, <1>7, DeviceLinkAssumption
        DEF LinkInv, ClaimsSelectOne, KeyPlaced, HandedPlaced, AtMostOnce

-----------------------------------------------------------------------------
(* A step that leaves claims, agents and deliveries alone and changes no   *)
(* row's key or agent column keeps the rest of the invariant.              *)
LEMMA QuietKeeps ==
    ASSUME LinkInv, LinkTypeOK', UNCHANGED <<claim, agents, handed>>,
           \A l \in Links : link'[l].key = link[l].key /\ link'[l].agent = link[l].agent
    PROVE  LinkInv'
<1>1. ClaimsSelectOne'
  BY DEF LinkInv, ClaimsSelectOne
<1>2. KeyPlaced'
  BY DEF LinkInv, KeyPlaced
<1>3. HandedPlaced' /\ AtMostOnce'
  BY DEF LinkInv, HandedPlaced, AtMostOnce
<1> QED BY <1>1, <1>2, <1>3 DEF LinkInv

(* A claim request that has not answered yet is not named by any key or    *)
(* delivery, so it may move freely.                                        *)
LEMMA ClaimMoves ==
    ASSUME LinkInv, LinkTypeOK', NEW c \in Claims, UNCHANGED <<link, handed>>, agents \subseteq agents',
           claim[c].pc # "ok", \A d \in Claims \ {c} : claim'[d] = claim[d],
           claim'[c].pc # "ok",
           claim'[c].pc \in {"key", "agent", "flip"} => \E l \in Links : claim'[c].link = {l},
           claim'[c].pc = "flip" => c \in agents'
    PROVE  LinkInv'
<1>1. ClaimsSelectOne'
  BY DEF LinkInv, ClaimsSelectOne
<1>2. KeyPlaced'
  BY DEF LinkInv, KeyPlaced
<1>3. HandedPlaced' /\ AtMostOnce'
  BY DEF LinkInv, HandedPlaced, AtMostOnce
<1> QED BY <1>1, <1>2, <1>3 DEF LinkInv

LEMMA RowStep ==
    ASSUME LinkInv,
           \/ WindowEnds
           \/ \E l \in Links : StartLink(l) \/ TtlEnds(l)
           \/ \E p \in Polls, l \in Links : PollExpire(p, l)
           \/ \E p \in Polls : PollRead(p)
           \/ UNCHANGED linkVars
    PROVE  LinkInv'
<1>0. /\ link \in [Links -> LinkType] /\ claim \in [Claims -> ClaimType]
      /\ poll \in [Polls -> PollType] /\ handed \in [Links -> HandedType]
      /\ starts \in 0..MaxPerWindow
      /\ keys \subseteq Claims /\ agents \subseteq Claims /\ holds \subseteq Links
  BY LinkTypes DEF LinkInv
<1>1. UNCHANGED <<claim, keys, agents, handed>>
  BY DEF WindowEnds, StartLink, TtlEnds, PollExpire, PollRead, linkVars
<1>2. starts' \in 0..MaxPerWindow /\ holds' \subseteq Links
  BY <1>0, DeviceLinkAssumption
     DEF WindowEnds, StartLink, TtlEnds, PollExpire, PollRead, linkVars
<1>3. poll' \in [Polls -> PollType]
  <2>1. CASE \E p \in Polls, l \in Links : PollExpire(p, l)
    BY <2>1, <1>0 DEF PollExpire, PollType
  <2>2. CASE \E p \in Polls : PollRead(p)
    <3>1. PICK p \in Polls : PollTo(p, "deliver") \/ PollTo(p, "idle")
      BY <2>2 DEF PollRead
    <3> QED BY <3>1, <1>0 DEF PollTo, PollType
  <2>3. CASE UNCHANGED poll
    BY <2>3, <1>0
  <2> QED BY <2>1, <2>2, <2>3 DEF WindowEnds, StartLink, TtlEnds, linkVars
<1>4. /\ link' \in [Links -> LinkType]
      /\ \A l \in Links : link'[l].key = link[l].key /\ link'[l].agent = link[l].agent
  <2>1. CASE UNCHANGED link
    BY <2>1, <1>0
  <2>2. ASSUME NEW l \in Links, NEW s \in {"pending", "expired"}, link' = [link EXCEPT ![l].status = s]
        PROVE  /\ link' \in [Links -> LinkType]
               /\ \A m \in Links : link'[m].key = link[m].key /\ link'[m].agent = link[m].agent
    BY <2>2, <1>0 DEF LinkType
  <2>3. ASSUME NEW l \in Links, link' = [link EXCEPT ![l].over = TRUE]
        PROVE  /\ link' \in [Links -> LinkType]
               /\ \A m \in Links : link'[m].key = link[m].key /\ link'[m].agent = link[m].agent
    <3>1. [link[l] EXCEPT !.over = TRUE] \in LinkType
      BY <1>0, Zenon DEF LinkType
    <3>2. link' \in [Links -> LinkType]
      BY <1>0, <2>3, <3>1
    <3> QED BY <2>3, <3>2, <1>0 DEF LinkType
  <2> QED BY <2>1, <2>2, <2>3 DEF WindowEnds, StartLink, TtlEnds, PollExpire, PollRead, linkVars
<1>5. LinkTypeOK'
  BY <1>0, <1>1, <1>2, <1>3, <1>4, LinkTypesNext
<1> QED BY <1>1, <1>4, <1>5, QuietKeeps

LEMMA ClaimStep ==
    ASSUME LinkInv, NEW c \in Claims,
           \/ \E l \in Links : ClaimSelect(c, l)
           \/ ClaimCreateKey(c) \/ ClaimInsertAgent(c) \/ ClaimFails(c)
    PROVE  LinkInv'
<1>0. /\ link \in [Links -> LinkType] /\ claim \in [Claims -> ClaimType]
      /\ poll \in [Polls -> PollType] /\ handed \in [Links -> HandedType]
      /\ starts \in 0..MaxPerWindow
      /\ keys \subseteq Claims /\ agents \subseteq Claims /\ holds \subseteq Links
  BY LinkTypes DEF LinkInv
<1>1. /\ UNCHANGED <<link, starts, poll, handed, holds>>
      /\ keys' \subseteq Claims /\ agents' \subseteq Claims /\ agents \subseteq agents'
  BY <1>0 DEF ClaimSelect, ClaimCreateKey, ClaimInsertAgent, ClaimFails
<1>2. /\ claim' \in [Claims -> ClaimType]
      /\ \A d \in Claims \ {c} : claim'[d] = claim[d]
      /\ claim[c].pc # "ok" /\ claim'[c].pc # "ok"
      /\ claim'[c].pc = "flip" => c \in agents'
  BY <1>0 DEF ClaimSelect, ClaimCreateKey, ClaimInsertAgent, ClaimFails, ClaimType, ClaimPcs
<1>3. claim'[c].pc \in {"key", "agent", "flip"} => \E l \in Links : claim'[c].link = {l}
  <2>1. CASE \E l \in Links : ClaimSelect(c, l)
    BY <2>1, <1>0 DEF ClaimSelect
  <2>2. CASE ClaimCreateKey(c) \/ ClaimInsertAgent(c)
    <3>1. claim[c].pc \in {"key", "agent"} /\ claim'[c].link = claim[c].link
      BY <2>2, <1>0 DEF ClaimCreateKey, ClaimInsertAgent, ClaimType
    <3> QED BY <3>1 DEF LinkInv, ClaimsSelectOne
  <2>3. CASE ClaimFails(c)
    BY <2>3, <1>0 DEF ClaimFails
  <2> QED BY <2>1, <2>2, <2>3
<1>4. LinkTypeOK'
  BY <1>0, <1>1, <1>2, LinkTypesNext
<1> QED BY <1>1, <1>2, <1>3, <1>4, ClaimMoves

LEMMA FlipStep ==
    ASSUME LinkInv, NEW c \in Claims, ClaimFlip(c)
    PROVE  LinkInv'
<1>0. /\ link \in [Links -> LinkType] /\ claim \in [Claims -> ClaimType]
      /\ poll \in [Polls -> PollType] /\ handed \in [Links -> HandedType]
      /\ starts \in 0..MaxPerWindow
      /\ keys \subseteq Claims /\ agents \subseteq Claims /\ holds \subseteq Links
  BY LinkTypes DEF LinkInv
<1>1. PICK l \in Links : claim[c].link = {l}
  BY DEF ClaimFlip, LinkInv, ClaimsSelectOne
<1>2. /\ claim[c].pc = "flip" /\ c \in agents
      /\ UNCHANGED <<starts, keys, agents, poll, handed, holds>>
      /\ claim' = [claim EXCEPT ![c].pc = "ok"]
  BY DEF ClaimFlip, LinkInv, ClaimsSelectOne
<1>3. \A m \in Links :
        /\ m = l => link'[m] = [link[m] EXCEPT !.status = "claimed", !.key = c, !.agent = c]
        /\ m # l => link'[m] = link[m]
  BY <1>1 DEF ClaimFlip
<1>4. [link[l] EXCEPT !.status = "claimed", !.key = c, !.agent = c] \in LinkType
  BY <1>0 DEF LinkType
<1>5. link' \in [Links -> LinkType]
  BY <1>0, <1>3, <1>4 DEF ClaimFlip
<1>6. link'[l].key = c /\ link'[l].agent = c
  BY <1>0, <1>3 DEF LinkType
<1>7. /\ claim' \in [Claims -> ClaimType]
      /\ claim'[c].pc = "ok" /\ claim'[c].link = {l}
      /\ \A d \in Claims \ {c} : claim'[d] = claim[d]
  BY <1>0, <1>1, <1>2 DEF ClaimType, ClaimPcs
<1>8. LinkTypeOK'
  BY <1>0, <1>2, <1>5, <1>7, LinkTypesNext
<1>9. ClaimsSelectOne'
  BY <1>2, <1>7 DEF LinkInv, ClaimsSelectOne
<1>10. \A m \in Links, a \in Claims : handed[m][<<c, a>>] = 0
  <2>1. \A m \in Links, a \in Claims : handed[m][<<c, a>>] \in Nat
    BY <1>0 DEF HandedType
  <2>2. \A m \in Links, a \in Claims : ~(handed[m][<<c, a>>] > 0)
    BY <1>2 DEF LinkInv, HandedPlaced
  <2> QED BY <2>1, <2>2
<1>11. KeyPlaced'
  <2> SUFFICES ASSUME NEW m \in Links, NEW d \in Claims, link'[m].key = d
               PROVE  /\ claim'[d].pc = "ok" /\ claim'[d].link = {m} /\ link'[m].agent = d
                      /\ \A n \in Links, a \in Claims : handed'[n][<<d, a>>] = 0
    BY DEF KeyPlaced
  <2>1. CASE m = l
    BY <2>1, <1>2, <1>6, <1>7, <1>10
  <2>2. CASE m # l
    <3>0. link'[m] = link[m] /\ link[m].key = d
      BY <2>2, <1>3
    <3>1. /\ claim[d].pc = "ok" /\ claim[d].link = {m} /\ link[m].agent = d
          /\ \A n \in Links, a \in Claims : handed[n][<<d, a>>] = 0
      BY <3>0 DEF LinkInv, KeyPlaced
    <3>2. d # c
      BY <3>1, <1>2
    <3> QED BY <3>1, <3>2, <2>2, <1>2, <1>3, <1>7
  <2> QED BY <2>1, <2>2
<1>12. HandedPlaced' /\ AtMostOnce'
  BY <1>2, <1>7 DEF LinkInv, HandedPlaced, AtMostOnce
<1> QED BY <1>8, <1>9, <1>11, <1>12 DEF LinkInv

LEMMA DeliverStep ==
    ASSUME LinkInv, NEW p \in Polls, PollDeliver(p)
    PROVE  LinkInv'
<1>0. /\ link \in [Links -> LinkType] /\ claim \in [Claims -> ClaimType]
      /\ poll \in [Polls -> PollType] /\ handed \in [Links -> HandedType]
      /\ starts \in 0..MaxPerWindow
      /\ keys \subseteq Claims /\ agents \subseteq Claims /\ holds \subseteq Links
  BY LinkTypes DEF LinkInv
<1>1. PICK l \in poll[p].link :
        \/ /\ link[l].key # NoClaim
           /\ Hand(l, link[l].key, link[l].agent)
           /\ link' = [link EXCEPT ![l].key = NoClaim]
           /\ holds' \in {holds, holds \ {l}}
        \/ /\ link[l].key = NoClaim
           /\ UNCHANGED <<link, handed, holds>>
  BY DEF PollDeliver
<1>2. l \in Links
  BY <1>0 DEF PollType
<1>3. UNCHANGED <<starts, keys, agents, claim>> /\ poll' \in [Polls -> PollType]
  BY <1>0 DEF PollDeliver, PollTo, PollType
<1>4. CASE UNCHANGED <<link, handed, holds>>
  <2>1. LinkTypeOK'
    BY <1>0, <1>3, <1>4, LinkTypesNext
  <2> QED BY <2>1, <1>3, <1>4, QuietKeeps
<1>5. CASE /\ link[l].key # NoClaim
           /\ Hand(l, link[l].key, link[l].agent)
           /\ link' = [link EXCEPT ![l].key = NoClaim]
           /\ holds' \in {holds, holds \ {l}}
  <2>1. PICK c \in Claims : link[l].key = c
    BY <1>0, <1>2, <1>5 DEF LinkType
  <2>2. /\ claim[c].pc = "ok" /\ claim[c].link = {l} /\ link[l].agent = c
        /\ \A m \in Links, a \in Claims : handed[m][<<c, a>>] = 0
    BY <1>2, <2>1 DEF LinkInv, KeyPlaced
  <2>3. handed' = [handed EXCEPT ![l] = [handed[l] EXCEPT ![<<c, c>>] = handed[l][<<c, c>>] + 1]]
    BY <1>5, <2>1, <2>2 DEF Hand
  <2>4. handed' \in [Links -> HandedType]
    <3>1. [handed[l] EXCEPT ![<<c, c>>] = handed[l][<<c, c>>] + 1] \in HandedType
      BY <1>0, <1>2 DEF HandedType
    <3> QED BY <1>0, <2>3, <3>1
  <2>5. /\ handed'[l][<<c, c>>] = 1
        /\ \A m \in Links, d, a \in Claims :
              (m # l \/ d # c \/ a # c) => handed'[m][<<d, a>>] = handed[m][<<d, a>>]
    BY <1>0, <1>2, <2>2, <2>3 DEF HandedType
  <2>6. /\ link' \in [Links -> LinkType] /\ link'[l].key = NoClaim
        /\ \A m \in Links \ {l} : link'[m] = link[m]
    <3>1. [link[l] EXCEPT !.key = NoClaim] \in LinkType
      BY <1>0, <1>2 DEF LinkType
    <3>2. link' \in [Links -> LinkType]
      BY <1>0, <1>5, <3>1
    <3> QED BY <1>0, <1>2, <1>5, <3>2 DEF LinkType
  <2>7. LinkTypeOK'
    BY <1>0, <1>3, <1>5, <2>4, <2>6, LinkTypesNext
  <2>8. ClaimsSelectOne'
    BY <1>3 DEF LinkInv, ClaimsSelectOne
  <2>9. KeyPlaced'
    <3> SUFFICES ASSUME NEW m \in Links, NEW d \in Claims, link'[m].key = d
                 PROVE  /\ claim'[d].pc = "ok" /\ claim'[d].link = {m} /\ link'[m].agent = d
                        /\ \A n \in Links, a \in Claims : handed'[n][<<d, a>>] = 0
      BY DEF KeyPlaced
    <3>1. m # l
      BY <2>6, DeviceLinkAssumption
    <3>2. /\ claim[d].pc = "ok" /\ claim[d].link = {m} /\ link[m].agent = d
          /\ \A n \in Links, a \in Claims : handed[n][<<d, a>>] = 0
      BY <3>1, <2>6 DEF LinkInv, KeyPlaced
    <3>3. d # c
      BY <3>1, <3>2, <2>2
    <3> QED BY <1>3, <2>5, <2>6, <3>1, <3>2, <3>3
  <2>10. HandedPlaced'
    <3> SUFFICES ASSUME NEW m \in Links, NEW d \in Claims, NEW a \in Claims, handed'[m][<<d, a>>] > 0
                 PROVE  claim'[d].pc = "ok" /\ claim'[d].link = {m} /\ a = d
      BY DEF HandedPlaced
    <3>1. CASE m = l /\ d = c /\ a = c
      BY <3>1, <2>2, <1>3
    <3>2. CASE m # l \/ d # c \/ a # c
      BY <3>2, <2>5, <1>3 DEF LinkInv, HandedPlaced
    <3> QED BY <3>1, <3>2
  <2>11. AtMostOnce'
    <3> SUFFICES ASSUME NEW m \in Links, NEW d \in Claims, NEW a \in Claims
                 PROVE  handed'[m][<<d, a>>] <= 1
      BY DEF AtMostOnce
    <3>1. handed[m][<<d, a>>] <= 1
      BY DEF LinkInv, AtMostOnce
    <3>2. handed'[m][<<d, a>>] = handed[m][<<d, a>>] \/ handed'[m][<<d, a>>] = 1
      BY <2>5
    <3> QED BY <3>1, <3>2
  <2> QED BY <2>7, <2>8, <2>9, <2>10, <2>11 DEF LinkInv
<1> QED BY <1>1, <1>4, <1>5

LEMMA LinkStepHolds == LinkInv /\ [LinkNext]_linkVars => LinkInv'
BY RowStep, ClaimStep, FlipStep, DeliverStep DEF LinkNext

-----------------------------------------------------------------------------
(* The inductive invariant holds in every reachable state. *)
THEOREM LinkInductive == LinkSpec => []LinkInv
BY LinkInitHolds, LinkStepHolds, PTL DEF LinkSpec

(* LinkTypes, for any sets of links, claims and polls. *)
THEOREM LinkTypesKept == LinkSpec => []LinkTypeOK
<1>1. LinkInv => LinkTypeOK
  BY DEF LinkInv
<1> QED BY LinkInductive, <1>1, PTL

(* The key of one claim leaves its row once and from one link only, for    *)
(* any number of polls racing for it.                                      *)
THEOREM HandedOnce == LinkSpec => []KeyHandedOnce
<1>1. LinkInv => KeyHandedOnce
  BY LinkImplies
<1> QED BY LinkInductive, <1>1, PTL

(* A key is handed over together with the agent it is bound to, for any    *)
(* number of claims racing for the same code.                              *)
THEOREM PairMatches == LinkSpec => []HandedPairMatches
<1>1. LinkInv => HandedPairMatches
  BY LinkImplies
<1> QED BY LinkInductive, <1>1, PTL

-----------------------------------------------------------------------------
(* Where every key is.  KeysLate is what the second half of KeysAccounted  *)
(* needs to be inductive: a claim that has not created its key has none.   *)
KeysLate == \A c \in Claims : claim[c].pc \in {"idle", "key"} => c \notin keys

KeyInv == KeysAccounted /\ KeysLate

\* The two halves of KeysAccounted, for one claim.
Accounted(c) ==
    \A l \in claim[c].link :
        claim[c].pc = "ok" => \/ link[l].key = c
                             \/ HandedAgents(l, c) # {}
                             \/ \E d \in Claims \ {c} : SameLink(c, d)

OrphanKnown(c) == c \in keys \ agents => claim[c].pc \in {"agent", "failed"}

LEMMA Halves == KeysAccounted <=> \A c \in Claims : Accounted(c) /\ OrphanKnown(c)
BY DEF KeysAccounted, Accounted, OrphanKnown

LEMMA HalvesNext ==
    (\A c \in Claims : Accounted(c)' /\ OrphanKnown(c)') => KeysAccounted'
BY DEF KeysAccounted, Accounted, OrphanKnown

LEMMA KeyInitHolds == LinkInit => KeyInv
BY DEF LinkInit, KeyInv, KeysAccounted, KeysLate

(* A claim that has answered stays accounted for while no row loses a key, *)
(* no delivery is undone and no claim that has answered moves.             *)
LEMMA AccountedStays ==
    ASSUME LinkInv, NEW c \in Claims, Accounted(c), claim'[c] = claim[c],
           \A d \in Claims : claim[d].pc = "ok" => claim'[d] = claim[d],
           \A l \in Links : link[l].key = c => link'[l].key = c,
           UNCHANGED handed
    PROVE  Accounted(c)'
<1> SUFFICES ASSUME NEW l \in claim[c].link, claim[c].pc = "ok"
             PROVE  \/ link'[l].key = c
                    \/ HandedAgents(l, c)' # {}
                    \/ \E d \in Claims \ {c} : SameLink(c, d)'
  BY DEF Accounted
<1>1. l \in Links
  BY DEF LinkInv, ClaimsSelectOne
<1>2. CASE link[l].key = c
  BY <1>1, <1>2
<1>3. CASE HandedAgents(l, c) # {}
  BY <1>3 DEF HandedAgents
<1>4. CASE \E d \in Claims \ {c} : SameLink(c, d)
  BY <1>4 DEF SameLink
<1> QED BY <1>2, <1>3, <1>4 DEF Accounted

(* Steps that are no claim's answer and no delivery. *)
LEMMA AccountQuiet ==
    ASSUME LinkInv, LinkInv', KeyInv, UNCHANGED <<claim, keys, agents, handed>>,
           \A l \in Links : link'[l].key = link[l].key
    PROVE  KeyInv'
<1>1. \A c \in Claims : Accounted(c)'
  BY Halves, AccountedStays DEF KeyInv
<1>2. \A c \in Claims : OrphanKnown(c)'
  BY Halves DEF KeyInv, OrphanKnown
<1>3. KeysLate'
  BY DEF KeyInv, KeysLate
<1> QED BY <1>1, <1>2, <1>3, HalvesNext DEF KeyInv

LEMMA AccountClaim ==
    ASSUME LinkInv, LinkInv', KeyInv, NEW c \in Claims,
           \/ \E l \in Links : ClaimSelect(c, l)
           \/ ClaimCreateKey(c) \/ ClaimInsertAgent(c) \/ ClaimFails(c)
    PROVE  KeyInv'
<1>0. claim \in [Claims -> ClaimType]
  BY LinkTypes DEF LinkInv
<1>1. /\ UNCHANGED <<link, handed>> /\ keys \subseteq keys' /\ agents \subseteq agents'
      /\ keys' \subseteq keys \cup {c}
      /\ \A d \in Claims \ {c} : claim'[d] = claim[d]
      /\ claim[c].pc # "ok" /\ claim'[c].pc # "ok"
  BY <1>0 DEF ClaimSelect, ClaimCreateKey, ClaimInsertAgent, ClaimFails, ClaimType, ClaimPcs
<1>2. \A d \in Claims : Accounted(d)'
  <2>1. Accounted(c)'
    BY <1>1 DEF Accounted
  <2>2. ASSUME NEW d \in Claims \ {c} PROVE Accounted(d)'
    BY <1>1, Halves, AccountedStays DEF KeyInv
  <2> QED BY <2>1, <2>2
<1>3. OrphanKnown(c)' /\ (claim'[c].pc \in {"idle", "key"} => c \notin keys')
  <2>1. CASE \E l \in Links : ClaimSelect(c, l)
    BY <2>1, <1>0 DEF ClaimSelect, KeyInv, KeysLate, OrphanKnown
  <2>2. CASE ClaimCreateKey(c)
    BY <2>2, <1>0 DEF ClaimCreateKey, OrphanKnown, ClaimType
  <2>3. CASE ClaimInsertAgent(c)
    BY <2>3, <1>0 DEF ClaimInsertAgent, OrphanKnown, ClaimType
  <2>4. CASE ClaimFails(c)
    BY <2>4, <1>0 DEF ClaimFails, OrphanKnown, ClaimType
  <2> QED BY <2>1, <2>2, <2>3, <2>4
<1>4. \A d \in Claims : OrphanKnown(d)'
  BY <1>1, <1>3, Halves DEF KeyInv, OrphanKnown
<1>5. KeysLate'
  BY <1>1, <1>3 DEF KeyInv, KeysLate
<1> QED BY <1>2, <1>4, <1>5, HalvesNext DEF KeyInv

(* The flip puts its own key in the row; whose key it overwrites answered  *)
(* the same code.                                                          *)
LEMMA AccountFlip ==
    ASSUME LinkInv, LinkInv', KeyInv, NEW c \in Claims, ClaimFlip(c)
    PROVE  KeyInv'
<1>0. claim \in [Claims -> ClaimType] /\ link \in [Links -> LinkType]
  BY LinkTypes DEF LinkInv
<1>1. PICK l \in Links : claim[c].link = {l}
  BY DEF ClaimFlip, LinkInv, ClaimsSelectOne
<1>2. /\ claim[c].pc = "flip" /\ UNCHANGED <<keys, agents, handed>>
      /\ claim'[c].pc = "ok" /\ claim'[c].link = {l}
      /\ \A d \in Claims \ {c} : claim'[d] = claim[d]
  BY <1>0, <1>1 DEF ClaimFlip, ClaimType
<1>3. link'[l].key = c /\ \A m \in Links \ {l} : link'[m] = link[m]
  BY <1>0, <1>1 DEF ClaimFlip, LinkType
<1>4. c \in agents
  BY <1>2 DEF LinkInv, ClaimsSelectOne
<1>5. Accounted(c)'
  BY <1>2, <1>3 DEF Accounted
<1>6. ASSUME NEW d \in Claims \ {c} PROVE Accounted(d)'
  <2> SUFFICES ASSUME NEW m \in claim[d].link, claim[d].pc = "ok"
               PROVE  \/ link'[m].key = d
                      \/ HandedAgents(m, d)' # {}
                      \/ \E e \in Claims \ {d} : SameLink(d, e)'
    BY <1>2 DEF Accounted
  <2>1. m \in Links /\ claim[d].link = {m}
    BY DEF LinkInv, ClaimsSelectOne
  <2>2. CASE m = l
    BY <1>2, <2>1, <2>2 DEF SameLink
  <2>3. CASE m # l
    <3>1. CASE link[m].key = d
      BY <1>3, <2>1, <2>3, <3>1
    <3>2. CASE HandedAgents(m, d) # {}
      BY <1>2, <3>2 DEF HandedAgents
    <3>3. CASE \E e \in Claims \ {d} : SameLink(d, e)
      BY <1>2, <3>3 DEF SameLink
    <3> QED BY <3>1, <3>2, <3>3, Halves DEF KeyInv, Accounted
  <2> QED BY <2>2, <2>3
<1>7. \A d \in Claims : OrphanKnown(d)'
  BY <1>2, <1>4, Halves DEF KeyInv, OrphanKnown
<1>8. KeysLate'
  BY <1>2 DEF KeyInv, KeysLate
<1> QED BY <1>5, <1>6, <1>7, <1>8, HalvesNext DEF KeyInv

(* The delivery takes the key out of the row and hands it over. *)
LEMMA AccountDeliver ==
    ASSUME LinkInv, LinkInv', KeyInv, NEW p \in Polls, PollDeliver(p)
    PROVE  KeyInv'
<1>0. /\ link \in [Links -> LinkType] /\ poll \in [Polls -> PollType]
      /\ handed \in [Links -> HandedType]
  BY LinkTypes DEF LinkInv
<1>1. PICK l \in poll[p].link :
        \/ /\ link[l].key # NoClaim
           /\ Hand(l, link[l].key, link[l].agent)
           /\ link' = [link EXCEPT ![l].key = NoClaim]
        \/ UNCHANGED <<link, handed>>
  BY DEF PollDeliver
<1>2. l \in Links /\ UNCHANGED <<claim, keys, agents>>
  BY <1>0 DEF PollType, PollDeliver
<1>3. CASE UNCHANGED <<link, handed>>
  BY <1>2, <1>3, AccountQuiet
<1>4. CASE /\ link[l].key # NoClaim
           /\ Hand(l, link[l].key, link[l].agent)
           /\ link' = [link EXCEPT ![l].key = NoClaim]
  <2>1. PICK c \in Claims : link[l].key = c
    BY <1>0, <1>2, <1>4 DEF LinkType
  <2>2. link[l].agent = c
    BY <1>2, <2>1 DEF LinkInv, KeyPlaced
  <2>3. handed' = [handed EXCEPT ![l] = [handed[l] EXCEPT ![<<c, c>>] = handed[l][<<c, c>>] + 1]]
    BY <1>4, <2>1, <2>2 DEF Hand
  <2>4. handed'[l][<<c, c>>] > 0
    BY <1>0, <1>2, <2>3 DEF HandedType
  <2>5. \A m \in Links, d, a \in Claims : handed[m][<<d, a>>] > 0 => handed'[m][<<d, a>>] > 0
    BY <1>0, <1>2, <2>3 DEF HandedType
  <2>6. \A m \in Links \ {l} : link'[m] = link[m]
    BY <1>0, <1>4
  <2>7. ASSUME NEW d \in Claims PROVE Accounted(d)'
    <3> SUFFICES ASSUME NEW m \in claim[d].link, claim[d].pc = "ok"
                 PROVE  \/ link'[m].key = d
                        \/ HandedAgents(m, d)' # {}
                        \/ \E e \in Claims \ {d} : SameLink(d, e)'
      BY <1>2 DEF Accounted
    <3>1. m \in Links
      BY DEF LinkInv, ClaimsSelectOne
    <3>2. CASE link[m].key = d /\ m # l
      BY <2>6, <3>1, <3>2
    <3>3. CASE link[m].key = d /\ m = l
      BY <2>1, <2>4, <3>3 DEF HandedAgents
    <3>4. CASE HandedAgents(m, d) # {}
      BY <2>5, <3>1, <3>4 DEF HandedAgents
    <3>5. CASE \E e \in Claims \ {d} : SameLink(d, e)
      BY <1>2, <3>5 DEF SameLink
    <3> QED BY <3>2, <3>3, <3>4, <3>5, Halves DEF KeyInv, Accounted
  <2>8. \A d \in Claims : OrphanKnown(d)'
    BY <1>2, Halves DEF KeyInv, OrphanKnown
  <2>9. KeysLate'
    BY <1>2 DEF KeyInv, KeysLate
  <2> QED BY <2>7, <2>8, <2>9, HalvesNext DEF KeyInv
<1> QED BY <1>1, <1>3, <1>4

LEMMA AccountStep == ASSUME LinkInv, KeyInv, [LinkNext]_linkVars PROVE KeyInv'
<1>1. LinkInv'
  BY LinkStepHolds
<1>2. link \in [Links -> LinkType]
  BY LinkTypes DEF LinkInv
<1>3. CASE \/ WindowEnds
           \/ \E l \in Links : StartLink(l) \/ TtlEnds(l)
           \/ \E p \in Polls, l \in Links : PollExpire(p, l)
           \/ \E p \in Polls : PollRead(p)
           \/ UNCHANGED linkVars
  <2>1. UNCHANGED <<claim, keys, agents, handed>>
    BY <1>3 DEF WindowEnds, StartLink, TtlEnds, PollExpire, PollRead, linkVars
  <2>2. \A l \in Links : link'[l].key = link[l].key
    BY <1>2, <1>3 DEF WindowEnds, StartLink, TtlEnds, PollExpire, PollRead, linkVars, LinkType
  <2> QED BY <1>1, <2>1, <2>2, AccountQuiet
<1> QED BY <1>1, <1>3, AccountClaim, AccountFlip, AccountDeliver DEF LinkNext

(* Every key that was minted is accounted for, for any number of links,    *)
(* claims of the same code and polls: waiting, handed over, overwritten by *)
(* a claim that answered too, or of a claim that answered an error.        *)
THEOREM NoKeyUnseen == LinkSpec => []KeysAccounted
<1>1. LinkInv /\ KeyInv /\ [LinkNext]_linkVars => LinkInv' /\ KeyInv'
  BY LinkStepHolds, AccountStep
<1>2. LinkInit => LinkInv /\ KeyInv
  BY LinkInitHolds, KeyInitHolds
<1>3. KeyInv => KeysAccounted
  BY DEF KeyInv
<1> QED BY <1>1, <1>2, <1>3, PTL DEF LinkSpec
=============================================================================
