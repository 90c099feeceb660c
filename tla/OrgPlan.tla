------------------------------ MODULE OrgPlan ------------------------------
(***************************************************************************)
(* One organization: its members and invitations, the plan its subscription *)
(* grants, the seats and lakes that plan allows, and the Stripe checkout    *)
(* that pays for it (routes/team.ts, routes/settings.ts, routes/billing.ts,  *)
(* the quota gate of routes/datalakes.ts, lib/entitlements.ts, lib/plans.ts). *)
(*                                                                         *)
(* Every handler is a run of single statements with awaits between them:    *)
(* what one read decides is written several steps later, and any other      *)
(* request may run in between.  A request that creates something lends it    *)
(* its identity: the invitation, the Stripe customer and the subscription   *)
(* that request r creates are called r.  An input of a request (an address, *)
(* a target, a role, a plan) is chosen at the step that first uses it.       *)
(*                                                                         *)
(* Stripe and Better Auth are external: Stripe confirms payments, ends       *)
(* periods and calls the webhook that mirrors a subscription into the local *)
(* row; Better Auth accepts invitations, hands ownership over and lets       *)
(* members leave.                                                           *)
(***************************************************************************)
EXTENDS Naturals, FiniteSets

CONSTANTS
  Users,       \* people, each known by one address
  Founder,     \* who created the organization (creatorRole "owner")
  Requests,    \* the requests of a behaviour, each served once
  StartLakes,  \* lakes the organization has at first
  None,        \* no customer, no reference
  MaxFaults    \* bound on database and Stripe calls that fail

ASSUME OrgAssumption ==
  /\ Founder \in Users
  /\ IsFiniteSet(Users) /\ IsFiniteSet(Requests)
  /\ None \notin Users \cup Requests
  /\ StartLakes \in 0..2
  /\ MaxFaults \in Nat

VARIABLES
  role,        \* member.role of each user, or "none" / "left"
  invite,      \* the invitation rows
  lakes,       \* how many lakes count against the plan
  trial,       \* organization.trialEndsAt lies in the future
  customer,    \* organization.stripeCustomerId
  deleted,     \* Stripe: customers deleted again
  sub,         \* Stripe: the subscriptions
  row,         \* the local "subscription" rows entitlements read
  req,         \* the requests in flight
  faults,      \* failed calls so far
  history      \* what happened, for the properties only

vars == <<role, invite, lakes, trial, customer, deleted, sub, row, req, faults, history>>

-----------------------------------------------------------------------------
(* The plan catalog, as far as seats and lakes go.  The third paid plan,       *)
(* "scale", has no limits, so nothing is refused under it: it is left out.   *)
Seats == [free |-> 1, pro |-> 3, max |-> 10]
Lakes == [free |-> 1, pro |-> 2, max |-> 10]
SelfServePlans == {"pro", "max"}

(* The one with the larger allowance of two plans. *)
Larger(p, q) == IF Seats[p] >= Seats[q] THEN p ELSE q

RoleRank == [none |-> 0, left |-> 0, member |-> 1, admin |-> 2, owner |-> 3]
IsAdmin(u) == role[u] \in {"owner", "admin"}
IsMember(u) == role[u] \in {"member", "admin", "owner"}
Owners == {u \in Users : role[u] = "owner"}

Pending == {i \in Requests : invite[i].status = "pending"}
SeatsUsed == Cardinality({u \in Users : IsMember(u)}) + Cardinality(Pending)

(* The plans getActivePlanName may answer: that of an active row (when several *)
(* are active, the one with the latest period end, which any may have), else  *)
(* the trial's, else the floor.                                             *)
ActiveRows == {s \in Requests : row[s].status = "active"}
PlansNow ==
  IF ActiveRows # {} THEN {row[s].plan : s \in ActiveRows}
  ELSE {IF trial THEN "pro" ELSE "free"}

(* A request's record, and the record of one that has been answered. *)
Fresh == [at |-> "new", rank |-> 0, ref |-> None, cap |-> 0, seen |-> 0,
          cust |-> None, listed |-> {}, sound |-> TRUE, alone |-> TRUE]
Answered == [Fresh EXCEPT !.at = "done"]

NoInvite == [email |-> None, role |-> "member", status |-> "none"]
NoSub == [status |-> "none", plan |-> "free", customer |-> None, ending |-> FALSE,
          sound |-> TRUE, clean |-> TRUE]
NoRow == [status |-> "none", plan |-> "free"]

Plans == {"free", "pro", "max"}
Stages == {"new", "done", "invite", "resend", "seatPlan", "seatCount", "insertInvite",
           "setRole", "setRoleWrite", "remove", "removeWrite", "revoke", "revokeWrite",
           "lakeCount", "insertLake", "checkout", "customer", "mint", "winner", "discard",
           "list", "sweep", "change", "changeWrite", "cancel", "cancelWrite"}

RoleType == {"none", "left", "member", "admin", "owner"}
InviteType == [email : Users \cup {None}, role : {"member", "admin"},
               status : {"none", "pending", "accepted", "canceled"}]
SubType == [status : {"none", "incomplete", "active", "canceled"}, plan : Plans,
            customer : Requests \cup {None}, ending : BOOLEAN, sound : BOOLEAN, clean : BOOLEAN]
RowType == [status : {"none", "active", "canceled"}, plan : Plans]
ReqType == [at : Stages, rank : 0..3, ref : Users \cup Requests \cup {None}, cap : Nat,
            seen : Nat, cust : Requests \cup {None}, listed : SUBSET Requests,
            sound : BOOLEAN, alone : BOOLEAN]
HistoryType == [best : Plans, seatsRaced : Nat, ungated : Nat, lakesRaced : Nat,
                onboarded : Nat, usurped : BOOLEAN]

TypeOK ==
  /\ role \in [Users -> RoleType]
  /\ invite \in [Requests -> InviteType]
  /\ lakes \in Nat
  /\ trial \in BOOLEAN
  /\ customer \in Requests \cup {None}
  /\ deleted \subseteq Requests
  /\ sub \in [Requests -> SubType]
  /\ row \in [Requests -> RowType]
  /\ req \in [Requests -> ReqType]
  /\ faults \in 0..MaxFaults
  /\ history \in HistoryType

(* An organization at any moment of its trial: the founder owns it and the   *)
(* rest of the team holds no more seats than the trial's plan allows.        *)
Init ==
  /\ role \in [Users -> {"none", "member", "admin", "owner"}]
  /\ Owners = {Founder}
  /\ Cardinality({u \in Users : IsMember(u)}) <= Seats["pro"]
  /\ invite = [r \in Requests |-> NoInvite]
  /\ lakes = StartLakes
  /\ trial = TRUE
  /\ customer = None
  /\ deleted = {}
  /\ sub = [r \in Requests |-> NoSub]
  /\ row = [r \in Requests |-> NoRow]
  /\ req = [r \in Requests |-> Fresh]
  /\ faults = 0
  /\ history = [best |-> "pro", seatsRaced |-> 0, ungated |-> 0,
                lakesRaced |-> 0, onboarded |-> 0, usurped |-> FALSE]

-----------------------------------------------------------------------------
At(r, a) == req[r].at = a
Goto(r, a) == req' = [req EXCEPT ![r].at = a]
Answer(r) == req' = [req EXCEPT ![r] = Answered]
CallFails == faults < MaxFaults /\ faults' = faults + 1

(* Every request but r that is in flight has company from now on. *)
Overlapped(r) == [q \in Requests |-> IF q = r THEN req[q] ELSE [req[q] EXCEPT !.alone = FALSE]]

team == <<role, invite>>
stripe == <<customer, deleted, sub, row>>

(* The first read of a managed operation: the caller's own role. *)
Begin(r) ==
  /\ At(r, "new")
  /\ \E u \in Users, op \in {"invite", "setRole", "remove", "revoke",
                             "checkout", "change", "cancel"} :
       /\ IsAdmin(u)
       /\ req' = [req EXCEPT ![r].at = op,
                             ![r].rank = IF op \in {"setRole", "remove"}
                                         THEN RoleRank[role[u]] ELSE 0]
  /\ UNCHANGED <<team, lakes, trial, stripe, faults, history>>

(* A call that throws ends the request where it is; what it wrote stays.     *)
RequestThrows(r) ==
  /\ ~At(r, "new") /\ ~At(r, "done")
  /\ CallFails
  /\ Answer(r)
  /\ UNCHANGED <<team, lakes, trial, stripe, history>>

-----------------------------------------------------------------------------
(* POST /team: invite.  A member is refused, a pending invitation is sent     *)
(* again, and only a new one passes the seat gate.                           *)
InviteLook(r) ==
  /\ At(r, "invite")
  /\ \E e \in Users :
       LET known == {i \in Pending : invite[i].email = e} IN
       \/ IsMember(e) /\ Answer(r)
       \/ /\ ~IsMember(e)
          /\ known # {}
          /\ \E i \in known : req' = [req EXCEPT ![r].at = "resend", ![r].ref = i]
       \/ /\ ~IsMember(e)
          /\ known = {}
          /\ req' = [req EXCEPT ![r].at = "seatPlan", ![r].ref = e]
  /\ UNCHANGED <<team, lakes, trial, stripe, faults, history>>

(* getEntitlements; a failed lookup answers the free floor. *)
ReadAllowance(r, from, to, limit) ==
  /\ At(r, from)
  /\ \/ \E p \in PlansNow :
          /\ req' = [req EXCEPT ![r].at = to, ![r].cap = limit[p]]
          /\ UNCHANGED faults
     \/ /\ CallFails
        /\ req' = [req EXCEPT ![r].at = to, ![r].cap = limit["free"]]
  /\ UNCHANGED <<team, lakes, trial, stripe, history>>

SeatPlan(r) == ReadAllowance(r, "seatPlan", "seatCount", Seats)
(* Mutant of SeatCount: pending invitations hold no seat. *)
SeatCountMembersOnly(r) ==
  /\ At(r, "seatCount")
  /\ IF Cardinality({u \in Users : IsMember(u)}) >= req[r].cap
     THEN Answer(r)
     ELSE req' = [req EXCEPT ![r].at = "insertInvite", ![r].cap = 0,
                              ![r].seen = SeatsUsed]
  /\ UNCHANGED <<team, lakes, trial, stripe, faults, history>>

SeatCount(r) ==
  /\ At(r, "seatCount")
  /\ IF SeatsUsed >= req[r].cap
     THEN Answer(r)
     ELSE req' = [req EXCEPT ![r].at = "insertInvite", ![r].cap = 0,
                              ![r].seen = SeatsUsed]
  /\ UNCHANGED <<team, lakes, trial, stripe, faults, history>>

InsertInvite(r) ==
  /\ At(r, "insertInvite")
  /\ \E ro \in {"admin", "member"} :
       invite' = [invite EXCEPT ![r] =
                    [email |-> req[r].ref, role |-> ro, status |-> "pending"]]
  /\ history' = [history EXCEPT !.seatsRaced =
                   @ + IF SeatsUsed > req[r].seen THEN 1 ELSE 0]
  /\ Answer(r)
  /\ UNCHANGED <<role, lakes, trial, stripe, faults>>

(* The resend rewrites the row it found, whatever has become of it since. *)
ResendInvite(r) ==
  /\ At(r, "resend")
  /\ \E ro \in {"admin", "member"} : invite' = [invite EXCEPT ![req[r].ref].role = ro]
  /\ Answer(r)
  /\ UNCHANGED <<role, lakes, trial, stripe, faults, history>>

(* POST /settings/members: the older invitation route, which reads no role,  *)
(* no existing invitation and no allowance before it inserts.                *)
SettingsInvite(r) ==
  /\ At(r, "new")
  /\ \E e \in Users, ro \in {"admin", "member"} :
       invite' = [invite EXCEPT ![r] = [email |-> e, role |-> ro, status |-> "pending"]]
  /\ history' = [history EXCEPT !.ungated = @ + 1]
  /\ Answer(r)
  /\ UNCHANGED <<role, lakes, trial, stripe, faults>>

(* POST /team/invites/:id/revoke: the row is read for its organization only, *)
(* then written whatever its status.                                         *)
RevokeInvite(r) ==
  /\ At(r, "revoke")
  /\ \E i \in Requests :
       /\ invite[i].status # "none"
       /\ req' = [req EXCEPT ![r].at = "revokeWrite", ![r].ref = i]
  /\ UNCHANGED <<team, lakes, trial, stripe, faults, history>>

RevokeWrite(r) ==
  /\ At(r, "revokeWrite")
  /\ invite' = [invite EXCEPT ![req[r].ref].status = "canceled"]
  /\ Answer(r)
  /\ UNCHANGED <<role, lakes, trial, stripe, faults, history>>

-----------------------------------------------------------------------------
(* Mutant of ReadTarget: an equal rank is enough. *)
ReadTargetEqual(r, from, to) ==
  /\ At(r, from)
  /\ \E t \in Users :
       /\ IsMember(t)
       /\ IF req[r].rank < RoleRank[role[t]]
          THEN Answer(r)
          ELSE req' = [req EXCEPT ![r].at = to, ![r].ref = t,
                                ![r].seen = RoleRank[role[t]]]
  /\ UNCHANGED <<team, lakes, trial, stripe, faults, history>>

(* POST /team/members/:id/role and DELETE /team/members/:id: the target's row *)
(* is read and must rank strictly below the caller; the write comes later and *)
(* names the row only.                                                       *)
ReadTarget(r, from, to) ==
  /\ At(r, from)
  /\ \E t \in Users :
       /\ IsMember(t)
       /\ IF req[r].rank <= RoleRank[role[t]]
          THEN Answer(r)
          ELSE req' = [req EXCEPT ![r].at = to, ![r].ref = t,
                                ![r].seen = RoleRank[role[t]]]
  /\ UNCHANGED <<team, lakes, trial, stripe, faults, history>>

SetRoleTarget(r) == ReadTarget(r, "setRole", "setRoleWrite")
RemoveTarget(r) == ReadTarget(r, "remove", "removeWrite")

PromotedSince(r) == RoleRank[role[req[r].ref]] > req[r].seen

(* The member row may be gone, or its owner promoted, when the write lands.  *)
SetRoleWrite(r) ==
  LET t == req[r].ref IN
  /\ At(r, "setRoleWrite")
  /\ \E ro \in {"admin", "member"} :
       role' = IF IsMember(t) THEN [role EXCEPT ![t] = ro] ELSE role
  /\ history' = [history EXCEPT !.usurped = @ \/ PromotedSince(r)]
  /\ Answer(r)
  /\ UNCHANGED <<invite, lakes, trial, stripe, faults>>

RemoveWrite(r) ==
  LET t == req[r].ref IN
  /\ At(r, "removeWrite")
  /\ role' = [role EXCEPT ![t] = "left"]
  /\ history' = [history EXCEPT !.usurped = @ \/ PromotedSince(r)]
  /\ Answer(r)
  /\ UNCHANGED <<invite, lakes, trial, stripe, faults>>

-----------------------------------------------------------------------------
(* POST /datalakes, the quota gate: the allowance, then the count, and the   *)
(* INSERT only after the catalog has been provisioned.  Any member may ask.  *)
LakePlan(r) == ReadAllowance(r, "new", "lakeCount", Lakes)

LakeCount(r) ==
  /\ At(r, "lakeCount")
  /\ IF lakes >= req[r].cap
     THEN Answer(r)
     ELSE req' = [req EXCEPT ![r].at = "insertLake", ![r].cap = 0, ![r].seen = lakes]
  /\ UNCHANGED <<team, lakes, trial, stripe, faults, history>>

InsertLake(r) ==
  /\ At(r, "insertLake")
  /\ lakes' = lakes + 1
  /\ history' = [history EXCEPT !.lakesRaced = @ + IF lakes > req[r].seen THEN 1 ELSE 0]
  /\ Answer(r)
  /\ UNCHANGED <<team, trial, stripe, faults>>

(* POST /onboarding/provision, the first time: the demo lake, past no gate. *)
OnboardLake(r) ==
  /\ At(r, "new")
  /\ lakes' = lakes + 1
  /\ history' = [history EXCEPT !.onboarded = @ + 1]
  /\ Answer(r)
  /\ UNCHANGED <<team, trial, stripe, faults>>

DeleteLake(r) ==
  /\ At(r, "new")
  /\ lakes > 0
  /\ lakes' = lakes - 1
  /\ Answer(r)
  /\ UNCHANGED <<team, trial, stripe, faults, history>>

-----------------------------------------------------------------------------
(* POST /billing/subscription-checkout.  The double-billing guard reads the  *)
(* local rows; a failed read counts as "not subscribed".                     *)
Unsound(r) == [req EXCEPT ![r].sound = FALSE]

(* The request has the organization to itself so far: Stripe holds no paid   *)
(* subscription that the guard could not have seen.                          *)
NothingUnseen == \A s \in Requests : sub[s].status = "active" => s \in ActiveRows

CheckoutGuard(r) ==
  /\ At(r, "checkout")
  /\ \/ /\ IF ActiveRows # {}
           THEN Answer(r)
           ELSE req' = [req EXCEPT ![r].at = "customer", ![r].alone = NothingUnseen]
        /\ UNCHANGED faults
     \/ /\ CallFails
        /\ req' = [Unsound(r) EXCEPT ![r].at = "customer"]
  /\ UNCHANGED <<team, lakes, trial, stripe, history>>

(* ensureOrgStripeCustomer: the customer on record is used ... *)
ReadCustomer(r) ==
  /\ At(r, "customer")
  /\ \/ /\ IF customer # None
           THEN req' = [req EXCEPT ![r].at = "list", ![r].cust = customer]
           ELSE Goto(r, "mint")
        /\ UNCHANGED faults
     \/ /\ CallFails
        /\ req' = [Unsound(r) EXCEPT ![r].at = "mint"]
  /\ UNCHANGED <<team, lakes, trial, stripe, history>>

(* Mutant of ClaimCustomer: the UPDATE does not ask for NULL. *)
ClaimCustomerAlways(r) ==
  /\ At(r, "mint")
  /\ customer' = r
  /\ req' = [req EXCEPT ![r].at = "list", ![r].cust = r]
  /\ UNCHANGED <<team, lakes, trial, deleted, sub, row, faults, history>>

(* ... or one is minted and claimed with UPDATE ... WHERE stripeCustomerId   *)
(* IS NULL.  A failed UPDATE may or may not have been applied.               *)
ClaimCustomer(r) ==
  /\ At(r, "mint")
  /\ \/ /\ customer = None
        /\ customer' = r
        /\ req' = [req EXCEPT ![r].at = "list", ![r].cust = r]
        /\ UNCHANGED faults
     \/ /\ customer # None
        /\ Goto(r, "winner")
        /\ UNCHANGED <<customer, faults>>
     \/ /\ CallFails
        /\ customer' \in {customer, IF customer = None THEN r ELSE customer}
        /\ req' = [Unsound(r) EXCEPT ![r].at = "winner"]
  /\ UNCHANGED <<team, lakes, trial, deleted, sub, row, history>>

(* The loser reads who won; with no answer it keeps its own customer. *)
ReadWinner(r) ==
  /\ At(r, "winner")
  /\ \/ /\ IF customer \notin {None, r}
           THEN req' = [req EXCEPT ![r].at = "discard", ![r].cust = customer]
           ELSE req' = [req EXCEPT ![r].at = "list", ![r].cust = r]
        /\ UNCHANGED faults
     \/ /\ CallFails
        /\ req' = [Unsound(r) EXCEPT ![r].at = "list", ![r].cust = r]
  /\ UNCHANGED <<team, lakes, trial, stripe, history>>

DiscardCustomer(r) ==
  /\ At(r, "discard")
  /\ Goto(r, "list")
  /\ \/ deleted' = deleted \cup {r} /\ UNCHANGED faults
     \/ CallFails /\ UNCHANGED deleted
  /\ UNCHANGED <<team, lakes, trial, customer, sub, row, history>>

(* Mutant of ListIncomplete: nothing is swept. *)
ListNothing(r) ==
  /\ At(r, "list")
  /\ Goto(r, "sweep")
  /\ UNCHANGED <<team, lakes, trial, stripe, faults, history>>

(* The sweep of abandoned checkouts: the customer's incomplete subscriptions *)
(* are listed, and each is canceled, whatever has become of it by then.      *)
ListIncomplete(r) ==
  /\ At(r, "list")
  /\ req' = [req EXCEPT ![r].at = "sweep",
                        ![r].listed = {s \in Requests : /\ sub[s].status = "incomplete"
                                                        /\ sub[s].customer = req[r].cust}]
  /\ UNCHANGED <<team, lakes, trial, stripe, faults, history>>

SweepIncomplete(r) ==
  /\ At(r, "sweep")
  /\ \E s \in req[r].listed :
       \/ /\ sub' = [sub EXCEPT ![s].status = "canceled"]
          /\ req' = [req EXCEPT ![r].listed = @ \ {s}]
          /\ UNCHANGED faults
       \/ /\ CallFails
          /\ req' = [Unsound(r) EXCEPT ![r].listed = @ \ {s}]
          /\ UNCHANGED sub
  /\ UNCHANGED <<team, lakes, trial, customer, deleted, row, history>>

(* A subscription on a deleted customer is refused by Stripe. *)
CreateSubscription(r) ==
  /\ At(r, "sweep")
  /\ req[r].listed = {}
  /\ IF req[r].cust \in deleted
     THEN Answer(r) /\ UNCHANGED sub
     ELSE /\ \E p \in SelfServePlans :
               sub' = [sub EXCEPT ![r] =
                         [status |-> "incomplete", plan |-> p, customer |-> req[r].cust,
                          ending |-> FALSE, sound |-> req[r].sound,
                          clean |-> req[r].sound /\ req[r].alone]]
          /\ req' = [Overlapped(r) EXCEPT ![r] = Answered]
  /\ UNCHANGED <<team, lakes, trial, customer, deleted, row, faults, history>>

-----------------------------------------------------------------------------
(* POST /billing/subscription-change and /subscription-cancel: the id comes   *)
(* from the local row, the change goes to Stripe, the webhook brings it back. *)
ReadActive(r) ==
  /\ At(r, "change") \/ At(r, "cancel")
  /\ IF ActiveRows = {}
     THEN Answer(r)
     ELSE \E s \in ActiveRows :
            req' = [req EXCEPT ![r].at = IF @ = "change" THEN "changeWrite" ELSE "cancelWrite",
                              ![r].ref = s]
  /\ UNCHANGED <<team, lakes, trial, stripe, faults, history>>

ChangeSubscription(r) ==
  /\ At(r, "changeWrite")
  /\ LET s == req[r].ref IN
     \E p \in SelfServePlans :
       sub' = IF sub[s].status = "active" THEN [sub EXCEPT ![s].plan = p] ELSE sub
  /\ Answer(r)
  /\ UNCHANGED <<team, lakes, trial, customer, deleted, row, faults, history>>

CancelSubscription(r) ==
  /\ At(r, "cancelWrite")
  /\ LET s == req[r].ref IN
     sub' = IF sub[s].status = "active" THEN [sub EXCEPT ![s].ending = TRUE] ELSE sub
  /\ Answer(r)
  /\ UNCHANGED <<team, lakes, trial, customer, deleted, row, faults, history>>

-----------------------------------------------------------------------------
(* External: Stripe.  The payer confirms the first invoice; a canceled        *)
(* subscription ends with its period; the webhook finds the organization by  *)
(* the subscription's customer and mirrors the subscription into its row.    *)
PaymentConfirmed(s) ==
  /\ sub[s].status = "incomplete"
  /\ sub' = [sub EXCEPT ![s].status = "active"]
  /\ req' = Overlapped(s)
  /\ UNCHANGED <<team, lakes, trial, customer, deleted, row, faults, history>>

PeriodEnds(s) ==
  /\ sub[s].status = "active" /\ sub[s].ending
  /\ sub' = [sub EXCEPT ![s].status = "canceled"]
  /\ UNCHANGED <<team, lakes, trial, customer, deleted, row, req, faults, history>>

SubscriptionWebhook(s) ==
  LET mirror == [status |-> sub[s].status, plan |-> sub[s].plan] IN
  /\ sub[s].status \in {"active", "canceled"}
  /\ customer = sub[s].customer
  /\ row[s] # mirror
  /\ row' = [row EXCEPT ![s] = mirror]
  /\ history' = [history EXCEPT !.best =
                   IF mirror.status = "active" THEN Larger(@, mirror.plan) ELSE @]
  /\ UNCHANGED <<team, lakes, trial, customer, deleted, sub, req, faults>>

TrialEnds ==
  /\ trial
  /\ trial' = FALSE
  /\ UNCHANGED <<team, lakes, stripe, req, faults, history>>

(* External: Better Auth's organization plugin.  An invitation admits whoever *)
(* it was sent to, an owner makes a member an owner, a member leaves unless  *)
(* that would leave no owner.  Who has left does not return (a new row would *)
(* carry a new id).                                                          *)
AcceptInvite(i) ==
  LET e == invite[i].email IN
  /\ i \in Pending
  /\ role[e] = "none"
  /\ role' = [role EXCEPT ![e] = invite[i].role]
  /\ invite' = [invite EXCEPT ![i].status = "accepted"]
  /\ UNCHANGED <<lakes, trial, stripe, req, faults, history>>

PromoteOwner(u) ==
  /\ IsMember(u) /\ u \notin Owners
  /\ Owners # {}
  /\ role' = [role EXCEPT ![u] = "owner"]
  /\ UNCHANGED <<invite, lakes, trial, stripe, req, faults, history>>

LeaveOrganization(u) ==
  /\ IsMember(u)
  /\ Owners # {u}
  /\ role' = [role EXCEPT ![u] = "left"]
  /\ UNCHANGED <<invite, lakes, trial, stripe, req, faults, history>>

Next ==
  \/ \E r \in Requests :
       \/ Begin(r) \/ RequestThrows(r)
       \/ InviteLook(r) \/ SeatPlan(r) \/ SeatCount(r) \/ InsertInvite(r) \/ ResendInvite(r)
       \/ SettingsInvite(r) \/ RevokeInvite(r) \/ RevokeWrite(r)
       \/ SetRoleTarget(r) \/ RemoveTarget(r) \/ SetRoleWrite(r) \/ RemoveWrite(r)
       \/ LakePlan(r) \/ LakeCount(r) \/ InsertLake(r)
       \/ OnboardLake(r) \/ DeleteLake(r)
       \/ CheckoutGuard(r) \/ ReadCustomer(r) \/ ClaimCustomer(r) \/ ReadWinner(r)
       \/ DiscardCustomer(r) \/ ListIncomplete(r) \/ SweepIncomplete(r)
       \/ CreateSubscription(r)
       \/ ReadActive(r) \/ ChangeSubscription(r) \/ CancelSubscription(r)
       \/ PaymentConfirmed(r) \/ PeriodEnds(r) \/ SubscriptionWebhook(r)
       \/ AcceptInvite(r)
  \/ TrialEnds
  \/ \E u \in Users : PromoteOwner(u) \/ LeaveOrganization(u)

Spec == Init /\ [][Next]_vars

-----------------------------------------------------------------------------
(* "A NEW invite that would push the org past its plan's seat allowance is    *)
(* blocked": the organization never holds more seats than its best plan so    *)
(* far allowed, but for one seat per invitation whose count had been          *)
(* overtaken when it was inserted and one per invitation the settings route   *)
(* inserted without a gate.  The same holds of lakes, but for the races and   *)
(* the demo lake onboarding inserts.  A plan that lapses takes nothing away,  *)
(* so the best plan counts, not the present one.                              *)
AllowanceHeld ==
  /\ SeatsUsed <= Seats[history.best] + history.seatsRaced + history.ungated
  /\ lakes <= Lakes[history.best] + history.lakesRaced + history.onboarded

(* "the org can't be orphaned": an organization without an owner is the work  *)
(* of a write that named a member by an earlier, lower rank: it had been      *)
(* promoted, and the other owners had left, between the handler's read of     *)
(* the target and its UPDATE or DELETE.                                       *)
OwnerRemains == Owners # {} \/ history.usurped

(* A paid subscription sits on the customer the organization carries, which   *)
(* is the one the webhook resolves, so the plan that is paid for is granted;  *)
(* however many checkouts mint a customer at once.  The exception is a        *)
(* checkout with a failed call of its own: it may keep a customer nobody      *)
(* recorded.  And the customer on record is never one that was deleted.       *)
PaidOnOrgCustomer ==
  /\ customer \notin deleted
  /\ \A s \in Requests :
       sub[s].status = "active" /\ sub[s].sound => sub[s].customer = customer

(* Double billing: of two subscriptions live at once, one comes from a        *)
(* checkout that was not clean: a call of it failed, a payment was confirmed  *)
(* or another subscription created while it ran, or a payment made before it  *)
(* had not reached its row.  Checkouts merely abandoned and tried again, by   *)
(* anyone, never leave two.                                                   *)
BilledOnce ==
  \A s, t \in Requests :
    s # t /\ sub[s].status = "active" /\ sub[t].status = "active"
      => ~(sub[s].clean /\ sub[t].clean)
=============================================================================
