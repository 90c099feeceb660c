---------------------------- MODULE CreditLedger ----------------------------
(***************************************************************************)
(* The append-only credit ledger and the balance row of ONE organisation   *)
(* (apps/control-api/src/lib/credits.ts).  Every row is keyed by org and   *)
(* no operation touches two orgs, so one org stands for all of them.       *)
(*                                                                         *)
(* postEntry and resetTierBucket each run in one transaction that holds    *)
(* the balance row FOR UPDATE: they are atomic steps here, and the order   *)
(* of `ledger` is the order in which the lock was held.  The modules that  *)
(* drive the ledger (SessionBilling, TierReset) extend this one.           *)
(***************************************************************************)
EXTENDS Integers, Sequences

VARIABLES
    bal,     \* waddling.credit_balance: does the row exist, its two buckets and its total
    ledger   \* waddling.credit_ledger: the entries in commit order

ledgerVars == <<bal, ledger>>

Larger(a, b) == IF a >= b THEN a ELSE b
Smaller(a, b) == IF a <= b THEN a ELSE b

BalanceRow == [exists : BOOLEAN, tier : Int, topup : Int, total : Int]
LedgerRows(Keys) == Seq([key : Keys, amount : Int, after : Int])

LedgerInit ==
    /\ bal = [exists |-> FALSE, tier |-> 0, topup |-> 0, total |-> 0]
    /\ ledger = <<>>

\* The unique index on (org_id, idempotency_key).
HasEntry(key) == \E i \in DOMAIN ledger : ledger[i].key = key

EntryOf(key) == CHOOSE r \in {ledger[i] : i \in DOMAIN ledger} : r.key = key

\* The part of a debit the expiring bucket pays; topup pays the rest and may go negative.
FromTier(debit) == Larger(0, Smaller(bal.tier, debit))

-----------------------------------------------------------------------------

Record(key, amount, tier, topup) ==
    /\ ledger' = Append(ledger, [key |-> key, amount |-> amount, after |-> tier + topup])
    /\ bal' = [exists |-> TRUE, tier |-> tier, topup |-> topup, total |-> tier + topup]

\* A replayed key: the balance row was still ensured, nothing else is written.
Replay ==
    /\ bal' = [bal EXCEPT !.exists = TRUE]
    /\ UNCHANGED ledger

PostFresh(key, amount, bucket) ==
    IF amount >= 0
    THEN IF bucket = "tier"
         THEN Record(key, amount, bal.tier + amount, bal.topup)
         ELSE Record(key, amount, bal.tier, bal.topup + amount)
    ELSE Record(key, amount, bal.tier - FromTier(-amount),
                bal.topup - (-amount - FromTier(-amount)))

\* Mutant: the balance moves although the key was replayed.
PostEntryAppliesReplay(key, amount, bucket) ==
    IF HasEntry(key)
    THEN /\ bal' = [bal EXCEPT !.topup = @ + amount, !.total = @ + amount]
         /\ UNCHANGED ledger
    ELSE PostFresh(key, amount, bucket)

PostEntry(key, amount, bucket) ==
    IF HasEntry(key) THEN Replay ELSE PostFresh(key, amount, bucket)

\* Mutant: the reset adds the allotment instead of setting the bucket to it.
ResetTierBucketAdds(key, target) ==
    IF HasEntry(key) THEN Replay ELSE Record(key, target, bal.tier + target, bal.topup)

\* Mutant: the entry books the whole allotment, not the difference.
ResetTierBucketBooksTarget(key, target) ==
    IF HasEntry(key) THEN Replay ELSE Record(key, target, target, bal.topup)

\* SET the tier bucket to target and book the signed difference; topup is untouched.
ResetTierBucket(key, target) ==
    IF HasEntry(key) THEN Replay
    ELSE Record(key, target - bal.tier, target, bal.topup)

-----------------------------------------------------------------------------

(* The ledger is the balance: every row's balance_after is the previous    *)
(* row's plus its own amount, the last one is the balance row's total, the *)
(* two buckets add up to it, and no idempotency key is on two rows.  This  *)
(* is what FOR UPDATE, ON CONFLICT DO NOTHING and the bucket arithmetic of *)
(* postEntry and resetTierBucket are for.                                  *)
BalanceBefore(i) == IF i = 1 THEN 0 ELSE ledger[i - 1].after

LedgerIsBalance ==
    /\ bal.total = bal.tier + bal.topup
    /\ \A i \in DOMAIN ledger : ledger[i].after = BalanceBefore(i) + ledger[i].amount
    /\ bal.total = BalanceBefore(Len(ledger) + 1)
    /\ \A i, j \in DOMAIN ledger : ledger[i].key = ledger[j].key => i = j

LedgerGrows ==
    /\ Len(ledger') >= Len(ledger)
    /\ \A i \in DOMAIN ledger : ledger'[i] = ledger[i]

(* A ledger row, once committed, is never changed or removed: nothing in   *)
(* credits.ts updates amount or key, and a replay writes nothing.          *)
AppendOnly == [][LedgerGrows]_ledgerVars

\* The refinement mapping: a booking is a ledger row's key and amount.
Booked == {[key |-> ledger[i].key, amount |-> ledger[i].amount] : i \in DOMAIN ledger}

Promise == INSTANCE LedgerPromise WITH booked <- Booked, balance <- bal.total

(* Whoever drives the ledger, its keys are booked once and for good and    *)
(* the balance row is what was booked: a step of postEntry or              *)
(* resetTierBucket books one fresh key, and every other step, replays      *)
(* included, changes neither (the abstract specification LedgerPromise).   *)
KeepsPromise == Promise!Spec
=============================================================================
