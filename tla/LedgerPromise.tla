---------------------------- MODULE LedgerPromise ----------------------------
(***************************************************************************)
(* What the credit ledger promises its callers, without buckets, locks,    *)
(* balance rows or sequence: amounts are booked under keys, each key once  *)
(* and for good, and the balance is what was booked.  CreditLedger shows   *)
(* the mapping under which the modules that drive the ledger implement it. *)
(***************************************************************************)
EXTENDS Integers

VARIABLES
    booked,    \* the bookings: [key, amount]
    balance

Init == booked = {} /\ balance = 0

Book(entry) ==
    /\ \A e \in booked : e.key # entry.key
    /\ booked' = booked \cup {entry}
    /\ balance' = balance + entry.amount

Next == \E entry \in booked' : Book(entry)

Spec == Init /\ [][Next]_<<booked, balance>>
=============================================================================
