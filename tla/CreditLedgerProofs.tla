------------------------- MODULE CreditLedgerProofs -------------------------
(***************************************************************************)
(* What the two ledger transactions preserve, for any set of idempotency   *)
(* keys: the lemmas the proofs of the modules that drive the ledger cite.  *)
(***************************************************************************)
EXTENDS CreditLedger, TLAPS

(* Record, as postEntry and resetTierBucket call it: under a fresh key,    *)
(* with the row's amount equal to the change of the total.                 *)
LEMMA RecordKeepsLedger ==
    ASSUME NEW K, NEW key \in K, NEW amount \in Int, NEW tier \in Int, NEW topup \in Int,
           bal \in BalanceRow, ledger \in LedgerRows(K), LedgerIsBalance,
           ~HasEntry(key), tier + topup = bal.total + amount,
           Record(key, amount, tier, topup)
    PROVE  /\ bal' \in BalanceRow
           /\ ledger' \in LedgerRows(K)
           /\ LedgerIsBalance'
           /\ LedgerGrows
<1> DEFINE r == [key |-> key, amount |-> amount, after |-> tier + topup]
<1>1. /\ ledger' = Append(ledger, r)
      /\ bal' = [exists |-> TRUE, tier |-> tier, topup |-> topup, total |-> tier + topup]
  BY DEF Record
<1>2. bal' \in BalanceRow
  BY <1>1 DEF BalanceRow
<1>3. r \in [key : K, amount : Int, after : Int]
  OBVIOUS
<1>4. /\ ledger \in Seq([key : K, amount : Int, after : Int])
      /\ Len(ledger) \in Nat
      /\ DOMAIN ledger = 1..Len(ledger)
  BY DEF LedgerRows
<1> HIDE DEF r
<1>5. /\ ledger' \in Seq([key : K, amount : Int, after : Int])
      /\ Len(ledger') = Len(ledger) + 1
      /\ DOMAIN ledger' = 1..(Len(ledger) + 1)
      /\ \A i \in 1..Len(ledger) : ledger'[i] = ledger[i]
      /\ ledger'[Len(ledger) + 1] = r
  BY <1>1, <1>3, <1>4
<1>6. ledger' \in LedgerRows(K)
  BY <1>5 DEF LedgerRows
<1>7. bal'.total = bal'.tier + bal'.topup
  BY <1>1
<1>8. \A i \in DOMAIN ledger' :
         ledger'[i].after = (IF i = 1 THEN 0 ELSE ledger'[i - 1].after) + ledger'[i].amount
  <2> SUFFICES ASSUME NEW i \in 1..(Len(ledger) + 1)
               PROVE  ledger'[i].after
                        = (IF i = 1 THEN 0 ELSE ledger'[i - 1].after) + ledger'[i].amount
    BY <1>5
  <2>1. (IF i = 1 THEN 0 ELSE ledger'[i - 1].after) = BalanceBefore(i)
    <3>1. CASE i = 1
      BY <3>1 DEF BalanceBefore
    <3>2. CASE i # 1
      <4>1. i - 1 \in 1..Len(ledger)
        BY <3>2, <1>4
      <4>2. ledger'[i - 1] = ledger[i - 1]
        BY <4>1, <1>5
      <4> QED BY <3>2, <4>2 DEF BalanceBefore
    <3> QED BY <3>1, <3>2
  <2>2. CASE i = Len(ledger) + 1
    <3>1. BalanceBefore(i) = bal.total
      BY <2>2 DEF LedgerIsBalance
    <3>2. ledger'[i].after = tier + topup /\ ledger'[i].amount = amount
      BY <2>2, <1>5 DEF r
    <3> QED BY <2>1, <3>1, <3>2
  <2>3. CASE i \in 1..Len(ledger)
    BY <2>1, <2>3, <1>4, <1>5 DEF LedgerIsBalance
  <2> QED BY <2>2, <2>3, <1>4
<1>9. bal'.total = (IF Len(ledger') + 1 = 1 THEN 0 ELSE ledger'[(Len(ledger') + 1) - 1].after)
  BY <1>1, <1>4, <1>5 DEF r
<1>10. \A i, j \in DOMAIN ledger' : ledger'[i].key = ledger'[j].key => i = j
  <2>1. \A i \in 1..Len(ledger) : ledger[i].key # key
    BY <1>4 DEF HasEntry
  <2>2. ledger'[Len(ledger) + 1].key = key
    BY <1>5 DEF r
  <2> SUFFICES ASSUME NEW i \in 1..(Len(ledger) + 1), NEW j \in 1..(Len(ledger) + 1),
                      ledger'[i].key = ledger'[j].key
               PROVE  i = j
    BY <1>5
  <2>3. \A k \in 1..(Len(ledger) + 1) : k \in 1..Len(ledger) \/ k = Len(ledger) + 1
    BY <1>4
  <2>4. CASE i \in 1..Len(ledger) /\ j \in 1..Len(ledger)
    <3>1. ledger'[i] = ledger[i] /\ ledger'[j] = ledger[j]
      BY <2>4, <1>5
    <3>2. ledger[i].key = ledger[j].key
      BY <3>1
    <3> QED BY <2>4, <3>2, <1>4 DEF LedgerIsBalance
  <2>5. CASE i = Len(ledger) + 1 /\ j \in 1..Len(ledger)
    BY <2>1, <2>2, <2>5, <1>5
  <2>6. CASE i \in 1..Len(ledger) /\ j = Len(ledger) + 1
    BY <2>1, <2>2, <2>6, <1>5
  <2> QED BY <2>3, <2>4, <2>5, <2>6
<1>11. LedgerGrows
  BY <1>4, <1>5 DEF LedgerGrows
<1>12. LedgerIsBalance'
  BY <1>7, <1>8, <1>9, <1>10 DEF LedgerIsBalance, BalanceBefore
<1> QED BY <1>2, <1>6, <1>11, <1>12

(* A replay of a key that is already on the ledger changes no amount. *)
LEMMA ReplayKeepsLedger ==
    ASSUME NEW K, bal \in BalanceRow, ledger \in LedgerRows(K), LedgerIsBalance, Replay
    PROVE  /\ bal' \in BalanceRow
           /\ ledger' \in LedgerRows(K)
           /\ LedgerIsBalance'
           /\ LedgerGrows
<1>1. ledger' = ledger /\ bal' = [bal EXCEPT !.exists = TRUE]
  BY DEF Replay
<1>2. bal' \in BalanceRow /\ bal'.total = bal.total /\ bal'.tier = bal.tier
      /\ bal'.topup = bal.topup
  BY <1>1 DEF BalanceRow
<1>3. LedgerGrows
  BY <1>1 DEF LedgerGrows, LedgerRows
<1>4. LedgerIsBalance'
  BY <1>1, <1>2 DEF LedgerIsBalance, BalanceBefore
<1> QED BY <1>1, <1>2, <1>3, <1>4

(* postEntry keeps the ledger a balance whatever the amount, its sign, the *)
(* bucket and the state of the two buckets, also on a replayed key.        *)
LEMMA PostEntryKeepsLedger ==
    ASSUME NEW K, NEW key \in K, NEW amount \in Int, NEW bucket,
           bal \in BalanceRow, ledger \in LedgerRows(K), LedgerIsBalance,
           PostEntry(key, amount, bucket)
    PROVE  /\ bal' \in BalanceRow
           /\ ledger' \in LedgerRows(K)
           /\ LedgerIsBalance'
           /\ LedgerGrows
<1>0. bal.tier \in Int /\ bal.topup \in Int /\ bal.total = bal.tier + bal.topup
  BY DEF BalanceRow, LedgerIsBalance
<1>1. CASE HasEntry(key)
  BY <1>1, ReplayKeepsLedger DEF PostEntry
<1>2. CASE ~HasEntry(key)
  <2>1. PostFresh(key, amount, bucket)
    BY <1>2 DEF PostEntry
  <2>2. CASE amount >= 0 /\ bucket = "tier"
    <3>1. Record(key, amount, bal.tier + amount, bal.topup)
      BY <2>1, <2>2 DEF PostFresh
    <3> QED BY <3>1, <1>0, <1>2, RecordKeepsLedger
  <2>3. CASE amount >= 0 /\ bucket # "tier"
    <3>1. Record(key, amount, bal.tier, bal.topup + amount)
      BY <2>1, <2>3 DEF PostFresh
    <3> QED BY <3>1, <1>0, <1>2, RecordKeepsLedger
  <2>4. CASE ~(amount >= 0)
    <3> DEFINE ft == FromTier(-amount)
    <3>1. ft \in Int
      BY <1>0 DEF FromTier, Larger, Smaller
    <3>2. Record(key, amount, bal.tier - ft, bal.topup - (-amount - ft))
      BY <2>1, <2>4 DEF PostFresh
    <3> HIDE DEF ft
    <3>3. (bal.tier - ft) + (bal.topup - (-amount - ft)) = bal.total + amount
      BY <3>1, <1>0
    <3> QED BY <3>1, <3>2, <3>3, <1>0, <1>2, RecordKeepsLedger
  <2> QED BY <2>2, <2>3, <2>4
<1> QED BY <1>1, <1>2

(* resetTierBucket keeps it too: the row books target minus the old tier   *)
(* bucket, which is the change of the total.                               *)
LEMMA ResetTierBucketKeepsLedger ==
    ASSUME NEW K, NEW key \in K, NEW target \in Int,
           bal \in BalanceRow, ledger \in LedgerRows(K), LedgerIsBalance,
           ResetTierBucket(key, target)
    PROVE  /\ bal' \in BalanceRow
           /\ ledger' \in LedgerRows(K)
           /\ LedgerIsBalance'
           /\ LedgerGrows
<1>0. bal.tier \in Int /\ bal.topup \in Int /\ bal.total = bal.tier + bal.topup
  BY DEF BalanceRow, LedgerIsBalance
<1>1. CASE HasEntry(key)
  BY <1>1, ReplayKeepsLedger DEF ResetTierBucket
<1>2. CASE ~HasEntry(key)
  <2>1. Record(key, target - bal.tier, target, bal.topup)
    BY <1>2 DEF ResetTierBucket
  <2> QED BY <2>1, <1>0, <1>2, RecordKeepsLedger
<1> QED BY <1>1, <1>2

(* The empty ledger of an org without a balance row. *)
LEMMA LedgerInitHolds ==
    ASSUME NEW K, LedgerInit
    PROVE  bal \in BalanceRow /\ ledger \in LedgerRows(K) /\ LedgerIsBalance
<1>1. ledger = <<>> /\ bal = [exists |-> FALSE, tier |-> 0, topup |-> 0, total |-> 0]
  BY DEF LedgerInit
<1> QED BY <1>1 DEF BalanceRow, LedgerRows, LedgerIsBalance, BalanceBefore

-----------------------------------------------------------------------------
(* The refinement of LedgerPromise, transaction by transaction.            *)

\* A step of the ledger as its callers see it: one fresh key booked, or nothing.
Books == [Promise!Next]_<<Booked, bal.total>>

(* An appended row with a fresh key and the change of the total as its     *)
(* amount is one booking.                                                  *)
LEMMA RecordBooks ==
    ASSUME NEW K, NEW key \in K, NEW amount \in Int, NEW tier \in Int, NEW topup \in Int,
           bal \in BalanceRow, ledger \in LedgerRows(K),
           ~HasEntry(key), tier + topup = bal.total + amount,
           Record(key, amount, tier, topup)
    PROVE  Books
<1> DEFINE r == [key |-> key, amount |-> amount, after |-> tier + topup]
           entry == [key |-> key, amount |-> amount]
<1>1. ledger' = Append(ledger, r) /\ bal'.total = bal.total + amount
  BY DEF Record
<1>2. /\ ledger \in Seq([key : K, amount : Int, after : Int])
      /\ Len(ledger) \in Nat
      /\ DOMAIN ledger = 1..Len(ledger)
  BY DEF LedgerRows
<1>3. r.key = key /\ r.amount = amount
  OBVIOUS
<1>4. /\ DOMAIN ledger' = 1..(Len(ledger) + 1)
      /\ \A i \in 1..Len(ledger) : ledger'[i] = ledger[i]
      /\ ledger'[Len(ledger) + 1] = r
  BY <1>1, <1>2
<1> HIDE DEF r
<1>5. Booked' = Booked \cup {entry}
  <2>1. Booked' = {[key |-> ledger'[i].key, amount |-> ledger'[i].amount] :
                       i \in 1..(Len(ledger) + 1)}
    BY <1>4 DEF Booked
  <2>2. Booked = {[key |-> ledger[i].key, amount |-> ledger[i].amount] : i \in 1..Len(ledger)}
    BY <1>2 DEF Booked
  <2>3. ASSUME NEW e \in Booked' PROVE e \in Booked \cup {entry}
    <3>1. PICK i \in 1..(Len(ledger) + 1) :
             e = [key |-> ledger'[i].key, amount |-> ledger'[i].amount]
      BY <2>1, <2>3
    <3>2. CASE i = Len(ledger) + 1
      BY <1>3, <1>4, <3>1, <3>2
    <3>3. CASE i \in 1..Len(ledger)
      BY <1>4, <2>2, <3>1, <3>3
    <3> QED BY <3>2, <3>3, <1>2
  <2>4. ASSUME NEW e \in Booked PROVE e \in Booked'
    <3>1. PICK i \in 1..Len(ledger) : e = [key |-> ledger[i].key, amount |-> ledger[i].amount]
      BY <2>2, <2>4
    <3>2. i \in 1..(Len(ledger) + 1) /\ ledger'[i] = ledger[i]
      BY <1>2, <1>4
    <3> QED BY <2>1, <3>1, <3>2
  <2>5. entry \in Booked'
    <3>1. Len(ledger) + 1 \in 1..(Len(ledger) + 1)
      BY <1>2
    <3> QED BY <1>3, <1>4, <2>1, <3>1
  <2> QED BY <2>3, <2>4, <2>5
<1>6. \A e \in Booked : e.key # entry.key
  BY DEF Booked, HasEntry
<1>7. entry.amount = amount /\ entry \in Booked'
  BY <1>5
<1> HIDE DEF entry
<1>8. Promise!Book(entry)
  BY <1>1, <1>5, <1>6, <1>7 DEF Promise!Book
<1> QED BY <1>7, <1>8 DEF Promise!Next, Books

LEMMA ReplayBooks == ASSUME bal \in BalanceRow, Replay PROVE Books
<1>1. ledger' = ledger /\ bal' = [bal EXCEPT !.exists = TRUE]
  BY DEF Replay
<1>2. bal'.total = bal.total
  BY <1>1 DEF BalanceRow
<1> QED BY <1>1, <1>2 DEF Books, Booked

LEMMA NoEntryBooks == ASSUME UNCHANGED ledgerVars PROVE Books
BY DEF Books, Booked, ledgerVars

(* postEntry is one booking under its key, or none if the key is booked.   *)
LEMMA PostEntryBooks ==
    ASSUME NEW K, NEW key \in K, NEW amount \in Int, NEW bucket,
           bal \in BalanceRow, ledger \in LedgerRows(K), LedgerIsBalance,
           PostEntry(key, amount, bucket)
    PROVE  Books
<1>0. bal.tier \in Int /\ bal.topup \in Int /\ bal.total = bal.tier + bal.topup
  BY DEF BalanceRow, LedgerIsBalance
<1>1. CASE HasEntry(key)
  BY <1>1, ReplayBooks DEF PostEntry
<1>2. CASE ~HasEntry(key)
  <2>1. PICK tier \in Int, topup \in Int :
           tier + topup = bal.total + amount /\ Record(key, amount, tier, topup)
    <3>1. CASE amount >= 0 /\ bucket = "tier"
      <4>1. Record(key, amount, bal.tier + amount, bal.topup)
        BY <1>2, <3>1 DEF PostEntry, PostFresh
      <4>2. (bal.tier + amount) + bal.topup = bal.total + amount /\ bal.tier + amount \in Int
        BY <1>0
      <4> QED BY <1>0, <4>1, <4>2
    <3>2. CASE amount >= 0 /\ bucket # "tier"
      <4>1. Record(key, amount, bal.tier, bal.topup + amount)
        BY <1>2, <3>2 DEF PostEntry, PostFresh
      <4>2. bal.tier + (bal.topup + amount) = bal.total + amount /\ bal.topup + amount \in Int
        BY <1>0
      <4> QED BY <1>0, <4>1, <4>2
    <3>3. CASE ~(amount >= 0)
      <4> DEFINE ft == FromTier(-amount)
      <4>1. ft \in Int
        BY <1>0 DEF FromTier, Larger, Smaller
      <4>2. Record(key, amount, bal.tier - ft, bal.topup - (-amount - ft))
        BY <1>2, <3>3 DEF PostEntry, PostFresh
      <4> HIDE DEF ft
      <4>3. /\ (bal.tier - ft) + (bal.topup - (-amount - ft)) = bal.total + amount
            /\ bal.tier - ft \in Int /\ bal.topup - (-amount - ft) \in Int
        BY <4>1, <1>0
      <4> QED BY <4>2, <4>3
    <3> QED BY <3>1, <3>2, <3>3
  <2> QED BY <1>2, <2>1, RecordBooks
<1> QED BY <1>1, <1>2

(* resetTierBucket is one booking of the difference, or none. *)
LEMMA ResetTierBucketBooks ==
    ASSUME NEW K, NEW key \in K, NEW target \in Int,
           bal \in BalanceRow, ledger \in LedgerRows(K), LedgerIsBalance,
           ResetTierBucket(key, target)
    PROVE  Books
<1>0. bal.tier \in Int /\ bal.topup \in Int /\ bal.total = bal.tier + bal.topup
  BY DEF BalanceRow, LedgerIsBalance
<1>1. CASE HasEntry(key)
  BY <1>1, ReplayBooks DEF ResetTierBucket
<1>2. CASE ~HasEntry(key)
  <2>1. Record(key, target - bal.tier, target, bal.topup)
    BY <1>2 DEF ResetTierBucket
  <2>2. target + bal.topup = bal.total + (target - bal.tier) /\ target - bal.tier \in Int
    BY <1>0
  <2> QED BY <1>0, <1>2, <2>1, <2>2, RecordBooks
<1> QED BY <1>1, <1>2

(* An empty ledger has booked nothing. *)
LEMMA LedgerInitBooksNothing == ASSUME LedgerInit PROVE Promise!Init
<1>1. ledger = <<>> /\ bal.total = 0
  BY DEF LedgerInit
<1>2. Booked = {}
  BY <1>1 DEF Booked
<1> QED BY <1>1, <1>2 DEF Promise!Init

-----------------------------------------------------------------------------
(* Looking an entry up by its key.                                         *)

(* The CHOOSE of EntryOf finds the one row with that key. *)
LEMMA EntryFound ==
    ASSUME NEW K, ledger \in LedgerRows(K), LedgerIsBalance, NEW i \in DOMAIN ledger
    PROVE  HasEntry(ledger[i].key) /\ EntryOf(ledger[i].key) = ledger[i]
<1> DEFINE key == ledger[i].key
           R == {ledger[j] : j \in DOMAIN ledger}
<1>1. ledger[i] \in R /\ ledger[i].key = key
  OBVIOUS
<1>2. \A r \in R : r.key = key => r = ledger[i]
  BY DEF LedgerIsBalance
<1>3. (CHOOSE r \in R : r.key = key) = ledger[i]
  <2> HIDE DEF R, key
  <2> QED BY <1>1, <1>2
<1> QED BY <1>3 DEF HasEntry, EntryOf

(* An entry that was found is found again, unchanged, in a longer ledger. *)
LEMMA EntryStays ==
    ASSUME NEW K, ledger \in LedgerRows(K), ledger' \in LedgerRows(K),
           LedgerIsBalance, LedgerIsBalance', LedgerGrows,
           NEW key, HasEntry(key)
    PROVE  HasEntry(key)' /\ EntryOf(key)' = EntryOf(key)
<1>1. PICK i \in DOMAIN ledger : ledger[i].key = key
  BY DEF HasEntry
<1>2. EntryOf(key) = ledger[i]
  BY <1>1, EntryFound
<1>3. i \in DOMAIN ledger' /\ ledger'[i] = ledger[i]
  BY <1>1 DEF LedgerGrows, LedgerRows
<1>4. ledger'[i].key = key
  BY <1>1, <1>3
<1>5. HasEntry(key)'
  BY <1>3, <1>4 DEF HasEntry
<1>6. EntryOf(key)' = ledger'[i]
  <2>1. \A j \in DOMAIN ledger' : ledger'[j].key = key => j = i
    BY <1>3, <1>4 DEF LedgerIsBalance
  <2> DEFINE R == {ledger'[j] : j \in DOMAIN ledger'}
  <2>2. ledger'[i] \in R
    BY <1>3
  <2>3. \A r \in R : r.key = key => r = ledger'[i]
    BY <2>1
  <2>4. (CHOOSE r \in R : r.key = key) = ledger'[i]
    <3> HIDE DEF R
    <3> QED BY <1>4, <2>2, <2>3
  <2> QED BY <2>4 DEF EntryOf
<1> QED BY <1>2, <1>3, <1>5, <1>6

(* After postEntry the key is on the ledger, with the amount of the first  *)
(* call that posted it, and every other key is where it was.               *)
LEMMA PostEntryEnters ==
    ASSUME NEW K, NEW key \in K, NEW amount \in Int, NEW bucket,
           bal \in BalanceRow, ledger \in LedgerRows(K), LedgerIsBalance,
           PostEntry(key, amount, bucket)
    PROVE  /\ HasEntry(key)'
           /\ ~HasEntry(key) => EntryOf(key)'.amount = amount
           /\ \A k : k # key => (HasEntry(k)' <=> HasEntry(k))
<1>1. CASE HasEntry(key)
  BY <1>1 DEF PostEntry, Replay, HasEntry
<1>2. CASE ~HasEntry(key)
  <2>1. \E after : ledger' = Append(ledger, [key |-> key, amount |-> amount, after |-> after])
    BY <1>2 DEF PostEntry, PostFresh, Record
  <2>2. PICK r : ledger' = Append(ledger, r) /\ r.key = key /\ r.amount = amount
    BY <2>1
  <2>3. /\ ledger \in Seq([key : K, amount : Int, after : Int])
        /\ Len(ledger) \in Nat /\ DOMAIN ledger = 1..Len(ledger)
    BY DEF LedgerRows
  <2>4. /\ DOMAIN ledger' = 1..(Len(ledger) + 1)
        /\ \A i \in 1..Len(ledger) : ledger'[i] = ledger[i]
        /\ ledger'[Len(ledger) + 1] = r
    BY <2>2, <2>3
  <2>5. Len(ledger) + 1 \in DOMAIN ledger'
    BY <2>3, <2>4
  <2>6. HasEntry(key)'
    BY <2>2, <2>4, <2>5 DEF HasEntry
  <2>7. \A k : k # key => (HasEntry(k)' <=> HasEntry(k))
    <3> SUFFICES ASSUME NEW k, k # key PROVE HasEntry(k)' <=> HasEntry(k)
      OBVIOUS
    <3>1. ASSUME HasEntry(k)' PROVE HasEntry(k)
      <4>1. PICK i \in DOMAIN ledger' : ledger'[i].key = k
        BY <3>1 DEF HasEntry
      <4>2. i \in 1..Len(ledger)
        BY <2>2, <2>3, <2>4, <4>1
      <4> QED BY <2>3, <2>4, <4>1, <4>2 DEF HasEntry
    <3>2. ASSUME HasEntry(k) PROVE HasEntry(k)'
      <4>1. PICK i \in DOMAIN ledger : ledger[i].key = k
        BY <3>2 DEF HasEntry
      <4>2. i \in DOMAIN ledger' /\ ledger'[i] = ledger[i]
        BY <2>3, <2>4, <4>1
      <4> QED BY <4>1, <4>2 DEF HasEntry
    <3> QED BY <3>1, <3>2
  <2>8. EntryOf(key)' = r
    <3> DEFINE R == {ledger'[j] : j \in DOMAIN ledger'}
    <3>1. r \in R
      BY <2>4, <2>5
    <3>2. \A j \in DOMAIN ledger' : ledger'[j].key = key => j = Len(ledger) + 1
      BY <1>2, <2>3, <2>4 DEF HasEntry
    <3>3. \A q \in R : q.key = key => q = r
      BY <2>4, <3>2
    <3>4. (CHOOSE q \in R : q.key = key) = r
      <4> HIDE DEF R
      <4> QED BY <2>2, <3>1, <3>3
    <3> QED BY <3>4 DEF EntryOf
  <2> QED BY <2>2, <2>6, <2>7, <2>8
<1> QED BY <1>1, <1>2
=============================================================================
