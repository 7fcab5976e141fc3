------------------------ MODULE CustomerFundsProofs ------------------------
(***************************************************************************)
(* Proofs about CustomerFunds, for any number of requests, orders and      *)
(* refund keys, and any amounts.                                           *)
(***************************************************************************)
EXTENDS CustomerFunds, SumTheorems

IntentKeys == PayKeys \cup {NoKey}

RefundSteps == {"lock", "check", "credit", "record"}

IntentSteps == {"order", "promo", "promoPay", "wallet"}

\* A request under way has the key its kind of request carries.
JobsServe ==
    \A r \in Requests :
        /\ job[r].kind = "intent" => job[r].key \in IntentKeys
        /\ job[r].kind = "capture" => job[r].key \in Txs
        /\ at[r] \in RefundSteps => job[r].key \in RefundKeys
        /\ at[r] \in IntentSteps => job[r].kind = "intent"
        /\ at[r] \in {"captured", "award"} => job[r].kind = "capture"
        /\ at[r] = "order" => local[r].promo + local[r].wallet <= Fare

\* Between its check of the payment and its credit a refund holds the row.
LocksHeld ==
    \A r \in Requests : at[r] \in {"check", "credit"} => lock[RefundTx(r)] = r

\* What a refund has read leaves room for it.
ReadFits ==
    \A r \in Requests :
        at[r] \in {"check", "credit", "record"} =>
            /\ tx[RefundTx(r)].status # "NONE"
            /\ local[r].refunded + RefundAmount(r) <= tx[RefundTx(r)].amount

Credited(k) ==
    \E x \in ledger : x.key = <<"LEDGER", k>> /\ x.amount = RefundOf[k].amount

\* A refund on its way to credit_wallet's commit is not in the ledger.
CreditPending ==
    \A r \in Requests :
        at[r] = "credit" => \A x \in ledger : x.key # RefundLedgerKey(r)

\* One on its way to its CustomerRefund row is.
RecordPending ==
    \A r \in Requests :
        at[r] = "record" /\ RefundOf[job[r].key].to # "ORIGINAL_PAYMENT" =>
            Credited(job[r].key)

\* A refund's row in the ledger has the refund's amount.
RowsFit ==
    \A x \in ledger : \A k \in RefundKeys :
        x.key = <<"LEDGER", k>> => x.amount = RefundOf[k].amount

RefundInv ==
    /\ LocksHeld
    /\ ReadFits
    /\ CreditPending
    /\ RecordPending
    /\ RowsFit
    /\ RefundCreditedOnce
    /\ RefundRecordCredited
    /\ RefundedWithinPayment

\* The inductive invariant.
FInv == FundsTypeOK /\ JobsServe /\ RefundInv

-----------------------------------------------------------------------------

LEMMA InitFInv == FundsInit => FInv
<1> SUFFICES ASSUME FundsInit PROVE FInv
  OBVIOUS
<1> USE FundsAssumption
<1>1. NoTx \in Tx
  BY DEF NoTx, Tx, PaymentStatus
<1>2. PICK o \in FirstOrders :
         /\ tx = [t \in Txs |-> IF t = FirstTx THEN o ELSE NoTx]
         /\ ride = IF o.status = "CAPTURED" THEN "paid" ELSE "pending"
  BY DEF FundsInit
<1>3. tx \in [Txs -> Tx] /\ RefundedWithinPayment
  BY <1>1, <1>2 DEF RefundedWithinPayment, NoTx, Tx
<1>4. FundsTypeOK
  BY <1>2, <1>3 DEF FundsInit, FundsTypeOK, FundsSteps, NoJob, Job, Kinds,
                   NoLocal, Local, PaymentStatus
<1>5. JobsServe
  BY DEF FundsInit, JobsServe, NoJob, RefundSteps, IntentSteps
<1>6. RefundInv
  BY <1>3 DEF FundsInit, RefundInv, LocksHeld, ReadFits, CreditPending,
              RecordPending, RowsFit, RefundCreditedOnce, RefundRecordCredited
<1> QED BY <1>4, <1>5, <1>6 DEF FInv

-----------------------------------------------------------------------------
(* Types. *)

\* Posting keeps the types of the balances and of the ledger.
LEMMA PostType ==
    ASSUME FundsTypeOK, NEW r \in Requests, NEW b \in Buckets,
           NEW balance \in Nat, NEW amount \in Int, balance + amount \in Nat,
           NEW key \in LedgerKeys, Post(r, b, balance, amount, key)
    PROVE  /\ funds' \in [Buckets \cup {"POINTS"} -> Nat]
           /\ ledger' \subseteq Row
<1>1. funds' \in [Buckets \cup {"POINTS"} -> Nat]
  BY DEF Post, FundsTypeOK
<1>2. at[r] \in FundsSteps
  BY DEF FundsTypeOK
<1>3. [by |-> r, step |-> at[r], bucket |-> b, amount |-> amount,
       key |-> key] \in Row
  BY <1>2 DEF Row
<1> QED BY <1>1, <1>3 DEF Post, FundsTypeOK

LEMMA EndTypes ==
    ASSUME FundsTypeOK, NEW r \in Requests, End(r)
    PROVE  at' \in [Requests -> FundsSteps] /\ local' \in [Requests -> Local]
BY DEF FundsTypeOK, End, Goto, NoLocal, Local, FundsSteps, PaymentStatus

LEMMA UnlockType ==
    ASSUME FundsTypeOK, NEW r \in Requests, Unlock(r)
    PROVE  lock' \in [Txs -> Requests \cup {Nobody}]
BY DEF FundsTypeOK, Unlock

LEMMA DeductTypes ==
    ASSUME FundsTypeOK, NEW r \in Requests, NEW b \in Buckets,
           NEW amount \in Nat, NEW key \in LedgerKeys, NEW next \in FundsSteps,
           Deduct(r, b, amount, key, next)
    PROVE  FundsTypeOK'
<1>1. UNCHANGED <<tx, lock, refunds, ride, job>>
  BY DEF Deduct
<1>2. CASE /\ Covers(b, amount)
           /\ Post(r, b, LockedBalance(r, b), -amount, key)
           /\ Goto(r, next)
           /\ UNCHANGED local
  <2>1. /\ funds[b] \in Nat /\ -amount \in Int
        /\ funds[b] + (-amount) \in Nat
    BY <1>2 DEF FundsTypeOK, Covers, Buckets
  <2>2. funds' \in [Buckets \cup {"POINTS"} -> Nat] /\ ledger' \subseteq Row
    BY <1>2, <2>1, PostType DEF LockedBalance
  <2> QED BY <1>1, <1>2, <2>2 DEF FundsTypeOK, Goto
<1>3. CASE End(r) /\ UNCHANGED <<funds, ledger>>
  BY <1>1, <1>3, EndTypes DEF FundsTypeOK
<1> QED BY <1>2, <1>3 DEF Deduct

LEMMA KeyCheckTypes ==
    ASSUME FundsTypeOK, NEW r \in Requests, NEW key, NEW pay \in FundsSteps,
           NEW next \in FundsSteps, KeyCheck(r, key, pay, next)
    PROVE  FundsTypeOK'
<1>1. CASE /\ Goto(r, IF Journaled(key) THEN next ELSE pay)
           /\ UNCHANGED <<lock, local>>
  BY <1>1 DEF KeyCheck, Goto, FundsTypeOK
<1>2. CASE End(r) /\ Unlock(r)
  BY <1>2, EndTypes, UnlockType DEF KeyCheck, FundsTypeOK
<1> QED BY <1>1, <1>2 DEF KeyCheck

JobKeys == RefundKeys \cup PayKeys \cup Txs \cup {NoKey}

LEMMA BeginTypes ==
    ASSUME FundsTypeOK, NEW r \in Requests, NEW kind \in Kinds,
           NEW key \in JobKeys, NEW step \in FundsSteps,
           Begin(r, kind, key, step)
    PROVE  at' \in [Requests -> FundsSteps] /\ job' \in [Requests -> Job]
BY DEF FundsTypeOK, Begin, Goto, Job, JobKeys

\* The steps of process_refund keep the types.
LEMMA RefundTypes ==
    ASSUME FInv, NEW r \in Requests,
           \/ RefundLock(r) \/ RefundCreditCheck(r) \/ RefundCredit(r)
           \/ RefundRecord(r)
    PROVE  FundsTypeOK'
<1> USE FundsAssumption DEF FInv
<1>1. job[r].key \in RefundKeys
  BY DEF JobsServe, RefundSteps, RefundLock, RefundCreditCheck, RefundCredit,
         RefundRecord
<1>2. /\ RefundTx(r) \in Txs
      /\ RefundAmount(r) \in Nat \ {0}
      /\ RefundBucket(r) \in Buckets
      /\ RefundLedgerKey(r) \in LedgerKeys
  BY <1>1 DEF RefundTx, RefundAmount, RefundBucket, RefundLedgerKey, LedgerKeys,
              Buckets
<1>3. CASE RefundLock(r)
  <2>1. UNCHANGED <<funds, ledger, tx, refunds, ride, job>>
    BY <1>3 DEF RefundLock
  <2>2. CASE End(r) /\ UNCHANGED lock
    BY <2>1, <2>2, EndTypes DEF FundsTypeOK
  <2>3. CASE /\ lock' = [lock EXCEPT ![RefundTx(r)] = r]
             /\ local' = [local EXCEPT ![r].refunded = tx[RefundTx(r)].refunded,
                                       ![r].status = tx[RefundTx(r)].status]
             /\ Goto(r, RefundPath(r))
    <3>1. tx[RefundTx(r)].refunded \in Nat /\ tx[RefundTx(r)].status \in PaymentStatus
      BY <1>2 DEF FundsTypeOK, Tx
    <3>2. local' \in [Requests -> Local]
      <4>1. local[r] \in Local
        BY DEF FundsTypeOK
      <4>2. [local[r] EXCEPT !.refunded = tx[RefundTx(r)].refunded,
                             !.status = tx[RefundTx(r)].status] \in Local
        BY <3>1, <4>1 DEF Local
      <4>3. local' = [local EXCEPT ![r] =
                [local[r] EXCEPT !.refunded = tx[RefundTx(r)].refunded,
                                 !.status = tx[RefundTx(r)].status]]
        BY <2>3 DEF FundsTypeOK
      <4> QED BY <4>2, <4>3 DEF FundsTypeOK
    <3>3. at' \in [Requests -> FundsSteps]
      BY <2>3 DEF FundsTypeOK, Goto, RefundPath, FundsSteps
    <3> QED BY <2>1, <2>3, <3>2, <3>3 DEF FundsTypeOK
  <2> QED BY <1>3, <2>2, <2>3 DEF RefundLock
<1>4. CASE RefundCreditCheck(r)
  BY <1>4, KeyCheckTypes DEF RefundCreditCheck, FundsSteps
<1>5. CASE RefundCredit(r)
  <2>1. /\ funds[RefundBucket(r)] \in Nat
        /\ RefundAmount(r) \in Int
        /\ funds[RefundBucket(r)] + RefundAmount(r) \in Nat
    BY <1>2 DEF FundsTypeOK
  <2>2. Post(r, RefundBucket(r), funds[RefundBucket(r)], RefundAmount(r),
             RefundLedgerKey(r))
    BY <1>5 DEF RefundCredit
  <2>3. funds' \in [Buckets \cup {"POINTS"} -> Nat] /\ ledger' \subseteq Row
    BY <1>2, <2>1, <2>2, PostType
  <2>4. lock' \in [Txs -> Requests \cup {Nobody}]
    BY <1>5, UnlockType DEF RefundCredit
  <2> QED BY <1>5, <2>3, <2>4 DEF RefundCredit, Goto, FundsTypeOK, FundsSteps
<1>6. CASE RefundRecord(r)
  <2>1. at' \in [Requests -> FundsSteps] /\ local' \in [Requests -> Local]
    BY <1>6, EndTypes DEF RefundRecord
  <2>2. lock' \in [Txs -> Requests \cup {Nobody}]
    BY <1>6, UnlockType DEF RefundRecord
  <2>3. local[r].refunded + RefundAmount(r) \in Nat
    BY <1>2 DEF FundsTypeOK, Local
  <2>4. refunds' \subseteq RefundKeys
    BY <1>1, <1>6 DEF RefundRecord, FundsTypeOK
  <2>5. tx' \in [Txs -> Tx]
    <3> DEFINE t == RefundTx(r)
               total == local[r].refunded + RefundAmount(r)
               s == IF total >= tx[t].amount THEN "REFUNDED"
                                             ELSE "PARTIALLY_REFUNDED"
               now == IF s = local[r].status THEN tx[t].status ELSE s
    <3>1. tx[t] \in Tx /\ now \in PaymentStatus
      BY <1>2 DEF FundsTypeOK, Tx, PaymentStatus
    <3>2. [tx[t] EXCEPT !.refunded = total, !.status = now] \in Tx
      BY <2>3, <3>1 DEF Tx
    <3>3. \/ UNCHANGED tx
          \/ tx' = [tx EXCEPT ![t] =
                       [tx[t] EXCEPT !.refunded = total, !.status = now]]
      BY <1>2, <1>6 DEF RefundRecord, FundsTypeOK
    <3> QED BY <3>2, <3>3 DEF FundsTypeOK
  <2> QED BY <1>6, <2>1, <2>2, <2>4, <2>5 DEF RefundRecord, FundsTypeOK
<1> QED BY <1>3, <1>4, <1>5, <1>6

\* So do the steps of payments, redemptions and captures under way.
LEMMA PayTypes ==
    ASSUME FInv, NEW r \in Requests,
           \/ IntentOrder(r) \/ PromoCheck(r) \/ PromoPay(r) \/ WalletCheck(r)
           \/ RedeemPoints(r) \/ RedeemCredit(r) \/ SpendPoints(r)
           \/ WalletPay(r) \/ MarkPaid(r) \/ CapturePaid(r) \/ Award(r)
           \/ Crash(r)
    PROVE  FundsTypeOK'
<1> USE FundsAssumption DEF FInv
<1>1. /\ local[r] \in Local /\ job[r] \in Job /\ at[r] \in FundsSteps
      /\ funds["CASH"] \in Nat /\ funds["POINTS"] \in Nat
  BY DEF FundsTypeOK, Buckets
<1>2. NoRowKey \in LedgerKeys
  BY DEF LedgerKeys
<1>3. job[r].kind = "intent" =>
          /\ DeductionKey("PROMO", job[r].key) \in LedgerKeys
          /\ DeductionKey("WALLET", job[r].key) \in LedgerKeys
  BY DEF JobsServe, IntentKeys, LedgerKeys, DeductionKey
<1>4. Settle(r) \in FundsSteps
  BY DEF Settle, FundsSteps
<1>5. CASE IntentOrder(r)
  <2>1. at' \in [Requests -> FundsSteps] /\ local' \in [Requests -> Local]
    BY <1>5, EndTypes DEF IntentOrder
  <2>2. /\ Fare - local[r].promo - local[r].wallet \in Nat
        /\ job[r].key \in IntentKeys
    BY <1>1, <1>5 DEF IntentOrder, JobsServe, IntentSteps, Local
  <2>3. [NoTx EXCEPT !.status = "PENDING", !.key = job[r].key,
            !.amount = Fare - local[r].promo - local[r].wallet] \in Tx
    BY <2>2 DEF NoTx, Tx, PaymentStatus, IntentKeys
  <2>4. tx' \in [Txs -> Tx]
    BY <1>5, <2>3 DEF IntentOrder, FundsTypeOK
  <2> QED BY <1>5, <2>1, <2>4 DEF IntentOrder, FundsTypeOK
<1>6. CASE PromoCheck(r)
  <2>1. (IF local[r].wallet > 0 THEN "wallet" ELSE "paid") \in FundsSteps
    BY DEF FundsSteps
  <2>2. "promoPay" \in FundsSteps
    BY DEF FundsSteps
  <2> QED BY <1>6, <2>1, <2>2, KeyCheckTypes DEF PromoCheck
<1>7. CASE PromoPay(r)
  <2>1. (IF local[r].wallet > 0 THEN "wallet" ELSE "paid") \in FundsSteps
    BY DEF FundsSteps
  <2>2. job[r].kind = "intent" /\ local[r].promo \in Nat
    BY <1>1, <1>7 DEF PromoPay, JobsServe, IntentSteps, Local
  <2> QED BY <1>3, <1>7, <2>1, <2>2, DeductTypes DEF PromoPay, Buckets
<1>8. CASE WalletCheck(r)
  BY <1>8, KeyCheckTypes DEF WalletCheck, FundsSteps
<1>9. CASE RedeemPoints(r)
  <2>1. CASE End(r) /\ UNCHANGED funds
    BY <1>9, <2>1, EndTypes DEF RedeemPoints, FundsTypeOK
  <2>2. CASE /\ funds["POINTS"] >= PointsUsed
             /\ funds' = [funds EXCEPT !["POINTS"] = @ - PointsUsed]
             /\ local' = [local EXCEPT ![r].cash = funds["CASH"]]
             /\ Goto(r, "redeemed")
    <3>1. funds["POINTS"] - PointsUsed \in Nat
      BY <1>1, <2>2
    <3>2. funds' \in [Buckets \cup {"POINTS"} -> Nat]
      BY <2>2, <3>1 DEF FundsTypeOK
    <3>3. local' \in [Requests -> Local]
      BY <1>1, <2>2 DEF FundsTypeOK, Local
    <3> QED BY <1>9, <2>2, <3>2, <3>3 DEF RedeemPoints, FundsTypeOK, Goto, FundsSteps
  <2> QED BY <1>9, <2>1, <2>2 DEF RedeemPoints
<1>10. CASE RedeemCredit(r)
  <2>1. /\ local[r].cash \in Nat /\ PointsUsed \in Int
        /\ local[r].cash + PointsUsed \in Nat
    BY <1>1 DEF Local
  <2>2. funds' \in [Buckets \cup {"POINTS"} -> Nat] /\ ledger' \subseteq Row
    BY <1>2, <1>10, <2>1, PostType DEF RedeemCredit, Buckets
  <2>3. at' \in [Requests -> FundsSteps] /\ local' \in [Requests -> Local]
    BY <1>10, EndTypes DEF RedeemCredit, Goto, FundsTypeOK, FundsSteps
  <2> QED BY <1>10, <2>2, <2>3 DEF RedeemCredit, FundsTypeOK
<1>11. CASE SpendPoints(r)
  <2>1. (IF local[r].wallet > 0 THEN "walletPay" ELSE Settle(r)) \in FundsSteps
    BY <1>4 DEF FundsSteps
  <2> QED BY <1>2, <1>11, <2>1, DeductTypes DEF SpendPoints, Buckets
<1>12. CASE WalletPay(r)
  <2>1. local[r].wallet \in Nat
    BY <1>1 DEF Local
  <2>2. (IF job[r].kind = "intent" THEN DeductionKey("WALLET", job[r].key)
                                   ELSE NoRowKey) \in LedgerKeys
    BY <1>2, <1>3
  <2> QED BY <1>4, <1>12, <2>1, <2>2, DeductTypes DEF WalletPay, Buckets
<1>13. CASE MarkPaid(r)
  BY <1>13, EndTypes DEF MarkPaid, FundsTypeOK
<1>14. CASE CapturePaid(r)
  BY <1>1, <1>14 DEF CapturePaid, Goto, FundsTypeOK, FundsSteps, Local
<1>15. CASE Award(r)
  <2>1. job[r].key \in Txs
    BY <1>15 DEF Award, JobsServe
  <2>2. local[r].points \in Nat /\ tx[job[r].key].amount \in Nat
    BY <1>1, <2>1 DEF FundsTypeOK, Local, Tx
  <2>3. local[r].points + tx[job[r].key].amount \div 10 \in Nat
    BY <2>2
  <2>4. funds' \in [Buckets \cup {"POINTS"} -> Nat]
    BY <1>15, <2>3 DEF Award, FundsTypeOK
  <2> QED BY <1>15, <2>4, EndTypes DEF Award, FundsTypeOK
<1>16. CASE Crash(r)
  BY <1>16, EndTypes, UnlockType DEF Crash, FundsTypeOK
<1> QED BY <1>5, <1>6, <1>7, <1>8, <1>9, <1>10, <1>11, <1>12, <1>13, <1>14,
          <1>15, <1>16

\* The smaller of two amounts.
LEMMA MinPair ==
    ASSUME NEW a \in Nat, NEW b \in Nat
    PROVE  Min({a, b}) \in Nat /\ Min({a, b}) <= a /\ Min({a, b}) <= b
<1>1. \E x \in {a, b} : \A y \in {a, b} : x <= y
  OBVIOUS
<1>2. Min({a, b}) \in {a, b} /\ \A y \in {a, b} : Min({a, b}) <= y
  BY <1>1 DEF Min
<1> QED BY <1>2

\* The split of an intent never exceeds the fare.
LEMMA SplitFits ==
    ASSUME FundsTypeOK,
           NEW promo \in {0, Min({funds["PROMO_CREDIT"], Fare})},
           NEW wallet \in {0, Min({funds["CASH"], Fare - promo})}
    PROVE  promo \in Nat /\ wallet \in Nat /\ promo + wallet <= Fare
<1>1. /\ funds["PROMO_CREDIT"] \in Nat /\ funds["CASH"] \in Nat /\ Fare \in Nat
  BY FundsAssumption DEF FundsTypeOK, Buckets
<1>2. promo \in Nat /\ promo <= Fare
  <2>1. CASE promo = 0
    BY <1>1, <2>1
  <2>2. CASE promo = Min({funds["PROMO_CREDIT"], Fare})
    BY <1>1, <2>2, MinPair
  <2> QED BY <2>1, <2>2
<1>3. Fare - promo \in Nat
  BY <1>1, <1>2
<1>4. wallet \in Nat /\ wallet <= Fare - promo
  <2>1. CASE wallet = 0
    BY <1>3, <2>1
  <2>2. CASE wallet = Min({funds["CASH"], Fare - promo})
    BY <1>1, <1>3, <2>2, MinPair
  <2> QED BY <2>1, <2>2
<1> QED BY <1>1, <1>2, <1>4

\* What an intent works out and does.
LEMMA IntentSplit ==
    ASSUME FundsTypeOK, NEW r \in Requests, NEW p \in IntentKeys,
           PaymentIntent(r, p)
    PROVE  \E promo \in Nat, wallet \in Nat :
               /\ promo + wallet <= Fare
               /\ Begin(r, "intent", p,
                        IF promo + wallet < Fare THEN "order"
                        ELSE IF promo > 0 THEN "promo" ELSE "wallet")
               /\ local' = [local EXCEPT
                      ![r].promo = promo, ![r].wallet = wallet,
                      ![r].cash = funds["CASH"], ![r].ride = ride]
               /\ UNCHANGED <<funds, ledger, tx, lock, refunds, ride>>
<1>1. PICK promo \in {0, Min({funds["PROMO_CREDIT"], Fare})} :
      \E wallet \in {0, Min({funds["CASH"], Fare - promo})} :
         /\ Begin(r, "intent", p,
                  IF promo + wallet < Fare THEN "order"
                  ELSE IF promo > 0 THEN "promo" ELSE "wallet")
         /\ local' = [local EXCEPT
                ![r].promo = promo, ![r].wallet = wallet,
                ![r].cash = funds["CASH"], ![r].ride = ride]
         /\ UNCHANGED <<funds, ledger, tx, lock, refunds, ride>>
  BY DEF PaymentIntent
<1>2. PICK wallet \in {0, Min({funds["CASH"], Fare - promo})} :
         /\ Begin(r, "intent", p,
                  IF promo + wallet < Fare THEN "order"
                  ELSE IF promo > 0 THEN "promo" ELSE "wallet")
         /\ local' = [local EXCEPT
                ![r].promo = promo, ![r].wallet = wallet,
                ![r].cash = funds["CASH"], ![r].ride = ride]
         /\ UNCHANGED <<funds, ledger, tx, lock, refunds, ride>>
  BY <1>1
<1>3. promo \in Nat /\ wallet \in Nat /\ promo + wallet <= Fare
  BY SplitFits
<1> QED BY <1>2, <1>3

\* A request that is received keeps the types.
LEMMA ReceiveTypes ==
    ASSUME FInv, NEW r \in Requests, Receive(r)
    PROVE  FundsTypeOK'
<1> USE FundsAssumption DEF FInv
<1>1. ASSUME NEW k \in RefundKeys, RefundCheck(r, k) PROVE FundsTypeOK'
  <2>1. (IF k \in refunds THEN "done" ELSE "lock") \in FundsSteps
    BY DEF FundsSteps
  <2> QED BY <1>1, <2>1, BeginTypes DEF RefundCheck, FundsTypeOK, Kinds, JobKeys
<1>2. ASSUME NEW p \in IntentKeys, PaymentIntent(r, p) PROVE FundsTypeOK'
  <2>1. PICK promo \in Nat, wallet \in Nat :
           /\ promo + wallet <= Fare
           /\ Begin(r, "intent", p,
                    IF promo + wallet < Fare THEN "order"
                    ELSE IF promo > 0 THEN "promo" ELSE "wallet")
           /\ local' = [local EXCEPT
                  ![r].promo = promo, ![r].wallet = wallet,
                  ![r].cash = funds["CASH"], ![r].ride = ride]
           /\ UNCHANGED <<funds, ledger, tx, lock, refunds, ride>>
    BY <1>2, IntentSplit
  <2>3. (IF promo + wallet < Fare THEN "order"
         ELSE IF promo > 0 THEN "promo" ELSE "wallet") \in FundsSteps
    BY DEF FundsSteps
  <2>4. at' \in [Requests -> FundsSteps] /\ job' \in [Requests -> Job]
    BY <2>1, <2>3, BeginTypes DEF Kinds, JobKeys, IntentKeys
  <2>5. local' \in [Requests -> Local]
    <3>1. /\ local[r] \in Local /\ funds["CASH"] \in Nat
          /\ ride \in {"pending", "paid"}
      BY DEF FundsTypeOK, Buckets
    <3>2. [local[r] EXCEPT !.promo = promo, !.wallet = wallet,
               !.cash = funds["CASH"], !.ride = ride] \in Local
      BY <3>1 DEF Local
    <3>3. local' = [local EXCEPT ![r] =
              [local[r] EXCEPT !.promo = promo, !.wallet = wallet,
                   !.cash = funds["CASH"], !.ride = ride]]
      BY <2>1 DEF FundsTypeOK
    <3> QED BY <3>2, <3>3 DEF FundsTypeOK
  <2> QED BY <2>1, <2>4, <2>5 DEF FundsTypeOK
<1>3. ASSUME NEW t \in Txs, Capture(r, t) PROVE FundsTypeOK'
  <2>1. (IF tx[t].points > 0 THEN "points"
         ELSE IF tx[t].wallet > 0 THEN "walletPay" ELSE "captured") \in FundsSteps
    BY DEF FundsSteps
  <2>2. at' \in [Requests -> FundsSteps] /\ job' \in [Requests -> Job]
    BY <1>3, <2>1, BeginTypes DEF Capture, Kinds, JobKeys
  <2>3. tx[t] \in Tx
    BY DEF FundsTypeOK
  <2>4. local' \in [Requests -> Local]
    <3>1. PICK w \in Nat : local' = [local EXCEPT ![r].wallet = w]
      BY <1>3, <2>3 DEF Capture, Tx
    <3>2. local[r] \in Local
      BY DEF FundsTypeOK
    <3>3. [local[r] EXCEPT !.wallet = w] \in Local
      BY <3>2 DEF Local
    <3>4. local' = [local EXCEPT ![r] = [local[r] EXCEPT !.wallet = w]]
      BY <3>1 DEF FundsTypeOK
    <3> QED BY <3>3, <3>4 DEF FundsTypeOK
  <2>5. [tx[t] EXCEPT !.status = "CAPTURED", !.ref = TRUE] \in Tx
    BY <2>3 DEF Tx, PaymentStatus
  <2>6. tx' = [tx EXCEPT ![t] = [tx[t] EXCEPT !.status = "CAPTURED", !.ref = TRUE]]
    BY <1>3 DEF Capture, FundsTypeOK
  <2>7. tx' \in [Txs -> Tx]
    BY <2>5, <2>6 DEF FundsTypeOK
  <2> QED BY <1>3, <2>2, <2>4, <2>7 DEF Capture, FundsTypeOK
<1>4. ASSUME NEW t \in Txs, PaymentFailed(r, t) PROVE FundsTypeOK'
  <2>1. at' \in [Requests -> FundsSteps] /\ job' \in [Requests -> Job]
    BY <1>4, BeginTypes DEF PaymentFailed, Kinds, JobKeys, FundsSteps
  <2>2. tx' \in [Txs -> Tx]
    <3>1. [tx[t] EXCEPT !.status = "FAILED"] \in Tx
      BY DEF FundsTypeOK, Tx, PaymentStatus
    <3>2. tx' = [tx EXCEPT ![t] = [tx[t] EXCEPT !.status = "FAILED"]]
      BY <1>4 DEF PaymentFailed, FundsTypeOK
    <3> QED BY <3>1, <3>2 DEF FundsTypeOK
  <2> QED BY <1>4, <2>1, <2>2 DEF PaymentFailed, FundsTypeOK
<1>5. CASE CashIntent(r)
  BY <1>5, BeginTypes DEF CashIntent, FundsTypeOK, Kinds, JobKeys, FundsSteps
<1>6. CASE RedeemRequest(r)
  BY <1>6, BeginTypes DEF RedeemRequest, FundsTypeOK, Kinds, JobKeys, FundsSteps
<1>7. CASE WalletPayRequest(r)
  <2>1. at' \in [Requests -> FundsSteps] /\ job' \in [Requests -> Job]
    BY <1>7, BeginTypes DEF WalletPayRequest, Kinds, JobKeys, FundsSteps
  <2>2. local' \in [Requests -> Local]
    <3>1. PICK w \in Nat : local' = [local EXCEPT ![r].wallet = w]
      BY <1>7 DEF WalletPayRequest
    <3> QED BY <3>1 DEF FundsTypeOK, Local
  <2> QED BY <1>7, <2>1, <2>2 DEF WalletPayRequest, FundsTypeOK
<1>8. CASE VerifyTopUp(r)
  <2>1. /\ funds["CASH"] \in Nat /\ TopUp \in Int /\ funds["CASH"] + TopUp \in Nat
        /\ NoRowKey \in LedgerKeys
    BY DEF FundsTypeOK, Buckets, LedgerKeys
  <2>2. funds' \in [Buckets \cup {"POINTS"} -> Nat] /\ ledger' \subseteq Row
    BY <1>8, <2>1, PostType DEF VerifyTopUp, Buckets
  <2> QED BY <1>8, <2>2, BeginTypes
          DEF VerifyTopUp, FundsTypeOK, Kinds, JobKeys, FundsSteps
<1> QED BY <1>1, <1>2, <1>3, <1>4, <1>5, <1>6, <1>7, <1>8 DEF Receive, IntentKeys

-----------------------------------------------------------------------------
(* What requests know. *)

\* A step of one request leaves the others where they are.
LEMMA OnlyOwn ==
    ASSUME FundsTypeOK, NEW r \in Requests,
           Receive(r) \/ Continue(r) \/ Crash(r)
    PROVE  \A q \in Requests \ {r} :
               at'[q] = at[q] /\ job'[q] = job[q] /\ local'[q] = local[q]
<1> SUFFICES ASSUME NEW q \in Requests \ {r}
             PROVE  at'[q] = at[q] /\ job'[q] = job[q] /\ local'[q] = local[q]
  OBVIOUS
<1> USE DEF FundsTypeOK, Begin, Goto, End
<1>1. CASE \E k \in RefundKeys : RefundCheck(r, k)
  BY <1>1 DEF RefundCheck
<1>2. CASE \E p \in PayKeys \cup {NoKey} : PaymentIntent(r, p)
  BY <1>2 DEF PaymentIntent
<1>3. CASE \E t \in Txs : Capture(r, t) \/ PaymentFailed(r, t)
  BY <1>3 DEF Capture, PaymentFailed
<1>4. CASE CashIntent(r) \/ RedeemRequest(r) \/ WalletPayRequest(r) \/ VerifyTopUp(r)
  BY <1>4 DEF CashIntent, RedeemRequest, WalletPayRequest, VerifyTopUp
<1>5. CASE RefundLock(r) \/ RefundCreditCheck(r)
  BY <1>5 DEF RefundLock, RefundCreditCheck, KeyCheck
<1>6. CASE RefundCredit(r) \/ RefundRecord(r)
  BY <1>6 DEF RefundCredit, RefundRecord
<1>7. CASE IntentOrder(r) \/ PromoCheck(r) \/ PromoPay(r) \/ WalletCheck(r)
  BY <1>7 DEF IntentOrder, PromoCheck, PromoPay, WalletCheck, KeyCheck, Deduct
<1>8. CASE RedeemPoints(r) \/ RedeemCredit(r) \/ SpendPoints(r) \/ WalletPay(r)
  BY <1>8 DEF RedeemPoints, RedeemCredit, SpendPoints, WalletPay, Deduct
<1>9. CASE MarkPaid(r) \/ CapturePaid(r) \/ Award(r) \/ Crash(r)
  BY <1>9 DEF MarkPaid, CapturePaid, Award, Crash
<1> QED BY <1>1, <1>2, <1>3, <1>4, <1>5, <1>6, <1>7, <1>8, <1>9
        DEF Receive, Continue

\* What JobsServe says of request r.
Serves(r) ==
    /\ job[r].kind = "intent" => job[r].key \in IntentKeys
    /\ job[r].kind = "capture" => job[r].key \in Txs
    /\ at[r] \in RefundSteps => job[r].key \in RefundKeys
    /\ at[r] \in IntentSteps => job[r].kind = "intent"
    /\ at[r] \in {"captured", "award"} => job[r].kind = "capture"
    /\ at[r] = "order" => local[r].promo + local[r].wallet <= Fare

LEMMA JobsServeStep ==
    ASSUME FInv, NEW r \in Requests, Receive(r) \/ Continue(r) \/ Crash(r)
    PROVE  JobsServe'
<1> USE DEF FInv
<1>1. \A q \in Requests \ {r} : Serves(q)'
  BY OnlyOwn DEF JobsServe, Serves
<1>2. Serves(r)'
  <2>1. ASSUME NEW p \in IntentKeys, PaymentIntent(r, p)
        PROVE  Serves(r)'
    <3>1. PICK promo \in Nat, wallet \in Nat :
             /\ promo + wallet <= Fare
             /\ Begin(r, "intent", p,
                      IF promo + wallet < Fare THEN "order"
                      ELSE IF promo > 0 THEN "promo" ELSE "wallet")
             /\ local' = [local EXCEPT
                    ![r].promo = promo, ![r].wallet = wallet,
                    ![r].cash = funds["CASH"], ![r].ride = ride]
             /\ UNCHANGED <<funds, ledger, tx, lock, refunds, ride>>
      BY <2>1, IntentSplit
    <3> USE DEF FundsTypeOK, Begin, Goto, Serves, IntentKeys, RefundSteps,
                IntentSteps
    <3>2. local'[r].promo = promo /\ local'[r].wallet = wallet
      <4>1. local[r] \in Local
        OBVIOUS
      <4>2. local'[r] = [local[r] EXCEPT !.promo = promo, !.wallet = wallet,
                             !.cash = funds["CASH"], !.ride = ride]
        BY <3>1
      <4> QED BY <4>1, <4>2 DEF Local
    <3>3. /\ job'[r].kind = "intent" /\ job'[r].key = p
          /\ at'[r] \in {"order", "promo", "wallet"}
      BY <3>1
    <3> QED BY <3>1, <3>2, <3>3
  <2> USE DEF FundsTypeOK, Begin, Goto, End, Serves, IntentKeys, RefundSteps,
              IntentSteps
  <2>2. CASE \E k \in RefundKeys : RefundCheck(r, k)
    BY <2>2 DEF RefundCheck
  <2>3. CASE \E t \in Txs : Capture(r, t) \/ PaymentFailed(r, t)
    BY <2>3 DEF Capture, PaymentFailed
  <2>4. CASE CashIntent(r) \/ RedeemRequest(r) \/ WalletPayRequest(r) \/ VerifyTopUp(r)
    BY <2>4 DEF CashIntent, RedeemRequest, WalletPayRequest, VerifyTopUp
  <2>5. Serves(r)
    BY DEF JobsServe
  <2>6. CASE RefundLock(r) \/ RefundCreditCheck(r)
    BY <2>5, <2>6 DEF RefundLock, RefundCreditCheck, KeyCheck, RefundPath
  <2>7. CASE RefundCredit(r) \/ RefundRecord(r)
    BY <2>5, <2>7 DEF RefundCredit, RefundRecord
  <2>8. CASE IntentOrder(r) \/ PromoCheck(r) \/ PromoPay(r) \/ WalletCheck(r)
    BY <2>5, <2>8 DEF IntentOrder, PromoCheck, PromoPay, WalletCheck, KeyCheck,
                      Deduct
  <2>9. CASE RedeemPoints(r) \/ RedeemCredit(r) \/ SpendPoints(r) \/ WalletPay(r)
    BY <2>5, <2>9 DEF RedeemPoints, RedeemCredit, SpendPoints, WalletPay, Deduct,
                      Settle
  <2>10. CASE MarkPaid(r) \/ CapturePaid(r) \/ Award(r) \/ Crash(r)
    BY <2>5, <2>10 DEF MarkPaid, CapturePaid, Award, Crash
  <2> QED BY <2>1, <2>2, <2>3, <2>4, <2>6, <2>7, <2>8, <2>9, <2>10
          DEF Receive, Continue
<1> QED BY <1>1, <1>2 DEF JobsServe, Serves

-----------------------------------------------------------------------------
(* Refunds. *)

\* A step of r that is no part of a refund: r is at none of its steps after
\* it, the locks of others stay, and so do the refunds, the orders as far as
\* refunds look at them, and the refunds' rows in the ledger.
Quiet(r) ==
    /\ at'[r] \notin {"check", "credit", "record"}
    /\ refunds' = refunds
    /\ \A t \in Txs : lock[t] # r => lock'[t] = lock[t]
    /\ \A t \in Txs :
          /\ tx[t].status # "NONE" =>
                tx'[t].status # "NONE" /\ tx'[t].amount = tx[t].amount
          /\ tx'[t].refunded <= tx'[t].amount
    /\ ledger \subseteq ledger'
    /\ \A x \in ledger' \ ledger : \A k \in RefundKeys : x.key # <<"LEDGER", k>>

\* A row of a refund has one of the refund keys.
LEMMA RefundRow ==
    ASSUME NEW x \in Row, x.key[1] = "LEDGER"
    PROVE  \E k \in RefundKeys : x.key = <<"LEDGER", k>>
BY DEF Row, LedgerKeys, NoRowKey

LEMMA QuietStep ==
    ASSUME FInv, NEW r \in Requests, Quiet(r), FundsTypeOK', JobsServe',
           \A q \in Requests \ {r} :
               at'[q] = at[q] /\ job'[q] = job[q] /\ local'[q] = local[q]
    PROVE  RefundInv'
<1> USE DEF FInv, RefundInv
<1>1. ASSUME NEW q \in Requests, at'[q] \in {"check", "credit", "record"}
      PROVE  /\ q # r /\ at[q] = at'[q]
             /\ job'[q] = job[q] /\ local'[q] = local[q]
             /\ job[q].key \in RefundKeys /\ RefundTx(q) \in Txs
             /\ RefundTx(q)' = RefundTx(q) /\ RefundAmount(q)' = RefundAmount(q)
             /\ RefundLedgerKey(q)' = RefundLedgerKey(q)
  <2>1. q # r
    BY <1>1 DEF Quiet
  <2>2. at[q] = at'[q] /\ job'[q] = job[q] /\ local'[q] = local[q]
    BY <2>1
  <2>3. job[q].key \in RefundKeys
    BY <1>1, <2>2 DEF JobsServe, RefundSteps
  <2> QED BY <2>1, <2>2, <2>3, FundsAssumption
          DEF RefundTx, RefundAmount, RefundLedgerKey
<1>2. LocksHeld'
  <2> SUFFICES ASSUME NEW q \in Requests, at'[q] \in {"check", "credit"}
               PROVE  lock'[RefundTx(q)'] = q
    BY DEF LocksHeld
  <2>1. lock[RefundTx(q)] = q
    BY <1>1 DEF LocksHeld
  <2> QED BY <1>1, <2>1 DEF Quiet
<1>3. ReadFits'
  BY <1>1 DEF ReadFits, Quiet
<1>4. CreditPending'
  <2> SUFFICES ASSUME NEW q \in Requests, at'[q] = "credit", NEW x \in ledger'
               PROVE  x.key # RefundLedgerKey(q)'
    BY DEF CreditPending
  <2>1. CASE x \in ledger
    BY <1>1, <2>1 DEF CreditPending
  <2>2. CASE x \notin ledger
    BY <1>1, <2>2 DEF Quiet, RefundLedgerKey
  <2> QED BY <2>1, <2>2
<1>5. \A k \in RefundKeys : Credited(k) => Credited(k)'
  BY DEF Credited, Quiet
<1>6. RecordPending'
  BY <1>1, <1>5 DEF RecordPending
<1>7. RowsFit'
  BY DEF RowsFit, Quiet
<1>8. RefundCreditedOnce'
  <2> SUFFICES ASSUME NEW x \in ledger', NEW y \in ledger', x.key = y.key,
                      x.key[1] = "LEDGER"
               PROVE  x = y
    BY DEF RefundCreditedOnce
  <2>1. PICK k \in RefundKeys : x.key = <<"LEDGER", k>>
    BY RefundRow DEF FundsTypeOK
  <2>2. x \in ledger /\ y \in ledger
    BY <2>1 DEF Quiet
  <2> QED BY <2>2 DEF RefundCreditedOnce
<1>9. RefundRecordCredited'
  BY <1>5 DEF RefundRecordCredited, Credited, Quiet, FundsTypeOK
<1>10. RefundedWithinPayment'
  BY DEF RefundedWithinPayment, Quiet
<1> QED BY <1>2, <1>3, <1>4, <1>6, <1>7, <1>8, <1>9, <1>10

\* Posting adds a row of the given key.
LEMMA PostRows ==
    ASSUME NEW r, NEW b, NEW balance, NEW amount, NEW key,
           Post(r, b, balance, amount, key)
    PROVE  /\ ledger \subseteq ledger'
           /\ \A x \in ledger' \ ledger : x.key = key
BY DEF Post

\* A deduction under a key that is no refund's is quiet.
LEMMA QuietDeduct ==
    ASSUME FInv, NEW r \in Requests, NEW b, NEW amount,
           NEW key, \A k \in RefundKeys : key # <<"LEDGER", k>>,
           NEW next \in FundsSteps \ RefundSteps,
           Deduct(r, b, amount, key, next)
    PROVE  Quiet(r)
<1> USE DEF FInv, RefundInv
<1>1. UNCHANGED <<tx, lock, refunds, ride, job>>
  BY DEF Deduct
<1>2. at'[r] = next \/ at'[r] = "done"
  BY DEF Deduct, Goto, End, FundsTypeOK
<1>3. /\ ledger \subseteq ledger'
      /\ \A x \in ledger' \ ledger : x.key = key
  <2>1. CASE UNCHANGED ledger
    BY <2>1
  <2>2. CASE Post(r, b, LockedBalance(r, b), -amount, key)
    BY <2>2, PostRows
  <2> QED BY <2>1, <2>2 DEF Deduct
<1> QED BY <1>1, <1>2, <1>3 DEF Quiet, RefundSteps, RefundedWithinPayment

\* So is a check on the way to a step of no refund.
LEMMA QuietKeyCheck ==
    ASSUME FInv, NEW r \in Requests, NEW key,
           NEW pay \in FundsSteps \ RefundSteps,
           NEW next \in FundsSteps \ RefundSteps,
           KeyCheck(r, key, pay, next)
    PROVE  Quiet(r)
<1>1. at'[r] \in {pay, next, "done"}
  BY DEF FInv, FundsTypeOK, KeyCheck, Goto, End
<1>2. UNCHANGED <<ledger, tx, refunds>>
  BY DEF KeyCheck
<1>3. \A t \in Txs : lock[t] # r => lock'[t] = lock[t]
  BY DEF KeyCheck, Unlock
<1> QED BY <1>1, <1>2, <1>3 DEF Quiet, RefundSteps, FInv, RefundInv,
                                RefundedWithinPayment

\* Receiving a request is quiet.
LEMMA QuietReceive ==
    ASSUME FInv, NEW r \in Requests, Receive(r)
    PROVE  Quiet(r)
<1> USE DEF FInv, RefundInv
<1>1. ASSUME NEW p \in IntentKeys, PaymentIntent(r, p) PROVE Quiet(r)
  <2>1. PICK promo \in Nat, wallet \in Nat :
           /\ promo + wallet <= Fare
           /\ Begin(r, "intent", p,
                    IF promo + wallet < Fare THEN "order"
                    ELSE IF promo > 0 THEN "promo" ELSE "wallet")
           /\ local' = [local EXCEPT
                  ![r].promo = promo, ![r].wallet = wallet,
                  ![r].cash = funds["CASH"], ![r].ride = ride]
           /\ UNCHANGED <<funds, ledger, tx, lock, refunds, ride>>
    BY <1>1, IntentSplit
  <2>2. at'[r] \in {"order", "promo", "wallet"}
    BY <2>1 DEF Begin, Goto, FundsTypeOK
  <2> QED BY <2>1, <2>2 DEF Quiet, RefundedWithinPayment
<1>2. ASSUME NEW t \in Txs, Capture(r, t) \/ PaymentFailed(r, t) PROVE Quiet(r)
  <2>1. at'[r] \notin {"check", "credit", "record"}
    BY <1>2 DEF Capture, PaymentFailed, Begin, Goto, FundsTypeOK
  <2>2. UNCHANGED <<ledger, lock, refunds>>
    BY <1>2 DEF Capture, PaymentFailed
  <2>3. \A u \in Txs : /\ tx'[u].amount = tx[u].amount
                       /\ tx'[u].refunded = tx[u].refunded
                       /\ tx[u].status # "NONE" => tx'[u].status # "NONE"
    <3>1. CASE Capture(r, t)
      <4>1. tx' = [tx EXCEPT ![t] =
                      [tx[t] EXCEPT !.status = "CAPTURED", !.ref = TRUE]]
        BY <3>1 DEF Capture, FundsTypeOK
      <4>2. tx[t] \in Tx
        BY DEF FundsTypeOK
      <4> QED BY <4>1, <4>2 DEF FundsTypeOK, Tx
    <3>2. CASE PaymentFailed(r, t)
      BY <3>2 DEF PaymentFailed, FundsTypeOK, Tx
    <3> QED BY <1>2, <3>1, <3>2
  <2> QED BY <2>1, <2>2, <2>3 DEF Quiet, RefundedWithinPayment
<1>3. CASE \E k \in RefundKeys : RefundCheck(r, k)
  BY <1>3 DEF RefundCheck, Begin, Goto, FundsTypeOK, Quiet,
              RefundedWithinPayment
<1>4. CASE CashIntent(r) \/ RedeemRequest(r) \/ WalletPayRequest(r)
  BY <1>4 DEF CashIntent, RedeemRequest, WalletPayRequest, Begin, Goto,
              FundsTypeOK, Quiet, RefundedWithinPayment
<1>5. CASE VerifyTopUp(r)
  <2>1. /\ ledger \subseteq ledger'
        /\ \A x \in ledger' \ ledger : x.key = NoRowKey
    BY <1>5, PostRows DEF VerifyTopUp
  <2> QED BY <1>5, <2>1 DEF VerifyTopUp, Begin, Goto, FundsTypeOK, Quiet,
                            RefundedWithinPayment, NoRowKey
<1> QED BY <1>1, <1>2, <1>3, <1>4, <1>5 DEF Receive, IntentKeys

\* So are the steps of payments, redemptions and captures, and a crash.
LEMMA QuietPay ==
    ASSUME FInv, NEW r \in Requests,
           \/ IntentOrder(r) \/ PromoCheck(r) \/ PromoPay(r) \/ WalletCheck(r)
           \/ RedeemPoints(r) \/ RedeemCredit(r) \/ SpendPoints(r)
           \/ WalletPay(r) \/ MarkPaid(r) \/ CapturePaid(r) \/ Award(r)
           \/ Crash(r)
    PROVE  Quiet(r)
<1> DEFINE afterPromo == IF local[r].wallet > 0 THEN "wallet" ELSE "paid"
           afterPoints == IF local[r].wallet > 0 THEN "walletPay" ELSE Settle(r)
<1>0. /\ afterPromo \in FundsSteps \ RefundSteps
      /\ afterPoints \in FundsSteps \ RefundSteps
      /\ Settle(r) \in FundsSteps \ RefundSteps
      /\ {"promoPay", "walletPay", "paid"} \subseteq FundsSteps \ RefundSteps
  BY DEF Settle, FundsSteps, RefundSteps
<1>k. \A k \in RefundKeys :
          /\ <<"LEDGER", k>> # NoRowKey
          /\ <<"LEDGER", k>> # DeductionKey("PROMO", job[r].key)
          /\ <<"LEDGER", k>> # DeductionKey("WALLET", job[r].key)
  BY DEF NoRowKey, DeductionKey
<1>1. CASE IntentOrder(r)
  <2> USE FundsAssumption DEF FInv, RefundInv
  <2>1. CASE UNCHANGED tx
    BY <1>1, <2>1 DEF IntentOrder, End, Goto, FundsTypeOK, Quiet,
                      RefundedWithinPayment
  <2>2. ASSUME NEW t \in Txs, tx[t].status = "NONE",
               tx' = [tx EXCEPT ![t] =
                   [NoTx EXCEPT !.status = "PENDING", !.key = job[r].key,
                        !.amount = Fare - local[r].promo - local[r].wallet]]
        PROVE  Quiet(r)
    <3>1. Fare - local[r].promo - local[r].wallet \in Nat
      BY <1>1 DEF IntentOrder, JobsServe, IntentSteps, FundsTypeOK, Local
    <3>2. tx'[t].refunded <= tx'[t].amount
      BY <2>2, <3>1 DEF NoTx, FundsTypeOK
    <3>3. \A u \in Txs \ {t} : tx'[u] = tx[u]
      BY <2>2 DEF FundsTypeOK
    <3> QED BY <1>1, <2>2, <3>2, <3>3
            DEF IntentOrder, End, Goto, FundsTypeOK, Quiet,
                RefundedWithinPayment
  <2> QED BY <1>1, <2>1, <2>2 DEF IntentOrder
<1>2. CASE PromoCheck(r)
  BY <1>0, <1>2, QuietKeyCheck DEF PromoCheck
<1>3. CASE PromoPay(r)
  BY <1>0, <1>k, <1>3, QuietDeduct DEF PromoPay
<1>4. CASE WalletCheck(r)
  BY <1>0, <1>4, QuietKeyCheck DEF WalletCheck
<1>5. CASE SpendPoints(r)
  BY <1>0, <1>k, <1>5, QuietDeduct DEF SpendPoints
<1>6. CASE WalletPay(r)
  <2>1. CASE job[r].kind = "intent"
    BY <1>0, <1>k, <1>6, <2>1, QuietDeduct DEF WalletPay
  <2>2. CASE job[r].kind # "intent"
    BY <1>0, <1>k, <1>6, <2>2, QuietDeduct DEF WalletPay
  <2> QED BY <2>1, <2>2
<1>7. CASE RedeemCredit(r)
  <2>1. /\ ledger \subseteq ledger'
        /\ \A x \in ledger' \ ledger : x.key = NoRowKey
    BY <1>7, PostRows DEF RedeemCredit
  <2> QED BY <1>7, <2>1 DEF RedeemCredit, End, Goto, FInv, RefundInv, NoRowKey,
                            FundsTypeOK, Quiet, RefundedWithinPayment
<1>8. CASE RedeemPoints(r)
  BY <1>8 DEF RedeemPoints, End, Goto, FInv, RefundInv, FundsTypeOK, Quiet,
              RefundedWithinPayment
<1>9. CASE MarkPaid(r) \/ CapturePaid(r) \/ Award(r)
  BY <1>9 DEF MarkPaid, CapturePaid, Award, End, Goto, FInv, RefundInv,
              FundsTypeOK, Quiet, RefundedWithinPayment
<1>10. CASE Crash(r)
  BY <1>10 DEF Crash, Unlock, End, Goto, FInv, RefundInv, FundsTypeOK, Quiet,
               RefundedWithinPayment
<1> QED BY <1>1, <1>2, <1>3, <1>4, <1>5, <1>6, <1>7, <1>8, <1>9, <1>10

-----------------------------------------------------------------------------
(* The steps of process_refund keep RefundInv. *)

LEMMA RefundAsks ==
    ASSUME FInv, NEW r \in Requests, at[r] \in RefundSteps
    PROVE  /\ job[r].key \in RefundKeys
           /\ RefundTx(r) \in Txs
           /\ RefundAmount(r) \in Nat \ {0}
BY FundsAssumption DEF FInv, JobsServe, RefundTx, RefundAmount

LEMMA LockStep ==
    ASSUME FInv, NEW r \in Requests, RefundLock(r), FundsTypeOK', JobsServe',
           \A q \in Requests \ {r} :
               at'[q] = at[q] /\ job'[q] = job[q] /\ local'[q] = local[q]
    PROVE  RefundInv'
<1>1. CASE End(r) /\ UNCHANGED lock
  <2>1. Quiet(r)
    BY <1>1 DEF RefundLock, End, Goto, FInv, RefundInv, FundsTypeOK, Quiet,
                RefundedWithinPayment
  <2> QED BY <2>1, QuietStep
<1>2. CASE /\ Refundable(RefundTx(r), RefundAmount(r))
           /\ lock' = [lock EXCEPT ![RefundTx(r)] = r]
           /\ local' = [local EXCEPT ![r].refunded = tx[RefundTx(r)].refunded,
                                     ![r].status = tx[RefundTx(r)].status]
           /\ Goto(r, RefundPath(r))
  <2> USE DEF FInv, RefundInv
  <2>1. UNCHANGED <<funds, ledger, tx, refunds, ride, job>> /\ at[r] = "lock"
    BY DEF RefundLock
  <2>2. /\ job[r].key \in RefundKeys
        /\ RefundTx(r) \in Txs
        /\ RefundAmount(r) \in Nat \ {0}
    BY <2>1, RefundAsks DEF RefundSteps
  <2>3. \A q \in Requests : /\ RefundTx(q)' = RefundTx(q)
                            /\ RefundAmount(q)' = RefundAmount(q)
                            /\ RefundLedgerKey(q)' = RefundLedgerKey(q)
    BY <2>1 DEF RefundTx, RefundAmount, RefundLedgerKey
  <2>4. at' = [at EXCEPT ![r] = RefundPath(r)]
    BY <1>2 DEF Goto
  <2>5. at'[r] = RefundPath(r) /\ RefundPath(r) \in {"check", "record"}
    BY <2>4 DEF FundsTypeOK, RefundPath
  <2>6. LocksHeld'
    <3> SUFFICES ASSUME NEW q \in Requests, at'[q] \in {"check", "credit"}
                 PROVE  lock'[RefundTx(q)] = q
      BY <2>3 DEF LocksHeld
    <3>1. CASE q = r
      BY <1>2, <2>2, <3>1 DEF FundsTypeOK
    <3>2. CASE q # r
      <4>1. lock[RefundTx(q)] = q
        BY <2>4, <3>2 DEF LocksHeld
      <4>2. RefundTx(q) # RefundTx(r)
        BY <3>2, <4>1, FundsAssumption DEF RefundLock, LockFree
      <4> QED BY <1>2, <4>1, <4>2 DEF FundsTypeOK
    <3> QED BY <3>1, <3>2
  <2>7. ReadFits'
    <3> SUFFICES ASSUME NEW q \in Requests,
                        at'[q] \in {"check", "credit", "record"}
                 PROVE  /\ tx[RefundTx(q)].status # "NONE"
                        /\ local'[q].refunded + RefundAmount(q)
                              <= tx[RefundTx(q)].amount
      BY <2>1, <2>3 DEF ReadFits
    <3>1. CASE q = r
      <4>1. local[r] \in Local /\ tx[RefundTx(r)] \in Tx
        BY <2>2 DEF FundsTypeOK
      <4>2. local'[r] = [local[r] EXCEPT !.refunded = tx[RefundTx(r)].refunded,
                                         !.status = tx[RefundTx(r)].status]
        BY <1>2 DEF FundsTypeOK
      <4>3. local'[r].refunded = tx[RefundTx(r)].refunded
        BY <4>1, <4>2 DEF Local
      <4> QED BY <1>2, <2>2, <3>1, <4>1, <4>3 DEF Refundable, Tx
    <3>2. CASE q # r
      BY <2>4, <3>2 DEF ReadFits
    <3> QED BY <3>1, <3>2
  <2>8. CreditPending'
    BY <2>1, <2>3, <2>4, <2>5 DEF CreditPending
  <2>9. RecordPending'
    BY <2>1, <2>4, <2>5 DEF RecordPending, Credited, RefundPath
  <2>10. RowsFit' /\ RefundCreditedOnce' /\ RefundRecordCredited'
         /\ RefundedWithinPayment'
    BY <2>1 DEF RowsFit, RefundCreditedOnce, RefundRecordCredited,
                RefundedWithinPayment
  <2> QED BY <2>6, <2>7, <2>8, <2>9, <2>10
<1> QED BY <1>1, <1>2 DEF RefundLock

\* A key found in the ledger was credited with the amount of the refund.
LEMMA CreditCheckStep ==
    ASSUME FInv, NEW r \in Requests, RefundCreditCheck(r), FundsTypeOK'
    PROVE  RefundInv'
<1> USE DEF FInv, RefundInv
<1> DEFINE key == RefundLedgerKey(r)
<1>1. /\ UNCHANGED <<funds, ledger, tx, lock, refunds, ride, job, local>>
      /\ at[r] = "check"
      /\ at' = [at EXCEPT ![r] = IF Journaled(key) THEN "record" ELSE "credit"]
  <2>1. ~Repeated(key)
    BY DEF Repeated, Rows, RefundCreditedOnce, RefundLedgerKey
  <2> QED BY <2>1 DEF RefundCreditCheck, KeyCheck, Goto
<1>2. job[r].key \in RefundKeys
  BY <1>1, RefundAsks DEF RefundSteps
<1>3. \A q \in Requests : /\ RefundTx(q)' = RefundTx(q)
                          /\ RefundAmount(q)' = RefundAmount(q)
                          /\ RefundLedgerKey(q)' = RefundLedgerKey(q)
  BY <1>1 DEF RefundTx, RefundAmount, RefundLedgerKey
<1>4. key # NoRowKey
  BY DEF RefundLedgerKey, NoRowKey
<1>5. LocksHeld'
  BY <1>1, <1>3 DEF LocksHeld, FundsTypeOK
<1>6. ReadFits'
  BY <1>1, <1>3 DEF ReadFits, FundsTypeOK
<1>7. CreditPending'
  <2> SUFFICES ASSUME NEW q \in Requests, at'[q] = "credit", NEW x \in ledger
               PROVE  x.key # RefundLedgerKey(q)
    BY <1>1, <1>3 DEF CreditPending
  <2>1. CASE q = r
    BY <1>1, <1>4, <2>1 DEF Journaled, Rows, FundsTypeOK
  <2>2. CASE q # r
    BY <1>1, <2>2 DEF CreditPending
  <2> QED BY <2>1, <2>2
<1>8. RecordPending'
  <2> SUFFICES ASSUME NEW q \in Requests, at'[q] = "record",
                      RefundOf[job[q].key].to # "ORIGINAL_PAYMENT"
               PROVE  Credited(job[q].key)
    BY <1>1 DEF RecordPending, Credited
  <2>1. CASE q = r
    <3>1. PICK x \in ledger : x.key = <<"LEDGER", job[r].key>>
      BY <1>1, <2>1 DEF Journaled, Rows, FundsTypeOK, RefundLedgerKey
    <3> QED BY <1>2, <2>1, <3>1 DEF RowsFit, Credited
  <2>2. CASE q # r
    BY <1>1, <2>2 DEF RecordPending
  <2> QED BY <2>1, <2>2
<1>9. RowsFit' /\ RefundCreditedOnce' /\ RefundRecordCredited'
      /\ RefundedWithinPayment'
  BY <1>1 DEF RowsFit, RefundCreditedOnce, RefundRecordCredited,
              RefundedWithinPayment
<1> QED BY <1>5, <1>6, <1>7, <1>8, <1>9

\* The lock that the request still holds keeps another request of its key
\* from being at the same step.
LEMMA CreditStep ==
    ASSUME FInv, NEW r \in Requests, RefundCredit(r), FundsTypeOK'
    PROVE  RefundInv'
<1> USE DEF FInv, RefundInv
<1> DEFINE key == RefundLedgerKey(r)
           row == [by |-> r, step |-> at[r], bucket |-> RefundBucket(r),
                   amount |-> RefundAmount(r), key |-> key]
<1>1. /\ UNCHANGED <<tx, refunds, ride, job, local>>
      /\ at[r] = "credit"
      /\ at' = [at EXCEPT ![r] = "record"]
      /\ lock' = [t \in Txs |-> IF lock[t] = r THEN Nobody ELSE lock[t]]
      /\ ledger' = ledger \cup {row}
  BY DEF RefundCredit, Post, Goto, Unlock
<1>2. job[r].key \in RefundKeys /\ RefundTx(r) \in Txs
  BY <1>1, RefundAsks DEF RefundSteps
<1>3. \A q \in Requests : /\ RefundTx(q)' = RefundTx(q)
                          /\ RefundAmount(q)' = RefundAmount(q)
                          /\ RefundLedgerKey(q)' = RefundLedgerKey(q)
  BY <1>1 DEF RefundTx, RefundAmount, RefundLedgerKey
<1>4. row.key = <<"LEDGER", job[r].key>> /\ row.amount = RefundOf[job[r].key].amount
  BY DEF RefundLedgerKey, RefundAmount
<1>5. \A x \in ledger : x.key # key
  BY <1>1 DEF CreditPending
<1>6. \A k \in RefundKeys : Credited(k) => Credited(k)'
  BY <1>1 DEF Credited
<1>7. LocksHeld'
  <2> SUFFICES ASSUME NEW q \in Requests, at'[q] \in {"check", "credit"}
               PROVE  lock'[RefundTx(q)] = q
    BY <1>3 DEF LocksHeld
  <2>1. q # r /\ at[q] = at'[q]
    BY <1>1 DEF FundsTypeOK
  <2>2. RefundTx(q) \in Txs /\ lock[RefundTx(q)] = q
    BY <2>1, RefundAsks DEF LocksHeld, RefundSteps
  <2> QED BY <1>1, <2>1, <2>2
<1>8. ReadFits'
  BY <1>1, <1>3 DEF ReadFits, FundsTypeOK
<1>9. CreditPending'
  <2> SUFFICES ASSUME NEW q \in Requests, at'[q] = "credit", NEW x \in ledger'
               PROVE  x.key # RefundLedgerKey(q)
    BY <1>3 DEF CreditPending
  <2>1. q # r /\ at[q] = "credit"
    BY <1>1 DEF FundsTypeOK
  <2>2. RefundLedgerKey(q) # key
    <3>1. lock[RefundTx(q)] = q /\ lock[RefundTx(r)] = r
      BY <1>1, <2>1 DEF LocksHeld
    <3> QED BY <2>1, <3>1 DEF RefundLedgerKey, RefundTx
  <2> QED BY <1>1, <2>1, <2>2 DEF CreditPending
<1>10. RecordPending'
  <2>1. Credited(job[r].key)'
    BY <1>1, <1>4 DEF Credited
  <2> SUFFICES ASSUME NEW q \in Requests, at'[q] = "record",
                      RefundOf[job[q].key].to # "ORIGINAL_PAYMENT", q # r
               PROVE  Credited(job[q].key)'
    BY <1>1, <2>1 DEF RecordPending
  <2>2. at[q] = "record"
    BY <1>1
  <2>3. job[q].key \in RefundKeys
    BY <2>2, RefundAsks DEF RefundSteps
  <2>4. Credited(job[q].key)
    BY <2>2 DEF RecordPending
  <2> QED BY <1>1, <2>4 DEF Credited
<1>11. RowsFit'
  <2> SUFFICES ASSUME NEW x \in ledger', NEW k \in RefundKeys,
                      x.key = <<"LEDGER", k>>
               PROVE  x.amount = RefundOf[k].amount
    BY DEF RowsFit
  <2>1. CASE x \in ledger
    BY <2>1 DEF RowsFit
  <2>2. CASE x = row
    BY <1>4, <2>2
  <2> QED BY <1>1, <2>1, <2>2
<1>12. RefundCreditedOnce'
  BY <1>1, <1>5 DEF RefundCreditedOnce
<1>13. RefundRecordCredited' /\ RefundedWithinPayment'
  BY <1>1 DEF RefundRecordCredited, RefundedWithinPayment
<1> QED BY <1>7, <1>8, <1>9, <1>10, <1>11, <1>12, <1>13

\* What was read still leaves room for the refund; the key's credit is there.
LEMMA RecordStep ==
    ASSUME FInv, NEW r \in Requests, RefundRecord(r), FundsTypeOK'
    PROVE  RefundInv'
<1> USE DEF FInv, RefundInv
<1> DEFINE t == RefundTx(r)
           total == local[r].refunded + RefundAmount(r)
           s == IF total >= tx[t].amount THEN "REFUNDED"
                                         ELSE "PARTIALLY_REFUNDED"
           now == IF s = local[r].status THEN tx[t].status ELSE s
<1>1. /\ UNCHANGED <<funds, ledger, ride, job>>
      /\ at[r] = "record"
      /\ lock' = [u \in Txs |-> IF lock[u] = r THEN Nobody ELSE lock[u]]
      /\ at' = [at EXCEPT ![r] = "done"]
      /\ local' = [local EXCEPT ![r] = NoLocal]
  BY DEF RefundRecord, Unlock, End, Goto
<1>2. /\ job[r].key \in RefundKeys
      /\ t \in Txs
      /\ RefundAmount(r) \in Nat \ {0}
  BY <1>1, RefundAsks DEF RefundSteps
<1>3. \A q \in Requests : /\ RefundTx(q)' = RefundTx(q)
                          /\ RefundAmount(q)' = RefundAmount(q)
                          /\ RefundLedgerKey(q)' = RefundLedgerKey(q)
  BY <1>1 DEF RefundTx, RefundAmount, RefundLedgerKey
<1>4. tx[t].status # "NONE" /\ total <= tx[t].amount
  BY <1>1 DEF ReadFits
<1>5. tx[t] \in Tx /\ local[r] \in Local
  BY <1>2 DEF FundsTypeOK
<1>6. \A u \in Txs : /\ tx'[u].amount = tx[u].amount
                     /\ tx[u].status # "NONE" => tx'[u].status # "NONE"
                     /\ tx'[u].refunded <= tx'[u].amount
  <2>1. CASE UNCHANGED tx
    BY <2>1 DEF RefundedWithinPayment
  <2>2. CASE tx' = [tx EXCEPT ![t] =
                       [tx[t] EXCEPT !.refunded = total, !.status = now]]
    <3>1. /\ tx'[t] = [tx[t] EXCEPT !.refunded = total, !.status = now]
          /\ \A u \in Txs \ {t} : tx'[u] = tx[u]
      BY <1>2, <2>2 DEF FundsTypeOK
    <3>2. /\ tx'[t].amount = tx[t].amount /\ tx'[t].refunded = total
          /\ tx'[t].status = now
      BY <1>5, <3>1 DEF Tx
    <3>3. now # "NONE"
      BY <1>4
    <3> QED BY <1>4, <3>1, <3>2, <3>3 DEF RefundedWithinPayment
  <2>3. \/ UNCHANGED tx
        \/ tx' = [tx EXCEPT ![t] =
                     [tx[t] EXCEPT !.refunded = total, !.status = now]]
    BY <1>2 DEF RefundRecord, FundsTypeOK
  <2> QED BY <2>1, <2>2, <2>3
<1>7. \A q \in Requests : at'[q] \in RefundSteps => q # r /\ at'[q] = at[q]
  BY <1>1 DEF FundsTypeOK, RefundSteps
<1>8. LocksHeld'
  <2> SUFFICES ASSUME NEW q \in Requests, at'[q] \in {"check", "credit"}
               PROVE  lock'[RefundTx(q)] = q
    BY <1>3 DEF LocksHeld
  <2>1. q # r /\ at[q] = at'[q]
    BY <1>7 DEF RefundSteps
  <2>2. RefundTx(q) \in Txs /\ lock[RefundTx(q)] = q
    BY <2>1, RefundAsks DEF LocksHeld, RefundSteps
  <2> QED BY <1>1, <2>1, <2>2
<1>9. ReadFits'
  <2> SUFFICES ASSUME NEW q \in Requests,
                      at'[q] \in {"check", "credit", "record"}
               PROVE  /\ tx'[RefundTx(q)].status # "NONE"
                      /\ local'[q].refunded + RefundAmount(q)
                            <= tx'[RefundTx(q)].amount
    BY <1>3 DEF ReadFits
  <2>1. q # r /\ at[q] = at'[q]
    BY <1>7 DEF RefundSteps
  <2>2. RefundTx(q) \in Txs
    BY <2>1, RefundAsks DEF RefundSteps
  <2>3. local'[q] = local[q]
    BY <1>1, <2>1 DEF FundsTypeOK
  <2> QED BY <1>6, <2>1, <2>2, <2>3 DEF ReadFits
<1>10. CreditPending'
  BY <1>1, <1>3, <1>7 DEF CreditPending, RefundSteps
<1>11. RecordPending'
  BY <1>1, <1>7 DEF RecordPending, Credited, RefundSteps
<1>12. RowsFit' /\ RefundCreditedOnce'
  BY <1>1 DEF RowsFit, RefundCreditedOnce
<1>13. RefundRecordCredited'
  <2> SUFFICES ASSUME NEW k \in refunds', RefundOf[k].to # "ORIGINAL_PAYMENT"
               PROVE  Credited(k)
    BY <1>1 DEF RefundRecordCredited, Credited
  <2>1. CASE k \in refunds
    BY <2>1 DEF RefundRecordCredited, Credited
  <2>2. CASE k = job[r].key
    BY <1>1, <2>2 DEF RecordPending
  <2> QED BY <2>1, <2>2 DEF RefundRecord
<1>14. RefundedWithinPayment'
  BY <1>6 DEF RefundedWithinPayment
<1> QED BY <1>8, <1>9, <1>10, <1>11, <1>12, <1>13, <1>14

-----------------------------------------------------------------------------
(* The sums of the ledger and of the refunds. *)

\* What ledger rows come to, and what the refunds of some keys come to.
Total(rows) == MapThenSumSet(LAMBDA x : x.amount, rows)

Asked(keys) == MapThenSumSet(LAMBDA k : RefundOf[k].amount, keys)

LEMMA TotalUnfold ==
    ASSUME NEW S, IsFiniteSet(S)
    PROVE  \E g : Sums(g, S, [x \in S |-> x.amount]) /\ Total(S) = g[S]
<1> DEFINE w == [x \in S |-> x.amount]
           Body(g) == [s \in SUBSET S |->
                          IF s = {} THEN 0
                          ELSE LET x == CHOOSE y \in s : TRUE
                               IN  x.amount + g[s \ {x}]]
           Taken(g) == [s \in SUBSET S |->
                           IF s = {} THEN 0
                           ELSE w[Pick(s)] + g[s \ {Pick(s)}]]
           G == CHOOSE g : g = Body(g)
<1>1. Total(S) = G[S]
    BY DEF Total, MapThenSumSet, MapThenFoldSet
<1>2. ASSUME NEW g PROVE Body(g) = Taken(g)
  <2>1. \A s \in SUBSET S : s # {} => Pick(s) \in S
    BY DEF Pick
  <2> QED BY <2>1 DEF Pick
<1>3. \E g : Sums(g, S, w)
    BY SumsExist
<1>4. ASSUME NEW g PROVE Sums(g, S, w) <=> g = Taken(g)
    BY DEF Sums
<1> HIDE DEF Body, Taken, w
<1>5. G = Body(G)
  <2>1. \E g : g = Body(g)
    BY <1>2, <1>3, <1>4
  <2> QED BY <2>1
<1>6. Sums(G, S, w)
    BY <1>2, <1>4, <1>5
<1> HIDE DEF G
<1> QED BY <1>1, <1>6 DEF w

LEMMA AskedUnfold ==
    ASSUME NEW S, IsFiniteSet(S)
    PROVE  \E g : /\ Sums(g, S, [k \in S |-> RefundOf[k].amount])
                  /\ Asked(S) = g[S]
<1> DEFINE w == [k \in S |-> RefundOf[k].amount]
           Body(g) == [s \in SUBSET S |->
                          IF s = {} THEN 0
                          ELSE LET x == CHOOSE y \in s : TRUE
                               IN  RefundOf[x].amount + g[s \ {x}]]
           Taken(g) == [s \in SUBSET S |->
                           IF s = {} THEN 0
                           ELSE w[Pick(s)] + g[s \ {Pick(s)}]]
           G == CHOOSE g : g = Body(g)
<1>1. Asked(S) = G[S]
    BY DEF Asked, MapThenSumSet, MapThenFoldSet
<1>2. ASSUME NEW g PROVE Body(g) = Taken(g)
  <2>1. \A s \in SUBSET S : s # {} => Pick(s) \in S
    BY DEF Pick
  <2> QED BY <2>1 DEF Pick
<1>3. \E g : Sums(g, S, w)
    BY SumsExist
<1>4. ASSUME NEW g PROVE Sums(g, S, w) <=> g = Taken(g)
    BY DEF Sums
<1> HIDE DEF Body, Taken, w
<1>5. G = Body(G)
  <2>1. \E g : g = Body(g)
    BY <1>2, <1>3, <1>4
  <2> QED BY <2>1
<1>6. Sums(G, S, w)
    BY <1>2, <1>4, <1>5
<1> HIDE DEF G
<1> QED BY <1>1, <1>6 DEF w

\* A row more adds its amount.
LEMMA TotalAdd ==
    ASSUME NEW S, IsFiniteSet(S), NEW x, x \notin S,
           \A y \in S \cup {x} : y.amount \in Int
    PROVE  /\ Total(S) \in Int
           /\ Total(S \cup {x}) = Total(S) + x.amount
<1> DEFINE T == S \cup {x}
           v == [y \in S |-> y.amount]
           w == [y \in T |-> y.amount]
<1>1. \E g : Sums(g, S, v) /\ Total(S) = g[S]
    BY TotalUnfold
<1>2. IsFiniteSet(T)
    BY FS_AddElement
<1>3. \E h : Sums(h, T, w) /\ Total(T) = h[T]
    BY <1>2, TotalUnfold
<1>4. /\ \A y \in T : w[y] \in Int
      /\ \A y \in S : v[y] = w[y] /\ v[y] \in Int
      /\ w[x] = x.amount
    OBVIOUS
<1>5. T = S \cup {x} /\ S \in SUBSET S
    OBVIOUS
<1> HIDE DEF T, v, w
<1>6. PICK g : Sums(g, S, v) /\ Total(S) = g[S]
    BY <1>1
<1>7. PICK h : Sums(h, T, w) /\ Total(T) = h[T]
    BY <1>3
<1>8. h[T] = g[S] + w[x]
    BY <1>4, <1>5, <1>6, <1>7, SumsAdd
<1>9. g[S] \in Int
    BY <1>4, <1>5, <1>6, SumsInt
<1> QED BY <1>4, <1>5, <1>6, <1>7, <1>8, <1>9

LEMMA TotalEmpty == Total({}) = 0
<1> DEFINE w == [y \in {} |-> y.amount]
<1>1. \E f : Sums(f, {}, w) /\ Total({}) = f[{}]
    BY FS_EmptySet, TotalUnfold
<1> HIDE DEF w
<1>2. PICK f : Sums(f, {}, w) /\ Total({}) = f[{}]
    BY <1>1
<1>3. f[{}] = 0
  <2>1. {} \in SUBSET {}
    OBVIOUS
  <2>2. {} = {} => f[{}] = 0
    BY <1>2, <2>1, SumUnfold
  <2> QED BY <2>2
<1> QED BY <1>2, <1>3

\* So does a key more.
LEMMA AskedAdd ==
    ASSUME NEW S, IsFiniteSet(S), S \subseteq RefundKeys,
           NEW k \in RefundKeys, k \notin S
    PROVE  Asked(S \cup {k}) = Asked(S) + RefundOf[k].amount
<1> DEFINE T == S \cup {k}
           v == [y \in S |-> RefundOf[y].amount]
           w == [y \in T |-> RefundOf[y].amount]
<1>1. \E g : Sums(g, S, v) /\ Asked(S) = g[S]
    BY AskedUnfold
<1>2. IsFiniteSet(T)
    BY FS_AddElement
<1>3. \E h : Sums(h, T, w) /\ Asked(T) = h[T]
    BY <1>2, AskedUnfold
<1>4. /\ \A y \in T : w[y] \in Int
      /\ \A y \in S : v[y] = w[y]
      /\ w[k] = RefundOf[k].amount
    BY FundsAssumption
<1>5. T = S \cup {k}
    OBVIOUS
<1> HIDE DEF T, v, w
<1>6. PICK g : Sums(g, S, v) /\ Asked(S) = g[S]
    BY <1>1
<1>7. PICK h : Sums(h, T, w) /\ Asked(T) = h[T]
    BY <1>3
<1>8. h[T] = g[S] + w[k]
    BY <1>4, <1>5, <1>6, <1>7, SumsAdd
<1> QED BY <1>4, <1>5, <1>6, <1>7, <1>8

LEMMA AskedNat ==
    ASSUME NEW S, IsFiniteSet(S), S \subseteq RefundKeys
    PROVE  Asked(S) \in Nat
<1> DEFINE w == [y \in S |-> RefundOf[y].amount]
<1>1. PICK g : Sums(g, S, w) /\ Asked(S) = g[S]
    BY AskedUnfold
<1>2. \A y \in S : w[y] \in Nat
    BY FundsAssumption
<1>3. S \in SUBSET S
    OBVIOUS
<1> HIDE DEF w
<1>4. g[S] \in Nat
    BY <1>1, <1>2, <1>3, SumsNat
<1> QED BY <1>1, <1>4

LEMMA JournalIs ==
    ASSUME NEW b
    PROVE  /\ Journal(b) = Total({x \in ledger : x.bucket = b})
           /\ Journal(b)' = Total({x \in ledger' : x.bucket = b})
BY DEF Journal, Total, MapThenSumSet, MapThenFoldSet

LEMMA RecordedIs ==
    ASSUME NEW t
    PROVE  /\ RecordedRefunds(t) = Asked({k \in refunds : RefundOf[k].tx = t})
           /\ RecordedRefunds(t)' = Asked({k \in refunds' : RefundOf[k].tx = t})
BY DEF RecordedRefunds, Asked, MapThenSumSet, MapThenFoldSet

\* How far a request at a step has come.
Rank(step) ==
    IF step = "idle" THEN 0
    ELSE IF step \in {"lock", "order", "promo", "points"} THEN 1
    ELSE IF step \in {"check", "promoPay", "redeemed"} THEN 2
    ELSE IF step \in {"credit", "wallet", "spend"} THEN 3
    ELSE IF step \in {"record", "walletPay"} THEN 4
    ELSE IF step \in {"paid", "captured"} THEN 5
    ELSE IF step = "award" THEN 6
    ELSE 7

\* A row was posted at a step its request has left for good, so the row a
\* request posts next is another one.
RowsPast == \A x \in ledger : Rank(x.step) < Rank(at[x.by])

\* What a refund has read as refunded has its CustomerRefund rows.
ReadRecorded ==
    \A r \in Requests :
        at[r] \in {"check", "credit", "record"} =>
            local[r].refunded <= RecordedRefunds(RefundTx(r))

SumsInv ==
    /\ IsFiniteSet(ledger)
    /\ RowsPast
    /\ LedgerExplainsFunds
    /\ IsFiniteSet(refunds)
    /\ ReadRecorded
    /\ RefundedHasRecords

\* A request never comes back to a step.
LEMMA RankRises ==
    ASSUME FInv, NEW r \in Requests, Receive(r) \/ Continue(r) \/ Crash(r)
    PROVE  Rank(at[r]) < Rank(at'[r])
<1> USE DEF FInv, FundsTypeOK, Begin, Goto, End, Rank
<1>1. CASE \E k \in RefundKeys : RefundCheck(r, k)
  BY <1>1 DEF RefundCheck
<1>2. CASE \E p \in PayKeys \cup {NoKey} : PaymentIntent(r, p)
  BY <1>2 DEF PaymentIntent
<1>3. CASE \E t \in Txs : Capture(r, t) \/ PaymentFailed(r, t)
  BY <1>3 DEF Capture, PaymentFailed
<1>4. CASE CashIntent(r) \/ RedeemRequest(r) \/ WalletPayRequest(r) \/ VerifyTopUp(r)
  BY <1>4 DEF CashIntent, RedeemRequest, WalletPayRequest, VerifyTopUp
<1>5. CASE RefundLock(r) \/ RefundCreditCheck(r)
  BY <1>5 DEF RefundLock, RefundCreditCheck, KeyCheck, RefundPath
<1>6. CASE RefundCredit(r) \/ RefundRecord(r)
  BY <1>6 DEF RefundCredit, RefundRecord
<1>7. CASE IntentOrder(r) \/ PromoCheck(r) \/ PromoPay(r) \/ WalletCheck(r)
  BY <1>7 DEF IntentOrder, PromoCheck, PromoPay, WalletCheck, KeyCheck, Deduct
<1>8. CASE RedeemPoints(r) \/ RedeemCredit(r) \/ SpendPoints(r) \/ WalletPay(r)
  BY <1>8 DEF RedeemPoints, RedeemCredit, SpendPoints, WalletPay, Deduct, Settle
<1>9. CASE MarkPaid(r) \/ CapturePaid(r) \/ Award(r)
  BY <1>9 DEF MarkPaid, CapturePaid, Award
<1>10. CASE Crash(r)
  BY <1>10 DEF Crash, FundsSteps
<1> QED BY <1>1, <1>2, <1>3, <1>4, <1>5, <1>6, <1>7, <1>8, <1>9, <1>10
        DEF Receive, Continue

\* A step posts one row, from the balance it finds or, in a redemption, from
\* the one it has read; or it leaves the ledger and both balances alone.
Posts(r) ==
    \E balance, key :
        \E b \in Buckets, amount \in Int :
            /\ Post(r, b, balance, amount, key)
            /\ balance = funds[b] \/ (b = "CASH" /\ at[r] = "redeemed")

PostsNothing ==
    /\ ledger' = ledger
    /\ \A b \in Buckets : funds'[b] = funds[b]

LEMMA DeductPosts ==
    ASSUME NEW r \in Requests, NEW b \in Buckets, NEW amount \in Nat, NEW key,
           NEW next, Deduct(r, b, amount, key, next)
    PROVE  Posts(r) \/ PostsNothing
<1>1. CASE Post(r, b, LockedBalance(r, b), -amount, key)
  <2>1. -amount \in Int
    OBVIOUS
  <2> QED BY <1>1, <2>1 DEF Posts, LockedBalance
<1>2. CASE UNCHANGED <<funds, ledger>>
  BY <1>2 DEF PostsNothing
<1> QED BY <1>1, <1>2 DEF Deduct

LEMMA LedgerSteps ==
    ASSUME FInv, NEW r \in Requests, Receive(r) \/ Continue(r) \/ Crash(r)
    PROVE  Posts(r) \/ PostsNothing
<1> USE DEF FInv, FundsTypeOK
<1>0. /\ local[r].promo \in Nat /\ local[r].wallet \in Nat
      /\ {"CASH", "PROMO_CREDIT"} \subseteq Buckets
      /\ PointsUsed \in Nat /\ TopUp \in Int /\ PointsUsed \in Int
  BY FundsAssumption DEF Local, Buckets
<1>1. CASE UNCHANGED <<funds, ledger>>
  BY <1>1 DEF PostsNothing
<1>2. CASE VerifyTopUp(r)
  BY <1>0, <1>2 DEF VerifyTopUp, Posts
<1>3. CASE RefundCredit(r)
  <2>1. RefundAmount(r) \in Int /\ RefundBucket(r) \in Buckets
    BY <1>3, RefundAsks DEF RefundCredit, RefundSteps, RefundBucket, Buckets
  <2> QED BY <1>3, <2>1 DEF RefundCredit, Posts
<1>4. CASE RedeemCredit(r)
  BY <1>0, <1>4 DEF RedeemCredit, Posts
<1>5. CASE PromoPay(r)
  BY <1>0, <1>5, DeductPosts DEF PromoPay
<1>6. CASE SpendPoints(r)
  BY <1>0, <1>6, DeductPosts DEF SpendPoints
<1>7. CASE WalletPay(r)
  BY <1>0, <1>7, DeductPosts DEF WalletPay
<1>8. CASE RedeemPoints(r) \/ Award(r)
  BY <1>8 DEF RedeemPoints, Award, PostsNothing, Buckets
<1>9. \/ UNCHANGED <<funds, ledger>>
      \/ VerifyTopUp(r) \/ RefundCredit(r) \/ RedeemCredit(r) \/ PromoPay(r)
      \/ SpendPoints(r) \/ WalletPay(r) \/ RedeemPoints(r) \/ Award(r)
  BY DEF Receive, Continue, Crash, RefundCheck, PaymentIntent, Capture,
         PaymentFailed, CashIntent, RedeemRequest, WalletPayRequest,
         RefundLock, RefundCreditCheck, RefundRecord, IntentOrder, PromoCheck,
         WalletCheck, MarkPaid, CapturePaid, KeyCheck
<1> QED BY <1>1, <1>2, <1>3, <1>4, <1>5, <1>6, <1>7, <1>8, <1>9

\* The row posted is a new one, so the journal of its bucket grows by its
\* amount, and so does the balance.
LEMMA LedgerStep ==
    ASSUME FInv, SumsInv, NEW r \in Requests,
           Receive(r) \/ Continue(r) \/ Crash(r), FundsTypeOK'
    PROVE  IsFiniteSet(ledger)' /\ RowsPast' /\ LedgerExplainsFunds'
<1> USE DEF FInv, SumsInv
<1>1. Rank(at[r]) < Rank(at'[r])
  BY RankRises
<1>2. \A q \in Requests \ {r} : at'[q] = at[q]
  BY OnlyOwn
<1>3. \A step : Rank(step) \in Nat
  BY DEF Rank
<1>4. \A x \in ledger : x.by \in Requests /\ Rank(x.step) < Rank(at'[x.by])
  <2> SUFFICES ASSUME NEW x \in ledger
               PROVE  x.by \in Requests /\ Rank(x.step) < Rank(at'[x.by])
    OBVIOUS
  <2>1. x.by \in Requests
    BY DEF FundsTypeOK, Row
  <2>2. Rank(x.step) < Rank(at[x.by])
    BY DEF RowsPast
  <2>3. CASE x.by = r
    BY <1>1, <1>3, <2>2, <2>3
  <2>4. CASE x.by # r
    BY <1>2, <2>1, <2>2, <2>4
  <2> QED BY <2>1, <2>3, <2>4
<1>5. CASE PostsNothing
  <2>1. ledger' = ledger /\ funds'["CASH"] = funds["CASH"]
        /\ funds'["PROMO_CREDIT"] = funds["PROMO_CREDIT"]
    BY <1>5 DEF PostsNothing, Buckets
  <2>2. \A b : Journal(b)' = Journal(b)
    BY <2>1, JournalIs
  <2>3. LedgerExplainsFunds'
    BY <2>1, <2>2 DEF LedgerExplainsFunds
  <2> QED BY <1>4, <2>1, <2>3 DEF RowsPast
<1>6. CASE Posts(r)
  <2>0. PICK balance, key :
           \E b \in Buckets, amount \in Int :
               /\ Post(r, b, balance, amount, key)
               /\ balance = funds[b] \/ (b = "CASH" /\ at[r] = "redeemed")
    BY <1>6 DEF Posts
  <2>1. PICK b \in Buckets, amount \in Int :
           /\ Post(r, b, balance, amount, key)
           /\ balance = funds[b] \/ (b = "CASH" /\ at[r] = "redeemed")
    BY <2>0
  <2> DEFINE row == [by |-> r, step |-> at[r], bucket |-> b,
                     amount |-> amount, key |-> key]
             In(c) == {x \in ledger : x.bucket = c}
  <2>2. /\ row.by = r /\ row.step = at[r] /\ row.bucket = b
        /\ row.amount = amount
    OBVIOUS
  <2>3. /\ ledger' = ledger \cup {row}
        /\ funds' = [funds EXCEPT ![b] = balance + amount]
    BY <2>1 DEF Post
  <2> HIDE DEF row
  <2>4. row \notin ledger
    <3>1. ~(Rank(at[r]) < Rank(at[r]))
      BY <1>3
    <3> QED BY <2>2, <3>1 DEF RowsPast
  <2>5. IsFiniteSet(ledger')
    BY <2>3, FS_AddElement
  <2>6. RowsPast'
    BY <1>1, <1>4, <2>2, <2>3 DEF RowsPast
  <2>7. Journal(b)' = Journal(b) + amount
    <3>1. {x \in ledger' : x.bucket = b} = In(b) \cup {row}
      BY <2>2, <2>3
    <3>2. IsFiniteSet(In(b)) /\ row \notin In(b)
      BY <2>4, FS_Subset
    <3>3. \A y \in In(b) \cup {row} : y.amount \in Int
      BY <2>2 DEF FundsTypeOK, Row
    <3> HIDE DEF In
    <3>4. Total(In(b) \cup {row}) = Total(In(b)) + row.amount
      BY <3>2, <3>3, TotalAdd
    <3>5. Journal(b) = Total(In(b))
      BY JournalIs DEF In
    <3>6. Journal(b)' = Total({x \in ledger' : x.bucket = b})
      BY JournalIs
    <3> QED BY <2>2, <3>1, <3>4, <3>5, <3>6
  <2>8. ASSUME NEW c, c # b PROVE Journal(c)' = Journal(c)
    <3>1. {x \in ledger' : x.bucket = c} = In(c)
      BY <2>2, <2>3, <2>8
    <3> QED BY <3>1, JournalIs
  <2>9. /\ Journal(b) \in Int /\ AtStart[b] \in Int
        /\ \A c \in Buckets : c # b => funds'[c] = funds[c]
        /\ funds'[b] = balance + amount
    <3>1. IsFiniteSet(In(b))
      BY FS_Subset
    <3>2. \A y \in In(b) : y.amount \in Int
      BY DEF FundsTypeOK, Row
    <3> HIDE DEF In
    <3>3. Total(In(b)) \in Int
      <4>1. PICK z : z \notin In(b) /\ z.amount \in Int
        BY <2>2, <2>4 DEF In
      <4> QED BY <3>1, <3>2, <4>1, TotalAdd
    <3>4. Journal(b) \in Int
      BY <3>3, JournalIs DEF In
    <3> QED BY <2>3, <3>4, FundsAssumption DEF FundsTypeOK, Buckets
  <2>10. LedgerExplainsFunds'
    <3>1. \A x \in ledger : x \in ledger'
      BY <2>3
    <3>2. CASE b = "PROMO_CREDIT"
      <4>1. balance = funds["PROMO_CREDIT"]
        BY <2>1, <3>2
      <4>2. funds'["PROMO_CREDIT"]
              = AtStart["PROMO_CREDIT"] + Journal("PROMO_CREDIT")'
        BY <2>7, <2>9, <3>2, <4>1 DEF LedgerExplainsFunds
      <4>3. /\ Journal("CASH")' = Journal("CASH")
            /\ funds'["CASH"] = funds["CASH"]
        BY <2>8, <2>9, <3>2 DEF Buckets
      <4> QED BY <3>1, <4>2, <4>3 DEF LedgerExplainsFunds
    <3>3. CASE b = "CASH"
      <4>1. /\ Journal("PROMO_CREDIT")' = Journal("PROMO_CREDIT")
            /\ funds'["PROMO_CREDIT"] = funds["PROMO_CREDIT"]
        BY <2>8, <2>9, <3>3 DEF Buckets
      <4>2. CASE at[r] = "redeemed"
        BY <2>2, <2>3, <4>1, <4>2 DEF LedgerExplainsFunds
      <4>3. CASE balance = funds["CASH"]
        <5>1. (\A x \in ledger : x.step # "redeemed") =>
                 funds'["CASH"] = AtStart["CASH"] + Journal("CASH")'
          BY <2>7, <2>9, <3>3, <4>3 DEF LedgerExplainsFunds
        <5> QED BY <3>1, <4>1, <5>1 DEF LedgerExplainsFunds
      <4> QED BY <2>1, <3>3, <4>2, <4>3
    <3> QED BY <3>2, <3>3 DEF Buckets
  <2> QED BY <2>5, <2>6, <2>10
<1> QED BY <1>5, <1>6, LedgerSteps

\* A refund's record adds its amount to those of its order.
LEMMA RecordedGrows ==
    ASSUME IsFiniteSet(refunds), refunds \subseteq RefundKeys,
           NEW k \in RefundKeys, k \notin refunds, refunds' = refunds \cup {k}
    PROVE  /\ IsFiniteSet(refunds')
           /\ RecordedRefunds(RefundOf[k].tx)'
                 = RecordedRefunds(RefundOf[k].tx) + RefundOf[k].amount
           /\ \A t : t # RefundOf[k].tx => RecordedRefunds(t)' = RecordedRefunds(t)
<1> DEFINE Of(t) == {j \in refunds : RefundOf[j].tx = t}
           u == RefundOf[k].tx
<1>1. IsFiniteSet(refunds')
  BY FS_AddElement
<1>2. RecordedRefunds(u)' = RecordedRefunds(u) + RefundOf[k].amount
  <2>1. {j \in refunds' : RefundOf[j].tx = u} = Of(u) \cup {k}
    OBVIOUS
  <2>2. IsFiniteSet(Of(u)) /\ k \notin Of(u) /\ Of(u) \subseteq RefundKeys
    BY FS_Subset
  <2> HIDE DEF Of, u
  <2>3. Asked(Of(u) \cup {k}) = Asked(Of(u)) + RefundOf[k].amount
    BY <2>2, AskedAdd
  <2>4. RecordedRefunds(u) = Asked(Of(u))
    BY RecordedIs DEF Of
  <2>5. RecordedRefunds(u)' = Asked({j \in refunds' : RefundOf[j].tx = u})
    BY RecordedIs
  <2> QED BY <2>1, <2>3, <2>4, <2>5
<1>3. ASSUME NEW t, t # u PROVE RecordedRefunds(t)' = RecordedRefunds(t)
  <2>1. {j \in refunds' : RefundOf[j].tx = t} = Of(t)
    BY <1>3
  <2> QED BY <2>1, RecordedIs
<1> QED BY <1>1, <1>2, <1>3

LEMMA RecordedNat ==
    ASSUME FundsTypeOK, IsFiniteSet(refunds), NEW t
    PROVE  RecordedRefunds(t) \in Nat
<1> DEFINE keys == {k \in refunds : RefundOf[k].tx = t}
<1>1. IsFiniteSet(keys) /\ keys \subseteq RefundKeys
  BY FS_Subset DEF FundsTypeOK
<1>2. RecordedRefunds(t) = Asked(keys)
  BY RecordedIs
<1> HIDE DEF keys
<1> QED BY <1>1, <1>2, AskedNat

\* No other step counts anything as refunded.
LEMMA RefundedSteps ==
    ASSUME FInv, NEW r \in Requests, Receive(r) \/ Continue(r) \/ Crash(r),
           ~RefundRecord(r)
    PROVE  /\ refunds' = refunds
           /\ \A t \in Txs : tx'[t].refunded \in {tx[t].refunded, 0}
<1> USE DEF FInv, FundsTypeOK
<1>1. CASE UNCHANGED <<tx, refunds>>
  BY <1>1
<1>2. ASSUME NEW t \in Txs, Capture(r, t) \/ PaymentFailed(r, t)
      PROVE  /\ refunds' = refunds
             /\ \A u \in Txs : tx'[u].refunded \in {tx[u].refunded, 0}
  <2>1. refunds' = refunds
    BY <1>2 DEF Capture, PaymentFailed
  <2>2. tx[t] \in Tx
    OBVIOUS
  <2>3. CASE tx' = [tx EXCEPT ![t] =
                       [tx[t] EXCEPT !.status = "CAPTURED", !.ref = TRUE]]
    BY <2>1, <2>2, <2>3 DEF Tx
  <2>4. CASE tx' = [tx EXCEPT ![t] = [tx[t] EXCEPT !.status = "FAILED"]]
    BY <2>1, <2>2, <2>4 DEF Tx
  <2> QED BY <1>2, <2>3, <2>4 DEF Capture, PaymentFailed
<1>3. CASE IntentOrder(r)
  <2>1. CASE UNCHANGED tx
    BY <1>3, <2>1 DEF IntentOrder
  <2>2. CASE \E t \in Txs :
                tx' = [tx EXCEPT ![t] =
                      [NoTx EXCEPT !.status = "PENDING", !.key = job[r].key,
                           !.amount = Fare - local[r].promo - local[r].wallet]]
    BY <1>3, <2>2 DEF IntentOrder, NoTx
  <2> QED BY <1>3, <2>1, <2>2 DEF IntentOrder
<1>4. \/ UNCHANGED <<tx, refunds>> \/ IntentOrder(r)
      \/ \E t \in Txs : Capture(r, t) \/ PaymentFailed(r, t)
  BY DEF Receive, Continue, Crash, RefundCheck, PaymentIntent, CashIntent,
         RedeemRequest, WalletPayRequest, VerifyTopUp, RefundLock,
         RefundCreditCheck, RefundCredit, PromoCheck, PromoPay, WalletCheck,
         RedeemPoints, RedeemCredit, SpendPoints, WalletPay, MarkPaid,
         CapturePaid, Award, KeyCheck, Deduct
<1> QED BY <1>1, <1>2, <1>3, <1>4

\* What a refund has read is read under the lock, and stays as it was read.
LEMMA ReadSteps ==
    ASSUME FInv, NEW r \in Requests, Receive(r) \/ Continue(r) \/ Crash(r),
           at'[r] \in {"check", "credit", "record"}
    PROVE  \/ /\ RefundLock(r) /\ RefundTx(r) \in Txs
              /\ local'[r].refunded = tx[RefundTx(r)].refunded
              /\ job' = job
           \/ /\ at[r] \in {"check", "credit"}
              /\ local' = local /\ job' = job
<1> USE DEF FInv
<1>1. CASE Receive(r)
  BY <1>1, QuietReceive DEF Quiet
<1>2. CASE RefundLock(r)
  <2>1. RefundTx(r) \in Txs
    BY <1>2, RefundAsks DEF RefundLock, RefundSteps
  <2>2. local' = [local EXCEPT ![r].refunded = tx[RefundTx(r)].refunded,
                               ![r].status = tx[RefundTx(r)].status]
    BY <1>2 DEF RefundLock, End, Goto, FundsTypeOK
  <2>3. local'[r] = [local[r] EXCEPT !.refunded = tx[RefundTx(r)].refunded,
                                     !.status = tx[RefundTx(r)].status]
    BY <2>2 DEF FundsTypeOK
  <2>4. local[r] \in Local
    BY DEF FundsTypeOK
  <2> QED BY <1>2, <2>1, <2>3, <2>4 DEF RefundLock, Local
<1>3. CASE RefundCreditCheck(r)
  BY <1>3 DEF RefundCreditCheck, KeyCheck, End, Goto, FundsTypeOK
<1>4. CASE RefundCredit(r)
  BY <1>4 DEF RefundCredit
<1>5. CASE RefundRecord(r)
  BY <1>5 DEF RefundRecord, End, Goto, FundsTypeOK
<1>6. CASE \/ IntentOrder(r) \/ PromoCheck(r) \/ PromoPay(r) \/ WalletCheck(r)
           \/ RedeemPoints(r) \/ RedeemCredit(r) \/ SpendPoints(r)
           \/ WalletPay(r) \/ MarkPaid(r) \/ CapturePaid(r) \/ Award(r)
           \/ Crash(r)
  BY <1>6, QuietPay DEF Quiet
<1> QED BY <1>1, <1>2, <1>3, <1>4, <1>5, <1>6 DEF Continue

LEMMA RecordsStep ==
    ASSUME FInv, SumsInv, NEW r \in Requests,
           Receive(r) \/ Continue(r) \/ Crash(r), FundsTypeOK', JobsServe'
    PROVE  IsFiniteSet(refunds)' /\ ReadRecorded' /\ RefundedHasRecords'
<1> USE DEF FInv, SumsInv
<1> DEFINE key == job[r].key
           recorded == /\ RefundRecord(r)
                       /\ key \in RefundKeys /\ key \notin refunds
                       /\ refunds' = refunds \cup {key}
                       /\ tx'[RefundTx(r)].refunded
                             = local[r].refunded + RefundAmount(r)
                       /\ \A t \in Txs \ {RefundTx(r)} : tx'[t] = tx[t]
           same == /\ refunds' = refunds
                   /\ \A t \in Txs : tx'[t].refunded \in {tx[t].refunded, 0}
<1>1. recorded \/ same
  <2>1. CASE RefundRecord(r)
    <3>1. key \in RefundKeys /\ RefundTx(r) \in Txs
      BY <2>1, RefundAsks DEF RefundRecord, RefundSteps
    <3>2. tx[RefundTx(r)] \in Tx
      BY <3>1 DEF FundsTypeOK
    <3>3. CASE UNCHANGED <<refunds, tx>>
      BY <3>3
    <3>4. CASE /\ RefundFits(key)
               /\ refunds' = refunds \cup {key}
               /\ \E s : tx' = [tx EXCEPT ![RefundTx(r)] =
                           [tx[RefundTx(r)] EXCEPT
                              !.refunded = local[r].refunded + RefundAmount(r),
                              !.status = s]]
      BY <2>1, <3>1, <3>2, <3>4 DEF RefundFits, FundsTypeOK, Tx
    <3>5. ASSUME RefundFits(key), refunds' = refunds \cup {key},
                 NEW s,
                 tx' = [tx EXCEPT
                          ![RefundTx(r)].refunded = local[r].refunded + RefundAmount(r),
                          ![RefundTx(r)].status = s]
          PROVE  recorded \/ same
      <4>1. tx' = [tx EXCEPT ![RefundTx(r)] =
                     [tx[RefundTx(r)] EXCEPT
                        !.refunded = local[r].refunded + RefundAmount(r),
                        !.status = s]]
        BY <3>1, <3>5 DEF FundsTypeOK
      <4> QED BY <3>4, <3>5, <4>1
    <3> HIDE DEF recorded, same
    <3> QED BY <2>1, <3>3, <3>5 DEF RefundRecord
  <2>2. CASE ~RefundRecord(r)
    BY <2>2, RefundedSteps
  <2> QED BY <2>1, <2>2
<1>2. \A t : RecordedRefunds(t) \in Nat
  BY RecordedNat
<1>3. IsFiniteSet(refunds)'
  BY <1>1, FS_AddElement
<1>4. \A t : RecordedRefunds(t)' \in Nat /\ RecordedRefunds(t) <= RecordedRefunds(t)'
  <2> SUFFICES ASSUME NEW t
               PROVE  /\ RecordedRefunds(t)' \in Nat
                      /\ RecordedRefunds(t) <= RecordedRefunds(t)'
    OBVIOUS
  <2>1. CASE recorded
    <3>1. RefundOf[key].amount \in Nat /\ refunds \subseteq RefundKeys
      BY <2>1, FundsAssumption DEF FundsTypeOK
    <3>2. \/ RecordedRefunds(t)' = RecordedRefunds(t) + RefundOf[key].amount
          \/ RecordedRefunds(t)' = RecordedRefunds(t)
      BY <2>1, <3>1, RecordedGrows
    <3> QED BY <1>2, <3>1, <3>2
  <2>2. CASE same
    <3>1. RecordedRefunds(t)' = RecordedRefunds(t)
      BY <2>2, RecordedIs
    <3> QED BY <1>2, <3>1
  <2> QED BY <1>1, <2>1, <2>2
<1>5. \A t \in Txs : tx[t].refunded \in Nat /\ tx'[t].refunded \in Nat
  BY DEF FundsTypeOK, Tx
<1>6. \A q \in Requests : local[q].refunded \in Nat
  BY DEF FundsTypeOK, Local
<1>7. RefundedHasRecords'
  <2> SUFFICES ASSUME NEW t \in Txs
               PROVE  tx'[t].refunded <= RecordedRefunds(t)'
    BY DEF RefundedHasRecords
  <2>1. tx[t].refunded <= RecordedRefunds(t)'
    <3>1. tx[t].refunded <= RecordedRefunds(t)
      BY DEF RefundedHasRecords
    <3> QED BY <1>2, <1>4, <1>5, <3>1
  <2>2. CASE tx'[t].refunded \in {tx[t].refunded, 0}
    BY <1>4, <2>1, <2>2
  <2>3. CASE recorded /\ t = RefundTx(r)
    <3>1. /\ RefundOf[key].amount \in Nat /\ refunds \subseteq RefundKeys
          /\ t = RefundOf[key].tx /\ RefundAmount(r) = RefundOf[key].amount
      BY <2>3, FundsAssumption DEF FundsTypeOK, RefundTx, RefundAmount
    <3>2. RecordedRefunds(t)' = RecordedRefunds(t) + RefundOf[key].amount
      BY <2>3, <3>1, RecordedGrows
    <3>3. local[r].refunded <= RecordedRefunds(t)
      BY <2>3 DEF ReadRecorded, RefundRecord
    <3>4. tx'[t].refunded = local[r].refunded + RefundOf[key].amount
      BY <2>3, <3>1
    <3> QED BY <1>2, <1>6, <3>1, <3>2, <3>3, <3>4
  <2> QED BY <1>1, <2>2, <2>3
<1>8. ReadRecorded'
  <2> SUFFICES ASSUME NEW q \in Requests,
                      at'[q] \in {"check", "credit", "record"}
               PROVE  local'[q].refunded <= RecordedRefunds(RefundTx(q))'
    BY DEF ReadRecorded
  <2>1. ASSUME NEW t, local'[q].refunded <= RecordedRefunds(t),
               local'[q].refunded \in Nat
        PROVE  local'[q].refunded <= RecordedRefunds(t)'
    BY <1>2, <1>4, <2>1
  <2>2. local'[q].refunded \in Nat
    BY DEF FundsTypeOK, Local
  <2>3. job'[q] = job[q] /\ local'[q].refunded <= RecordedRefunds(RefundTx(q))
    <3>1. CASE q = r
      <4>1. CASE /\ RefundLock(r) /\ RefundTx(r) \in Txs
                 /\ local'[r].refunded = tx[RefundTx(r)].refunded
                 /\ job' = job
        BY <3>1, <4>1 DEF RefundedHasRecords
      <4>2. CASE /\ at[r] \in {"check", "credit"}
                 /\ local' = local /\ job' = job
        BY <3>1, <4>2 DEF ReadRecorded
      <4> QED BY <3>1, <4>1, <4>2, ReadSteps
    <3>2. CASE q # r
      BY <3>2, OnlyOwn DEF ReadRecorded
    <3> QED BY <3>1, <3>2
  <2>4. RefundTx(q)' = RefundTx(q)
    BY <2>3 DEF RefundTx
  <2> QED BY <2>1, <2>2, <2>3, <2>4 DEF RefundTx
<1> QED BY <1>3, <1>7, <1>8

-----------------------------------------------------------------------------
(* The theorems. *)

LEMMA FundsStep == FInv /\ [FundsNext]_fundsVars => FInv'
<1>1. ASSUME FInv, UNCHANGED fundsVars PROVE FInv'
  BY <1>1 DEF fundsVars, FInv, FundsTypeOK, JobsServe, RefundInv, LocksHeld,
              ReadFits, CreditPending, RecordPending, Credited, RowsFit,
              RefundCreditedOnce, RefundRecordCredited, RefundedWithinPayment,
              RefundTx, RefundAmount, RefundLedgerKey
<1>2. ASSUME FInv, NEW r \in Requests, Receive(r) \/ Continue(r) \/ Crash(r)
      PROVE  FInv'
  <2>1. FundsTypeOK'
    BY <1>2, ReceiveTypes, RefundTypes, PayTypes DEF Continue
  <2>2. JobsServe'
    BY <1>2, JobsServeStep
  <2>3. \A q \in Requests \ {r} :
            at'[q] = at[q] /\ job'[q] = job[q] /\ local'[q] = local[q]
    BY <1>2, OnlyOwn DEF FInv
  <2>4. CASE Receive(r)
    BY <1>2, <2>1, <2>2, <2>3, <2>4, QuietReceive, QuietStep DEF FInv
  <2>5. CASE RefundLock(r)
    BY <1>2, <2>1, <2>2, <2>3, <2>5, LockStep DEF FInv
  <2>6. CASE RefundCreditCheck(r) \/ RefundCredit(r) \/ RefundRecord(r)
    BY <1>2, <2>1, <2>2, <2>6, CreditCheckStep, CreditStep, RecordStep DEF FInv
  <2>7. CASE \/ IntentOrder(r) \/ PromoCheck(r) \/ PromoPay(r) \/ WalletCheck(r)
             \/ RedeemPoints(r) \/ RedeemCredit(r) \/ SpendPoints(r)
             \/ WalletPay(r) \/ MarkPaid(r) \/ CapturePaid(r) \/ Award(r)
             \/ Crash(r)
    BY <1>2, <2>1, <2>2, <2>3, <2>7, QuietPay, QuietStep DEF FInv
  <2> QED BY <1>2, <2>4, <2>5, <2>6, <2>7 DEF Continue
<1> QED BY <1>1, <1>2 DEF FundsNext

LEMMA InitSums == FundsInit => SumsInv
<1> SUFFICES ASSUME FundsInit PROVE SumsInv
  OBVIOUS
<1> USE FundsAssumption
<1>1. ledger = {} /\ refunds = {} /\ funds = AtStart
  BY DEF FundsInit
<1>2. IsFiniteSet(ledger) /\ IsFiniteSet(refunds)
  BY <1>1, FS_EmptySet
<1>3. RowsPast /\ ReadRecorded
  BY <1>1 DEF RowsPast, ReadRecorded, FundsInit
<1>4. LedgerExplainsFunds
  <2>1. \A b : Journal(b) = 0
    <3>1. \A b : {x \in ledger : x.bucket = b} = {}
      BY <1>1
    <3> QED BY <3>1, JournalIs, TotalEmpty
  <2>2. AtStart["CASH"] \in Nat /\ AtStart["PROMO_CREDIT"] \in Nat
    BY DEF Buckets
  <2> QED BY <1>1, <2>1, <2>2 DEF LedgerExplainsFunds
<1>5. RefundedHasRecords
  <2> SUFFICES ASSUME NEW t \in Txs
               PROVE  tx[t].refunded <= RecordedRefunds(t)
    BY DEF RefundedHasRecords
  <2>1. tx[t].refunded = 0
    BY DEF FundsInit, NoTx
  <2>2. RecordedRefunds(t) \in Nat
    BY <1>2, InitFInv, RecordedNat DEF FInv
  <2> QED BY <2>1, <2>2
<1> QED BY <1>2, <1>3, <1>4, <1>5 DEF SumsInv

LEMMA SumsStep == FInv /\ SumsInv /\ [FundsNext]_fundsVars => SumsInv'
<1>1. ASSUME FInv, SumsInv, UNCHANGED fundsVars PROVE SumsInv'
  <2>1. \A b : Journal(b)' = Journal(b)
    BY <1>1, JournalIs DEF fundsVars
  <2>2. \A t : RecordedRefunds(t)' = RecordedRefunds(t)
    BY <1>1, RecordedIs DEF fundsVars
  <2>3. IsFiniteSet(ledger)' /\ IsFiniteSet(refunds)' /\ RowsPast'
    BY <1>1 DEF fundsVars, SumsInv, RowsPast
  <2>4. LedgerExplainsFunds'
    BY <1>1, <2>1 DEF fundsVars, SumsInv, LedgerExplainsFunds
  <2>5. ReadRecorded' /\ RefundedHasRecords'
    BY <1>1, <2>2 DEF fundsVars, SumsInv, ReadRecorded, RefundedHasRecords,
                      RefundTx
  <2> QED BY <2>3, <2>4, <2>5 DEF SumsInv
<1>2. ASSUME FInv, SumsInv, NEW r \in Requests,
             Receive(r) \/ Continue(r) \/ Crash(r)
      PROVE  SumsInv'
  <2>1. FundsTypeOK' /\ JobsServe'
    BY <1>2, FundsStep DEF FInv, FundsNext
  <2> QED BY <1>2, <2>1, LedgerStep, RecordsStep DEF SumsInv
<1> QED BY <1>1, <1>2 DEF FundsNext

LEMMA FundsInductive == FundsSpec => [](FInv /\ SumsInv)
<1>1. FInv /\ SumsInv /\ [FundsNext]_fundsVars => (FInv /\ SumsInv)'
  BY FundsStep, SumsStep
<1> QED BY InitFInv, InitSums, <1>1, PTL DEF FundsSpec

(***************************************************************************)
(* In every behaviour the rows of the payment service and the steps of its *)
(* requests have their types: no balance goes below zero, whatever         *)
(* payments, refunds, redemptions and captures overlap (the row lock and   *)
(* the check of deduct_wallet and redeem_points).                          *)
(***************************************************************************)
THEOREM FundsTypeCorrect == FundsSpec => []FundsTypeOK
<1>1. FInv => FundsTypeOK
  BY DEF FInv
<1> QED BY InitFInv, FundsStep, <1>1, PTL DEF FundsSpec

(***************************************************************************)
(* No refund is credited twice, for any number of requests with its key    *)
(* and a crash of any of them at any step: process_refund holds the        *)
(* Transaction from the ledger's check in credit_wallet to the commit of   *)
(* the credit.                                                             *)
(***************************************************************************)
THEOREM RefundOnce == FundsSpec => []RefundCreditedOnce
<1>1. FInv => RefundCreditedOnce
  BY DEF FInv, RefundInv
<1> QED BY InitFInv, FundsStep, <1>1, PTL DEF FundsSpec

(***************************************************************************)
(* Every CustomerRefund row of a refund to the wallet or to the credits    *)
(* has its credit in the ledger, of the refund's amount (the order of      *)
(* credit and record in process_refund).                                   *)
(***************************************************************************)
THEOREM RefundRecordsCredited == FundsSpec => []RefundRecordCredited
<1>1. FInv => RefundRecordCredited
  BY DEF FInv, RefundInv
<1> QED BY InitFInv, FundsStep, <1>1, PTL DEF FundsSpec

(***************************************************************************)
(* refunded_amount stays within the amount of its order, although it is    *)
(* written from what was read under a lock that credit_wallet's commit     *)
(* has given back since.                                                   *)
(***************************************************************************)
THEOREM RefundBounded == FundsSpec => []RefundedWithinPayment
<1>1. FInv => RefundedWithinPayment
  BY DEF FInv, RefundInv
<1> QED BY InitFInv, FundsStep, <1>1, PTL DEF FundsSpec

(***************************************************************************)
(* What a Transaction counts as refunded is never more than its            *)
(* CustomerRefund rows come to, although process_refund writes the count   *)
(* from what it read before other refunds of the order were recorded.      *)
(***************************************************************************)
THEOREM RefundsRecorded == FundsSpec => []RefundedHasRecords
<1>1. FInv /\ SumsInv => RefundedHasRecords
  BY DEF SumsInv
<1> QED BY FundsInductive, <1>1, PTL

(***************************************************************************)
(* The ledger accounts for every balance: for any number of overlapping    *)
(* refunds, payments, top-ups and captures, crashed at any step, the promo *)
(* credits are what they were at the start and what the rows of the ledger *)
(* add up to; so is the cash, until a redemption of points credits it from *)
(* a balance read before (_credit_wallet after redeem_points).             *)
(***************************************************************************)
THEOREM FundsExplained == FundsSpec => []LedgerExplainsFunds
<1>1. FInv /\ SumsInv => LedgerExplainsFunds
  BY DEF SumsInv
<1> QED BY FundsInductive, <1>1, PTL
=============================================================================
