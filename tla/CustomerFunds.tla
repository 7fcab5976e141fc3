---------------------------- MODULE CustomerFunds ----------------------------
(***************************************************************************)
(* The money of one customer in the payment service: the wallet, promo     *)
(* credits and reward points of CustomerProfile, the ledger                *)
(* (WalletTransaction), the gateway orders (Transaction), the refunds      *)
(* (CustomerRefund) and the payment status of one ride (WalletService,     *)
(* RazorpayService and the endpoints of payments.py).                      *)
(*                                                                         *)
(* A request is an HTTP request with a database session of its own; every  *)
(* step of it ends at a commit, or at a read whose result a later step     *)
(* uses.  A client that tries again sends another request.  The row lock   *)
(* of the customer is taken and released within a step; that of a          *)
(* Transaction is held over several steps of process_refund.               *)
(*                                                                         *)
(* Money is counted in tenths of a rupee, the value of one reward point.   *)
(***************************************************************************)
EXTENDS FiniteSetsExt

CONSTANTS
    Requests,
    Txs,            \* the Transaction rows
    Nobody,         \* holder of a lock that is free
    NoKey,          \* idempotency_key = None
    RefundKeys,     \* the idempotency keys of refund requests
    RefundOf,       \* RefundOf[k]: what the refund with key k asks for
    PayKeys,        \* the idempotency keys of payment intents
    Fare,           \* the fare of the ride
    PointsUsed,     \* what a redemption asks for
    TopUp,          \* what a top-up pays in
    AtStart,        \* the balances of the customer at the start
    FirstTx,        \* the order that exists at the start, for the ride,
    FirstOrders     \* and the rows it may have

Buckets == {"CASH", "PROMO_CREDIT"}

Destinations == {"WALLET", "CREDITS", "ORIGINAL_PAYMENT"}

PaymentStatus == {"NONE", "PENDING", "CAPTURED", "FAILED", "REFUNDED",
                  "PARTIALLY_REFUNDED"}

\* A Transaction row; wallet and points are the entries of its metadata that
\* capture_payment looks for, ref says whether gateway_ref is set.
Tx == [amount : Nat, refunded : Nat, status : PaymentStatus, ref : BOOLEAN,
       key : PayKeys \cup {NoKey}, wallet : Nat, points : Nat]

ASSUME FundsAssumption ==
    /\ RefundOf \in [RefundKeys -> [tx : Txs, amount : Nat \ {0},
                                    to : Destinations]]
    /\ Fare \in Nat \ {0} /\ PointsUsed \in Nat \ {0} /\ TopUp \in Nat \ {0}
    /\ AtStart \in [Buckets \cup {"POINTS"} -> Nat]
    /\ FirstTx \in Txs /\ FirstOrders \subseteq Tx
    /\ \A o \in FirstOrders :
          /\ o.status \in {"PENDING", "CAPTURED"} /\ o.refunded = 0
          /\ o.points \in {0, PointsUsed}
    /\ Nobody \notin Requests
    /\ NoKey \notin RefundKeys \cup PayKeys

VARIABLES
    funds,      \* funds[b]: the balances in the customer's row
    ledger,     \* the WalletTransaction rows of the customer
    tx,         \* tx[t]: Transaction row t, of status NONE before it exists
    lock,       \* lock[t]: the request that holds the row lock of t
    refunds,    \* the keys that have a CustomerRefund row
    ride,       \* payment_status of the ride
    at,         \* at[r]: the next step of request r
    job,        \* job[r]: what request r was asked for
    local       \* local[r]: what request r has read and worked out

fundsVars == <<funds, ledger, tx, lock, refunds, ride, at, job, local>>

FundsSteps == {"idle", "lock", "check", "credit", "record", "order", "promo",
               "promoPay", "wallet", "walletPay", "points", "redeemed",
               "spend", "paid", "captured", "award", "done"}

Kinds == {"none", "refund", "intent", "redeem", "wallet_pay", "capture"}

Job == [kind : Kinds, key : RefundKeys \cup PayKeys \cup Txs \cup {NoKey}]

NoJob == [kind |-> "none", key |-> NoKey]

\* refunded and status of a Transaction, cash and points of the customer and
\* the ride's payment status as read; promo and wallet to be deducted.
Local == [refunded : Nat, status : PaymentStatus, cash : Nat, points : Nat,
          ride : {"pending", "paid"}, promo : Nat, wallet : Nat]

NoLocal == [refunded |-> 0, status |-> "NONE", cash |-> 0, points |-> 0,
            ride |-> "pending", promo |-> 0, wallet |-> 0]

\* The idempotency_key of a ledger row, or None.
NoRowKey == <<"NONE", NoKey>>

LedgerKeys == {NoRowKey} \cup {<<"LEDGER", k>> : k \in RefundKeys}
    \cup {<<of, p>> : of \in {"PROMO", "WALLET"}, p \in PayKeys}

\* Debits are negative; by and step stand for the row's id.
Row == [by : Requests, step : FundsSteps, bucket : Buckets, amount : Int,
        key : LedgerKeys]

FundsTypeOK ==
    /\ funds \in [Buckets \cup {"POINTS"} -> Nat]
    /\ ledger \subseteq Row
    /\ tx \in [Txs -> Tx]
    /\ lock \in [Txs -> Requests \cup {Nobody}]
    /\ refunds \subseteq RefundKeys
    /\ ride \in {"pending", "paid"}
    /\ at \in [Requests -> FundsSteps]
    /\ job \in [Requests -> Job]
    /\ local \in [Requests -> Local]

NoTx == [amount |-> 0, refunded |-> 0, status |-> "NONE", ref |-> FALSE,
         key |-> NoKey, wallet |-> 0, points |-> 0]

FundsInit ==
    /\ funds = AtStart
    /\ ledger = {}
    /\ \E o \in FirstOrders :
          /\ tx = [t \in Txs |-> IF t = FirstTx THEN o ELSE NoTx]
          /\ ride = IF o.status = "CAPTURED" THEN "paid" ELSE "pending"
    /\ lock = [t \in Txs |-> Nobody]
    /\ refunds = {}
    /\ at = [r \in Requests |-> "idle"]
    /\ job = [r \in Requests |-> NoJob]
    /\ local = [r \in Requests |-> NoLocal]

-----------------------------------------------------------------------------
(* Requests. *)

Goto(r, step) == at' = [at EXCEPT ![r] = step]

Begin(r, kind, key, step) ==
    /\ at[r] = "idle"
    /\ job' = [job EXCEPT ![r] = [kind |-> kind, key |-> key]]
    /\ Goto(r, step)

\* The answer is sent, or an error; the session forgets what it read.
End(r) ==
    /\ Goto(r, "done")
    /\ local' = [local EXCEPT ![r] = NoLocal]

\* At its commit or rollback a request gives back the rows it has locked.
Unlock(r) == lock' = [t \in Txs |-> IF lock[t] = r THEN Nobody ELSE lock[t]]

\* The server stops, or the client goes away, before the next commit.
Crash(r) ==
    /\ at[r] \notin {"idle", "done"}
    /\ End(r)
    /\ Unlock(r)
    /\ UNCHANGED <<funds, ledger, tx, refunds, ride, job>>

-----------------------------------------------------------------------------
(* credit_wallet and deduct_wallet. *)

\* The idempotency check.  It is made before the customer's row is locked,
\* and the column idempotency_key is not unique.  Without a key there is no
\* check: every call moves the money.
Rows(key) == {x \in ledger : x.key = key}

Journaled(key) == key # NoRowKey /\ Rows(key) # {}

\* scalar_one_or_none raises when it finds more than one row.
Repeated(key) == key # NoRowKey /\ \E x, y \in Rows(key) : x # y

\* A balance is written from the one that was read, with its ledger row.
Post(r, bucket, balance, amount, key) ==
    /\ funds' = [funds EXCEPT ![bucket] = balance + amount]
    /\ ledger' = ledger \cup
           {[by |-> r, step |-> at[r], bucket |-> bucket, amount |-> amount,
             key |-> key]}

\* The balance the split was worked out from.
SummaryBalance(r, bucket) ==
    IF bucket = "CASH" /\ job[r].kind = "intent" THEN local[r].cash
                                                 ELSE funds[bucket]

\* The balance under the row lock: the session holds no older copy.
LockedBalance(r, bucket) == funds[bucket]

AnyBalanceCovers(bucket, amount) == TRUE

Covers(bucket, amount) == funds[bucket] >= amount

\* deduct_wallet under the row lock; the request fails when the balance does
\* not cover the amount.
Deduct(r, bucket, amount, key, next) ==
    /\ \/ /\ Covers(bucket, amount)
          /\ Post(r, bucket, LockedBalance(r, bucket), -amount, key)
          /\ Goto(r, next)
          /\ UNCHANGED local
       \/ /\ ~Covers(bucket, amount)
          /\ End(r)
          /\ UNCHANGED <<funds, ledger>>
    /\ UNCHANGED <<tx, lock, refunds, ride, job>>

\* The check, and on to the deduction or past it.
KeyCheck(r, key, pay, next) ==
    /\ \/ /\ ~Repeated(key)
          /\ Goto(r, IF Journaled(key) THEN next ELSE pay)
          /\ UNCHANGED <<lock, local>>
       \/ /\ Repeated(key)
          /\ End(r)
          /\ Unlock(r)
    /\ UNCHANGED <<funds, ledger, tx, refunds, ride, job>>

-----------------------------------------------------------------------------
(* process_refund. *)

RefundTx(r) == RefundOf[job[r].key].tx

RefundAmount(r) == RefundOf[job[r].key].amount

RefundBucket(r) ==
    IF RefundOf[job[r].key].to = "CREDITS" THEN "PROMO_CREDIT" ELSE "CASH"

RefundLedgerKey(r) == <<"LEDGER", job[r].key>>

\* A request whose key has a CustomerRefund is answered; another goes on.
RefundCheck(r, k) ==
    /\ Begin(r, "refund", k, IF k \in refunds THEN "done" ELSE "lock")
    /\ UNCHANGED <<funds, ledger, tx, lock, refunds, ride, local>>

NotLocked(r, t) == TRUE

\* Whether request r gets the row lock of t.
LockFree(r, t) == lock[t] \in {Nobody, r}

RefundableOnce(t, amount) == tx[t].status # "NONE" /\ amount <= tx[t].amount

Refundable(t, amount) ==
    /\ tx[t].status # "NONE"
    /\ amount <= tx[t].amount - tx[t].refunded

CreditsUnpaid(r) ==
    IF RefundOf[job[r].key].to # "WALLET" THEN "record" ELSE "check"

\* The gateway's refund is simulated; the others credit the customer first.
RefundPath(r) ==
    IF RefundOf[job[r].key].to = "ORIGINAL_PAYMENT" THEN "record" ELSE "check"

RefundLock(r) ==
    LET t == RefundTx(r) IN
    /\ at[r] = "lock"
    /\ LockFree(r, t)
    /\ \/ /\ Refundable(t, RefundAmount(r))
          /\ lock' = [lock EXCEPT ![t] = r]
          /\ local' = [local EXCEPT ![r].refunded = tx[t].refunded,
                                    ![r].status = tx[t].status]
          /\ Goto(r, RefundPath(r))
       \/ /\ ~Refundable(t, RefundAmount(r))
          /\ End(r)
          /\ UNCHANGED lock
    /\ UNCHANGED <<funds, ledger, tx, refunds, ride, job>>

RefundCreditCheck(r) ==
    /\ at[r] = "check"
    /\ KeyCheck(r, RefundLedgerKey(r), "credit", "record")

\* credit_wallet commits, and that gives back the lock of the Transaction.
RefundCredit(r) ==
    LET b == RefundBucket(r) IN
    /\ at[r] = "credit"
    /\ Post(r, b, funds[b], RefundAmount(r), RefundLedgerKey(r))
    /\ Unlock(r)
    /\ Goto(r, "record")
    /\ UNCHANGED <<tx, refunds, ride, job, local>>

AnyRefundFits(k) == TRUE

\* The unique idempotency_key of customer_refunds.
RefundFits(k) == k \notin refunds

\* refunded_amount and status are worked out from what was read under the
\* lock; a status that is the one read is not sent to the database.
RefundRecord(r) ==
    LET t == RefundTx(r)
        total == local[r].refunded + RefundAmount(r)
        s == IF total >= tx[t].amount THEN "REFUNDED" ELSE "PARTIALLY_REFUNDED"
    IN  /\ at[r] = "record"
        /\ LockFree(r, t)
        /\ \/ /\ RefundFits(job[r].key)
              /\ refunds' = refunds \cup {job[r].key}
              /\ tx' = [tx EXCEPT ![t].refunded = total,
                            ![t].status = IF s = local[r].status THEN @ ELSE s]
           \/ /\ ~RefundFits(job[r].key)
              /\ UNCHANGED <<refunds, tx>>
        /\ Unlock(r)
        /\ End(r)
        /\ UNCHANGED <<funds, ledger, ride, job>>

-----------------------------------------------------------------------------
(* create_payment_intent, with the fare left after the coupon. *)

\* Cash is chosen.  (The ride's row is read and committed with no guard on
\* it and no other reader between: one step.)
CashIntent(r) ==
    /\ Begin(r, "intent", NoKey, "done")
    /\ ride' = "pending"
    /\ UNCHANGED <<funds, ledger, tx, lock, refunds, local>>

\* The key of an intent's deduction; an intent without a key passes None.
DeductionKey(of, p) == IF p = NoKey THEN NoRowKey ELSE <<of, p>>

\* The split is worked out from balances read without a lock.
PaymentIntent(r, p) ==
    \E promo \in {0, Min({funds["PROMO_CREDIT"], Fare})} :
    \E wallet \in {0, Min({funds["CASH"], Fare - promo})} :
        /\ Begin(r, "intent", p,
                 IF promo + wallet < Fare THEN "order"
                 ELSE IF promo > 0 THEN "promo" ELSE "wallet")
        /\ local' = [local EXCEPT ![r].promo = promo, ![r].wallet = wallet,
                                  ![r].cash = funds["CASH"], ![r].ride = ride]
        /\ UNCHANGED <<funds, ledger, tx, lock, refunds, ride>>

\* create_order for the rest.  The metadata has the split under names that
\* capture_payment does not look for.
IntentOrder(r) ==
    LET p == job[r].key IN
    /\ at[r] = "order"
    /\ \/ /\ p # NoKey
          /\ \E t \in Txs : tx[t].status # "NONE" /\ tx[t].key = p
          /\ UNCHANGED tx
       \/ /\ \A t \in Txs : tx[t].status # "NONE" => p = NoKey \/ tx[t].key # p
          /\ \E t \in Txs :
                /\ tx[t].status = "NONE"
                /\ tx' = [tx EXCEPT ![t] =
                      [NoTx EXCEPT !.status = "PENDING", !.key = p,
                           !.amount = Fare - local[r].promo - local[r].wallet]]
    /\ End(r)
    /\ UNCHANGED <<funds, ledger, lock, refunds, ride, job>>

PromoCheck(r) ==
    /\ at[r] = "promo"
    /\ KeyCheck(r, DeductionKey("PROMO", job[r].key), "promoPay",
                   IF local[r].wallet > 0 THEN "wallet" ELSE "paid")

PromoPay(r) ==
    /\ at[r] = "promoPay"
    /\ Deduct(r, "PROMO_CREDIT", local[r].promo,
              DeductionKey("PROMO", job[r].key),
              IF local[r].wallet > 0 THEN "wallet" ELSE "paid")

WalletCheck(r) ==
    /\ at[r] = "wallet"
    /\ KeyCheck(r, DeductionKey("WALLET", job[r].key), "walletPay", "paid")

-----------------------------------------------------------------------------
(* redeem_points, wallet_pay and verify_wallet_top_up. *)

\* What follows the deductions of a request.
Settle(r) == IF job[r].kind = "capture" THEN "captured" ELSE "paid"

RedeemRequest(r) ==
    /\ Begin(r, "redeem", NoKey, "points")
    /\ UNCHANGED <<funds, ledger, tx, lock, refunds, ride, local>>

\* A payment from the wallet that covers the fare, with or without points.
WalletPayRequest(r) ==
    /\ \/ /\ Begin(r, "wallet_pay", NoKey, "walletPay")
          /\ local' = [local EXCEPT ![r].wallet = Fare]
       \/ /\ PointsUsed < Fare
          /\ Begin(r, "wallet_pay", NoKey, "points")
          /\ local' = [local EXCEPT ![r].wallet = Fare - PointsUsed]
    /\ UNCHANGED <<funds, ledger, tx, lock, refunds, ride>>

\* The points are taken and committed; the row stays as read in the session,
\* its balance too.
RedeemPoints(r) ==
    /\ at[r] = "points"
    /\ \/ /\ funds["POINTS"] >= PointsUsed
          /\ funds' = [funds EXCEPT !["POINTS"] = @ - PointsUsed]
          /\ local' = [local EXCEPT ![r].cash = funds["CASH"]]
          /\ Goto(r, "redeemed")
       \/ /\ funds["POINTS"] < PointsUsed
          /\ End(r)
          /\ UNCHANGED funds
    /\ UNCHANGED <<ledger, tx, lock, refunds, ride, job>>

\* credit_wallet locks the row again but does not refresh what is loaded.
RedeemCredit(r) ==
    /\ at[r] = "redeemed"
    /\ Post(r, "CASH", local[r].cash, PointsUsed, NoRowKey)
    /\ \/ job[r].kind = "redeem" /\ End(r)
       \/ job[r].kind # "redeem" /\ Goto(r, "spend") /\ UNCHANGED local
    /\ UNCHANGED <<tx, lock, refunds, ride, job>>

SpendPoints(r) ==
    /\ at[r] = "spend"
    /\ Deduct(r, "CASH", PointsUsed, NoRowKey,
              IF local[r].wallet > 0 THEN "walletPay" ELSE Settle(r))

\* The deduction from the cash wallet, with a key in an intent only.
WalletPay(r) ==
    /\ at[r] = "walletPay"
    /\ Deduct(r, "CASH", local[r].wallet,
              IF job[r].kind = "intent" THEN DeductionKey("WALLET", job[r].key)
                                        ELSE NoRowKey, Settle(r))

\* An intent has read the ride at its start and sends the status only if it
\* is another; wallet_pay reads it now.
MarkPaid(r) ==
    /\ at[r] = "paid"
    /\ ride' = IF job[r].kind = "intent" /\ local[r].ride = "paid" THEN ride
                                                                  ELSE "paid"
    /\ End(r)
    /\ UNCHANGED <<funds, ledger, tx, lock, refunds, job>>

VerifyTopUp(r) ==
    /\ Begin(r, "none", NoKey, "done")
    /\ Post(r, "CASH", funds["CASH"], TopUp, NoRowKey)
    /\ UNCHANGED <<tx, lock, refunds, ride, local>>

-----------------------------------------------------------------------------
(* capture_payment and process_webhook, of an order the gateway was paid. *)

\* The status is set whatever it was: the callback of the gateway and the app
\* both report a payment.
Capture(r, t) ==
    /\ tx[t].status # "NONE"
    /\ LockFree(r, t)
    /\ Begin(r, "capture", t,
             IF tx[t].points > 0 THEN "points"
             ELSE IF tx[t].wallet > 0 THEN "walletPay" ELSE "captured")
    /\ tx' = [tx EXCEPT ![t].status = "CAPTURED", ![t].ref = TRUE]
    /\ local' = [local EXCEPT ![r].wallet = tx[t].wallet]
    /\ UNCHANGED <<funds, ledger, lock, refunds, ride>>

\* The ride is paid, and _award_reward_points reads the points.
CapturePaid(r) ==
    /\ at[r] = "captured"
    /\ ride' = "paid"
    /\ local' = [local EXCEPT ![r].points = funds["POINTS"]]
    /\ Goto(r, "award")
    /\ UNCHANGED <<funds, ledger, tx, lock, refunds, job>>

\* One point per rupee, added to the points read without a lock.
Award(r) ==
    LET points == local[r].points + tx[job[r].key].amount \div 10 IN
    /\ at[r] = "award"
    /\ funds' = IF points = local[r].points THEN funds
                ELSE [funds EXCEPT !["POINTS"] = points]
    /\ End(r)
    /\ UNCHANGED <<ledger, tx, lock, refunds, ride, job>>

\* payment.failed, maybe about an earlier attempt to pay the same order.
PaymentFailed(r, t) ==
    /\ tx[t].status # "NONE"
    /\ LockFree(r, t)
    /\ Begin(r, "none", t, "done")
    /\ tx' = [tx EXCEPT ![t].status = "FAILED"]
    /\ UNCHANGED <<funds, ledger, lock, refunds, ride, local>>

-----------------------------------------------------------------------------

Receive(r) ==
    \/ \E k \in RefundKeys : RefundCheck(r, k)
    \/ \E p \in PayKeys \cup {NoKey} : PaymentIntent(r, p)
    \/ \E t \in Txs : Capture(r, t) \/ PaymentFailed(r, t)
    \/ CashIntent(r) \/ RedeemRequest(r) \/ WalletPayRequest(r)
    \/ VerifyTopUp(r)

Continue(r) ==
    \/ RefundLock(r) \/ RefundCreditCheck(r) \/ RefundCredit(r)
    \/ RefundRecord(r)
    \/ IntentOrder(r) \/ PromoCheck(r) \/ PromoPay(r) \/ WalletCheck(r)
    \/ RedeemPoints(r) \/ RedeemCredit(r) \/ SpendPoints(r) \/ WalletPay(r)
    \/ MarkPaid(r) \/ CapturePaid(r) \/ Award(r)

FundsNext == \E r \in Requests : Receive(r) \/ Continue(r) \/ Crash(r)

FundsSpec == FundsInit /\ [][FundsNext]_fundsVars

-----------------------------------------------------------------------------
(***************************************************************************)
(* A refund reaches the customer's funds at most once, however many        *)
(* requests carry its key, at the same time or after a crash between the   *)
(* credit and the CustomerRefund row.  Only the row lock of the            *)
(* Transaction makes the ledger's check safe (process_refund calling       *)
(* credit_wallet).                                                         *)
(***************************************************************************)
RefundCreditedOnce ==
    \A x, y \in ledger : x.key = y.key /\ x.key[1] = "LEDGER" => x = y

(***************************************************************************)
(* A refund that is recorded as processed to the wallet or to the credits  *)
(* is in the ledger: no crash, retry or overlap leaves a CustomerRefund    *)
(* row whose money never came.                                             *)
(***************************************************************************)
RefundRecordCredited ==
    \A k \in refunds :
        RefundOf[k].to # "ORIGINAL_PAYMENT" =>
            \E x \in ledger :
                x.key = <<"LEDGER", k>> /\ x.amount = RefundOf[k].amount

(***************************************************************************)
(* refunded_amount never exceeds the amount of its Transaction, although   *)
(* overlapping refunds write it from what they read before the lock was    *)
(* given back.                                                             *)
(***************************************************************************)
RefundedWithinPayment == \A t \in Txs : tx[t].refunded <= tx[t].amount

RecordedRefunds(t) ==
    MapThenSumSet(LAMBDA k : RefundOf[k].amount,
                  {k \in refunds : RefundOf[k].tx = t})

(***************************************************************************)
(* What a Transaction counts as refunded has CustomerRefund rows to show   *)
(* for it: an overlap may lose an amount, and counts none twice.           *)
(***************************************************************************)
RefundedHasRecords == \A t \in Txs : tx[t].refunded <= RecordedRefunds(t)

Journal(b) ==
    MapThenSumSet(LAMBDA x : x.amount, {x \in ledger : x.bucket = b})

(***************************************************************************)
(* The ledger explains the balances, whatever refunds, payments, top-ups   *)
(* and captures overlap: that of the promo credits always, that of the     *)
(* cash wallet until a redemption of points credits it.                    *)
(***************************************************************************)
LedgerExplainsFunds ==
    /\ funds["PROMO_CREDIT"] = AtStart["PROMO_CREDIT"] + Journal("PROMO_CREDIT")
    /\ (\A x \in ledger : x.step # "redeemed") =>
           funds["CASH"] = AtStart["CASH"] + Journal("CASH")

-----------------------------------------------------------------------------
(* What the documents say of the program, and the code does not do. *)

(***************************************************************************)
(* "Enforces strict upper bound: Refund Amount <= Paid Amount - Already    *)
(* Refunded": what the refunds of a payment bring the customer together    *)
(* is no more than the payment.                                            *)
(***************************************************************************)
RefundsWithinPayment ==
    \A t \in Txs :
        MapThenSumSet(LAMBDA x : x.amount,
                      {x \in ledger : /\ x.key[1] = "LEDGER"
                                      /\ RefundOf[x.key[2]].tx = t})
            <= tx[t].amount

Collected ==
    MapThenSumSet(LAMBDA t : tx[t].amount, {t \in Txs : tx[t].ref})
    - MapThenSumSet(LAMBDA x : x.amount, {x \in ledger : x.amount < 0})

(***************************************************************************)
(* "Final Gateway Payable = Authoritative Fare - ... - Promotional Credits *)
(* - Wallet Deduction": what is not asked of the gateway is deducted, so a *)
(* ride that is paid has brought in its fare.                              *)
(***************************************************************************)
PaidInFull == ride = "paid" => Collected >= Fare
=============================================================================
