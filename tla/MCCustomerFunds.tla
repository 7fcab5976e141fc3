--------------------------- MODULE MCCustomerFunds ---------------------------
(* Instances of CustomerFunds for TLC.                                     *)
EXTENDS CustomerFunds, TLC

CONSTANTS q1, q2, q3, t1, t2, k1, k2, k3, p1

\* Two refunds of one payment that together exceed it, to the wallet and to
\* the credits, and a smaller one to where the payment came from.
MCRefundOf ==
    (k1 :> [tx |-> t1, amount |-> 20, to |-> "WALLET"])
    @@ (k2 :> [tx |-> t1, amount |-> 20, to |-> "CREDITS"])
    @@ (k3 :> [tx |-> t1, amount |-> 10, to |-> "ORIGINAL_PAYMENT"])

MCAtStart == [CASH |-> 60, PROMO_CREDIT |-> 10, POINTS |-> 10]

\* An order paid at the gateway, with its ride.
MCPaidOrder == [amount |-> 30, refunded |-> 0, status |-> "CAPTURED",
                ref |-> TRUE, key |-> NoKey, wallet |-> 0, points |-> 0]

\* An order of create_payment_order, split between the gateway, the wallet
\* and points.
MCSplitOrder == [amount |-> 10, refunded |-> 0, status |-> "PENDING",
                 ref |-> FALSE, key |-> NoKey, wallet |-> 10, points |-> 10]

MCFirstOrders == {MCPaidOrder, MCSplitOrder}

Symmetric == Permutations(Requests)
=============================================================================
