\* Two overlapping refunds with keys of their own.
CONSTANTS
    q1 = q1
    q2 = q2
    q3 = q3
    t1 = t1
    t2 = t2
    k1 = k1
    k2 = k2
    k3 = k3
    p1 = p1
    Requests = {q1, q2}
    Txs = {t1, t2}
    Nobody = Nobody
    NoKey = NoKey
    RefundKeys = {k1, k2, k3}
    RefundOf <- MCRefundOf
    PayKeys = {p1}
    Fare = 30
    PointsUsed = 10
    TopUp = 20
    AtStart <- MCAtStart
    FirstTx = t1
    FirstOrders <- MCFirstOrders
SPECIFICATION FundsSpec
SYMMETRY Symmetric
INVARIANT RefundsWithinPayment
CHECK_DEADLOCK FALSE
