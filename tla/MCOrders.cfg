CONSTANTS
    o1 = o1
    o2 = o2
    c1 = c1
    c2 = c2
    WebhookKey = WebhookKey
    ReconcileId = ReconcileId
    Orders = {o1, o2}
    CreditOf <- MCCreditOf
    Callers = {c1}
    RefundKeys = {"k1"}
    EventIds = {"e1"}
    MaxOpenOrders = 1
    HoldAmounts = {2}
    Webhooks <- PaidWebhooks
    ProviderMoves <- PaidInTheEnd
SPECIFICATION PaymentSpec
INVARIANTS
    BooksMatchPayments
    FrozenWhileAtRisk
    OpenOrdersWithinCap
SYMMETRY OrderSymmetry
