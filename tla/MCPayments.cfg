CONSTANTS
    o1 = o1
    o2 = o2
    c1 = c1
    c2 = c2
    WebhookKey = WebhookKey
    ReconcileId = ReconcileId
    Orders = {o1}
    CreditOf <- MCCreditOf
    Callers = {c1, c2}
    RefundKeys = {"k1", "k2"}
    EventIds = {"e1"}
    MaxOpenOrders = 1
    HoldAmounts = {1}
    Webhooks <- AllWebhooks
    ProviderMoves <- Moves
SPECIFICATION PaymentSpec
INVARIANTS
    PaymentTypeOK
    FollowsTheProvider
    CheckoutCalledOnce
    OneRefundCommand
PROPERTY OverIsOver
SYMMETRY CallerSymmetry
