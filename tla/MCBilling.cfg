CONSTANTS
    r1 = r1
    r2 = r2
    s1 = s1
    NoKey = NoKey
    Requests = {r1, r2}
    Sessions = {s1}
    Payloads <- MCPayloads
    IdempotencyKey <- MCIdempotencyKey
    PriceList <- MCPriceList
    BudgetIds = {1, 2, 3}
    BudgetLimits = {900, 1700}
    LastMonth = 2
    Credit = 1900
    Responses <- MCResponses
    UpstreamCosts = {7}
CONSTRAINT FinalizedWhileActive
SPECIFICATION Spec
INVARIANTS
    TypeOK
    WalletMatchesLedger
    UnderReservedOnlyByOverrun
    HoldsAccountedFor
    BudgetWithinLimit
    OneActiveBudget
    MonthSpendIsComplete
