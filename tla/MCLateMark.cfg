CONSTANTS
    r1 = r1
    r2 = r2
    r3 = r3
    o1 = o1
    o2 = o2
    NoKey = NoKey
    Requests = {r1}
    Operators = {o1}
    Sessions <- MCSessions
    Payloads <- MCPayloads
    IdempotencyKey <- MCIdempotencyKey
    PriceList <- OnePrice
    BudgetIds = {}
    BudgetLimits = {1700}
    LastMonth = 1
    Credit = 1700
    Responses <- MCResponses
    UpstreamCosts = {7}
    Providers = 1
    StreamRequested = {}
    ContentSafety = {}
SPECIFICATION GatewaySpec
PROPERTY FinalStaysFinal
