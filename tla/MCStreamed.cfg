CONSTANTS
    r1 = r1
    o1 = o1
    NoKey = NoKey
    Requests = {r1}
    Operators = {o1}
    Sessions <- MCSessions
    Payloads <- MCPayloads
    IdempotencyKey <- MCIdempotencyKey
    PriceList <- OnePrice
    BudgetIds = {}
    BudgetLimits = {1700}
    LastMonth = 1
    Credit = 1700
    Responses <- MCResponses
    UpstreamCosts = {7}
    Providers = 1
    StreamRequested = {r1}
    ContentSafety = {}
    MaxBytes = 9
    MaxLine = 3
    Texts <- MCTexts
SPECIFICATION FairStreamedSpec
INVARIANTS
    StreamTypeOK
    ChunksDoNotMatter
PROPERTIES
    SettlesWholeStreams
    ImplementsGateway
    ImplementsBilling
    EveryHoldSurfaces
CHECK_DEADLOCK FALSE
