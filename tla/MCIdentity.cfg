CONSTANTS
    Nobody = Nobody
    Calls = {h1, h2, h3, h4, h5}
    InitialStatuses = {"absent", "active"}
    MaxActiveKeys = 1
SPECIFICATION IdentitySpec
INVARIANTS
    IdentityTypeOK
    KeysWithinLimit
    EachResetLinkOnce
    FrozenIsLockedOut
    ActiveIsVerified
PROPERTY FreezeEndsByOperator
SYMMETRY CallSymmetry
CHECK_DEADLOCK FALSE
