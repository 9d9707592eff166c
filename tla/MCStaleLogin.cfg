CONSTANTS
    Nobody = Nobody
    Calls = {h1, h2, h3}
    InitialStatuses = {"active"}
    MaxActiveKeys = 1
SPECIFICATION IdentitySpec
INVARIANT OldCredentialsDie
SYMMETRY CallSymmetry
CHECK_DEADLOCK FALSE
