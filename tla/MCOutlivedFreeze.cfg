CONSTANTS
    Nobody = Nobody
    Calls = {h1, h2, h3}
    InitialStatuses = {"active"}
    MaxActiveKeys = 1
SPECIFICATION IdentitySpec
INVARIANT CredentialsEndWithFreeze
SYMMETRY CallSymmetry
CHECK_DEADLOCK FALSE
