CONSTANTS
    a1 = a1
    a2 = a2
    b1 = b1
    b2 = b2
    Requests = {a1, a2, b1, b2}
    Subjects = {"ip", "account a", "account b"}
    SubjectsOf <- MCSubjectsOf
    Limit = 2
    Retention = 1
    LastWindow = 2
SPECIFICATION RateSpec
INVARIANTS
    RateTypeOK
    AdmittedIsCounted
PROPERTY ImplementsQuota
SYMMETRY RequestSymmetry
CHECK_DEADLOCK FALSE
