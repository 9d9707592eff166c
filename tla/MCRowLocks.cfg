CONSTANTS
    Workers = {w1, w2, w3}
    Orders = {o1}
    Requests = {q1, q2}
SPECIFICATION LocksSpec
INVARIANTS
    RefundsAndAdmissionsDoNotCross
    CirclesPassTheUserRow
    SweepIsInNoCircle
SYMMETRY WorkerSymmetry
