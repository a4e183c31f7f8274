SPECIFICATION FairSpec
CONSTANTS
    Attempt = {a1, a2, a3}
    Request = {r1, r2}
    Nil = Nil
CHECK_DEADLOCK FALSE
INVARIANTS
    TrafficIsExact
    OnlyLateRequestsStray
PROPERTIES
    EndReturns
