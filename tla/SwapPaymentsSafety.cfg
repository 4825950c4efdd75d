SPECIFICATION Spec
CONSTANTS
    PayReqs = {p1, p2}
    RefundReqs = {r1, r2}
    Outputs = {o1, o2}
    Server = server
    Workers = {}
    PreimageProc = server
SYMMETRY Symmetry
INVARIANTS
    TypeOK
    LockExclusion
    OnlyRetryPaysRefunded
    RecordedMeansPaid
    OnlyRetryUnlocks
PROPERTIES
    SignedStaysLocked
    SuccessIsKept
    ImplementsOutcome
