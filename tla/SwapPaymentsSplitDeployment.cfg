SPECIFICATION Spec
CONSTANTS
    PayReqs = {p1}
    RefundReqs = {r1}
    Outputs = {o1}
    Server = server
    Workers = {w1}
    PreimageProc = server
INVARIANTS
    OnlyRetryPaysRefunded
