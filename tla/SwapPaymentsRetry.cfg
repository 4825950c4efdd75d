SPECIFICATION Spec
CONSTANTS
    PayReqs = {p1}
    RefundReqs = {r1}
    Outputs = {o1}
    Server = server
    Workers = {}
    PreimageProc = server
INVARIANTS
    RefundExcludesPayment
