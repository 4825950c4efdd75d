SPECIFICATION LndFairSpec
CONSTANTS
    PayReqs = {p1}
    RefundReqs = {r1}
    Outputs = {o1}
    OtherPays = {x1}
    Server = server
    Workers = {}
    PreimageProc = server
INVARIANTS
    LndTypeOK
    RefundExcludesPayment
    OnlyOffsetUnlocks
    OnlyOffsetMisrecords
PROPERTIES
    ImplementsOutcome
    OnlyOffsetForgets
    AdoptedAttemptResolves
