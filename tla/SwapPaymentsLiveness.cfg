SPECIFICATION FairSpec
CONSTANTS
    PayReqs = {p1, p2}
    RefundReqs = {}
    Outputs = {o1}
    Server = server
    Workers = {}
    PreimageProc = server
PROPERTIES
    PaidIsRecorded
    AdoptedAttemptResolves
