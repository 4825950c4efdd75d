SPECIFICATION LndSpec
CONSTANTS
    PayReqs = {p1}
    RefundReqs = {}
    Outputs = {o1}
    OtherPays = {x1}
    Server = server
    Workers = {}
    PreimageProc = server
INVARIANTS
    InFlightStaysLocked
