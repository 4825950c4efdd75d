SPECIFICATION Spec
CONSTANTS
    Outputs = {o1, o2}
    LockTime = 6
    MinClaimBlocks = 2
    MinViableCltv = 1
    MinConfirmations = 2
    FinalCltvs = {0, 1, 2, 3}
    MaxLag = 1
    MaxHeight = 8
INVARIANTS
    TypeOK
    ClaimWindow
CHECK_DEADLOCK FALSE
