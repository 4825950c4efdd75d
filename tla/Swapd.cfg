SPECIFICATION FairSpec
CONSTANTS
    Reqs = {r1, r2}
    HashOf <- OneHash
    Flags = {"claim", "preimage", "chain", "servers"}
    MaxStarts = 2
INVARIANTS
    TypeOK
    ToldIsTracked
PROPERTIES
    StopsTogether
CHECK_DEADLOCK FALSE
