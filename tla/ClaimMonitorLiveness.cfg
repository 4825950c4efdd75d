SPECIFICATION FairSpec
CONSTANTS
    Outputs <- MCOutputs
    SwapOf <- TwoSwaps
    TxOf <- OneTx
    UserTakes = {}
    OperatorTakes = {{"o1", "o2"}}
    LostResults = {"o1"}
    Rates = {1, 2}
    StartRates = {1}
    MinDiff = 1
    AffordableRate = 2
    Addresses <- ManyAddresses
    Faults = {"stop", "error", "evict", "reorg"}
    MaxMoves = 1
    MaxManual = 1
    MaxEvents = 2
PROPERTIES
    PaidIsClaimed
    ClaimedLeaves
