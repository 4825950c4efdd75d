SPECIFICATION Spec
CONSTANTS
    Outputs <- MCOutputs
    SwapOf <- OneSwap
    TxOf <- TwoTxs
    UserTakes = {"o1"}
    OperatorTakes = {{"o1"}, {"o2"}, {"o1", "o2"}}
    LostResults = {"o1", "o2"}
    Rates = {1, 2, 3}
    StartRates = {1}
    MinDiff = 1
    AffordableRate = 2
    Addresses <- ManyAddresses
    Faults = {"stop", "error", "evict", "reorg"}
    MaxMoves = 1
    MaxManual = 1
    MaxEvents = 2
INVARIANTS
    TypeOK
    UnpaidIsNotTaken
    OneDestinationOneClaim
