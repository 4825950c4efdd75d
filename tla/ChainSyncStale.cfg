SPECIFICATION FairSpec
CONSTANTS
    Blocks = {"g", "a1", "a2", "a3", "b1", "b2"}
    Birthday = "g"
    Parent <- MCParent
    Height <- MCHeight
    MaxHeight = 3
    None = "none"
    Txs <- MCTxs
    TxsIn <- MCTxsIn
    Spends <- MCSpends
    MaxStops = 0
PROPERTIES
    StaleLeaves
