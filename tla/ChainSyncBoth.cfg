SPECIFICATION FairSpec
CONSTANTS
    Blocks = {"g", "a1", "a2", "a3", "b1", "b2", "c2", "c3"}
    Birthday = "g"
    Parent <- MCParent
    Height <- MCHeight
    MaxHeight = 3
    None = "none"
    Txs <- MCTxs
    TxsIn <- MCTxsIn
    Spends <- MCSpends
    MaxStops = 1
INVARIANTS
    TypeOK
    MemoryIsPath
    KnownIsStored
PROPERTIES
    ImplementsChainStore
    TipFollowsBest
    BestIsRecorded
    ClaimedIsNotListed
