SPECIFICATION MinerSpec
CONSTANTS
    Blocks <- MCBlocks
    Genesis = "g"
    Parent <- MCParent
    Height <- MCHeight
    Trust <- MCTrust
    Txs <- MCTxs
    Ins <- MCIns
    Generated <- MCGenerated
    Free = {"e", "f"}
    Large = {}
    Body <- MCBody
    NoTx = "none"
    NoBlock = "none"
    Maturity = 1
    LastCheckpoint = 0
    MaxOrphans = 2
    MaxForced = 1
INVARIANT PoolIndexExact
INVARIANT PoolNotConfirmed
INVARIANT MissingInputIsLost
INVARIANT OrphanIndexExact
INVARIANT OwnBlockConnects
INVARIANT InOrderOfDependency
INVARIANT UndefinedOnlyAfterLoss
PROPERTY OrphansFollow
CHECK_DEADLOCK FALSE
