SPECIFICATION MinerSpec
CONSTANTS
    Blocks <- MCBlocks
    Genesis = "g"
    Parent <- MCParent
    Height <- MCHeight
    Trust <- MCTrust
    Txs <- MCTxs
    Ins <- MCIns
    Generated <- MCGenerated
    Free = {}
    Large = {}
    Body <- MCBody
    NoTx = "none"
    NoBlock = "none"
    Maturity = 1
    LastCheckpoint = 0
    MaxOrphans = 1
    MaxForced = 0
INVARIANT WalletKnowsRelayed
CHECK_DEADLOCK FALSE
