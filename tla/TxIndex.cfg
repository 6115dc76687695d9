SPECIFICATION Spec
CONSTANTS
    Blocks <- MCBlocks
    Genesis = "g"
    Parent <- MCParent
    Height <- MCHeight
    Trust <- MCHeight
    Txs <- MCTxs
    vtx <- MCvtx
    Ins <- MCIns
    nOuts <- MCnOuts
    Generated <- MCGenerated
    Maturity = 2
    NoBlock = NoBlock
    NoTx = NoTx
INVARIANT IndexMatchesChain
INVARIANT DisconnectSucceeds
INVARIANT LedgerConnects
PROPERTY ImplementsView
