SPECIFICATION FairSpec
CONSTANTS
    Blocks <- MCBlocks
    Genesis = "g"
    Parent <- MCParent
    Height <- MCHeight
    Trust <- MCTrust
    NoBlock = "none"
    Connectable = {"g", "a1", "a2", "b1", "b2", "c2"}
    Upgrade = {"a1", "b2"}
    CheckDepth = 1
    MaxCrashes = 2
    MaxWriteFaults = 2
INVARIANT IInv
INVARIANT BestChainOnDisk
INVARIANT ConsistentWhenBenign
INVARIANT HeaviestValid
INVARIANT CrashLeavesOne
INVARIANT WalletStakes
PROPERTY BestTrustGrows
PROPERTY BadBlocksStayOff
PROPERTY HeavierIsAdopted
CHECK_DEADLOCK FALSE
