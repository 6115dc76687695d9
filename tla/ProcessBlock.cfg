SPECIFICATION FairSpec
CONSTANTS
    Blocks <- MCBlocks
    Genesis = "g"
    Parent <- MCParent
    Height <- MCHeight
    Trust <- MCTrust
    NoBlock = "noblock"
    Connectable = {"g", "a1", "a2", "a3", "b1", "b2", "b3", "e4", "d1", "d2"}
    Rejected = {"d2"}
    Stake <- MCStake
    NoStake = "none"
    Kernel <- MCKernel
    Hardened = "b3"
    Signed = {"a1", "b1", "b2"}
    Strict = TRUE
    MaxCrashes = 1
INVARIANT SyncInMainChain
INVARIANT NoValidOrphanStuck
INVARIANT PendingIsMissing
PROPERTY SyncAdvances
PROPERTY QueueEnds
CHECK_DEADLOCK FALSE
