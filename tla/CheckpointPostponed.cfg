SPECIFICATION Spec
CONSTANTS
    Blocks <- MCBlocks
    Genesis = "g"
    Parent <- MCParent
    Height <- MCHeight
    Trust <- MCTrust
    NoBlock = "noblock"
    Connectable = {"g", "a1", "a2", "a3", "b1", "b2", "d1", "d2"}
    Rejected = {}
    Stake <- MCStake
    NoStake = "none"
    Kernel <- MCKernel
    Hardened = "g"
    Signed = {"b1"}
    Strict = TRUE
    MaxCrashes = 0
INVARIANT BestIsConnected
CHECK_DEADLOCK FALSE
