SPECIFICATION Spec
CONSTANTS
    Services <- MCServices
    Host <- MCHost
    Sources = {"p", "q"}
    NewBuckets = {1, 2}
    TriedBuckets = {1}
    NewBucket <- MCNewBucket
    TriedBucket <- MCTriedBucket
    NewSize = 1
    TriedSize = 1
    MaxRefs = 2
    GetAddrPct = 70
    GetAddrMax = 2
    MaxIds = 4
INVARIANT Check
INVARIANT BucketsBounded
PROPERTY TriedIsKept
PROPERTY RestartKeeps
