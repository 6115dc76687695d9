--------------------------- MODULE BlockAssembler ---------------------------
(***************************************************************************)
(* The staking thread of miner.cpp beside the memory pool: CreateNewBlock, *)
(* which reads pindexBest without a lock and then collects transactions    *)
(* under cs_main and mempool.cs; SignBlock, without a lock; and the check  *)
(* of CheckStake that the block is not stale.                              *)
(*                                                                         *)
(* Sizes, fees, priorities and sigop limits are choices: any transaction   *)
(* of the queue may be next, and any may be passed over.  The coin that is *)
(* staked is left out, and so are times: the loop of SignBlock that drops  *)
(* later transactions never finds one, since nTime was raised to the       *)
(* latest of them before.                                                  *)
(***************************************************************************)
EXTENDS Mempool

CONSTANT NoBlock

VARIABLES
    minerPc,      \* where the thread is
    prev,         \* pindexPrev
    collectedOn,  \* history: the best block when the pool was scanned
    forcedSince,  \* history: a sync-checkpoint moved the best chain to one with
                  \* no more trust since prev was read, or was just doing so
    queue,        \* vecPriority
    dependsOn,    \* setDependsOn of each COrphan; {} for one that has none
    dependers,    \* mapDependers
    destroyed,    \* transactions whose COrphan was popped while mapDependers points to it
    vtx           \* the transactions collected for the block

history == <<collectedOn, forcedSince>>
minerVars == <<minerPc, prev, history, queue, dependsOn, dependers, destroyed, vtx>>
allVars == <<vars, minerVars>>

None == [t \in Txs |-> {}]

MinerInit ==
    /\ Init
    /\ minerPc = "idle" /\ prev = NoBlock /\ collectedOn = NoBlock /\ forcedSince = FALSE
    /\ queue = {} /\ dependsOn = None /\ dependers = None /\ destroyed = {} /\ vtx = <<>>

-----------------------------------------------------------------------------
(* CreateNewBlock.                                                           *)

(* "CBlockIndex* pindexPrev = pindexBest", with another thread possibly in   *)
(* the middle of SetBestChain.                                               *)
ReadPrev ==
    /\ minerPc = "idle"
    /\ minerPc' = "prev" /\ prev' = pindexBest
    /\ forcedSince' = (pindexBest # dbBest /\ Trust[pindexNew] <= Trust[pindexBest])
    /\ UNCHANGED <<vars, collectedOn, queue, dependsOn, dependers, destroyed, vtx>>

(* The previous transactions of t that are only in the pool, and those that  *)
(* are nowhere.                                                              *)
Prevs(t) == {o[1] : o \in Ins[t]}
InPool(t) == (Prevs(t) \ InChain) \cap mapTx
Missing(t) == (Prevs(t) \ InChain) \ mapTx

(* Mutant: vOrphan keeps its elements in a vector, which moves those already *)
(* pointed to when it grows.                                                 *)
ScanPoolVector(seen) ==
    /\ minerPc = "prev" /\ Idle
    /\ LET whole == {t \in mapTx : Missing(t) = {}} IN
          /\ queue' = {t \in whole : InPool(t) = {}}
          /\ dependsOn' = [t \in Txs |-> IF t \in whole THEN InPool(t) ELSE {}]
          /\ dependers' = [p \in Txs |-> {t \in mapTx : p \in InPool(t)}]
          /\ destroyed' = {t \in mapTx : InPool(t) # {}}
    /\ minerPc' = "collect" /\ vtx' = <<>> /\ collectedOn' = dbBest
    /\ UNCHANGED <<vars, prev, forcedSince>>

(* The scan of the pool.  A transaction that misses an input is passed over; *)
(* the inputs before that one, seen, are already in mapDependers.            *)
ScanPool(seen) ==
    /\ minerPc = "prev" /\ Idle
    /\ LET whole == {t \in mapTx : Missing(t) = {}}
           wait(t) == IF t \in whole THEN InPool(t) ELSE {}
           points(t) == IF t \in whole THEN InPool(t) ELSE InPool(t) \cap seen
       IN /\ queue' = {t \in whole : InPool(t) = {}}
          /\ dependsOn' = [t \in Txs |-> IF t \in mapTx THEN wait(t) ELSE {}]
          /\ dependers' = [p \in Txs |-> {t \in mapTx : p \in points(t)}]
          /\ destroyed' = {t \in mapTx \ whole : points(t) # {}}
    /\ minerPc' = "collect" /\ vtx' = <<>> /\ collectedOn' = dbBest
    /\ UNCHANGED <<vars, prev, forcedSince>>

(* Over a limit, or not connectable.                                         *)
Skip(t) ==
    /\ minerPc = "collect" /\ t \in queue
    /\ queue' = queue \ {t}
    /\ UNCHANGED <<vars, minerPc, prev, history, dependsOn, dependers, destroyed, vtx>>

(* FetchInputs and ConnectInputs for the miner, with mapTestPool: the inputs *)
(* are on the chain of the index or in the block so far, ripe at pindexPrev, *)
(* and spent by neither.                                                     *)
Ripe(t, b) ==
    \A o \in Ins[t] : o[1] \in Generated =>
        \A c \in Chain[b] : o[1] \in ToSet(Body[c]) => Height[b] - Height[c] >= Maturity

ConnectsInBlock(t) ==
    /\ Prevs(t) \subseteq InChain \cup ToSet(vtx)
    /\ Ripe(t, prev)
    /\ Ins[t] \cap (SpentBy(InChain) \cup SpentBy(ToSet(vtx))) = {}

(* Mutant: a depending transaction is queued with its first input.           *)
AddToBlockEager(t) ==
    /\ minerPc = "collect" /\ t \in queue
    /\ ConnectsInBlock(t)
    /\ vtx' = Append(vtx, t)
    /\ dependers[t] \cap destroyed = {}
    /\ dependsOn' = [u \in Txs |-> IF u \in dependers[t] THEN dependsOn[u] \ {t} ELSE dependsOn[u]]
    /\ queue' = (queue \ {t}) \cup dependers[t]
    /\ UNCHANGED <<vars, minerPc, prev, history, dependers, destroyed>>

(* Add the transaction, and queue what depended on it alone.                 *)
AddToBlock(t) ==
    /\ minerPc = "collect" /\ t \in queue
    /\ ConnectsInBlock(t)
    /\ vtx' = Append(vtx, t)
    /\ dependers[t] \cap destroyed = {}
    /\ dependsOn' = [u \in Txs |-> IF u \in dependers[t] THEN dependsOn[u] \ {t} ELSE dependsOn[u]]
    /\ queue' = (queue \ {t}) \cup {u \in dependers[t] : dependsOn[u] = {t}}
    /\ UNCHANGED <<vars, minerPc, prev, history, dependers, destroyed>>

(* The same, but a pointer of mapDependers[t] is to a COrphan that is gone:  *)
(* what happens is undefined, and nothing is followed any further.           *)
TouchDestroyed(t) ==
    /\ minerPc = "collect" /\ t \in queue
    /\ ConnectsInBlock(t)
    /\ dependers[t] \cap destroyed # {}
    /\ minerPc' = "undefined"
    /\ UNCHANGED <<vars, prev, history, queue, dependsOn, dependers, destroyed, vtx>>

EndOfCollect ==
    /\ minerPc = "collect" /\ queue = {}
    /\ minerPc' = "sign"
    /\ dependsOn' = None /\ dependers' = None /\ destroyed' = {}
    /\ UNCHANGED <<vars, prev, history, queue, vtx>>

-----------------------------------------------------------------------------
(* SignBlock finds no kernel, or CheckStake (under cs_main) finds the block  *)
(* stale, or passes it to ProcessBlock.                                      *)

Forget ==
    /\ prev' = NoBlock /\ vtx' = <<>> /\ collectedOn' = NoBlock /\ forcedSince' = FALSE
    /\ UNCHANGED <<queue, dependsOn, dependers, destroyed>>

NoKernel == minerPc = "sign" /\ minerPc' = "idle" /\ Forget /\ UNCHANGED vars

Stale == minerPc = "sign" /\ Idle /\ prev # dbBest /\ minerPc' = "idle" /\ Forget /\ UNCHANGED vars

(* Mutant: the staleness of the block is not checked.                        *)
CheckStakeNotStale ==
    /\ minerPc = "sign" /\ Idle
    /\ minerPc' = "found"
    /\ UNCHANGED <<vars, prev, history, queue, dependsOn, dependers, destroyed, vtx>>

CheckStake ==
    /\ minerPc = "sign" /\ Idle /\ prev = dbBest
    /\ minerPc' = "found"
    /\ UNCHANGED <<vars, prev, history, queue, dependsOn, dependers, destroyed, vtx>>

(* ProcessBlock(NULL, pblock) has the block; the thread starts over.         *)
StartOver == minerPc = "found" /\ minerPc' = "idle" /\ Forget /\ UNCHANGED vars

-----------------------------------------------------------------------------
Miner ==
    \/ ReadPrev \/ \E seen \in SUBSET mapTx : ScanPool(seen)
    \/ \E t \in Txs : Skip(t) \/ AddToBlock(t) \/ TouchDestroyed(t)
    \/ EndOfCollect \/ NoKernel \/ Stale \/ CheckStake \/ StartOver

(* While the thread collects, and while its block is processed, it holds     *)
(* cs_main.                                                                  *)
MinerNext ==
    \/ Miner
    \/ /\ minerPc \notin {"collect", "undefined", "found"}
       /\ Next
       /\ forcedSince' = (minerPc # "idle" /\ (forcedSince \/ forced' # forced))
       /\ UNCHANGED <<minerPc, prev, collectedOn, queue, dependsOn, dependers, destroyed, vtx>>

MinerSpec == MinerInit /\ [][MinerNext]_allVars

-----------------------------------------------------------------------------
(* Properties.                                                               *)

(* The transactions of s connect, in that order, as a block on top of b.     *)
Connects(s, b) ==
    \A i \in 1..Len(s) :
        LET before == ChainTxs[b] \cup {s[j] : j \in 1..i - 1} IN
        /\ Prevs(s[i]) \subseteq before
        /\ Ins[s[i]] \cap SpentBy(before) = {}
        /\ Ripe(s[i], b)

(* A block of our own that passes the check for staleness connects: although *)
(* pindexBest was read without the lock, and pool and chain have changed     *)
(* since, all that was collected is still in order on top of its parent.     *)
(* CheckStake compares only with the best block of its own moment, so there  *)
(* is one exception: the block was collected on another chain, and a         *)
(* sync-checkpoint that moved the best chain against its trust brought the   *)
(* parent back.                                                              *)
OwnBlockConnects ==
    minerPc = "found" => Connects(vtx, prev) \/ (collectedOn # prev /\ forcedSince)

(* "Connecting shouldn't fail due to dependency on other memory pool         *)
(* transactions because we're already processing them in order of            *)
(* dependency": what is in the queue has its pool inputs in the block, and   *)
(* nothing is queued twice.                                                  *)
InOrderOfDependency ==
    minerPc = "collect" => \A t \in queue : InPool(t) \subseteq ToSet(vtx) /\ t \notin ToSet(vtx)

(* The thread only ever touches a destroyed COrphan when a reorganization    *)
(* left a pool transaction without an input that a disconnected block had.   *)
UndefinedOnlyAfterLoss ==
    minerPc = "undefined" => \E t \in destroyed : Missing(t) \cap lost # {}

=============================================================================
