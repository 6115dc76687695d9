# A TLA+ model of the InfiniteRicks node

InfiniteRicks is a proof-of-work / proof-of-stake coin of the PPCoin–BlackCoin
family. This directory models the parts of the node (`src/src/*.cpp`) that
decide which chain is the best one and keep it across failures, checks them with
TLC on small instances, and proves nearly all of its safety properties with
TLAPS for every instance. `PROJECT.json` lists the components, the runs, the mutants, the
source lines of every definition, the findings, the hazards and the theorems.

## 1. The system

| Component | State | Operations | Talks to |
|---|---|---|---|
| Block index and best chain (`main.cpp`) | `mapBlockIndex`, `pnext` links, `pindexBest`, `nBestInvalidTrust`; on disk `blockindex`, `tx`, `hashBestChain` records | `AddToBlockIndex`, `SetBestChain`, `SetBestChainInner`, `Reorganize`, `ConnectBlock`, `DisconnectBlock`, `InvalidChainFound` | database, pool, wallet |
| Block intake (`main.cpp`) | `mapOrphanBlocks`, `mapOrphanBlocksByPrev`, `setStakeSeen`, `setStakeSeenOrphan`, the work queue | `ProcessBlock`, `AcceptBlock` | best chain, checkpoints, kernel |
| Synchronized checkpoints (`checkpoints.cpp`) | `hashSyncCheckpoint` (disk), `hashPendingCheckpoint`, `hashInvalidCheckpoint` (memory) | `ProcessSyncCheckpoint`, `AcceptPendingSyncCheckpoint`, `ValidateSyncCheckpoint`, `CheckSync`, `CheckHardened` | best chain, block intake |
| Memory pool, orphan transactions (`main.cpp`) | `mapTx`, `mapNextTx`, `mapOrphanTransactions`, `mapOrphanTransactionsByPrev` | `AcceptToMemoryPool`, `addUnchecked`, `remove`, `removeConflicts`, the `"tx"` message, `AddOrphanTx`, `LimitOrphanTxSize` | best chain, wallet, peers |
| Transaction database (`txdb-leveldb.*`) | one LevelDB, a write batch per handle | `TxnBegin`, `Read`, `Write`, `Erase`, `Exists`, `TxnCommit`, `TxnAbort` | LevelDB |
| Start-up (`txdb-leveldb.cpp`, `main.cpp`) | — | `LoadBlockIndex`, the check of the last blocks, `ResetSyncCheckpoint` | all of the above |
| Wallet (`wallet.cpp`) | wallet transactions with spent flags | `AddToWalletIfInvolvingMe`, `DisableTransaction`, coin selection, `CreateTransaction` | told by `SyncWithWallets` |
| Block creation (`miner.cpp`), kernel (`kernel.cpp`) | — | `CreateNewBlock`, `CheckProofOfStake`, stake modifier | pool, database |
| Transaction index (`main.cpp`) | `CTxIndex` records with a spender per output; `mapQueuedChanges` of a block | `ConnectInputs`, `FetchInputs`, `DisconnectInputs` | best chain, database |
| Connections (`net.cpp`) | `vNodes`, `vNodesDisconnected`, reference counts, `semOutbound` and its grants | socket, message and opening threads | everything |
| Block inventory (`main.cpp`, `net.*`) | `setInventoryKnown`, `vInventoryToSend`, `hashContinue`; `mapAskFor`, `mapAlreadyAskedFor`, the last `getblocks` | `getblocks`, `inv`, `getdata`, `block` messages, `SendMessages` | block intake |
| Peer addresses (`addrman.cpp`) | new and tried buckets, their indexes | `CAddrMan` | connections |
| Difficulty and rewards, scripts, keys, alerts, RPC, GUI, utilities | | | |

Interaction. Handlers of messages run under `cs_main`, so `ProcessBlock`, the
`"tx"` and `"checkpoint"` messages and everything they call never interleave.
What makes the chain code hard is not two threads but **one call that commits
several times and tells others before it commits**: `SetBestChain` writes up to
two plus one batch per postponed block, tells the wallet inside an open batch,
and changes pool and links after the commit. A crash can come between any two
of those, a block or a commit can fail in the middle, and the order in which
blocks, transactions and checkpoints arrive is the network's choice.

Threads do meet in two places: the staking thread reads `pindexBest` and signs
its block outside `cs_main`, and the threads of `net.cpp` share `CNode` objects
that they use after `cs_vNodes` is released. Two nodes meet in the exchange of
block inventory, in which each side guesses what the other has.

What makes each part correct:

* best chain: disk, memory and links name one chain; it is connectable, and the
  heaviest of that kind; a heavier one is adopted in the end; a crash leaves
  nothing that start-up cannot continue from;
* block intake: an orphan waits only for a missing block; the work queue ends;
* checkpoints: the sync-checkpoint stays on the best chain, moves to its own
  descendants only, and one that overtook its block is applied with it;
* pool: `mapNextTx` is exact (no double spend), nothing confirmed stays in it,
  inputs are known; an orphan follows its parents;
* database: batches are atomic and isolated, reads see the own batch;
* transaction index: it is exactly that of the best chain, a chain is connected
  if and only if it is a ledger, and what was connected can be disconnected;
* block creation: a block of our own that is not stale connects;
* connections: no thread uses a deleted node, every node goes in the end, and
  every outbound slot comes back (for what the code does of this, see section 6);
* block inventory: a node gets all of its peer's chain, and the exchange ends.

## 2. Modules

| Module | Models | Extends |
|---|---|---|
| `BlockTree` | the tree of blocks: parent, height, trust, `Chain[b]` | — |
| `ChainState` | index, best chain, `SetBestChain` commit by commit, crash, start-up | `BlockTree` |
| `ProcessBlock` | block intake and checkpoints; `SetBestChain` in one step | `BlockTree` |
| `Mempool` | pool, orphan transactions, effect of chain changes on them | `BlockTree` |
| `BlockAssembler` | the staking thread beside the pool | `Mempool` |
| `Ledger` | contents of blocks; which chains are ledgers | `BlockTree` |
| `CoinView` | abstract: best chain and its unspent outputs, moved at once | `Ledger` |
| `TxIndex` | `CTxIndex` records through connecting and disconnecting; implements `CoinView` | `Ledger` |
| `Connections` | life, references and outbound slots of `CNode`s among four threads | — |
| `BlockDownload` | block inventory between two nodes over one connection | — |
| `KVStore` | abstract: a transactional store, private view per handle | — |
| `TxDB` | LevelDB batches as `CTxDB` has them; implements `KVStore` | — |
| `AddrMan` | peer addresses: new and tried buckets, their indexes, `peers.dat` | — |
| `MC*` | instances for TLC | their module |
| `*Proofs` | lemmas and theorems; `MempoolProofs` is about `Mempool` and `BlockAssembler`, `NetProofs` about `Connections` and `BlockDownload` | their module |

**BlockTree.** Blocks form a tree by `Parent`, with heights and cumulative
trust that grow along it (`ASSUME TreeAssumption`); the trust of the code,
`nChainTrust`, is a sum of positive terms. `Chain[b]` is the set of `b` and its
ancestors.

**ChainState.** The variables are those of the table, split into memory and
disk. `pc` says where the call to `SetBestChain` stands, at each point where a
crash would leave a different disk:

    idle -> setbest -> inner -> newbest -> idle            extends the best chain
            setbest -> reorg -> secondary -> newbest       reorganizes
                                secondary <-> further      postponed blocks
    any  -> down -> idle | setbest                         crash and start-up

The transaction index is the set `dbTx` of the blocks whose transactions it
holds; `Connectable` are the blocks that `ConnectBlock` accepts on their
parent's chain. Where the index is not that of the parent's chain, the model
allows `ConnectBlock` both outcomes. `stakeSpent` are the coinstakes that the
wallet holds as spent. `Upgrade` are blocks that a later release rejects, which
is what the block check at start-up is for. Every commit may fail. That of
`SetBestChain` gives the call up; after that of `AddToBlockIndex`
(`AddToBlockIndexFails`) the block stays in `mapBlockIndex` without a record on
disk, and its children may be written later. `Records` are the `blockindex`
records that are written with a chain change: the parent's by `ConnectBlock` and
`DisconnectBlock`, the block's own by `ConnectBlock`. A start-up
is only possible when no record refers to a missing one (`Loadable`); the code
ends on the assertion at `kernel.cpp:368` otherwise. The callers of
`SetBestChain` here are `AddToBlockIndex` and start-up, not the checkpoints.

**ProcessBlock.** One step per block of the work queue, so that a crash can
come between two. `SetBestChain` is summarised by what it leaves behind: the
best block in memory (`pindexBest`), the last block really connected
(`dbBest`) and whether the transaction index is exactly that of `dbBest`'s
chain (`intact`). The call and `WriteSyncCheckpoint` after it are one step.
When the best block was never connected, the call may fail or end at any
postponed block. Header and time rules are the set `Rejected`, a
refused block that changes nothing is no step. The node has no master key.

**Mempool.** Every insertion and removal is a step, since threads that only
take `mempool.cs` see the pool between them. Signatures, fees and standardness
are left out, except that the rate limiter may refuse a transaction of `Free`
at any time. What a change of the chain does to the pool is a list of entries
(`todo`): first `Resurrect`, the transactions of the disconnected blocks above
`ForkHeight`, then `Redundant`, removal and conflicts for those of the connected
ones. A call goes to the first of the blocks that beat the old best one
(`Intermediate`), the postponed blocks above it follow one by one
(`ConnectFurther`). `Reorganize` may also go to a block with no more trust, as the
callers in `checkpoints.cpp` do; `forced` counts those. `lost` is a history variable: transactions of disconnected blocks that
did not come back. `relayed` are the transactions that the running `"tx"`
message has announced.

**BlockAssembler.** A second process beside the steps of `Mempool`. `prev` is
`pindexPrev`, read without a lock; from the scan of the pool to the end of the
collection the thread holds `cs_main` and `mempool.cs`, then it signs without a
lock, and `CheckStake` compares `prev` with the best block under `cs_main` again.
`dependsOn` and `dependers` are `setDependsOn` and `mapDependers`; `destroyed`
are the `COrphan`s that `vOrphan.pop_back` destroyed while `mapDependers` still
points to them, and touching one ends the thread in `"undefined"`. Which transaction of the
queue is next, and which are passed over for size or fee, is a free choice.
Two history variables: `collectedOn`, the best block at the time of the scan, and
`forcedSince`, whether a checkpoint has forced a branch since `prev` was read.

**Ledger, CoinView and TxIndex.** `Ledger` gives blocks transactions and says
what a correct chain is; `CoinView` is what readers of the index rely on.
`TxIndex` has the records one by one: `index` is what the open batch shows,
`queued` the changes of the block being connected, `dbIndex` what is
committed, and each transaction of a block is a step. `SetBestChain` may be
asked for any block; which one is the business of `ChainState`, whose `dbTx`
this module justifies. A call starts, as in the code, from the best block in memory
(`pindexBest`), and has a first batch (`first`) and one for each postponed block up to
`pindexNew`. A postponed block that fails ends the call with `pindexNew` as the best
block though it was not connected, and the next call connects or disconnects on an index
of another chain. From the first commit of such a call on (`strayed`) nothing is promised of the
index. `CoinView` has these as steps of its own: `RunAhead`, `Return`
(a restart goes back to the block on disk) and `Stray`.

**Connections.** What happens under `cs_vNodes` is one step, except in the
socket thread, whose removal of a node is split where the opening thread can
change the same node without that lock: `ConnectNode` puts a node into `vNodes`,
and only afterwards `OpenNetworkConnection` moves the grant to it (`MoveTo`) and
sets `fNetworkNode`. The flag `fHaveGrant` of a grant has no lock of its own, so
`CSemaphoreGrant::Release` and `MoveTo` (`sync.h:223-242`) take a step for each
access: read, post, clear, in the socket thread (`RemoveNode`, `PostGrant`,
`ClearGrant`) and in an opening one (`EnterGrant`, `PostFound`, `ClearFound`,
`MoveTo`). `races` counts how often a thread entered while another was
inside with the same node. `FindNode` also finds nodes that connected to us. It returns a pointer without a reference; what
`AddRef` then does is undefined when the node was deleted or its count is being
changed (`RefUndefined`), and that thread is not followed further. Everything
that can end a connection is `CloseSocketDisconnect`. The `TRY_LOCK`s that may
postpone a deletion by a turn of the loop are left out.

**BlockDownload.** `P` has one chain, and a block is its height; `L` has that
chain up to `have`, and perhaps a branch of its own. `known` and `toSend` are P's
`setInventoryKnown` and `vInventoryToSend` of L, `last` is L's filter of
repeated `getblocks`, `askFor` and `asked` are `mapAskFor` and
`mapAlreadyAskedFor`. Which block P finds for the locator of L's branch is a free
choice up to the fork. `PowBlocks` are the heights of proof-of-work blocks, which
`GetLastBlockIndex` looks for. `Remembered` is the `mruset` that forgets its oldest
entry, and `Split` cuts inventory and requests into messages of `InvSize` entries as
`SendMessages` does. Times are left out: `AskFor` delays a repeated request
(`net.h:410`), so first requests overtake repeated ones. A connection can be lost
with all messages under way (`Reconnect`), while L keeps its orphans and the marks of
what it asked for; `Restart` is the same with L restarted, which forgets them. Three history
variables serve the properties: `from`, the block at which the first `getblocks` of the
connection starts; `fresh`, that nothing was left over when it began; `goal`, the block
that L missed when P last had a new one. There is one peer, whose chain is not 144
blocks behind L's, so that the guard of the first `getblocks` (`main.cpp:2951-2956`)
always holds; and L's own relay of blocks it accepted (`main.cpp:2190-2198`) is left out.

**TxDB and KVStore.** `TxDB` appends to a batch and scans it from the front,
last entry wins; `KVStore` has a private map per handle. `Read` and `Exists` are
operations of both, with the same answers; `Exists` looks past a pending delete
to the database, and the abstract `Has` says so. The refinement maps a
batch to the map it stands for (`Store == INSTANCE KVStore WITH ...`).

**AddrMan.** Every call holds one lock and is one step. `Check` is the code's
own `Check_`, which only debug builds run. Times decide whether `Add_` does
anything and whom `ShrinkNew` and `SelectTried` pick; the model allows every
pick. `Shuffled` makes the random swaps of `GetAddr_` one after the other, for
every sequence of picks; `Restated` is an entry that changes its table. `Restart` saves and loads `peers.dat`; a crash between two dumps only
goes back to an earlier state. Calls that change statistics only are no step.

## 3. Runs

All runs finish in seconds to two minutes with two workers.

| Run | Instance | Shows |
|---|---|---|
| `chain` | 8 blocks on 3 branches, two that do not connect, two rejected by a later release, 2 crashes, 2 failed commits | `IInv`, `BestChainOnDisk`, `ConsistentWhenBenign`, `HeaviestValid`, `CrashLeavesOne`, `WalletStakes`, `BestTrustGrows`, `BadBlocksStayOff`; under fairness `HeavierIsAdopted` |
| `txindex` | 13 blocks, 15 transactions: double spends, early spends of a coinbase and of a coinstake, transactions on two branches; postponed blocks that fail, a batch lost anywhere, restarts | `IndexMatchesChain`, `DisconnectSucceeds`, `LedgerConnects`, `ImplementsView` |
| `mempool` | 6 blocks, 12 transactions, orphan limit 2, the staking thread, 1 forced branch | `PoolIndexExact`, `PoolNotConfirmed`, `MissingInputIsLost`, `OrphanIndexExact`, `OrphansFollow`, `OwnBlockConnects`, `InOrderOfDependency`, `UndefinedOnlyAfterLoss` |
| `txdb` | 2 handles, 2 keys, batches of 2 | `ImplementsStore`; deadlock is checked |
| `process_block` | 11 blocks on 4 branches with a shared stake, one that does not connect, a hardened checkpoint ahead of its block, signed ones that force a lighter branch, 1 restart | `SyncInMainChain`, `NoValidOrphanStuck`, `PendingIsMissing`, `SyncAdvances`, `QueueEnds` |
| `addrman` | 4 services on 3 hosts, 2 sources, buckets of one | `Check`, `BucketsBounded`, `TriedIsKept`, `RestartKeeps`; deadlock is checked |
| `connections` | 2 nodes, 1 service, 2 opening threads, 2 outbound slots, 1 inbound, 1 race for a grant | `NodesInUseLive`, `GrantsConserved`, `InboundIsDeleted`; deadlock is checked |
| `download` | batches of 2, 4 known blocks, messages of 4 entries, a chain of 6 that grows to 7, blocks 1, 3 and 5 proof of work, every branch of L shorter than a batch, 1 lost connection or restart | `KnownComes`, `BatchArrives`, `NewBlockResumes`, `DownloadedToPow`; under fairness `ExchangeEnds` |

Four more runs (`mempool_wallet`, `checkpoint_postponed`, `connection_grant`,
`download_stalls`) end in a violation: see section 6.

Deadlock checking is off where the system may stop: once every block of the
instance has arrived, nothing has to happen.

Bounds, and why they are enough. `MaxCrashes`, `MaxWriteFaults`, `MaxOrphans`,
`MaxForced`, `MaxRaces`, `MaxBatch`, `MaxIds`, `MaxHeight`, `MaxConnects` and the finite sets of blocks,
nodes and threads are the only bounds. Three branches of
two or three blocks with forks at two heights contain: an extension, a
reorganization at each fork, one that fails at its first or a later block, one
that postpones one block, a branch overtaken twice. Two crashes allow one
during the recovery from the other; two failed commits one of the block
index and one of the call that needs it. One forced branch is enough to bring a
block back as the best one that a heavier branch had replaced. Two handles with two keys and batches of two
hold an overwrite within a batch, a read of the other's key and a concurrent
commit. Three hosts and buckets of one hold an entry in two buckets, a full
bucket that gives up an entry with and without deleting it, and an evicted
entry that finds its own bucket full. Two nodes for one service hold a node that
is removed while it is opened, one found again, and a slot of memory used
twice, and one race all that two threads can do to one grant. A chain of three batches, of which the last lies above the last
proof-of-work block, holds the continue inv on both sides of that block, known
inventory that has been forgotten, and orphans across a batch. For the results in
section 5 the proofs remove the bounds.

The sizes of `download` have the proportions of the code: `setInventoryKnown` (1000)
and a message (1000) hold two batches (500). `DownloadedToPow` depends on that: with
messages of one batch TLC finds a download that stops earlier. It also holds on
larger instances that are not part of the runs (a chain that grows from 6 to 8, with all
blocks proof of work, 13 million states, or those up to 5, 17 million).

One bound of `BlockDownload` is a condition of its results: L's own branch is
shorter than a batch (500 blocks in the code). L's request below a longer
branch returns the same batch as before, and with one deeper than
`setInventoryKnown` (1000) `getblocks` and `inv` can go round for ever.

## 4. Fairness

`ChainState!FairSpec` assumes weak fairness of the steps of a running
`SetBestChain` (a thread inside `cs_main` runs to the end of its call) and of
the restart (a node that went down is started again). `ProcessBlock!FairSpec`
assumes the same of the loop over the work queue. Nothing is assumed of peers
there: no block, transaction or checkpoint has to arrive, so `HeavierIsAdopted`
speaks of chains that are in the index. Crashes are bounded, and never fair.

`Connections!FairSpec` assumes weak fairness of the socket thread, which waits
for nobody, and strong fairness of the message thread: it needs `cs_vNodes`,
which the socket thread takes again and again but releases to sleep. Nothing is assumed of
the opening threads, which may hang in `connect()`. `BlockDownload!FairDownload`
assumes that both nodes handle what arrived and send what waits
(`WF_downloadVars(Handle)`: the message threads loop for ever); new blocks and lost connections are not fair,
and both are bounded.

## 5. Proofs

All constants are arbitrary under the named assumptions (a tree with trust
growing along it, and the types of the rest).

* `BlockTreeProofs`: a chain contains its ancestors' chains, two chains that
  meet agree below, a block that is on a chain is no higher and no heavier
  than its tip.
* `ChainStateProofs`
  * `TypeCorrect`, `InductiveInvariant` (`Spec => []IInv`);
  * `BestChainAlwaysOnDisk`: `BestChainOnDisk`, whatever crashes, is rejected or fails to
    commit: what the best-chain record, the transaction index and the links name has a
    record in the block index on disk;
  * `BestChainConsistent`: `ConsistentWhenBenign`, so with no failed commit, no
    release that rejects old blocks, and either no crash or only connectable
    blocks met so far, disk, memory and links agree;
  * `HeaviestUntilCrash`: `HeaviestValid` before the first crash or failed commit;
  * `CrashLeavesAtMostOne`: `CrashLeavesOne`, under the conditions of
    `BestChainConsistent` each crash leaves behind at most one chain that is heavier than the
    best one;
  * `BestTrustOnlyGrows` (`BestTrustGrows`): under the same conditions the best chain is only ever
    replaced by a heavier one;
  * `WalletStakesMatch`: `WalletStakes`, while every block met connects and
    nothing fails;
  * `BadBlocksAlwaysStayOff`: `BadBlocksStayOff`, the ways in which a block that the
    running release rejects can be on the best chain.

  All but the first two speak of the callers that `ChainState` has, `AddToBlockIndex`
  and start-up. A checkpoint that forces a lighter branch is outside them (section 7).

  Consistency at rest is not inductive: it is lost in the middle of a call and
  restored at its end. `IInv` says what each stage guarantees. `IndexPart`:
  the index in memory is closed under parents, holds every block of the call and all
  that is on disk, and is the same as that one until a commit fails; records and links refer
  to records. `DiskPart`: transaction index, best record and links on
  disk describe one connectable chain at *every* moment, which is the point of
  the batches. `CallPart`: which block each stage has reached; in particular
  that `newbest` implies `dbBest = target`. `HeaviestPending`: besides the
  block in flight no more chains beat the best one than there were crashes
  (`LeftBehind`); this is why, without a crash,
  the parent of the new block never beats it, so nothing is postponed (lemma
  `NothingPostponed`) and the failing branch of the postponing loop is out
  of reach. A crash after the index commit and the finding
  `checkpoint_postponed` are the two ways to lose that premise.

  `WalletPart` adds where the wallet is ahead of the best chain: once a
  batch has connected its blocks, and until the call ends, it is at `target`. `BadPart`
  carries the conclusion of `BadBlocksStayOff` through a call. It replaces the
  plainer claim that start-up once it went back below a rejected block never
  returns to it. With two rejected blocks on different branches TLC refutes
  that one: a start-up leaves a best chain that is lighter than known branches,
  and a rejected block then comes back as a postponed one, whose errors are ignored.
* `TxDBProofs`: `DBTypeCorrect` and `BatchesImplementStore` (`Spec => Store!Spec`), with the
  answers of `Read` and `Exists`. The invariant relates each
  batch to the view of its handle; the key lemma says that appending an entry
  changes what `ScanBatch` finds for that key only.
* `TxIndexProofs`: `IndexIsThatOfTheChain` (`IndexMatchesChain`),
  `DisconnectAlwaysSucceeds`, `LedgerAlwaysConnects` and, from these,
  `IndexImplementsView` (`Spec => View!Spec`). They hold up to the first commit of
  a call that started from an unconnected best block; what happens inside a call, for a
  call that started from the connected one (`Grounded`). A chain is taken as the set of its
  *places*, pairs of a block and a position in it; a set of places is `Sound` when
  every transaction in it occurs once and spends ripe outputs that stand before it
  and that no other spends, and it defines a record for each transaction (`RecIn`).
  `IndexInv` says which block each batch has reached and starts from (`CallPart`), what is
  committed while not `strayed` (`DbPart`) and, while `Grounded`, at each stage of a batch
  of which sound set the index is the one (`StagePart`): disconnecting, the chain of `at` up to transaction `i`; connecting, the
  parent's chain, to which the queued changes add the block up to `i`. The
  lemmas say that adding a place that spends what is open, and taking away the last
  one, does to `RecIn` what `ConnectInputs` and `DisconnectInputs` do to the records.
* `MempoolProofs`
  * the pool: `PoolIndexAlwaysExact`, from it `PoolNeverDoubleSpends`;
    `MempoolTypeCorrect`, `PoolHoldsNothingConfirmed` (`PoolNotConfirmed`),
    `OnlyLostInputsMissing` (`MissingInputIsLost`), `OrphanIndexAlwaysExact`,
    `OrphansAlwaysFollow` (`OrphansFollow`);
  * the staking thread: `MinerImplementsMempool` (`MinerSpec => Spec`, so that all of
    the above holds beside it), `OwnBlockAlwaysConnects`, `CollectsInOrder`
    (`InOrderOfDependency`), `UndefinedNeedsLoss` (`UndefinedOnlyAfterLoss`).

  All but the index of spent outputs are false in the middle of a call, so `MempoolInv` describes the
  middle: `ChainPart`, a confirmed transaction that is in the pool is on
  the list to be removed, and what is on that list is confirmed, so that a removal without
  its descendants takes no input away; `FollowPart`, an orphan that spends an
  announced transaction is still to be tried, will be erased, or lacks another
  input. `MinerInv` adds to it `PrevPart`: unless a checkpoint forces a
  branch, the best chain only gains trust, so a
  parent that was left never becomes the best block again, and a block
  whose parent is the best block was collected on that very chain. The case left out,
  `forcedSince` and collected elsewhere, is the exception that `OwnBlockConnects` states; and
  `CollectPart`: for a transaction that lacks nothing, `setDependsOn` is its
  pool inputs not yet in the block, and only those that lack an input are
  ever destroyed.
* `ProcessBlockProofs`: with strict checkpoints `SyncStays` (`SyncInMainChain`)
  and `SyncOnlyAdvances` (`SyncAdvances`). The invariant adds that the index is
  closed under parents and holds the best and the connected block, and that
  `dbBest` is on `pindexBest`'s chain and at or above the checkpoint while the
  index is whole, so that a restart, which falls back to `dbBest`, keeps it. In
  either mode of checkpoints `PendingNeverForgotten` (`PendingIsMissing`) and
  `NoOrphanLeftBehind` (`NoValidOrphanStuck`), from `IntakeInv`: in the middle of a
  call an orphan whose parent is known waits behind an entry of the work queue.
  That the condition of both (the best block is connected) never returns once
  lost, but by a restart, which forgets orphans and the pending checkpoint, is what
  makes it inductive.
* `NetProofs`, on `Connections`: `ConnectionsTypeCorrect`, `NoReferencedNodeDeleted`
  (`NodesInUseLive`) and `OutboundSlotsConserved` (`GrantsConserved`), for any
  numbers of nodes, threads and slots. The first does not cover the pointer between
  `FindNode` and `AddRef`, which has no reference; the second holds until two threads are
  inside `Release` or `MoveTo` of one grant at once (`GrantPart`: before that, who is inside
  with a node is alone there, and the flag is what he read). `RefPart` is the reason that the counts
  are enough: a node has at least a reference for each thread that works on it and,
  until it is closed, the creator's if `CloseNode` is going to release one. At
  least, since the finding `connection_grant` leaves one too many.

  On `BlockDownload`, for all sizes of batches, messages and `setInventoryKnown`:
  `DownloadTypeCorrect`, `KnownArrives` (`KnownComes`), `BatchReceived`
  (`BatchArrives`) and `NewBlockBrings` (`NewBlockResumes`). The last three forbid
  silence, and each side has a rule that keeps it silent: L drops a
  `getblocks` equal to its last one, P leaves out what it believes L to know.
  `DownloadInv` says that neither rule drops anything needed. `Answered(r)`: the
  request `r` is on its way to P, or every block of its answer is had by L or
  under way to it; it holds of `last`, with which L compares, and of the first
  request of the connection (`FirstPart`). `KnownComes` is its counterpart for
  P's memory. `GoalPart` follows a new block of P: L has what it missed, has asked for
  it, or a block above it is on its way that L does not have, whose arrival as an
  orphan makes L ask. Here the bound on L's branch is used: such a request, which starts
  below that branch, reaches the missing block. TLC checked `DownloadInv` on a chain of 5
  that grows to 6, with sizes 4 and 4 and with the odd ones 3 and 2, before it was proved.
* `AddrManProofs`: `AddrManTypeCorrect`, `CheckAlwaysPasses` (`Check`),
  `BucketsNeverOverflow`, `TriedHostsAreKept` and `RestartKeepsAddresses`, for all
  numbers and sizes of buckets. `Tidy` is `Check_` with what it leaves out (which entries
  the indexes hold); it has an entry as parameter whose count may be one ahead
  of the buckets, which is how `Add_` leaves the tables between
  `nRefCount++` and the insertion into a bucket, with `ShrinkNew` and its
  deletions in between. For `Restart` the proof shows that an
  entry's place in the file is a bijection from the old ids to the new ones and
  that no reference is dropped by the limits that loading applies.

Some facts need induction: that every chain starts at the genesis block and has a
block at each height, that concatenating a list of lists, shuffling
(`Shuffled`) and choosing places of a sequence (`At`) have the values that their recursive equations say. The library's
induction theorems take an operator as parameter and cannot be used here; each
is proved by a least counterexample instead. A non-empty set of numbers has a least
element (`LeastNat`), and the equation at that number contradicts it.

Only model-checked: liveness (`HeavierIsAdopted`, `QueueEnds`,
`InboundIsDeleted`, `ExchangeEnds`), which is out of the prover's reach, and
`DownloadedToPow`. That one follows a download through all of its batches, of which
several can be under way in part and out of order, and it needs the proportions of the
sizes (section 3); no invariant was found that says why. Where a proof uses an
invariant of its own (`IndexInv`, `MempoolInv`, `MinerInv`, `ConnInv`, `IntakeInv`,
`AddrInv`, `DownloadInv`), the runs check the properties it implies, not the invariant.

## 6. Findings

Each is a run whose one property states what a comment of the code says.

* `checkpoint_postponed` (`checkpoints.cpp:417`, `main.cpp:1820`): after a
  checkpoint forced a lighter branch, the next block makes `SetBestChain`
  postpone blocks; one that does not connect ends the loop, but `pindexNew`
  becomes the best block all the same. A crash between the index commit and
  `SetBestChain` opens the same path.
* `mempool_wallet` (`main.cpp:3311`): the wallet is shown the wrong transaction
  in the orphan loop.
* `connection_grant` (`net.cpp:1741`): a node that the socket thread removes
  between `ConnectNode` and the end of `OpenNetworkConnection` has not got its
  grant and is not yet a network node, so neither the slot nor the creator's reference is
  given back, and then it is handed the grant.
* `download_stalls` (`main.cpp:3155`): the inv that is to trigger the next
  `getblocks` names the last *proof-of-work* block of P. L has that block already and
  asks again from there. When that is where its last `getblocks` started, it is
  dropped as a repetition (`net.cpp:94`), and both fall silent with blocks missing.
  `DownloadedToPow` says that a fresh connection never stops earlier, `BatchArrives` and
  `NewBlockResumes`, both proved, that a new connection brings a batch and a new block of
  P the one that was missing. Below the last proof-of-work block a
  connection that is not fresh can stall as well: the inv is only sent when the last block
  of a batch is requested, and if an earlier connection has left that block as an orphan, L
  never does. Marks in `mapAlreadyAskedFor` do the same: they change the order of
  requests, and a second `getblocks` from the same block then sets `hashContinue` to
  one that L has.

More disagreements between code and comments that the models contain, without
a run of their own:

* a reorganization that is aborted has already refunded coinstakes in the
  wallet (`main.cpp:1490`); `WalletStakes` holds while every block connects;
* after a reorganization pool transactions may spend outputs that no longer
  exist (`main.cpp:1724`), which `miner.cpp:203` says "should never happen".
  `MissingInputIsLost` is the exact statement that does hold, and
  `UndefinedOnlyAfterLoss` what it costs the miner (`miner.cpp:212`);
* children of a block that entered the index but did not connect wait for ever
  for a parent that is known (`main.cpp:2307`, against `main.cpp:2276`).
  `NoValidOrphanStuck` says that only those do;
* a set of stakes is too coarse for orphans that share one (`main.cpp:2324`,
  against the comment at `main.cpp:2284`);
* `Exists` ignores a pending delete (`txdb-leveldb.h:154`), which the abstract store has to
  say too; no caller is affected;
* the flag of a grant is read, posted and cleared without a lock (`sync.h:223-242`). An
  opening thread that got a node by `FindNode` and the socket thread that removes it can both post
  for it, which makes a slot out of nothing, and two opening threads that move
  their grants to one node can both see it without one, which loses a slot;
* a commit that fails in `AddToBlockIndex` (`main.cpp:1998`) leaves the block in
  memory, and a child that is written later refers to a record that is not there. The
  next start creates an empty entry for it and ends on an assertion
  (`kernel.cpp:368`);
* after a postponed block failed, the next call connects to, or disconnects, a best
  block that was never connected (`main.cpp:1774`, `main.cpp:1654`), and what it commits
  need not be the index of any chain; `IndexMatchesChain` and `ImplementsView` say
  that nothing else ends their promise;
* `CheckStake` compares the parent with the best block of its own moment
  (`miner.cpp:507`). When a checkpoint has brought the parent back, it passes a block that
  was collected on another chain and does not connect; `OwnBlockConnects` says
  that nothing else does.

Found in reading, outside the models: `SelectTried` remembers a position from before a swap
(`addrman.cpp:141`), so that it does not evict the least recent entry; `SignBlock`
raises `nTime` to the latest time of the collected transactions before it drops
those that are later (`main.cpp:2367`), so none is dropped and the block's time
may differ from its coinstake's, which `CheckBlock` refuses; `AskFor` counts two
minutes from the last request (`net.h:409`), but `SendMessages` writes
the time of sending over it (`main.cpp:3765`).

## 7. Not modelled

* Contents checks (amounts, signatures, sigops, header rules) are sets of
  accepted blocks and transactions.
* The first start of an empty data directory (a crash between the genesis block
  and the first `WriteSyncCheckpoint`), which is in the hazard list.
* In `ChainState`, the checkpoints that call `SetBestChain` (`checkpoints.cpp:176`, `264`,
  `417`). They compare no trust: `ConsistentWhenBenign`, `HeaviestValid`,
  `CrashLeavesOne` and `BestTrustGrows` are results about `AddToBlockIndex` and start-up.
  `ProcessBlock` and `Mempool` have that caller.
* A change of the checkpoint master key, automatic checkpoints of the master.
* Wallet spent flags other than coinstakes, coin selection, wallet files.
* Of connections: sockets and buffers, misbehaviour and bans, the trickle of
  transactions, DNS seeds, UPnP. Of inventory: transactions, several peers at
  once, a peer that reorganizes during the download, the times of `AskFor`.
* Times: block and transaction times, the rate limiter's decay, timeouts of
  connections. The retarget and reward formulas are arithmetic on numbers of
  up to 256 bits, the stake modifier and kernel on hashes.
* Alerts.
* Scripts, keys, encryption, RPC, GUI, vendored code: input and output,
  cryptography or third-party. The `qt/locale/*.ts` files are translations in
  Qt's XML format and contain no program; by lines they are most of the
  repository's files with that ending. The program is the C++ of `src/src/`.

`BestTrustGrows` concerns `AddToBlockIndex`, the caller that compares trust; the
start-up after an upgrade may choose a lighter chain as well.

## 8. Plan

Done, in this order: `BlockTree`, `ChainState`, `TxDB`/`KVStore`, `Mempool`,
`ProcessBlock`, `AddrMan` and their runs; `Ledger`/`CoinView`/`TxIndex`,
`BlockAssembler`, `Connections`, `BlockDownload`; the proofs of section 5.

Next: that `ProcessBlock` agrees with `ChainState` where both describe
`SetBestChain`, with the summary (`pindexBest`, `dbBest`, `intact`) as a function of
the state of `ChainState` between calls; and an invariant for `DownloadedToPow`.

Worth modelling later: the wallet's spent flags against the chain, the first
start, the checkpoint as a second
caller in `ChainState` so that `ProcessBlock` refines it, and the retarget
formula on bounded integers with signed spacing.
