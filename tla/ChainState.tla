----------------------------- MODULE ChainState -----------------------------
(***************************************************************************)
(* The block tree and the best chain of the node: AddToBlockIndex,         *)
(* SetBestChain, SetBestChainInner, Reorganize, ConnectBlock and           *)
(* DisconnectBlock of main.cpp, and the start-up of                        *)
(* CTxDB::LoadBlockIndex in txdb-leveldb.cpp.                              *)
(*                                                                         *)
(* The call chain AddToBlockIndex -> SetBestChain runs under cs_main, so   *)
(* nothing interleaves with it except a crash.  It commits several LevelDB *)
(* batches, though, and a crash between two of them is what the small      *)
(* steps below (the values of pc) make visible.                            *)
(*                                                                         *)
(* A block stands for its whole contents; the transaction index is         *)
(* abstracted to the set dbTx of blocks whose transactions it holds.  The  *)
(* memory pool, which SetBestChainInner and Reorganize also update, is the *)
(* state of module Mempool.                                                *)
(***************************************************************************)
EXTENDS BlockTree, FiniteSets

CONSTANTS
    NoBlock,       \* NULL / hash 0
    Connectable,   \* blocks that ConnectBlock accepts on top of their parent's chain
    Upgrade,       \* blocks that the CheckBlock of a later release rejects
    CheckDepth,    \* how deep start-up verifies: -checkblocks (its 0 is a huge number)
    MaxCrashes,    \* bound on crashes
    MaxWriteFaults \* bound on failing TxnCommit calls

ASSUME NoBlockAssumption == NoBlock \notin Blocks

ASSUME ValidityAssumption ==
    /\ Connectable \subseteq Blocks /\ Genesis \in Connectable
    /\ Upgrade \subseteq Blocks \ {Genesis}

ASSUME BoundAssumption ==
    IsFiniteSet(Blocks) /\ CheckDepth \in Nat /\ MaxCrashes \in Nat /\ MaxWriteFaults \in Nat

VARIABLES
    mapBlockIndex,     \* blocks with a CBlockIndex in memory
    pnext,             \* CBlockIndex::pnext, in memory
    pindexBest,        \* also hashBestChain, nBestHeight, nBestChainTrust
    nBestInvalidTrust, \* written through to disk
    dbIndex,           \* "blockindex" records on disk
    dbNext,            \* their hashNext
    dbBest,            \* "hashBestChain" record on disk
    dbTx,              \* blocks whose effects the "tx" records hold whole
    stakeSpent,        \* blocks whose coinstake inputs the wallet holds as spent
    bad,               \* blocks the running release's CheckBlock rejects
    pc,                \* where the call to SetBestChain stands
    target,            \* its argument pindexNew
    joining,           \* the block ConnectBlock or Reorganize last went up to
    crashes, writeFaults

memory == <<mapBlockIndex, pnext, pindexBest>>
disk == <<dbNext, dbBest, dbTx>>
faults == <<crashes, writeFaults>>
vars == <<memory, nBestInvalidTrust, dbIndex, disk, stakeSpent, bad,
          pc, target, joining, faults>>

Init ==
    /\ mapBlockIndex = {Genesis}
    /\ pnext = [b \in Blocks |-> NoBlock]
    /\ pindexBest = Genesis
    /\ nBestInvalidTrust = 0
    /\ dbIndex = {Genesis}
    /\ dbNext = [b \in Blocks |-> NoBlock]
    /\ dbBest = Genesis
    /\ dbTx = {Genesis}
    /\ stakeSpent = {Genesis}
    /\ bad = {}
    /\ pc = "idle"
    /\ target = Genesis
    /\ joining = Genesis
    /\ crashes = 0
    /\ writeFaults = 0

-----------------------------------------------------------------------------
(* ConnectBlock and DisconnectBlock.                                         *)

(* The blocks that ConnectBlock, which starts with CheckBlock, accepts when  *)
(* the transaction index is that of their parent's chain.                    *)
Valid == Connectable \ bad

(* ConnectBlock accepts b.  On a transaction index that is not that of b's   *)
(* parent chain the outcome depends on which inputs b happens to spend.      *)
ConnectSucceeds(b) == b \in Valid \/ (b \notin bad /\ dbTx # Chain[Parent[b]])
ConnectFails(b) == b \notin Valid \/ dbTx # Chain[Parent[b]]

(* The links after the branch "off" was disconnected and "on" connected.     *)
Relink(next, on, off) ==
    [x \in Blocks |->
        IF ChildrenIn(on, x) # {} THEN CHOOSE c \in ChildrenIn(on, x) : TRUE
        ELSE IF ChildrenIn(off, x) # {} THEN NoBlock
        ELSE next[x]]

(* Mutant: DisconnectBlock does not clear hashNext of the previous record.   *)
RelinkOnDiskKeepsOff(on, off) ==
    Relink([x \in Blocks |-> IF x \in on THEN pnext[x] ELSE dbNext[x]], on, {})

(* The same for the block index records: ConnectBlock also rewrites the      *)
(* record of the block itself, with the hashNext that it has in memory.      *)
RelinkOnDisk(on, off) ==
    Relink([x \in Blocks |-> IF x \in on THEN pnext[x] ELSE dbNext[x]], on, off)

(* Mutant: ConnectBlock writes the record of the previous block only.        *)
RecordsOfParents(on, off) == {Parent[x] : x \in (on \cup off) \ {Genesis}}

(* The block index records that are written with them: that of the previous  *)
(* block by both, that of the block itself by ConnectBlock.                  *)
Records(on, off) == on \cup {Parent[x] : x \in (on \cup off) \ {Genesis}}

-----------------------------------------------------------------------------
(* SetBestChain.                                                             *)

(* Mutant: the first block that beats the best chain is postponed as well.   *)
PostponedTooEarly(b) == {y \in Chain[b] \ {Genesis} : Trust[y] > Trust[pindexBest]}

(* vpindexSecondary: the end of pindexNew's chain that the reorganization    *)
(* can postpone, because what is below it already beats the best chain.      *)
Postponed(b) ==
    {y \in Chain[b] \ {Genesis} : Trust[Parent[y]] > Trust[pindexBest]}

InvalidChainFound(b) ==
    nBestInvalidTrust' =
        IF Trust[b] > nBestInvalidTrust THEN Trust[b] ELSE nBestInvalidTrust

(* Mutants: chains are compared by height; a tie replaces the best chain.    *)
BeatsBestByHeight(b) == Height[b] > Height[pindexBest]
BeatsBestOnTie(b) == Trust[b] >= Trust[pindexBest]

BeatsBest(b) == Trust[b] > Trust[pindexBest]

(* AddToBlockIndex: a new block whose parent is known enters the index in    *)
(* memory and, in a batch of its own, on disk; SetBestChain is called for it *)
(* when its chain has more trust than the best one.                          *)
AddToBlockIndex(b) ==
    /\ pc = "idle"
    /\ b \notin mapBlockIndex
    /\ b \notin bad
    /\ Parent[b] \in mapBlockIndex
    /\ mapBlockIndex' = mapBlockIndex \cup {b}
    /\ dbIndex' = dbIndex \cup {b}
    /\ target' = b
    /\ pc' = IF BeatsBest(b) THEN "setbest" ELSE "idle"
    /\ UNCHANGED <<pnext, pindexBest, nBestInvalidTrust, disk, stakeSpent, bad,
                   joining, faults>>

(* Its commit fails: the block stays in memory, and no call is made for it.  *)
AddToBlockIndexFails(b) ==
    /\ pc = "idle"
    /\ b \notin mapBlockIndex
    /\ b \notin bad
    /\ Parent[b] \in mapBlockIndex
    /\ writeFaults < MaxWriteFaults
    /\ writeFaults' = writeFaults + 1
    /\ mapBlockIndex' = mapBlockIndex \cup {b}
    /\ UNCHANGED <<pnext, pindexBest, nBestInvalidTrust, dbIndex, disk, stakeSpent, bad,
                   pc, target, joining, crashes>>

(* SetBestChainInner up to TxnCommit: ConnectBlock fills the batch, and      *)
(* tells the wallet of the block's transactions at once.                     *)
ConnectInner(b, then) ==
    /\ ConnectSucceeds(b)
    /\ stakeSpent' = stakeSpent \cup {b}
    /\ joining' = b
    /\ pc' = then
    /\ UNCHANGED <<memory, nBestInvalidTrust, dbIndex, disk, bad, target, faults>>

(* SetBestChainInner when ConnectBlock fails: TxnAbort drops the batch.      *)
RejectInner(b, then) ==
    /\ ConnectFails(b)
    /\ InvalidChainFound(b)
    /\ pc' = then
    /\ UNCHANGED <<memory, dbIndex, disk, stakeSpent, bad, target, joining, faults>>

(* The rest of SetBestChainInner: TxnCommit, then the link in memory.        *)
CommitInner(then) ==
    /\ dbBest' = joining
    /\ dbTx' = dbTx \cup {joining}
    /\ dbIndex' = dbIndex \cup Records({joining}, {})
    /\ dbNext' = RelinkOnDisk({joining}, {})
    /\ pnext' = Relink(pnext, {joining}, {})
    /\ pc' = then
    /\ UNCHANGED <<mapBlockIndex, pindexBest, nBestInvalidTrust, stakeSpent, bad, target,
                   joining, faults>>

Extends == target # Genesis /\ Parent[target] = pindexBest

(* hashPrevBlock == hashBestChain: the block goes on top of the best chain.  *)
Extend == pc = "setbest" /\ Extends /\ ConnectInner(target, "inner")
ExtendRejected == pc = "setbest" /\ Extends /\ RejectInner(target, "idle")
ExtendCommit == pc = "inner" /\ CommitInner("newbest")

(* Mutant: the blocks of the old branch are not disconnected.                *)
OffBranchForgotten(i) == {}

(* Reorganize, up to TxnCommit, to the intermediate block i: the branch of   *)
(* the best chain is disconnected and i's branch is connected, all in the    *)
(* batch; the wallet hears of every block on the way.                        *)
OffBranch(i) == Chain[pindexBest] \ Chain[i]
OnBranch(i) == Chain[i] \ Chain[pindexBest]

Intermediate(i) == i \in Chain[target] /\ Chain[i] = Chain[target] \ Postponed(target)

(* Mutant: the coinstakes of the old branch are not refunded.                *)
ReorganizeNoRefund(i) ==
    /\ pc = "setbest" /\ ~Extends
    /\ Intermediate(i)
    /\ OnBranch(i) \subseteq Valid
    /\ stakeSpent' = stakeSpent \cup OnBranch(i)
    /\ joining' = i
    /\ pc' = "reorg"
    /\ UNCHANGED <<memory, nBestInvalidTrust, dbIndex, disk, bad, target, faults>>

Reorganize(i) ==
    /\ pc = "setbest" /\ ~Extends
    /\ Intermediate(i)
    /\ IF dbTx = Chain[pindexBest]
       THEN OnBranch(i) \subseteq Valid
       ELSE OnBranch(i) \cap bad = {}
    /\ stakeSpent' = (stakeSpent \ OffBranch(i)) \cup OnBranch(i)
    /\ joining' = i
    /\ pc' = "reorg"
    /\ UNCHANGED <<memory, nBestInvalidTrust, dbIndex, disk, bad, target, faults>>

(* What the wallet was told when Reorganize stops at the first block that    *)
(* does not connect.  On a transaction index that is not that of the best    *)
(* chain it may stop at any block that it is to disconnect or connect.       *)
ToldWallet(i) ==
    IF dbTx = Chain[pindexBest]
    THEN {(stakeSpent \ OffBranch(i)) \cup {y \in OnBranch(i) : OnBranch(y) \subseteq Valid}}
    ELSE {stakeSpent \ {x \in OffBranch(i) : Height[x] > Height[d]} : d \in OffBranch(i)}
             \cup {(stakeSpent \ OffBranch(i)) \cup OnBranch(y) :
                       y \in {y \in Chain[i] \ {i} : /\ Chain[i] \cap Chain[pindexBest] \subseteq Chain[y]
                                                     /\ OnBranch(y) \cap bad = {}}}

(* SetBestChain aborts the batch and gives up.                               *)
ReorganizeRejected(i) ==
    /\ pc = "setbest" /\ ~Extends
    /\ Intermediate(i)
    /\ dbTx = Chain[pindexBest] => ~(OnBranch(i) \subseteq Valid)
    /\ stakeSpent' \in ToldWallet(i)
    /\ InvalidChainFound(target)
    /\ pc' = "idle"
    /\ UNCHANGED <<memory, dbIndex, disk, bad, target, joining, faults>>

(* The commit, then the links in memory.  Disconnecting a block that was     *)
(* never connected clears spends that belong to others ("lost").             *)
ReorganizeCommit(lost) ==
    /\ pc = "reorg"
    /\ OffBranch(joining) \subseteq dbTx => lost = {}
    /\ dbBest' = joining
    /\ dbTx' = ((dbTx \ OffBranch(joining)) \cup OnBranch(joining)) \ lost
    /\ dbIndex' = dbIndex \cup Records(OnBranch(joining), OffBranch(joining))
    /\ dbNext' = RelinkOnDisk(OnBranch(joining), OffBranch(joining))
    /\ pnext' = Relink(pnext, OnBranch(joining), OffBranch(joining))
    /\ pc' = "secondary"
    /\ UNCHANGED <<mapBlockIndex, pindexBest, nBestInvalidTrust, stakeSpent, bad, target,
                   joining, faults>>

(* The loop that connects the postponed blocks, one batch each.  joining is  *)
(* the last block connected; an error ends the loop and nothing more.        *)
NextPostponed(y) == y \in Chain[target] \ {Genesis} /\ Parent[y] = joining

ConnectFurther(y) ==
    pc = "secondary" /\ NextPostponed(y) /\ ConnectInner(y, "further")
ConnectFurtherRejected(y) ==
    pc = "secondary" /\ NextPostponed(y) /\ RejectInner(y, "newbest")
FurtherCommit == pc = "further" /\ CommitInner("secondary")

FurtherDone ==
    /\ pc = "secondary" /\ joining = target
    /\ pc' = "newbest"
    /\ UNCHANGED <<memory, nBestInvalidTrust, dbIndex, disk, stakeSpent, bad,
                   target, joining, faults>>

(* "New best block": the variables of the best chain are moved to pindexNew. *)
NewBestBlock ==
    /\ pc = "newbest"
    /\ pindexBest' = target
    /\ pc' = "idle"
    /\ UNCHANGED <<mapBlockIndex, pnext, nBestInvalidTrust, dbIndex, disk, stakeSpent,
                   bad, target, joining, faults>>

(* TxnCommit fails: nothing is written.  SetBestChain returns an error,      *)
(* except in the loop over the postponed blocks, which it only ends.         *)
CommitFails ==
    /\ pc \in {"inner", "reorg", "further"}
    /\ writeFaults < MaxWriteFaults
    /\ writeFaults' = writeFaults + 1
    /\ IF pc = "reorg" THEN InvalidChainFound(target) ELSE UNCHANGED nBestInvalidTrust
    /\ pc' = IF pc = "further" THEN "newbest" ELSE "idle"
    /\ UNCHANGED <<memory, dbIndex, disk, stakeSpent, bad, target, joining, crashes>>

-----------------------------------------------------------------------------
(* Crash and start-up.                                                       *)

(* The process stops, wherever it is; what LevelDB committed stays.          *)
Crash ==
    /\ pc # "down"
    /\ crashes < MaxCrashes
    /\ crashes' = crashes + 1
    /\ pc' = "down"
    /\ UNCHANGED <<memory, nBestInvalidTrust, dbIndex, disk, stakeSpent, bad,
                   target, joining, writeFaults>>

(* Mutant: only the best block itself is checked.                            *)
FoundBadAtTip(rejected) == {dbBest} \cap rejected

(* The blocks that the start-up check of the best chain finds bad: it walks  *)
(* back from hashBestChain for -checkblocks blocks.                          *)
FoundBad(rejected) ==
    {y \in Chain[dbBest] \cap rejected : Height[y] >= Height[dbBest] - CheckDepth}

(* InsertBlockIndex makes an empty CBlockIndex for a hashPrev or hashNext    *)
(* that has no record, and on that GetStakeModifierChecksum fails an assert. *)
Loadable ==
    ParentClosed(dbIndex) /\ \A b \in dbIndex : dbNext[b] \in dbIndex \cup {NoBlock}

(* LoadBlockIndex reads the index and the best chain from disk, and when it  *)
(* finds a bad block moves the best chain back to just before the lowest one *)
(* with a call to SetBestChain.  The binary may have been upgraded.          *)
LoadBlockIndex(rejected) ==
    /\ pc = "down" /\ Loadable
    /\ bad' = rejected
    /\ mapBlockIndex' = dbIndex
    /\ pnext' = dbNext
    /\ pindexBest' = dbBest
    /\ \/ /\ FoundBad(rejected) = {}
          /\ pc' = "idle"
          /\ target' = dbBest
       \/ \E y \in FoundBad(rejected) :
             /\ \A z \in FoundBad(rejected) : Height[y] <= Height[z]
             /\ target' = Parent[y]
             /\ pc' = "setbest"
    /\ joining' = dbBest
    /\ UNCHANGED <<nBestInvalidTrust, dbIndex, disk, stakeSpent, faults>>

-----------------------------------------------------------------------------
(* A step of a running call to SetBestChain. *)
SetBestChain ==
    \/ Extend \/ ExtendRejected \/ ExtendCommit
    \/ \E i \in Blocks : Reorganize(i) \/ ReorganizeRejected(i)
    \/ \E lost \in SUBSET dbTx : ReorganizeCommit(lost)
    \/ \E y \in Blocks : ConnectFurther(y) \/ ConnectFurtherRejected(y)
    \/ FurtherCommit \/ FurtherDone
    \/ NewBestBlock

Restart == \E rejected \in {bad, bad \cup Upgrade} : LoadBlockIndex(rejected)

Next ==
    \/ \E b \in Blocks : AddToBlockIndex(b) \/ AddToBlockIndexFails(b)
    \/ SetBestChain
    \/ CommitFails
    \/ Crash
    \/ Restart

Spec == Init /\ [][Next]_vars

(* The thread that processes a block runs SetBestChain to its end, and a     *)
(* node that went down is started again.  Nothing makes peers send blocks.   *)
FairSpec == Spec /\ WF_vars(SetBestChain) /\ WF_vars(Restart)

-----------------------------------------------------------------------------
(* Properties.                                                               *)

Stages == {"idle", "setbest", "inner", "reorg", "secondary", "further", "newbest",
           "down"}

(* Every variable keeps its type (the members of CBlockIndex, the records of *)
(* txdb and the progress of SetBestChain).                                   *)
TypeOK ==
    /\ mapBlockIndex \subseteq Blocks /\ dbIndex \subseteq Blocks
    /\ pnext \in [Blocks -> Blocks \cup {NoBlock}]
    /\ dbNext \in [Blocks -> Blocks \cup {NoBlock}]
    /\ pindexBest \in Blocks /\ dbBest \in Blocks
    /\ nBestInvalidTrust \in Nat
    /\ dbTx \subseteq Blocks /\ stakeSpent \subseteq Blocks /\ bad \subseteq Blocks
    /\ pc \in Stages
    /\ target \in Blocks /\ joining \in Blocks
    /\ crashes \in 0..MaxCrashes /\ writeFaults \in 0..MaxWriteFaults

(* At every commit point, so also when the node crashes there, the           *)
(* transaction index on disk is that of the chain named by the hashBestChain *)
(* record, and all of that chain is in the block index and connectable.      *)
TxIndexMatchesBest ==
    /\ dbTx = Chain[dbBest]
    /\ dbTx \subseteq dbIndex \cap Connectable

(* Whatever fails or crashes, the block index on disk has a record for       *)
(* hashBestChain, for every block in the transaction index and at both ends  *)
(* of every hashNext: also when the commit that was to write it failed in    *)
(* AddToBlockIndex and the block was connected later, with a descendant.     *)
Recorded(next) == \A x \in Blocks : next[x] # NoBlock => {x, next[x]} \subseteq dbIndex
BestChainOnDisk == dbTx \cup {dbBest} \subseteq dbIndex /\ Recorded(dbNext)

(* When no call is running, memory and disk agree on the best chain.         *)
MemoryMatchesDisk ==
    pc = "idle" =>
        /\ pindexBest = dbBest
        /\ mapBlockIndex = dbIndex
        /\ pnext = dbNext

(* CBlockIndex::IsInMainChain, on the links kept in memory.                  *)
IsInMainChain(b) == pnext[b] # NoBlock \/ b = pindexBest

(* When no call is running, the pnext links decide exactly who is on the     *)
(* best chain: IsInMainChain holds of its blocks and of no other, and pnext  *)
(* leads from each block to the next one of the chain.                       *)
MainChainLinks ==
    pc = "idle" =>
        /\ \A b \in Blocks : IsInMainChain(b) <=> b \in Chain[pindexBest]
        /\ \A c \in Chain[pindexBest] \ {Genesis} : pnext[Parent[c]] = c

(* Before the first crash or failed commit, and when no call is running, no  *)
(* fully connectable chain of the index has more trust than the best chain:  *)
(* a reorganization that fails half way never leaves the node on a lighter   *)
(* one.  (The callers are AddToBlockIndex and the start-up; a sync-checkpoint*)
(* does not compare, and is in module ProcessBlock.)                         *)
HeaviestValid ==
    pc = "idle" /\ crashes = 0 /\ writeFaults = 0 =>
        \A b \in mapBlockIndex : Chain[b] \subseteq Valid => Trust[b] <= Trust[pindexBest]

(* No TxnCommit has failed, no release rejects older blocks, and either the  *)
(* node has never crashed or every block it has met connects: the conditions *)
(* under which the order of the commits is enough to keep the best chain     *)
(* whole.                                                                    *)
Benign ==
    /\ writeFaults = 0
    /\ bad = {}
    /\ crashes = 0 \/ mapBlockIndex \subseteq Connectable

(* Under those conditions disk, memory and links describe one best chain.    *)
ConsistentWhenBenign ==
    Benign => TxIndexMatchesBest /\ MemoryMatchesDisk /\ MainChainLinks

(* The connectable chains of the index that beat the one named on disk.      *)
Heavier == {b \in mapBlockIndex : Chain[b] \subseteq Connectable /\ Trust[b] > Trust[dbBest]}

(* A crash leaves the node with at most one heavier connectable chain that   *)
(* it does not take up, the one that it was at: commits come in an order in  *)
(* which the best chain on disk never gets lighter, so that neither the old  *)
(* chain nor those passed over before come back into play.                   *)
CrashLeavesOne == Benign /\ pc = "idle" => Cardinality(Heavier) <= crashes

(* As long as every block met connects and no crash or failed commit comes   *)
(* between wallet and database, the wallet counts the inputs of a coinstake  *)
(* as spent exactly when its block is on the best chain: what                *)
(* DisconnectBlock refunds and ConnectBlock takes back adds up, whatever was *)
(* reorganized.                                                              *)
WalletStakes ==
    pc = "idle" /\ crashes = 0 /\ writeFaults = 0 /\ mapBlockIndex \subseteq Valid =>
        stakeSpent = Chain[pindexBest]

(* How a block that the running release rejects can be on the best chain,    *)
(* whatever crashed, failed or was interrupted.  A start-up that finds       *)
(* nothing has none within the depth it verifies; the call it makes after a  *)
(* find leaves none above that depth; and a new block only brings one in     *)
(* when the parent of the rejected block already beats the best chain: then  *)
(* it is among the postponed ones, where SetBestChain ignores errors.        *)
BadBlocksStayOff ==
    [][/\ Restart /\ pc' = "idle" =>
             \A y \in Chain[pindexBest'] : Height[y] >= Height[pindexBest'] - CheckDepth => y \notin bad'
       /\ NewBestBlock /\ target \in Chain[pindexBest] =>
             \A y \in Chain[target] : Height[y] >= Height[pindexBest] - CheckDepth => y \notin bad
       /\ NewBestBlock /\ target \notin Chain[pindexBest] =>
             \A y \in (Chain[target] \ Chain[pindexBest]) \cap bad :
                 Trust[Parent[y]] > Trust[pindexBest]]_vars

(* Before the first crash or failed commit AddToBlockIndex only moves the    *)
(* best chain to one with more trust, whatever fails to connect on the way.  *)
(* (The other callers of SetBestChain do not compare: a sync-checkpoint, in  *)
(* module ProcessBlock, and the start-up that found a bad block.)            *)
BestTrustGrows ==
    [][crashes = 0 /\ writeFaults = 0 /\ pindexBest' # pindexBest
          => Trust[pindexBest'] > Trust[pindexBest]]_vars

(* A connectable chain that enters the index is eventually matched by the    *)
(* best chain, unless a crash or a failed commit comes in between: then the  *)
(* chain waits for the next block that beats the best one.                   *)
HeavierIsAdopted ==
    \A b \in Blocks :
        b \in mapBlockIndex /\ Chain[b] \subseteq Valid
            ~> Trust[pindexBest] >= Trust[b] \/ crashes > 0 \/ writeFaults > 0

-----------------------------------------------------------------------------
(* The inductive invariant from which the properties are proved.             *)

(* The links of next lead along the chain of b and nowhere else.             *)
Linked(next, b) ==
    \A x \in Blocks, c \in Blocks :
        next[x] = c <=> c \in ChildrenIn(Chain[b], x)

(* The index is parent-closed and holds every block the call works with;     *)
(* until a commit fails, and after a start, it is the one on disk.  A call   *)
(* is never made for the best block itself.                                  *)
IndexPart ==
    /\ dbIndex \subseteq mapBlockIndex
    /\ writeFaults = 0 => mapBlockIndex = dbIndex
    /\ Genesis \in dbIndex /\ ParentClosed(mapBlockIndex)
    /\ {pindexBest, target, joining} \subseteq mapBlockIndex
    /\ BestChainOnDisk /\ Recorded(pnext)
    /\ pc = "setbest" => target # pindexBest
    /\ pc = "reorg" => joining # pindexBest

(* Only a restart changes the release.                                       *)
ReleasePart ==
    /\ pc = "down" => crashes > 0
    /\ crashes = 0 => bad = {}
    /\ bad \subseteq Upgrade

(* The three records on disk describe one connectable chain.                 *)
DiskPart ==
    /\ dbTx = Chain[dbBest]
    /\ dbTx \subseteq Connectable
    /\ Linked(dbNext, dbBest)
    /\ pc # "down" => pnext = dbNext

(* What each stage of SetBestChain has established.                          *)
CallPart ==
    /\ pc \in {"idle", "setbest", "inner", "reorg"} => pindexBest = dbBest
    /\ pc \notin {"idle", "down"} => Trust[target] > Trust[pindexBest]
    /\ pc = "inner" => Extends /\ joining = target /\ target \in Connectable
    /\ pc = "reorg" => /\ joining \in Chain[target] /\ OnBranch(joining) \subseteq Connectable
                       /\ Trust[joining] > Trust[pindexBest]
    /\ pc = "secondary" => joining = dbBest /\ joining \in Chain[target]
    /\ pc = "further" =>
          joining \in (Chain[target] \cap Connectable) \ {Genesis} /\ Parent[joining] = dbBest
    /\ pc = "newbest" => dbBest = target
    /\ crashes = 0 => pc # "further" /\ (pc \in {"reorg", "secondary"} => joining = target)

(* The heavier chains, but for the one that SetBestChain is being called     *)
(* with, are those that crashes left behind.                                 *)
LeftBehind == IF pc \in {"idle", "down"} THEN Heavier ELSE Heavier \ {target}
HeaviestPending == Cardinality(LeftBehind) <= crashes

IInv ==
    /\ TypeOK
    /\ IndexPart
    /\ ReleasePart
    /\ Benign => DiskPart /\ CallPart /\ HeaviestPending

=============================================================================
