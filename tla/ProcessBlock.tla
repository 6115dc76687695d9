---------------------------- MODULE ProcessBlock ----------------------------
(***************************************************************************)
(* ProcessBlock and AcceptBlock of main.cpp, with the orphan blocks, the   *)
(* duplicate-stake rules and the synchronized checkpoints of               *)
(* checkpoints.cpp.  SetBestChain, which module ChainState takes apart, is *)
(* one step here, summarised by what it leaves behind.                     *)
(*                                                                         *)
(* All of it runs under cs_main.  The work queue is unrolled into one step *)
(* per orphan, so that a crash can come between two of them.  The node     *)
(* has no checkpoint master key.  A block that CheckBlock or the           *)
(* minimum-difficulty rule refuses changes nothing and is not a step.      *)
(***************************************************************************)
EXTENDS BlockTree, Sequences

CONSTANTS
    NoBlock,
    Connectable, \* blocks that ConnectBlock accepts on top of their parent's chain
    Rejected,    \* blocks that AcceptBlock's rules on header and time refuse
    Stake,       \* GetProofOfStake: the staked coin, NoStake for proof of work
    NoStake,
    Kernel,      \* the block that created the staked coin
    Hardened,    \* the last hardened checkpoint
    Signed,      \* blocks that the checkpoint master signs
    Strict,      \* CheckpointsMode == STRICT
    MaxCrashes   \* bound on crashes

ASSUME BlocksAssumption ==
    /\ NoBlock \notin Blocks
    /\ Connectable \subseteq Blocks /\ Rejected \subseteq Blocks
    /\ Kernel \in [Blocks -> Blocks]
    /\ DOMAIN Stake = Blocks
    /\ Strict \in BOOLEAN
    /\ MaxCrashes \in Nat

(* The master signs blocks of its own best chain, and so are the hardened    *)
(* checkpoints; two of them can still be on different branches.              *)
ASSUME SignedAssumption ==
    Hardened \in Blocks /\ Signed \subseteq Blocks
    /\ \A c \in Signed \cup {Hardened} : Chain[c] \subseteq Connectable \ Rejected

VARIABLES
    mapBlockIndex,
    pindexBest,            \* the best block in memory
    dbBest,                \* the last block really connected
    intact,                \* the transaction index is that of dbBest's chain
    mapOrphanBlocks,       \* mapOrphanBlocksByPrev is its inverse
    setStakeSeen,
    setStakeSeenOrphan,
    hashSyncCheckpoint,
    hashPendingCheckpoint, \* in memory only
    hashInvalidCheckpoint, \* in memory only
    vWorkQueue,            \* accepted blocks whose orphans are still to be tried
    crashes

best == <<pindexBest, dbBest, intact>>
checkpoints == <<hashSyncCheckpoint, hashPendingCheckpoint, hashInvalidCheckpoint>>
orphanVars == <<mapOrphanBlocks, setStakeSeenOrphan>>
vars == <<mapBlockIndex, best, orphanVars, setStakeSeen, checkpoints, vWorkQueue, crashes>>

(* First start: the sync-checkpoint is reset, to the genesis block until the *)
(* last hardened checkpoint arrives.                                         *)
Init ==
    /\ mapBlockIndex = {Genesis}
    /\ pindexBest = Genesis /\ dbBest = Genesis /\ intact = TRUE
    /\ mapOrphanBlocks = {}
    /\ setStakeSeen = {} /\ setStakeSeenOrphan = {}
    /\ hashSyncCheckpoint = Genesis
    /\ hashPendingCheckpoint = IF Hardened = Genesis THEN NoBlock ELSE Hardened
    /\ hashInvalidCheckpoint = NoBlock
    /\ vWorkQueue = <<>>
    /\ crashes = 0

Idle == vWorkQueue = <<>>

StakeOf(b) == {Stake[b]} \ {NoStake}

-----------------------------------------------------------------------------
(* The best chain as SetBestChain finds and leaves it: whether the call went *)
(* well, the best block "at", the connected block "db", and whether the      *)
(* transaction index is exactly that of db's chain.                          *)
Here == [ok |-> TRUE, at |-> pindexBest, db |-> dbBest, exact |-> intact]
Refused(r) == [ok |-> FALSE, at |-> r.at, db |-> r.db, exact |-> r.exact]
MovedTo(b, y, exact) == [ok |-> TRUE, at |-> b, db |-> y, exact |-> exact]
Settle(r) == pindexBest' = r.at /\ dbBest' = r.db /\ intact' = r.exact

OnBranch(r, b) == Chain[b] \ Chain[r.at]
Postponed(r, b) == {y \in OnBranch(r, b) : Trust[Parent[y]] > Trust[r.at]}

(* Where a call to SetBestChain for b can end.  It stops at the first block  *)
(* that does not connect: before the postponed blocks it fails, among them   *)
(* it adopts b all the same.  A best block that was never connected is       *)
(* disconnected nevertheless, which leaves the transaction index damaged;    *)
(* then any block may connect or not.                                        *)
SetBestChain(r, b) ==
    IF ~r.exact \/ r.at # r.db
    THEN {Refused(r)} \cup
         {MovedTo(b, y, FALSE) : y \in
             {y \in Chain[b] : Chain[b] \ Chain[y] \subseteq Postponed(r, b)}}
    ELSE IF b # Genesis /\ Parent[b] = r.at
    THEN {IF b \in Connectable THEN MovedTo(b, b, TRUE) ELSE Refused(r)}
    ELSE IF ~(OnBranch(r, b) \ Postponed(r, b) \subseteq Connectable)
    THEN {Refused(r)}
    ELSE {MovedTo(b, y, TRUE) : y \in
            {y \in OnBranch(r, b) :
                /\ Chain[y] \ Chain[r.at] \subseteq Connectable
                /\ \A z \in OnBranch(r, b) : Parent[z] = y => z \notin Connectable}}

(* CBlockIndex::IsInMainChain: a connected block follows, or it is the best  *)
(* one.                                                                      *)
IsInMainChain(r, c) == c = r.at \/ c \in Chain[r.db] \ {r.db}

-----------------------------------------------------------------------------
(* Synchronized checkpoints.                                                 *)

(* Mutant: the height alone decides.                                         *)
ValidateByHeight(c) == Height[c] > Height[hashSyncCheckpoint]

(* ValidateSyncCheckpoint: only a descendant of the current one is accepted, *)
(* and one on another branch is remembered as invalid.                       *)
ValidateSyncCheckpoint(c) ==
    Height[c] > Height[hashSyncCheckpoint] /\ hashSyncCheckpoint \in Chain[c]
Conflicting(c) == hashSyncCheckpoint \notin Chain[c] /\ c \notin Chain[hashSyncCheckpoint]
InvalidIfConflicting(c) ==
    hashInvalidCheckpoint' = IF Conflicting(c) THEN c ELSE hashInvalidCheckpoint

(* A valid checkpoint that is not in the main chain is made the best chain;  *)
(* then it is written.  "r" is where the best chain stands; in a damaged     *)
(* chain the links that IsInMainChain follows may have gaps.                 *)
MoveToCheckpoint(c, r) ==
    \E s \in (IF IsInMainChain(r, c) THEN {r} ELSE SetBestChain(r, c))
             \cup (IF r.exact THEN {} ELSE SetBestChain(r, c)) :
        /\ Settle(s)
        /\ IF s.ok
           THEN /\ hashSyncCheckpoint' = c
                /\ hashPendingCheckpoint' = NoBlock
                /\ UNCHANGED hashInvalidCheckpoint
           ELSE /\ hashInvalidCheckpoint' = c
                /\ UNCHANGED <<hashSyncCheckpoint, hashPendingCheckpoint>>

(* Mutant: AcceptBlock does not look at the pending checkpoint.              *)
AcceptPendingNever(index, r) ==
    Settle(r) /\ UNCHANGED checkpoints

(* AcceptPendingSyncCheckpoint, at the end of AcceptBlock.                   *)
AcceptPendingSyncCheckpoint(index, r) ==
    LET c == hashPendingCheckpoint IN
    \/ /\ c \notin index
       /\ Settle(r)
       /\ UNCHANGED checkpoints
    \/ /\ c \in index /\ ~ValidateSyncCheckpoint(c)
       /\ InvalidIfConflicting(c)
       /\ hashPendingCheckpoint' = NoBlock
       /\ Settle(r)
       /\ UNCHANGED hashSyncCheckpoint
    \/ /\ c \in index /\ ValidateSyncCheckpoint(c)
       /\ MoveToCheckpoint(c, r)

(* CSyncCheckpoint::ProcessSyncCheckpoint: the "checkpoint" message.         *)
ProcessSyncCheckpoint(c) ==
    /\ Idle
    /\ \/ /\ c \notin mapBlockIndex
          /\ hashPendingCheckpoint' = c
          /\ UNCHANGED <<best, hashSyncCheckpoint, hashInvalidCheckpoint>>
       \/ /\ c \in mapBlockIndex /\ ~ValidateSyncCheckpoint(c)
          /\ InvalidIfConflicting(c)
          /\ UNCHANGED <<best, hashSyncCheckpoint, hashPendingCheckpoint>>
       \/ /\ c \in mapBlockIndex /\ ValidateSyncCheckpoint(c)
          /\ MoveToCheckpoint(c, Here)
    /\ UNCHANGED <<mapBlockIndex, orphanVars, setStakeSeen, vWorkQueue, crashes>>

(* Mutant: a block above the sync-checkpoint need not descend from it.       *)
CheckSyncHeight(b) == Height[b] > Height[hashSyncCheckpoint]

(* CheckSync: a new block descends from the sync-checkpoint.                 *)
CheckSync(b) ==
    IF Height[b] < Height[hashSyncCheckpoint] THEN b \in mapBlockIndex
    ELSE hashSyncCheckpoint \in Chain[b]

CheckHardened(b) == Height[b] = Height[Hardened] => b = Hardened

-----------------------------------------------------------------------------
(* AcceptBlock.                                                              *)

(* CheckProofOfStake reads the staked coin from the transaction index, which *)
(* only holds the best chain.                                                *)
CheckProofOfStake(b) == Stake[b] # NoStake => Kernel[b] \in Chain[dbBest]

AcceptRules(b) ==
    /\ b \notin Rejected
    /\ b \notin mapBlockIndex /\ Parent[b] \in mapBlockIndex
    /\ CheckHardened(b)
    /\ CheckProofOfStake(b)
    /\ Strict => CheckSync(b)

(* AddToBlockIndex follows; when SetBestChain fails in it AcceptBlock fails  *)
(* too, but the block stays in the index.  "ok" is what AcceptBlock returns. *)
(* A damaged transaction index may have lost the staked coin.                *)
AcceptBlock(b, ok) ==
    \/ /\ ~AcceptRules(b) \/ (~intact /\ Stake[b] # NoStake)
       /\ ~ok
       /\ UNCHANGED <<mapBlockIndex, setStakeSeen, best, checkpoints>>
    \/ /\ AcceptRules(b)
       /\ mapBlockIndex' = mapBlockIndex \cup {b}
       /\ setStakeSeen' = setStakeSeen \cup StakeOf(b)
       /\ \E r \in IF Trust[b] > Trust[pindexBest] THEN SetBestChain(Here, b) ELSE {Here} :
             /\ ok = r.ok
             /\ \/ r.ok /\ AcceptPendingSyncCheckpoint(mapBlockIndex \cup {b}, r)
                \/ ~r.ok /\ UNCHANGED <<best, checkpoints>>

-----------------------------------------------------------------------------
(* ProcessBlock.                                                             *)

HasOrphanChild(b) == \E o \in mapOrphanBlocks : o # Genesis /\ Parent[o] = b

(* WantedByOrphan: the first missing block below o.                          *)
WantedByOrphan(o) ==
    CHOOSE x \in Chain[o] \ mapOrphanBlocks :
        \A y \in Chain[o] \ mapOrphanBlocks : Height[y] <= Height[x]

WantedByPendingSyncCheckpoint(b) ==
    \/ b = hashPendingCheckpoint
    \/ /\ hashPendingCheckpoint \in mapOrphanBlocks
       /\ b = WantedByOrphan(hashPendingCheckpoint)

(* A stake that was seen is let through for a block that others wait for.    *)
DuplicateStake(b, seen) ==
    /\ StakeOf(b) \cap seen # {}
    /\ ~HasOrphanChild(b)
    /\ ~WantedByPendingSyncCheckpoint(b)

New(b) ==
    /\ Idle
    /\ b \notin mapBlockIndex /\ b \notin mapOrphanBlocks
    /\ ~DuplicateStake(b, setStakeSeen)

ReceiveOrphan(b) ==
    /\ New(b)
    /\ Parent[b] \notin mapBlockIndex
    /\ ~DuplicateStake(b, setStakeSeenOrphan)
    /\ mapOrphanBlocks' = mapOrphanBlocks \cup {b}
    /\ setStakeSeenOrphan' = setStakeSeenOrphan \cup StakeOf(b)
    /\ UNCHANGED <<mapBlockIndex, best, setStakeSeen, checkpoints, vWorkQueue, crashes>>

ReceiveBlock(b, ok) ==
    /\ New(b)
    /\ Parent[b] \in mapBlockIndex
    /\ AcceptBlock(b, ok)
    /\ vWorkQueue' = IF ok THEN <<b>> ELSE <<>>
    /\ UNCHANGED <<orphanVars, crashes>>

(* Mutant: the orphans of an accepted orphan are not looked for.             *)
ProcessOrphanFlat(o, ok) ==
    /\ ~Idle
    /\ o \in mapOrphanBlocks /\ Parent[o] = Head(vWorkQueue)
    /\ AcceptBlock(o, ok)
    /\ mapOrphanBlocks' = mapOrphanBlocks \ {o}
    /\ setStakeSeenOrphan' = setStakeSeenOrphan \ StakeOf(o)
    /\ UNCHANGED <<vWorkQueue, crashes>>

(* One orphan of the block at the head of the queue.                         *)
ProcessOrphan(o, ok) ==
    /\ ~Idle
    /\ o \in mapOrphanBlocks /\ Parent[o] = Head(vWorkQueue)
    /\ AcceptBlock(o, ok)
    /\ vWorkQueue' = IF ok THEN Append(vWorkQueue, o) ELSE vWorkQueue
    /\ mapOrphanBlocks' = mapOrphanBlocks \ {o}
    /\ setStakeSeenOrphan' = setStakeSeenOrphan \ StakeOf(o)
    /\ UNCHANGED crashes

(* Mutant: the loop over the queue stops one short.                          *)
NextInQueueButLast ==
    /\ Len(vWorkQueue) > 1
    /\ ~HasOrphanChild(Head(vWorkQueue))
    /\ vWorkQueue' = Tail(vWorkQueue)
    /\ UNCHANGED <<mapBlockIndex, best, orphanVars, setStakeSeen, checkpoints, crashes>>

NextInQueue ==
    /\ ~Idle
    /\ ~HasOrphanChild(Head(vWorkQueue))
    /\ vWorkQueue' = Tail(vWorkQueue)
    /\ UNCHANGED <<mapBlockIndex, best, orphanVars, setStakeSeen, checkpoints, crashes>>

(* A crash and the next start.  Index, best chain and sync-checkpoint are on *)
(* disk, setStakeSeen is rebuilt from the index, the rest is lost.           *)
Restart ==
    /\ crashes < MaxCrashes
    /\ crashes' = crashes + 1
    /\ pindexBest' = dbBest
    /\ mapOrphanBlocks' = {} /\ setStakeSeenOrphan' = {}
    /\ hashPendingCheckpoint' = NoBlock /\ hashInvalidCheckpoint' = NoBlock
    /\ vWorkQueue' = <<>>
    /\ UNCHANGED <<mapBlockIndex, dbBest, intact, setStakeSeen, hashSyncCheckpoint>>

Next ==
    \/ \E b \in Blocks : ReceiveOrphan(b) \/ \E ok \in BOOLEAN : ReceiveBlock(b, ok)
    \/ \E o \in Blocks, ok \in BOOLEAN : ProcessOrphan(o, ok)
    \/ NextInQueue
    \/ \E c \in Signed : ProcessSyncCheckpoint(c)
    \/ Restart

Spec == Init /\ [][Next]_vars

FairSpec == Spec /\ WF_vars(NextInQueue \/ \E o \in Blocks, ok \in BOOLEAN : ProcessOrphan(o, ok))

-----------------------------------------------------------------------------
(* Properties.                                                               *)

Stakes == {Stake[b] : b \in Blocks} \ {NoStake}

(* Types of the maps, the checkpoints and the queue.                         *)
TypeOK ==
    /\ mapBlockIndex \subseteq Blocks /\ mapOrphanBlocks \subseteq Blocks
    /\ pindexBest \in Blocks /\ dbBest \in Blocks /\ intact \in BOOLEAN
    /\ setStakeSeen \subseteq Stakes /\ setStakeSeenOrphan \subseteq Stakes
    /\ hashSyncCheckpoint \in Blocks
    /\ hashPendingCheckpoint \in Blocks \cup {NoBlock}
    /\ hashInvalidCheckpoint \in Blocks \cup {NoBlock}
    /\ vWorkQueue \in Seq(Blocks)
    /\ crashes \in 0..MaxCrashes

(* The sync-checkpoint is always an accepted block ("sync-checkpoint should  *)
(* always be accepted block", CheckSync) and, as long as the transaction     *)
(* index is whole, never leaves the best chain, whatever heavier branch      *)
(* arrives, whatever does not connect, and over restarts.                    *)
SyncInMainChain ==
    /\ hashSyncCheckpoint \in mapBlockIndex
    /\ intact => hashSyncCheckpoint \in Chain[pindexBest]

(* The sync-checkpoint only moves on to its own descendants.                 *)
SyncAdvances ==
    [][hashSyncCheckpoint' # hashSyncCheckpoint =>
          hashSyncCheckpoint \in Chain[hashSyncCheckpoint']]_vars

(* A pending checkpoint is never forgotten while its block is in the index:  *)
(* once the block is there, the checkpoint is accepted or dropped, unless    *)
(* the best block is one that was never connected.                           *)
PendingIsMissing ==
    Idle /\ intact /\ pindexBest = dbBest => hashPendingCheckpoint \notin mapBlockIndex

(* When no call is running, an orphan whose previous block is in the index   *)
(* can only be one that builds on a block that does not connect, or one that *)
(* met a best block that was never connected.                                *)
NoValidOrphanStuck ==
    Idle /\ intact /\ pindexBest = dbBest =>
        \A o \in mapOrphanBlocks :
            Parent[o] \in mapBlockIndex => ~(Chain[Parent[o]] \subseteq Connectable)

(* What is best in memory is what is connected on disk.                      *)
BestIsConnected == pindexBest = dbBest

(* The work queue of a call runs empty.                                      *)
QueueEnds == ~Idle ~> Idle

=============================================================================
