------------------------- MODULE ProcessBlockProofs -------------------------
(***************************************************************************)
(* With the strict checkpoint policy, the sync-checkpoint stays on the     *)
(* best chain, in memory and on disk, as long as the transaction index is  *)
(* whole, and only moves to its descendants in any case.  Whatever the     *)
(* policy, no pending checkpoint and no orphan is left behind once the     *)
(* block it waited for is there.                                           *)
(***************************************************************************)
EXTENDS ProcessBlock, BlockTreeProofs

(* Whatever of the chain of "at" can be connected is connected, and no more. *)
Reached(at, db) ==
    /\ db \in Chain[at]
    /\ \A x \in Chain[at] : Chain[x] \subseteq Connectable => x \in Chain[db]

(* The checkpoints the node knows of are signed or hardened ones.            *)
Trusted == Signed \cup {Hardened}

(* The inductive invariant.  Being on the best chain in memory is not enough:*)
(* a start-up falls back on what is connected on disk, and SetBestChain may  *)
(* connect less than it adopts.                                              *)
PBInv ==
    /\ Strict
    /\ TypeOK
    /\ hashSyncCheckpoint \in mapBlockIndex
    /\ hashPendingCheckpoint \in Trusted \cup {NoBlock}
    /\ intact => /\ hashSyncCheckpoint \in Chain[pindexBest]
                 /\ hashSyncCheckpoint \in Chain[dbBest]
                 /\ Reached(pindexBest, dbBest)

-----------------------------------------------------------------------------
LEMMA ReachedSelf ==
    ASSUME NEW b \in Blocks
    PROVE  Reached(b, b)
  BY ChainBasics DEF Reached

(* Where SetBestChain stops when it connects only a part of the branch.      *)
LEMMA Prefix ==
    ASSUME NEW at \in Blocks, NEW b \in Blocks, NEW y \in Chain[b] \ Chain[at],
           \A z \in Chain[b] \ Chain[at] : Parent[z] = y => z \notin Connectable
    PROVE  /\ Reached(b, y)
           /\ \A k \in Chain[at] \cap Chain[b] : k \in Chain[y]
  <1>1. y \in Blocks
    BY ChainTransitive
  <1>2. ASSUME NEW k \in Chain[at] \cap Chain[b] PROVE k \in Chain[y]
    <2>1. k \in Chain[y] \/ y \in Chain[k]
      BY ChainLinear
    <2>2. y \notin Chain[k]
      BY ChainTransitive
    <2> QED BY <2>1, <2>2
  <1>3. ASSUME NEW x \in Chain[b], Chain[x] \subseteq Connectable, x \notin Chain[y]
        PROVE  FALSE
    <2>1. x \notin Chain[at]
      BY <1>2, <1>3
    <2>2. x \in Blocks /\ y \in Chain[x] /\ y # x
      BY <1>1, <1>3, ChainLinear, ChainTransitive, ChainBasics
    <2>3. PICK z \in Chain[x] \ {Genesis} : Parent[z] = y
      BY <2>2, ChildOnChain
    <2>4. z \in Blocks /\ z \in Chain[b]
      BY <2>2, <2>3, ChainTransitive
    <2>5. z \notin Chain[at]
      <3>1. y \in Chain[z]
        BY <2>3, <2>4, <1>1, ChainStep, ChainBasics
      <3> QED BY <3>1, ChainTransitive
    <2> QED BY <1>3, <2>3, <2>4, <2>5
  <1> QED BY <1>2, <1>3 DEF Reached

(* The same, of the best chain as SetBestChain finds or leaves it.           *)
Whole(r, k) ==
    r.exact => k \in Chain[r.at] /\ k \in Chain[r.db] /\ Reached(r.at, r.db)
States == [ok : BOOLEAN, at : Blocks, db : Blocks, exact : BOOLEAN]

(* What SetBestChain keeps: an ancestor k of both the old and the new block. *)
LEMMA SetBestChainKeeps ==
    ASSUME NEW r \in States, NEW b \in Blocks, NEW k \in Blocks,
           Whole(r, k), k \in Chain[b],
           NEW s \in SetBestChain(r, b)
    PROVE  /\ s \in States
           /\ Whole(s, k)
           /\ s.ok => s.at = b
           /\ ~s.ok => s.at = r.at /\ s.db = r.db /\ s.exact = r.exact
  <1> DEFINE on == Chain[b] \ Chain[r.at]
             good(y) == /\ y \in on
                        /\ \A z \in on : Parent[z] = y => z \notin Connectable
  <1>0. r.at \in Blocks /\ Chain[b] \subseteq Blocks
    BY ChainBasics DEF States
  <1>1. \/ s = Refused(r)
        \/ s = MovedTo(b, b, TRUE)
        \/ \E y \in Chain[b] : s = MovedTo(b, y, FALSE)
        \/ r.exact /\ \E y \in on : good(y) /\ s = MovedTo(b, y, TRUE)
    BY DEF SetBestChain, OnBranch, States
  <1>2. CASE s = Refused(r)
    BY <1>2 DEF Refused, States, Whole
  <1>3. CASE s = MovedTo(b, b, TRUE)
    BY <1>3, ReachedSelf DEF MovedTo, States, Whole
  <1>4. ASSUME NEW y \in Chain[b], s = MovedTo(b, y, FALSE)
        PROVE  s \in States /\ s.ok = TRUE /\ s.at = b /\ s.exact = FALSE
    BY <1>0, <1>4 DEF MovedTo, States
  <1>5. ASSUME r.exact, NEW y \in on, good(y), s = MovedTo(b, y, TRUE)
        PROVE  s \in States /\ s.ok = TRUE /\ s.at = b /\ Whole(s, k)
    <2>1. Reached(b, y) /\ k \in Chain[y]
      BY <1>0, <1>5, Prefix DEF Whole
    <2> QED BY <1>0, <1>5, <2>1 DEF MovedTo, States, Whole
  <1> QED BY <1>1, <1>2, <1>3, <1>4, <1>5 DEF Whole

-----------------------------------------------------------------------------
(* What the actions owe the invariant about best chain and checkpoints.      *)
Kept ==
    /\ pindexBest' \in Blocks /\ dbBest' \in Blocks /\ intact' \in BOOLEAN
    /\ hashSyncCheckpoint' \in Blocks
    /\ hashPendingCheckpoint' \in Trusted \cup {NoBlock}
    /\ hashInvalidCheckpoint' \in Blocks \cup {NoBlock}
    /\ intact' => /\ hashSyncCheckpoint' \in Chain[pindexBest']
                  /\ hashSyncCheckpoint' \in Chain[dbBest']
                  /\ Reached(pindexBest', dbBest')
    /\ hashSyncCheckpoint \in Chain[hashSyncCheckpoint']

LEMMA TrustedBlocks ==
    ASSUME NEW c \in Trusted
    PROVE  c \in Blocks /\ Chain[c] \subseteq Connectable
  BY SignedAssumption DEF Trusted

(* Facts that the invariant gives in one place.                              *)
LEMMA InvFacts ==
    ASSUME PBInv
    PROVE  /\ pindexBest \in Blocks /\ dbBest \in Blocks /\ hashSyncCheckpoint \in Blocks
           /\ intact \in BOOLEAN /\ Here \in States /\ Whole(Here, hashSyncCheckpoint)
           /\ hashInvalidCheckpoint \in Blocks \cup {NoBlock}
           /\ hashSyncCheckpoint \in Chain[hashSyncCheckpoint]
           /\ mapBlockIndex \subseteq Blocks
  BY ChainBasics DEF PBInv, TypeOK, Here, States, Whole

LEMMA MoveKeeps ==
    ASSUME PBInv, NEW c \in Trusted, ValidateSyncCheckpoint(c),
           NEW r \in States, r.ok, Whole(r, hashSyncCheckpoint), MoveToCheckpoint(c, r)
    PROVE  Kept /\ hashSyncCheckpoint' \in {hashSyncCheckpoint, c}
  <1>0. c \in Blocks /\ Chain[c] \subseteq Connectable /\ c \in Chain[c]
    BY TrustedBlocks, ChainBasics
  <1>1. PICK s : /\ s \in SetBestChain(r, c) \/ (s = r /\ IsInMainChain(r, c))
                 /\ Settle(s)
                 /\ IF s.ok
                    THEN /\ hashSyncCheckpoint' = c
                         /\ hashPendingCheckpoint' = NoBlock
                         /\ UNCHANGED hashInvalidCheckpoint
                    ELSE /\ hashInvalidCheckpoint' = c
                         /\ UNCHANGED <<hashSyncCheckpoint, hashPendingCheckpoint>>
    BY DEF MoveToCheckpoint
  <1>2. hashSyncCheckpoint \in Chain[c]
    BY DEF ValidateSyncCheckpoint
  <1>3. /\ s \in States /\ Whole(s, hashSyncCheckpoint)
        /\ s.exact /\ s.ok => c \in Chain[s.db] \/ c \in Chain[s.at]
    <2>1. CASE s = r /\ IsInMainChain(r, c)
      BY <1>0, <2>1 DEF IsInMainChain
    <2>2. CASE s \in SetBestChain(r, c)
      BY <1>0, <1>2, <2>2, InvFacts, SetBestChainKeeps
    <2> QED BY <1>1, <2>1, <2>2
  <1>4. s.exact /\ s.ok => c \in Chain[s.db] /\ c \in Chain[s.at]
    <2>1. CASE c \in Chain[s.at]
      BY <1>0, <1>3, <2>1 DEF Reached, Whole
    <2>2. CASE c \in Chain[s.db]
      BY <1>3, <2>2, ChainTransitive DEF Reached, States, Whole
    <2> QED BY <1>3, <2>1, <2>2
  <1>5. CASE s.ok
    BY <1>0, <1>1, <1>2, <1>3, <1>4, <1>5, InvFacts DEF Kept, Settle, States, Whole
  <1>6. CASE ~s.ok
    BY <1>0, <1>1, <1>3, <1>6, InvFacts DEF Kept, PBInv, Settle, States, Whole
  <1> QED BY <1>3, <1>5, <1>6 DEF States

LEMMA PendingKeeps ==
    ASSUME PBInv, NEW index \in SUBSET Blocks,
           NEW r \in States, r.ok, Whole(r, hashSyncCheckpoint),
           mapBlockIndex \subseteq index,
           AcceptPendingSyncCheckpoint(index, r)
    PROVE  Kept /\ hashSyncCheckpoint' \in index
  <1> DEFINE c == hashPendingCheckpoint
  <1>1. CASE /\ c \notin index
             /\ Settle(r)
             /\ UNCHANGED checkpoints
    BY <1>1, InvFacts DEF checkpoints, Kept, PBInv, Settle, States, Whole
  <1>2. CASE /\ c \in index /\ ~ValidateSyncCheckpoint(c)
             /\ InvalidIfConflicting(c)
             /\ hashPendingCheckpoint' = NoBlock
             /\ Settle(r)
             /\ UNCHANGED hashSyncCheckpoint
    <2>1. hashInvalidCheckpoint' \in Blocks \cup {NoBlock}
      BY <1>2, InvFacts, TrustedBlocks DEF InvalidIfConflicting, PBInv
    <2> QED BY <1>2, <2>1, InvFacts DEF Kept, PBInv, Settle, States, Whole
  <1>3. CASE /\ c \in index /\ ValidateSyncCheckpoint(c)
             /\ MoveToCheckpoint(c, r)
    <2>1. c \in Trusted
      <3>1. c # NoBlock
        BY <1>3, BlocksAssumption
      <3> QED BY <3>1 DEF PBInv
    <2>2. Kept /\ hashSyncCheckpoint' \in {hashSyncCheckpoint, c}
      BY <1>3, <2>1, MoveKeeps
    <2> QED BY <1>3, <2>2 DEF PBInv
  <1> QED BY <1>1, <1>2, <1>3 DEF AcceptPendingSyncCheckpoint

(* AcceptBlock, whatever it returns.  The policy is what keeps a heavier     *)
(* branch without the sync-checkpoint out.                                   *)
LEMMA AcceptKeeps ==
    ASSUME PBInv, NEW b \in Blocks, NEW ok \in BOOLEAN, AcceptBlock(b, ok)
    PROVE  /\ Kept
           /\ hashSyncCheckpoint' \in mapBlockIndex'
           /\ mapBlockIndex' \subseteq Blocks
           /\ setStakeSeen' \subseteq Stakes
  <1>1. CASE UNCHANGED <<mapBlockIndex, setStakeSeen, best, checkpoints>>
    BY <1>1, InvFacts DEF best, checkpoints, Kept, PBInv, TypeOK, Reached
  <1>2. CASE AcceptRules(b) /\ mapBlockIndex' = mapBlockIndex \cup {b}
    <2> DEFINE index == mapBlockIndex \cup {b}
    <2>1. mapBlockIndex' = index /\ b \notin mapBlockIndex /\ CheckSync(b)
      BY <1>2 DEF AcceptRules, PBInv
    <2>2. /\ setStakeSeen' = setStakeSeen \cup StakeOf(b)
          /\ \E r \in IF Trust[b] > Trust[pindexBest] THEN SetBestChain(Here, b) ELSE {Here} :
                \/ r.ok /\ AcceptPendingSyncCheckpoint(index, r)
                \/ ~r.ok /\ UNCHANGED <<best, checkpoints>>
      BY <2>1 DEF AcceptBlock
    <2>3. PICK r \in IF Trust[b] > Trust[pindexBest] THEN SetBestChain(Here, b) ELSE {Here} :
             \/ r.ok /\ AcceptPendingSyncCheckpoint(index, r)
             \/ ~r.ok /\ UNCHANGED <<best, checkpoints>>
      BY <2>2
    <2>4. setStakeSeen' \subseteq Stakes /\ index \in SUBSET Blocks
      BY <2>2, InvFacts DEF StakeOf, Stakes, PBInv, TypeOK
    <2>5. hashSyncCheckpoint \in Chain[b]
      BY <2>1 DEF CheckSync
    <2>6. r \in States /\ Whole(r, hashSyncCheckpoint)
      BY <2>3, <2>5, InvFacts, SetBestChainKeeps
    <2>7. CASE r.ok
      <3>1. Kept /\ hashSyncCheckpoint' \in index
        BY <2>3, <2>4, <2>6, <2>7, PendingKeeps
      <3> QED BY <2>1, <2>4, <3>1
    <2>8. CASE ~r.ok
      <3>1. UNCHANGED <<best, checkpoints>>
        BY <2>3, <2>8
      <3> QED BY <2>1, <2>4, <3>1, InvFacts DEF best, checkpoints, Kept, PBInv, TypeOK, Reached
    <2> QED BY <2>7, <2>8
  <1> QED BY <1>1, <1>2 DEF AcceptBlock

LEMMA CheckpointKeeps ==
    ASSUME PBInv, NEW c \in Signed, ProcessSyncCheckpoint(c)
    PROVE  Kept /\ hashSyncCheckpoint' \in mapBlockIndex'
  <1>0. c \in Trusted /\ c \in Blocks /\ mapBlockIndex' = mapBlockIndex
    BY TrustedBlocks DEF Trusted, ProcessSyncCheckpoint
  <1>1. CASE /\ c \notin mapBlockIndex
             /\ hashPendingCheckpoint' = c
             /\ UNCHANGED <<best, hashSyncCheckpoint, hashInvalidCheckpoint>>
    BY <1>0, <1>1, InvFacts DEF best, Kept, PBInv
  <1>2. CASE /\ c \in mapBlockIndex /\ ~ValidateSyncCheckpoint(c)
             /\ InvalidIfConflicting(c)
             /\ UNCHANGED <<best, hashSyncCheckpoint, hashPendingCheckpoint>>
    <2>1. hashInvalidCheckpoint' \in Blocks \cup {NoBlock}
      BY <1>0, <1>2, InvFacts DEF InvalidIfConflicting
    <2> QED BY <1>0, <1>2, <2>1, InvFacts DEF best, Kept, PBInv
  <1>3. CASE /\ c \in mapBlockIndex /\ ValidateSyncCheckpoint(c)
             /\ MoveToCheckpoint(c, Here)
    <2>1. Here.ok
      BY DEF Here
    <2>2. Kept /\ hashSyncCheckpoint' \in {hashSyncCheckpoint, c}
      BY <1>0, <1>3, <2>1, InvFacts, MoveKeeps
    <2> QED BY <1>0, <1>3, <2>2 DEF PBInv
  <1> QED BY <1>1, <1>2, <1>3 DEF ProcessSyncCheckpoint

-----------------------------------------------------------------------------
LEMMA InvInit == Strict /\ Init => PBInv
  BY ChainBasics, ReachedSelf, TreeAssumption, BlocksAssumption, SignedAssumption
     DEF Init, PBInv, TypeOK, Trusted, Stakes

(* The rest of the types, for each action.                                   *)
Rest ==
    /\ mapBlockIndex' \subseteq Blocks /\ mapOrphanBlocks' \subseteq Blocks
    /\ setStakeSeen' \subseteq Stakes /\ setStakeSeenOrphan' \subseteq Stakes
    /\ vWorkQueue' \in Seq(Blocks)
    /\ crashes' \in 0..MaxCrashes
    /\ hashSyncCheckpoint' \in mapBlockIndex'

LEMMA KeptAndRest ==
    ASSUME PBInv, Kept, Rest
    PROVE  PBInv'
  <1>1. Trusted \subseteq Blocks
    BY TrustedBlocks
  <1> QED BY <1>1 DEF PBInv, Kept, Rest, TypeOK, Reached

LEMMA Stutter ==
    ASSUME PBInv, UNCHANGED <<best, checkpoints>>
    PROVE  Kept
  BY InvFacts DEF best, checkpoints, Kept, PBInv

LEMMA StepKeeps ==
    ASSUME PBInv, [Next]_vars
    PROVE  Kept /\ Rest
  <1>1. ASSUME NEW b \in Blocks, ReceiveOrphan(b) PROVE Kept /\ Rest
    <2>1. Kept
      BY <1>1, Stutter DEF ReceiveOrphan
    <2> QED BY <1>1, <2>1 DEF ReceiveOrphan, StakeOf, Stakes, Rest, PBInv, TypeOK, checkpoints
  <1>2. ASSUME NEW b \in Blocks, NEW ok \in BOOLEAN, ReceiveBlock(b, ok) PROVE Kept /\ Rest
    <2>1. /\ Kept /\ hashSyncCheckpoint' \in mapBlockIndex'
          /\ mapBlockIndex' \subseteq Blocks /\ setStakeSeen' \subseteq Stakes
      BY <1>2, AcceptKeeps DEF ReceiveBlock
    <2> QED BY <1>2, <2>1 DEF ReceiveBlock, orphanVars, Rest, PBInv, TypeOK
  <1>3. ASSUME NEW o \in Blocks, NEW ok \in BOOLEAN, ProcessOrphan(o, ok) PROVE Kept /\ Rest
    <2>1. /\ Kept /\ hashSyncCheckpoint' \in mapBlockIndex'
          /\ mapBlockIndex' \subseteq Blocks /\ setStakeSeen' \subseteq Stakes
      BY <1>3, AcceptKeeps DEF ProcessOrphan
    <2> QED BY <1>3, <2>1 DEF ProcessOrphan, Rest, PBInv, TypeOK
  <1>4. CASE NextInQueue
    <2>1. Kept
      BY <1>4, Stutter DEF NextInQueue
    <2> QED BY <1>4, <2>1 DEF NextInQueue, Idle, orphanVars, Rest, PBInv, TypeOK, checkpoints
  <1>5. ASSUME NEW c \in Signed, ProcessSyncCheckpoint(c) PROVE Kept /\ Rest
    <2>1. Kept /\ hashSyncCheckpoint' \in mapBlockIndex'
      BY <1>5, CheckpointKeeps
    <2> QED BY <1>5, <2>1 DEF ProcessSyncCheckpoint, orphanVars, Rest, PBInv, TypeOK
  <1>6. CASE Restart
    <2>1. Kept
      BY <1>6, InvFacts, ReachedSelf DEF Restart, Kept, PBInv
    <2> QED BY <1>6, <2>1, BlocksAssumption DEF Restart, Rest, PBInv, TypeOK
  <1>7. CASE UNCHANGED vars
    <2>1. Kept
      BY <1>7, Stutter DEF vars
    <2> QED BY <1>7, <2>1 DEF vars, checkpoints, orphanVars, Rest, PBInv, TypeOK
  <1> QED BY <1>1, <1>2, <1>3, <1>4, <1>5, <1>6, <1>7 DEF Next

LEMMA InvStep == PBInv /\ [Next]_vars => PBInv'
  BY StepKeeps, KeptAndRest

(* Types of the intake of blocks, and the sync-checkpoint always an accepted *)
(* block of the best chain: CheckSync's assertion never fails, and no heavier*)
(* branch, reorganization, pending checkpoint or crash takes it off the      *)
(* chain while the transaction index is whole.                               *)
THEOREM SyncStays == Strict /\ Spec => [](TypeOK /\ SyncInMainChain)
  <1>1. PBInv => TypeOK /\ SyncInMainChain
    BY DEF PBInv, SyncInMainChain
  <1> QED BY <1>1, InvInit, InvStep, PTL DEF Spec

(* The sync-checkpoint only moves to its descendants, over restarts too.     *)
THEOREM SyncOnlyAdvances == Strict /\ Spec => SyncAdvances
  <1>1. PBInv /\ [Next]_vars =>
          [hashSyncCheckpoint' # hashSyncCheckpoint =>
              hashSyncCheckpoint \in Chain[hashSyncCheckpoint']]_vars
    BY StepKeeps DEF Kept
  <1> QED BY <1>1, InvInit, InvStep, PTL DEF Spec, SyncAdvances

-----------------------------------------------------------------------------
(* The pending checkpoint and the orphans, whatever the checkpoint policy.   *)
(* Both promises hold while the best block is the connected one and the      *)
(* transaction index is whole.  Only a start-up, which forgets orphans and   *)
(* pending checkpoint, brings that back once it is lost.                     *)
Connected == intact /\ pindexBest = dbBest
ConnectedAt(r) == r.exact /\ r.at = r.db

Queued(b) == \E i \in 1..Len(vWorkQueue) : vWorkQueue[i] = b

(* The inductive invariant.  In the middle of a call an orphan whose         *)
(* previous block is in the index waits behind a block of the work queue.    *)
IntakeTypes ==
    /\ mapBlockIndex \subseteq Blocks /\ Genesis \in mapBlockIndex
    /\ mapOrphanBlocks \subseteq Blocks \ {Genesis}
    /\ vWorkQueue \in Seq(Blocks)
    /\ hashPendingCheckpoint \in Trusted \cup {NoBlock}
PendingPart == Connected => hashPendingCheckpoint \notin mapBlockIndex
OrphansPart ==
    Connected => \A o \in mapOrphanBlocks :
        Parent[o] \in mapBlockIndex =>
            Queued(Parent[o]) \/ ~(Chain[Parent[o]] \subseteq Connectable)
IntakeInv == IntakeTypes /\ PendingPart /\ OrphansPart

(* SetBestChain never repairs the best chain, and on a sound one it refuses  *)
(* a block only for one of its chain that does not connect.                  *)
LEMMA SetBestChainSound ==
    ASSUME NEW r, NEW b \in Blocks, NEW s \in SetBestChain(r, b), ConnectedAt(s)
    PROVE  /\ ConnectedAt(r)
           /\ s.ok \in BOOLEAN
           /\ ~s.ok => ~(Chain[b] \subseteq Connectable)
  <1>1. b \in Chain[b]
    BY ChainBasics
  <1>2. CASE ~ConnectedAt(r)
    <2>1. s = Refused(r) \/ \E y \in Chain[b] : s = MovedTo(b, y, FALSE)
      BY <1>2 DEF SetBestChain, ConnectedAt
    <2> QED BY <1>2, <2>1 DEF Refused, MovedTo, ConnectedAt
  <1>3. CASE ConnectedAt(r)
    <2>1. \/ s = Refused(r) /\ ~(Chain[b] \subseteq Connectable)
          \/ \E y \in Blocks : s = MovedTo(b, y, TRUE)
      <3>1. Chain[b] \subseteq Blocks
        BY ChainBasics
      <3> QED BY <1>1, <1>3, <3>1 DEF SetBestChain, ConnectedAt, OnBranch
    <2>2. CASE s = Refused(r) /\ ~(Chain[b] \subseteq Connectable)
      <3>1. s.ok = FALSE
        BY <2>2 DEF Refused
      <3> QED BY <1>3, <2>2, <3>1
    <2>3. CASE \E y \in Blocks : s = MovedTo(b, y, TRUE)
      <3>1. s.ok = TRUE
        BY <2>3 DEF MovedTo
      <3> QED BY <1>3, <3>1
    <2> QED BY <2>1, <2>2, <2>3
  <1> QED BY <1>2, <1>3

(* A trusted checkpoint is never refused on a sound best chain.              *)
LEMMA MoveSound ==
    ASSUME NEW c \in Trusted, NEW r, r.ok = TRUE, MoveToCheckpoint(c, r), Connected'
    PROVE  ConnectedAt(r) /\ hashPendingCheckpoint' = NoBlock
  <1>1. PICK s : /\ s \in SetBestChain(r, c) \/ s = r
                 /\ Settle(s)
                 /\ s.ok => hashPendingCheckpoint' = NoBlock
    BY DEF MoveToCheckpoint
  <1>2. ConnectedAt(s)
    BY <1>1 DEF Settle, Connected, ConnectedAt
  <1>3. c \in Blocks /\ Chain[c] \subseteq Connectable
    BY TrustedBlocks
  <1>4. CASE s = r
    BY <1>1, <1>2, <1>4
  <1>5. CASE s \in SetBestChain(r, c)
    BY <1>1, <1>2, <1>3, <1>5, SetBestChainSound
  <1> QED BY <1>1, <1>4, <1>5

LEMMA MoveTrusted ==
    ASSUME NEW c, NEW r, MoveToCheckpoint(c, r)
    PROVE  hashPendingCheckpoint' \in {hashPendingCheckpoint, NoBlock}
  BY DEF MoveToCheckpoint

LEMMA PendingSound ==
    ASSUME IntakeTypes, NEW index \in SUBSET Blocks, NEW r, r.ok = TRUE,
           AcceptPendingSyncCheckpoint(index, r)
    PROVE  /\ hashPendingCheckpoint' \in {hashPendingCheckpoint, NoBlock}
           /\ Connected' => ConnectedAt(r) /\ hashPendingCheckpoint' \notin index
  <1> DEFINE c == hashPendingCheckpoint
  <1>0. NoBlock \notin index
    BY BlocksAssumption
  <1>1. CASE c \notin index /\ Settle(r) /\ UNCHANGED checkpoints
    BY <1>1 DEF checkpoints, Settle, Connected, ConnectedAt
  <1>2. CASE hashPendingCheckpoint' = NoBlock /\ Settle(r)
    BY <1>0, <1>2 DEF Settle, Connected, ConnectedAt
  <1>3. CASE c \in index /\ MoveToCheckpoint(c, r)
    <2>1. c \in Trusted
      BY <1>0, <1>3 DEF IntakeTypes
    <2> QED BY <1>0, <1>3, <2>1, MoveSound, MoveTrusted
  <1> QED BY <1>1, <1>2, <1>3 DEF AcceptPendingSyncCheckpoint

(* AcceptBlock: what it leaves in the index without returning TRUE, does not *)
(* connect.                                                                  *)
LEMMA AcceptSound ==
    ASSUME IntakeTypes, PendingPart, NEW b \in Blocks, NEW ok \in BOOLEAN, AcceptBlock(b, ok)
    PROVE  /\ mapBlockIndex' \in {mapBlockIndex, mapBlockIndex \cup {b}}
           /\ hashPendingCheckpoint' \in {hashPendingCheckpoint, NoBlock}
           /\ Connected' => /\ Connected
                            /\ hashPendingCheckpoint' \notin mapBlockIndex'
                            /\ \/ ok
                               \/ mapBlockIndex' = mapBlockIndex
                               \/ ~(Chain[b] \subseteq Connectable)
  <1>0. NoBlock \notin Blocks
    BY BlocksAssumption
  <1>1. CASE UNCHANGED <<mapBlockIndex, setStakeSeen, best, checkpoints>>
    BY <1>1 DEF best, checkpoints, Connected, PendingPart
  <1>2. CASE \E r \in IF Trust[b] > Trust[pindexBest] THEN SetBestChain(Here, b) ELSE {Here} :
               /\ mapBlockIndex' = mapBlockIndex \cup {b}
               /\ ok = r.ok
               /\ \/ r.ok /\ AcceptPendingSyncCheckpoint(mapBlockIndex \cup {b}, r)
                  \/ ~r.ok /\ UNCHANGED <<best, checkpoints>>
    <2>1. PICK r \in IF Trust[b] > Trust[pindexBest] THEN SetBestChain(Here, b) ELSE {Here} :
               /\ mapBlockIndex' = mapBlockIndex \cup {b}
               /\ ok = r.ok
               /\ \/ r.ok /\ AcceptPendingSyncCheckpoint(mapBlockIndex \cup {b}, r)
                  \/ ~r.ok /\ UNCHANGED <<best, checkpoints>>
      BY <1>2
    <2>2. ConnectedAt(Here) <=> Connected
      BY DEF Here, Connected, ConnectedAt
    <2>3. ConnectedAt(r) => ConnectedAt(Here)
      BY <2>1, SetBestChainSound
    <2>4. CASE ok
      <3>1. r.ok = TRUE /\ AcceptPendingSyncCheckpoint(mapBlockIndex \cup {b}, r)
        BY <2>1, <2>4
      <3>2. mapBlockIndex \cup {b} \in SUBSET Blocks
        BY DEF IntakeTypes
      <3>3. /\ hashPendingCheckpoint' \in {hashPendingCheckpoint, NoBlock}
            /\ Connected' => ConnectedAt(r) /\ hashPendingCheckpoint' \notin mapBlockIndex \cup {b}
        BY <3>1, <3>2, PendingSound
      <3> QED BY <2>1, <2>2, <2>3, <2>4, <3>3
    <2>5. CASE ~ok
      <3>1. ~r.ok /\ UNCHANGED <<best, checkpoints>>
        BY <2>1, <2>5
      <3>2. /\ Connected' <=> Connected
            /\ hashPendingCheckpoint' = hashPendingCheckpoint
        BY <3>1 DEF best, checkpoints, Connected
      <3>3. ASSUME Connected PROVE ~(Chain[b] \subseteq Connectable)
        <4>1. r # Here
          BY <3>1 DEF Here
        <4>2. r \in SetBestChain(Here, b)
          BY <2>1, <4>1
        <4>3. r = Refused(Here) \/ \E y : r = MovedTo(b, y, TRUE)
          BY <2>2, <3>3, <4>2 DEF SetBestChain, ConnectedAt
        <4>4. r = Refused(Here)
          BY <3>1, <4>3 DEF MovedTo
        <4>5. ConnectedAt(r)
          BY <2>2, <3>3, <4>4 DEF Refused, ConnectedAt
        <4> QED BY <3>1, <4>2, <4>5, SetBestChainSound
      <3>4. ASSUME Connected PROVE hashPendingCheckpoint' \notin mapBlockIndex'
        BY <2>1, <3>2, <3>3, <3>4, <1>0, TrustedBlocks DEF PendingPart, IntakeTypes
      <3> QED BY <2>1, <3>2, <3>3, <3>4
    <2> QED BY <2>4, <2>5
  <1> QED BY <1>1, <1>2 DEF AcceptBlock

LEMMA IntakeInit == Init => IntakeInv
  BY TreeAssumption, BlocksAssumption, SignedAssumption
     DEF Init, IntakeInv, IntakeTypes, PendingPart, OrphansPart, Connected, Trusted

LEMMA IntakeStep ==
    ASSUME IntakeInv, [Next]_vars
    PROVE  IntakeInv'
  <1> USE DEF IntakeInv
  <1>1. ASSUME NEW b \in Blocks, ReceiveOrphan(b) PROVE IntakeInv'
    <2>1. /\ UNCHANGED <<mapBlockIndex, vWorkQueue, hashPendingCheckpoint>>
          /\ Connected' <=> Connected
          /\ mapOrphanBlocks' = mapOrphanBlocks \cup {b}
          /\ b \notin mapBlockIndex /\ Parent[b] \notin mapBlockIndex
      BY <1>1 DEF ReceiveOrphan, New, best, checkpoints, Connected
    <2> QED BY <2>1 DEF IntakeTypes, PendingPart, OrphansPart, Queued
  <1>2. ASSUME NEW b \in Blocks, NEW ok \in BOOLEAN, ReceiveBlock(b, ok) PROVE IntakeInv'
    <2>1. /\ mapOrphanBlocks' = mapOrphanBlocks
          /\ vWorkQueue = <<>>
          /\ vWorkQueue' = IF ok THEN <<b>> ELSE <<>>
          /\ AcceptBlock(b, ok)
      BY <1>2 DEF ReceiveBlock, New, Idle, orphanVars
    <2>2. /\ mapBlockIndex' \in {mapBlockIndex, mapBlockIndex \cup {b}}
          /\ hashPendingCheckpoint' \in {hashPendingCheckpoint, NoBlock}
          /\ Connected' => /\ Connected
                           /\ hashPendingCheckpoint' \notin mapBlockIndex'
                           /\ \/ ok
                              \/ mapBlockIndex' = mapBlockIndex
                              \/ ~(Chain[b] \subseteq Connectable)
      BY <2>1, AcceptSound
    <2>3. IntakeTypes'
      BY <2>1, <2>2 DEF IntakeTypes
    <2>4. ASSUME Connected', NEW o \in mapOrphanBlocks, Parent[o] \in mapBlockIndex',
                 Chain[Parent[o]] \subseteq Connectable
          PROVE  Queued(Parent[o])'
      <3>1. ~Queued(Parent[o])
        BY <2>1 DEF Queued
      <3>2. Parent[o] \notin mapBlockIndex
        BY <2>2, <2>4, <3>1 DEF OrphansPart
      <3>3. Parent[o] = b /\ mapBlockIndex' # mapBlockIndex
        BY <2>2, <2>4, <3>2
      <3>4. vWorkQueue' = <<b>>
        BY <2>1, <2>2, <2>4, <3>3
      <3> QED BY <3>3, <3>4 DEF Queued
    <2> QED BY <2>1, <2>2, <2>3, <2>4 DEF PendingPart, OrphansPart
  <1>3. ASSUME NEW o \in Blocks, NEW ok \in BOOLEAN, ProcessOrphan(o, ok) PROVE IntakeInv'
    <2>1. /\ mapOrphanBlocks' = mapOrphanBlocks \ {o}
          /\ vWorkQueue' = IF ok THEN Append(vWorkQueue, o) ELSE vWorkQueue
          /\ AcceptBlock(o, ok)
      BY <1>3 DEF ProcessOrphan
    <2>2. /\ mapBlockIndex' \in {mapBlockIndex, mapBlockIndex \cup {o}}
          /\ hashPendingCheckpoint' \in {hashPendingCheckpoint, NoBlock}
          /\ Connected' => /\ Connected
                           /\ hashPendingCheckpoint' \notin mapBlockIndex'
                           /\ \/ ok
                              \/ mapBlockIndex' = mapBlockIndex
                              \/ ~(Chain[o] \subseteq Connectable)
      BY <2>1, AcceptSound
    <2>3. IntakeTypes'
      BY <2>1, <2>2 DEF IntakeTypes
    <2>4. ASSUME NEW p, Queued(p) PROVE Queued(p)'
      BY <2>1, <2>4 DEF Queued, IntakeTypes
    <2>5. ok => Queued(o)'
      BY <2>1 DEF Queued, IntakeTypes
    <2>6. ASSUME Connected', NEW q \in mapOrphanBlocks', Parent[q] \in mapBlockIndex',
                 Chain[Parent[q]] \subseteq Connectable
          PROVE  Queued(Parent[q])'
      <3>1. CASE Parent[q] \in mapBlockIndex
        BY <2>1, <2>2, <2>4, <2>6, <3>1 DEF OrphansPart
      <3>2. CASE Parent[q] \notin mapBlockIndex
        <4>1. Parent[q] = o /\ mapBlockIndex' # mapBlockIndex
          BY <2>2, <2>6, <3>2
        <4> QED BY <2>2, <2>5, <2>6, <4>1
      <3> QED BY <3>1, <3>2
    <2> QED BY <2>2, <2>3, <2>6 DEF PendingPart, OrphansPart
  <1>4. CASE NextInQueue
    <2>1. /\ UNCHANGED <<mapBlockIndex, mapOrphanBlocks, hashPendingCheckpoint>>
          /\ Connected' <=> Connected
          /\ vWorkQueue # <<>> /\ vWorkQueue' = Tail(vWorkQueue)
          /\ \A o \in mapOrphanBlocks : Parent[o] # Head(vWorkQueue)
      BY <1>4 DEF NextInQueue, Idle, HasOrphanChild, IntakeTypes,
                  orphanVars, best, checkpoints, Connected
    <2>2. ASSUME NEW p, Queued(p), p # Head(vWorkQueue) PROVE Queued(p)'
      <3>1. PICK i \in 1..Len(vWorkQueue) : vWorkQueue[i] = p
        BY <2>2 DEF Queued
      <3>2. i # 1
        BY <2>1, <2>2, <3>1 DEF IntakeTypes
      <3>3. i - 1 \in 1..Len(vWorkQueue') /\ vWorkQueue'[i - 1] = p
        BY <2>1, <3>1, <3>2 DEF IntakeTypes
      <3> QED BY <3>3 DEF Queued
    <2>3. IntakeTypes'
      BY <2>1 DEF IntakeTypes
    <2> QED BY <2>1, <2>2, <2>3 DEF PendingPart, OrphansPart
  <1>5. ASSUME NEW c \in Signed, ProcessSyncCheckpoint(c) PROVE IntakeInv'
    <2>1. /\ UNCHANGED <<mapBlockIndex, mapOrphanBlocks, vWorkQueue>>
          /\ c \in Trusted
      BY <1>5 DEF ProcessSyncCheckpoint, orphanVars, Trusted
    <2>2. /\ hashPendingCheckpoint' \in {hashPendingCheckpoint, NoBlock, c}
          /\ Connected' => Connected /\ hashPendingCheckpoint' \notin mapBlockIndex
      <3>1. NoBlock \notin mapBlockIndex
        BY BlocksAssumption DEF IntakeTypes
      <3>2. CASE /\ c \notin mapBlockIndex
                 /\ hashPendingCheckpoint' = c
                 /\ UNCHANGED <<best, hashSyncCheckpoint, hashInvalidCheckpoint>>
        BY <3>2 DEF best, Connected
      <3>3. CASE UNCHANGED <<best, hashSyncCheckpoint, hashPendingCheckpoint>>
        BY <3>3 DEF best, Connected, PendingPart
      <3>4. CASE MoveToCheckpoint(c, Here)
        <4>1. Here.ok = TRUE /\ (ConnectedAt(Here) <=> Connected)
          BY DEF Here, Connected, ConnectedAt
        <4> QED BY <2>1, <3>1, <3>4, <4>1, MoveSound, MoveTrusted
      <3> QED BY <1>5, <3>2, <3>3, <3>4 DEF ProcessSyncCheckpoint
    <2>3. IntakeTypes'
      BY <2>1, <2>2 DEF IntakeTypes
    <2> QED BY <2>1, <2>2, <2>3 DEF PendingPart, OrphansPart, Queued
  <1>6. CASE Restart
    <2>1. /\ mapBlockIndex' = mapBlockIndex /\ mapOrphanBlocks' = {}
          /\ hashPendingCheckpoint' = NoBlock /\ vWorkQueue' = <<>>
      BY <1>6 DEF Restart
    <2> QED BY <2>1, BlocksAssumption DEF IntakeTypes, PendingPart, OrphansPart
  <1>7. CASE UNCHANGED vars
    BY <1>7 DEF vars, best, checkpoints, orphanVars,
                IntakeTypes, PendingPart, OrphansPart, Connected, Queued
  <1> QED BY <1>1, <1>2, <1>3, <1>4, <1>5, <1>6, <1>7 DEF Next

(* Once the block of a pending checkpoint is in the index, the end of that   *)
(* AcceptBlock has accepted or dropped the checkpoint: it is never left      *)
(* waiting for a block that is already there, under any policy.              *)
THEOREM PendingNeverForgotten == Spec => []PendingIsMissing
  <1>1. IntakeInv => PendingIsMissing
    BY DEF IntakeInv, PendingPart, Connected, PendingIsMissing
  <1> QED BY <1>1, IntakeInit, IntakeStep, PTL DEF Spec

(* When ProcessBlock's loop over the orphans has ended, no orphan is left    *)
(* whose previous block was accepted with a chain that connects, in whatever *)
(* order the blocks came.                                                    *)
THEOREM NoOrphanLeftBehind == Spec => []NoValidOrphanStuck
  <1>1. IntakeInv => NoValidOrphanStuck
    BY DEF IntakeInv, OrphansPart, Connected, Queued, Idle, NoValidOrphanStuck
  <1> QED BY <1>1, IntakeInit, IntakeStep, PTL DEF Spec
=============================================================================
