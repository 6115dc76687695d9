-------------------------- MODULE ChainStateProofs --------------------------
(***************************************************************************)
(* Proofs about ChainState, for every block tree and every bound.          *)
(*                                                                         *)
(* The argument: as long as no commit has failed, the connectable chains   *)
(* of the index that beat the best chain on disk are the one SetBestChain  *)
(* is working on and at most one for each crash (HeaviestPending).  A      *)
(* postponed block sits on an intermediate block that beats the best       *)
(* chain, so before the first crash such an intermediate block cannot be   *)
(* connectable: the loop over postponed blocks, whose errors SetBestChain  *)
(* ignores, has nothing to do.  When every block connects the loop runs    *)
(* but cannot fail.  Either way disk, memory and links end up describing   *)
(* the same chain.                                                         *)
(***************************************************************************)
EXTENDS ChainState, BlockTreeProofs, FiniteSetTheorems

-----------------------------------------------------------------------------
(* The links.                                                                *)

(* Relinking from the chain of p to the chain of q, as Reorganize does it,   *)
(* leaves exactly the links of the chain of q.                               *)
LEMMA RelinkCorrect ==
    ASSUME NEW p \in Blocks, NEW q \in Blocks,
           NEW next \in [Blocks -> Blocks \cup {NoBlock}],
           Linked(next, p)
    PROVE  LET r == Relink(next, Chain[q] \ Chain[p], Chain[p] \ Chain[q])
           IN  r \in [Blocks -> Blocks \cup {NoBlock}] /\ Linked(r, q)
  <1> DEFINE on == Chain[q] \ Chain[p]
             off == Chain[p] \ Chain[q]
             r == Relink(next, on, off)
  <1>0. /\ on \subseteq Blocks /\ off \subseteq Blocks
        /\ Chain[p] \subseteq Blocks /\ Chain[q] \subseteq Blocks
    BY ChainBasics
  <1>1. \A x \in Blocks : ChildrenIn(on, x) # {} => r[x] \in ChildrenIn(on, x)
    BY DEF Relink
  <1>2. \A x \in Blocks : ChildrenIn(on, x) = {} /\ ChildrenIn(off, x) # {} => r[x] = NoBlock
    BY DEF Relink
  <1>3. \A x \in Blocks : ChildrenIn(on, x) = {} /\ ChildrenIn(off, x) = {} => r[x] = next[x]
    BY DEF Relink
  <1>4. r \in [Blocks -> Blocks \cup {NoBlock}]
    <2>1. \A x \in Blocks : r[x] \in Blocks \cup {NoBlock}
      BY <1>0, <1>1, <1>2, <1>3 DEF ChildrenIn
    <2>2. r = [x \in Blocks |-> r[x]]
      BY DEF Relink
    <2> QED BY <2>1, <2>2
  <1>5. ASSUME NEW x \in Blocks, NEW c \in Blocks
        PROVE  r[x] = c <=> c \in ChildrenIn(Chain[q], x)
    <2>1. CASE ChildrenIn(on, x) # {}
      <3>1. r[x] \in ChildrenIn(Chain[q], x)
        BY <2>1, <1>1 DEF ChildrenIn
      <3>2. c \in ChildrenIn(Chain[q], x) => c = r[x]
        BY <3>1, OneChild DEF ChildrenIn
      <3> QED BY <3>1, <3>2
    <2>2. CASE ChildrenIn(on, x) = {} /\ ChildrenIn(off, x) # {}
      <3>1. PICK e \in ChildrenIn(off, x) : TRUE
        BY <2>2
      <3>2. ASSUME c \in ChildrenIn(Chain[q], x) PROVE FALSE
        <4>1. c \in Chain[p]
          BY <2>2, <3>2 DEF ChildrenIn
        <4>2. c = e
          BY <3>1, <3>2, <4>1, OneChild DEF ChildrenIn
        <4> QED BY <3>1, <3>2, <4>2 DEF ChildrenIn
      <3> QED BY <2>2, <3>2, <1>2, TreeAssumption, NoBlockAssumption
    <2>3. CASE ChildrenIn(on, x) = {} /\ ChildrenIn(off, x) = {}
      <3>1. c \in ChildrenIn(Chain[q], x) <=> c \in ChildrenIn(Chain[p], x)
        BY <2>3 DEF ChildrenIn
      <3> QED BY <2>3, <3>1, <1>3 DEF Linked
    <2> QED BY <2>1, <2>2, <2>3
  <1> QED BY <1>4, <1>5 DEF Linked

(* The same for a block that is put on top of the chain of its parent.       *)
LEMMA RelinkOnTop ==
    ASSUME NEW b \in Blocks \ {Genesis},
           NEW next \in [Blocks -> Blocks \cup {NoBlock}],
           Linked(next, Parent[b])
    PROVE  LET r == Relink(next, {b}, {})
           IN  r \in [Blocks -> Blocks \cup {NoBlock}] /\ Linked(r, b)
  <1> DEFINE p == Parent[b]
  <1>1. p \in Blocks /\ Chain[b] = {b} \cup Chain[p]
    BY ChainStep
  <1>2. b \notin Chain[p]
    <2>1. Height[b] = Height[p] + 1 /\ Height[p] \in Nat
      BY <1>1, TreeAssumption
    <2> QED BY <1>1, <2>1, ChainBelow
  <1>3. Chain[b] \ Chain[p] = {b} /\ Chain[p] \ Chain[b] = {}
    BY <1>1, <1>2
  <1> QED BY <1>1, <1>3, RelinkCorrect

(* When memory and disk hold the same links, so do they afterwards.          *)
LEMMA RelinkOnDiskSame ==
    ASSUME dbNext \in [Blocks -> Blocks \cup {NoBlock}], pnext = dbNext, NEW on, NEW off
    PROVE  RelinkOnDisk(on, off) = Relink(pnext, on, off)
  <1>1. [x \in Blocks |-> IF x \in on THEN pnext[x] ELSE dbNext[x]] = dbNext
    OBVIOUS
  <1> QED BY <1>1 DEF RelinkOnDisk

-----------------------------------------------------------------------------
(* Types.                                                                    *)

LEMMA RelinkType ==
    ASSUME NEW next \in [Blocks -> Blocks \cup {NoBlock}],
           NEW on \in SUBSET Blocks, NEW off \in SUBSET Blocks
    PROVE  Relink(next, on, off) \in [Blocks -> Blocks \cup {NoBlock}]
  <1>1. ASSUME NEW x \in Blocks
        PROVE  Relink(next, on, off)[x] \in Blocks \cup {NoBlock}
    <2>1. CASE ChildrenIn(on, x) # {}
      <3>1. Relink(next, on, off)[x] \in ChildrenIn(on, x)
        BY <2>1 DEF Relink
      <3> QED BY <3>1 DEF ChildrenIn
    <2>2. CASE ChildrenIn(on, x) = {}
      BY <2>2 DEF Relink
    <2> QED BY <2>1, <2>2
  <1> QED BY <1>1 DEF Relink

LEMMA CommitType ==
    ASSUME TypeOK, NEW on \in SUBSET Blocks, NEW off \in SUBSET Blocks
    PROVE  /\ Relink(pnext, on, off) \in [Blocks -> Blocks \cup {NoBlock}]
           /\ RelinkOnDisk(on, off) \in [Blocks -> Blocks \cup {NoBlock}]
  <1>1. [x \in Blocks |-> IF x \in on THEN pnext[x] ELSE dbNext[x]]
            \in [Blocks -> Blocks \cup {NoBlock}]
    BY DEF TypeOK
  <1>2. pnext \in [Blocks -> Blocks \cup {NoBlock}]
    BY DEF TypeOK
  <1> QED BY <1>1, <1>2, RelinkType DEF RelinkOnDisk

LEMMA TypeInit == Init => TypeOK
  BY TreeAssumption, BoundAssumption DEF Init, TypeOK, Stages

(* Every step keeps the types, action by action.                             *)
LEMMA TypeStep == TypeOK /\ [Next]_vars => TypeOK'
  <1> SUFFICES ASSUME TypeOK, [Next]_vars PROVE TypeOK'
    OBVIOUS
  <1>0. /\ \A x \in Blocks : Trust[x] \in Nat /\ Parent[x] \in Blocks
        /\ \A x \in Blocks : Chain[x] \subseteq Blocks
        /\ \A x \in Blocks : OnBranch(x) \subseteq Blocks /\ OffBranch(x) \subseteq Blocks
    BY TreeAssumption, ChainBasics DEF TypeOK, OnBranch, OffBranch
  <1> USE DEF TypeOK, Stages, memory, disk, faults
  <1>1. ASSUME NEW b \in Blocks, AddToBlockIndex(b) PROVE TypeOK'
    BY <1>1 DEF AddToBlockIndex, BeatsBest
  <1>16. ASSUME NEW b \in Blocks, AddToBlockIndexFails(b) PROVE TypeOK'
    BY <1>16, BoundAssumption DEF AddToBlockIndexFails
  <1>2. CASE Extend
    BY <1>2 DEF Extend, ConnectInner
  <1>3. CASE ExtendRejected
    BY <1>0, <1>3 DEF ExtendRejected, RejectInner, InvalidChainFound
  <1>4. ASSUME NEW then \in Stages, CommitInner(then) PROVE TypeOK'
    <2>1. Records({joining}, {}) \subseteq Blocks
      BY <1>0 DEF Records
    <2> QED BY <1>4, <2>1, CommitType DEF CommitInner
  <1>5. ASSUME NEW k \in Blocks, Reorganize(k) PROVE TypeOK'
    BY <1>0, <1>5 DEF Reorganize
  <1>6. ASSUME NEW k \in Blocks, ReorganizeRejected(k) PROVE TypeOK'
    <2>1. \A w \in ToldWallet(k) : w \subseteq Blocks
      BY <1>0, ChainBasics DEF ToldWallet
    <2> QED BY <1>0, <1>6, <2>1 DEF ReorganizeRejected, InvalidChainFound
  <1>7. ASSUME NEW lost \in SUBSET dbTx, ReorganizeCommit(lost) PROVE TypeOK'
    <2>1. OnBranch(joining) \in SUBSET Blocks /\ OffBranch(joining) \in SUBSET Blocks
      BY <1>0
    <2>2. /\ pnext' \in [Blocks -> Blocks \cup {NoBlock}]
          /\ dbNext' \in [Blocks -> Blocks \cup {NoBlock}]
      BY <1>7, <2>1, CommitType DEF ReorganizeCommit
    <2>3. Records(OnBranch(joining), OffBranch(joining)) \subseteq Blocks
      BY <1>0, <2>1 DEF Records
    <2> QED BY <1>7, <2>1, <2>2, <2>3 DEF ReorganizeCommit
  <1>8. ASSUME NEW y \in Blocks, ConnectFurther(y) PROVE TypeOK'
    BY <1>8 DEF ConnectFurther, ConnectInner
  <1>9. ASSUME NEW y \in Blocks, ConnectFurtherRejected(y) PROVE TypeOK'
    BY <1>0, <1>9 DEF ConnectFurtherRejected, RejectInner, InvalidChainFound
  <1>10. CASE FurtherDone
    BY <1>10 DEF FurtherDone
  <1>11. CASE NewBestBlock
    BY <1>11 DEF NewBestBlock
  <1>12. CASE CommitFails
    <2>1. writeFaults' \in 0..MaxWriteFaults /\ nBestInvalidTrust' \in Nat
      BY <1>0, <1>12, BoundAssumption DEF CommitFails, InvalidChainFound
    <2> QED BY <1>12, <2>1 DEF CommitFails
  <1>13. CASE Crash
    BY <1>13, BoundAssumption DEF Crash
  <1>14. ASSUME NEW rejected \in {bad, bad \cup Upgrade}, LoadBlockIndex(rejected)
         PROVE  TypeOK'
    BY <1>0, <1>14, ValidityAssumption DEF LoadBlockIndex, FoundBad
  <1>15. CASE UNCHANGED vars
    BY <1>15 DEF vars
  <1> QED BY <1>1, <1>2, <1>3, <1>4, <1>5, <1>6, <1>7, <1>8, <1>9, <1>10, <1>11, <1>12,
             <1>13, <1>14, <1>15, <1>16
          DEF Next, SetBestChain, Restart, ExtendCommit, FurtherCommit

(* Every variable keeps its type.                                            *)
THEOREM TypeCorrect == Spec => []TypeOK
  BY TypeInit, TypeStep, PTL DEF Spec

-----------------------------------------------------------------------------
(* The parts of the invariant that hold in every behaviour.                  *)

LEMMA IndexInit == Init => IndexPart /\ ReleasePart
  BY DEF Init, IndexPart, ReleasePart, ParentClosed, BestChainOnDisk, Recorded

(* The chain of an indexed block is indexed.                                 *)
LEMMA IndexedChain ==
    ASSUME TypeOK, IndexPart, NEW b \in mapBlockIndex
    PROVE  b \in Blocks /\ Chain[b] \subseteq mapBlockIndex
  BY ChainLeast DEF TypeOK, IndexPart

(* The records written with new links cover what the links name.             *)
LEMMA RelinkRecorded ==
    ASSUME NEW D, NEW on \in SUBSET Blocks, NEW off,
           NEW next \in [Blocks -> Blocks \cup {NoBlock}],
           \A x \in Blocks : next[x] # NoBlock => {x, next[x]} \subseteq D
    PROVE  \A x \in Blocks : Relink(next, on, off)[x] # NoBlock =>
               {x, Relink(next, on, off)[x]} \subseteq D \cup Records(on, off)
  <1> SUFFICES ASSUME NEW x \in Blocks, Relink(next, on, off)[x] # NoBlock
               PROVE  {x, Relink(next, on, off)[x]} \subseteq D \cup Records(on, off)
    OBVIOUS
  <1>1. CASE ChildrenIn(on, x) # {}
    <2>1. Relink(next, on, off)[x] \in ChildrenIn(on, x)
      BY <1>1 DEF Relink
    <2> QED BY <2>1 DEF ChildrenIn, Records
  <1>2. CASE ChildrenIn(on, x) = {}
    <2>1. Relink(next, on, off)[x] = next[x]
      BY <1>2 DEF Relink
    <2> QED BY <2>1
  <1> QED BY <1>1, <1>2

(* The batch of a commit, in memory and on disk.                             *)
LEMMA CommitRecorded ==
    ASSUME TypeOK, IndexPart, NEW on \in SUBSET mapBlockIndex, NEW off \in SUBSET mapBlockIndex,
           pnext' = Relink(pnext, on, off), dbNext' = RelinkOnDisk(on, off),
           dbIndex' = dbIndex \cup Records(on, off)
    PROVE  Recorded(pnext)' /\ Recorded(dbNext)' /\ Records(on, off) \subseteq mapBlockIndex
  <1>1. Records(on, off) \subseteq mapBlockIndex
    BY DEF Records, IndexPart, ParentClosed
  <1> DEFINE mix == [x \in Blocks |-> IF x \in on THEN pnext[x] ELSE dbNext[x]]
  <1>2. /\ on \in SUBSET Blocks
        /\ pnext \in [Blocks -> Blocks \cup {NoBlock}] /\ mix \in [Blocks -> Blocks \cup {NoBlock}]
    BY DEF TypeOK
  <1>3. /\ \A x \in Blocks : pnext[x] # NoBlock => {x, pnext[x]} \subseteq dbIndex
        /\ \A x \in Blocks : mix[x] # NoBlock => {x, mix[x]} \subseteq dbIndex
    BY DEF IndexPart, BestChainOnDisk, Recorded
  <1>4. dbNext' = Relink(mix, on, off)
    BY DEF RelinkOnDisk
  <1> HIDE DEF mix
  <1>5. Recorded(pnext)'
    BY <1>2, <1>3, RelinkRecorded DEF Recorded
  <1>6. Recorded(dbNext)'
    <2>1. \A x \in Blocks : Relink(mix, on, off)[x] # NoBlock =>
              {x, Relink(mix, on, off)[x]} \subseteq dbIndex \cup Records(on, off)
      BY <1>2, <1>3, RelinkRecorded
    <2> QED BY <1>4, <2>1 DEF Recorded
  <1> QED BY <1>1, <1>5, <1>6

(* Going up from the intermediate block, the first postponed one.            *)
LEMMA IntermediateBeats ==
    ASSUME TypeOK, NEW k \in Blocks, Intermediate(k), k # target
    PROVE  Trust[k] > Trust[pindexBest]
  <1>0. target \in Blocks /\ pindexBest \in Blocks
    BY DEF TypeOK
  <1>1. k \in Chain[target] /\ Chain[k] = Chain[target] \ Postponed(target)
    BY DEF Intermediate
  <1>2. PICK y \in Chain[target] \ {Genesis} : Parent[y] = k
    BY <1>0, <1>1, ChildOnChain
  <1>3. /\ y \in Blocks \ {Genesis} /\ Height[y] = Height[k] + 1
        /\ Height[y] \in Nat /\ Height[k] \in Nat
    BY <1>0, <1>2, ChainBasics, TreeAssumption
  <1>4. y \notin Chain[k]
    BY <1>3, ChainBelow
  <1> QED BY <1>1, <1>2, <1>4 DEF Postponed

LEMMA IndexStep ==
    TypeOK /\ IndexPart /\ ReleasePart /\ [Next]_vars => IndexPart' /\ ReleasePart'
  <1> SUFFICES ASSUME TypeOK, IndexPart, ReleasePart, [Next]_vars
               PROVE  IndexPart' /\ ReleasePart'
    OBVIOUS
  <1>0. /\ Chain[target] \subseteq mapBlockIndex /\ Chain[pindexBest] \subseteq mapBlockIndex
        /\ Chain[joining] \subseteq mapBlockIndex /\ dbBest \in dbIndex
    BY IndexedChain DEF IndexPart, BestChainOnDisk
  <1> USE DEF ReleasePart, memory, disk, faults
  <1>1. ASSUME NEW b \in Blocks, AddToBlockIndex(b) PROVE IndexPart' /\ ReleasePart'
    BY <1>1 DEF AddToBlockIndex, BeatsBest, ParentClosed, IndexPart, BestChainOnDisk, Recorded
  <1>2. ASSUME NEW b \in Blocks, AddToBlockIndexFails(b) PROVE IndexPart' /\ ReleasePart'
    <2>1. writeFaults' # 0
      BY <1>2 DEF AddToBlockIndexFails, TypeOK
    <2> QED BY <1>2, <2>1
            DEF AddToBlockIndexFails, ParentClosed, IndexPart, BestChainOnDisk, Recorded
  <1>3. ASSUME UNCHANGED <<memory, dbIndex, disk>>, writeFaults' = 0 => writeFaults = 0,
               {target', joining'} \subseteq mapBlockIndex,
               pc' \notin {"setbest", "reorg"} \/ UNCHANGED <<pc, target, joining>>
        PROVE  IndexPart'
    BY <1>3 DEF IndexPart, BestChainOnDisk, Recorded
  <1>4. ASSUME NEW then \in {"newbest", "secondary"}, CommitInner(then)
        PROVE IndexPart' /\ ReleasePart'
    <2>0. /\ {joining} \in SUBSET mapBlockIndex /\ {} \in SUBSET mapBlockIndex
          /\ pnext' = Relink(pnext, {joining}, {}) /\ dbNext' = RelinkOnDisk({joining}, {})
          /\ dbIndex' = dbIndex \cup Records({joining}, {})
      BY <1>4 DEF CommitInner, IndexPart
    <2>1. /\ Recorded(pnext)' /\ Recorded(dbNext)' /\ Records({joining}, {}) \subseteq mapBlockIndex
          /\ joining \in Records({joining}, {})
      BY <2>0, CommitRecorded DEF Records
    <2> QED BY <1>4, <2>1 DEF CommitInner, IndexPart, BestChainOnDisk
  <1>5. ASSUME NEW k \in Blocks, Reorganize(k) PROVE IndexPart' /\ ReleasePart'
    <2>1. k \in mapBlockIndex /\ target \in mapBlockIndex
      BY <1>0, <1>5 DEF Reorganize, Intermediate, IndexPart
    <2>2. k # pindexBest
      <3>1. target # pindexBest /\ Intermediate(k)
        BY <1>5 DEF Reorganize, IndexPart
      <3>2. Trust[k] \in Nat
        BY TreeAssumption
      <3> QED BY <3>1, <3>2, IntermediateBeats
    <2> QED BY <1>5, <2>1, <2>2 DEF Reorganize, IndexPart, BestChainOnDisk, Recorded
  <1>6. ASSUME NEW lost \in SUBSET dbTx, ReorganizeCommit(lost)
        PROVE  IndexPart' /\ ReleasePart'
    <2> DEFINE on == OnBranch(joining)
               off == OffBranch(joining)
    <2>0. /\ on \in SUBSET mapBlockIndex /\ off \in SUBSET mapBlockIndex
          /\ joining \in Blocks /\ pindexBest \in Blocks
      BY <1>0 DEF OnBranch, OffBranch, TypeOK
    <2>1. /\ Recorded(pnext)' /\ Recorded(dbNext)' /\ Records(on, off) \subseteq mapBlockIndex
          /\ on \subseteq Records(on, off)
      BY <1>6, <2>0, CommitRecorded DEF ReorganizeCommit, Records
    <2>2. joining \in Records(on, off)
      <3>1. CASE joining \in on
        BY <2>1, <3>1
      <3>2. CASE joining \notin on
        <4>1. joining \in Chain[pindexBest] /\ joining # pindexBest
          BY <1>6, <2>0, <3>2, ChainBasics DEF OnBranch, ReorganizeCommit, IndexPart
        <4>2. PICK y \in Chain[pindexBest] \ {Genesis} : Parent[y] = joining
          BY <2>0, <4>1, ChildOnChain
        <4>3. y \in Blocks \ {Genesis} /\ Height[y] = Height[joining] + 1 /\ Height[joining] \in Nat
          BY <2>0, <4>2, ChainBasics, TreeAssumption
        <4>4. y \notin Chain[joining]
          BY <2>0, <4>3, ChainBelow
        <4> QED BY <4>2, <4>4 DEF OffBranch, Records
      <3> QED BY <3>1, <3>2
    <2> HIDE DEF on, off
    <2>3. /\ dbBest' = joining /\ dbIndex' = dbIndex \cup Records(on, off)
          /\ dbTx' \subseteq dbTx \cup on /\ pc' = "secondary"
          /\ UNCHANGED <<mapBlockIndex, pindexBest, target, joining, faults, bad>>
      BY <1>6 DEF ReorganizeCommit, on, off
    <2>4. BestChainOnDisk'
      BY <2>1, <2>2, <2>3 DEF IndexPart, BestChainOnDisk
    <2> QED BY <2>1, <2>3, <2>4 DEF IndexPart
  <1>7. ASSUME NEW y \in Blocks, ConnectFurther(y) PROVE IndexPart' /\ ReleasePart'
    <2>1. y \in mapBlockIndex /\ target \in mapBlockIndex
      BY <1>0, <1>7 DEF ConnectFurther, NextPostponed, IndexPart
    <2> QED BY <1>3, <1>7, <2>1 DEF ConnectFurther, ConnectInner
  <1>8. CASE Extend
    <2>1. target \in mapBlockIndex
      BY DEF IndexPart
    <2> QED BY <1>3, <1>8, <2>1 DEF Extend, ConnectInner
  <1>9. CASE \/ ExtendRejected \/ FurtherDone
             \/ \E y \in Blocks : ReorganizeRejected(y) \/ ConnectFurtherRejected(y)
    <2>1. {target, joining} \subseteq mapBlockIndex
      BY DEF IndexPart
    <2>2. /\ UNCHANGED <<memory, dbIndex, disk, faults, target, joining, bad>>
          /\ pc' \in {"idle", "newbest"}
      BY <1>9 DEF ExtendRejected, RejectInner, ReorganizeRejected, ConnectFurtherRejected,
                  FurtherDone
    <2> QED BY <1>3, <2>1, <2>2
  <1>10. CASE NewBestBlock
    BY <1>10 DEF NewBestBlock, IndexPart, BestChainOnDisk, Recorded
  <1>11. CASE CommitFails
    <2>1. {target, joining} \subseteq mapBlockIndex /\ writeFaults' # 0
      BY <1>11 DEF IndexPart, CommitFails, TypeOK
    <2>2. pc' \in {"newbest", "idle"} /\ UNCHANGED <<memory, dbIndex, disk, target, joining>>
      BY <1>11 DEF CommitFails
    <2> QED BY <1>3, <1>11, <2>1, <2>2 DEF CommitFails
  <1>12. CASE Crash
    <2>1. {target, joining} \subseteq mapBlockIndex /\ crashes' > 0
      BY <1>12 DEF IndexPart, Crash, TypeOK
    <2> QED BY <1>3, <1>12, <2>1 DEF Crash
  <1>13. ASSUME NEW rejected \in {bad, bad \cup Upgrade}, LoadBlockIndex(rejected)
         PROVE  IndexPart' /\ ReleasePart'
    <2>1. rejected \subseteq Blocks \ {Genesis} /\ rejected \subseteq Upgrade
      BY ValidityAssumption DEF TypeOK
    <2>2. ParentClosed(dbIndex) /\ dbBest \in Blocks /\ dbIndex \in SUBSET Blocks
      BY <1>13 DEF LoadBlockIndex, Loadable, ParentClosed, TypeOK
    <2>3. ASSUME NEW y \in FoundBad(rejected) PROVE Parent[y] \in dbIndex \ {dbBest}
      <3>1. y \in Chain[dbBest] /\ y \in Blocks \ {Genesis}
        BY <2>1 DEF FoundBad
      <3>2. y \in dbIndex
        BY <1>0, <2>2, <3>1, ChainLeast
      <3>3. Height[y] = Height[Parent[y]] + 1 /\ Height[Parent[y]] \in Nat /\ Height[y] \in Nat
        BY <3>1, TreeAssumption
      <3>4. Height[y] <= Height[dbBest]
        <4>1. Height[dbBest] \in Nat
          BY <2>2, TreeAssumption
        <4> QED BY <2>2, <3>1, <3>3, <4>1, ChainBelow
      <3> QED BY <2>2, <3>1, <3>2, <3>3, <3>4 DEF ParentClosed
    <2>4. target' \in dbIndex /\ (pc' = "setbest" => target' # dbBest) /\ pc' \in {"idle", "setbest"}
      BY <1>0, <1>13, <2>3 DEF LoadBlockIndex
    <2> QED BY <1>0, <1>13, <2>1, <2>2, <2>4
            DEF LoadBlockIndex, IndexPart, BestChainOnDisk, Recorded
  <1>14. CASE UNCHANGED vars
    BY <1>14 DEF vars, IndexPart, BestChainOnDisk, Recorded
  <1> QED BY <1>1, <1>2, <1>4, <1>5, <1>6, <1>7, <1>8, <1>9, <1>10, <1>11, <1>12, <1>13, <1>14
          DEF Next, SetBestChain, Restart, ExtendCommit, FurtherCommit

-----------------------------------------------------------------------------
(* The part that holds as long as the run is benign.                         *)

Core == DiskPart /\ CallPart /\ HeaviestPending

LEMMA CoreInit == Init => Core
  <1> SUFFICES ASSUME Init PROVE Core
    OBVIOUS
  <1>1. Chain[Genesis] = {Genesis}
    <2>1. ParentClosed({Genesis})
      BY DEF ParentClosed
    <2> QED BY <2>1, ChainBasics, ChainLeast, TreeAssumption
  <1>2. DiskPart
    BY <1>1, ValidityAssumption, TreeAssumption, NoBlockAssumption DEF DiskPart, Linked, ChildrenIn, Init
  <1>3. CallPart
    BY DEF CallPart, Init
  <1>4. HeaviestPending
    <2>1. Trust[Genesis] \in Nat
      BY TreeAssumption
    <2>2. LeftBehind = {}
      BY <2>1 DEF LeftBehind, Heavier, Init
    <2> QED BY <2>2, FS_EmptySet DEF HeaviestPending, Init
  <1> QED BY <1>2, <1>3, <1>4 DEF Core

(* A benign run stays benign backwards in time.                              *)
LEMMA BenignBefore ==
    TypeOK /\ IndexPart /\ [Next]_vars /\ Benign' => Benign
  <1> SUFFICES ASSUME TypeOK, IndexPart, [Next]_vars, Benign' PROVE Benign
    OBVIOUS
  <1>1. CASE CommitFails
    BY <1>1 DEF CommitFails, memory, Benign, TypeOK
  <1>2. CASE Crash
    BY <1>2 DEF Crash, memory, Benign, TypeOK
  <1>3. ASSUME NEW b \in Blocks, AddToBlockIndex(b) \/ AddToBlockIndexFails(b) PROVE Benign
    BY <1>3 DEF AddToBlockIndex, AddToBlockIndexFails, faults, Benign, TypeOK
  <1>4. ASSUME NEW rejected \in {bad, bad \cup Upgrade}, LoadBlockIndex(rejected)
        PROVE  Benign
    BY <1>4 DEF LoadBlockIndex, IndexPart, faults, Benign
  <1>5. CASE UNCHANGED <<mapBlockIndex, bad, faults>>
    BY <1>5 DEF faults, Benign
  <1> QED BY <1>1, <1>2, <1>3, <1>4, <1>5
          DEF Next, vars, memory, SetBestChain, Extend, ExtendRejected, ExtendCommit,
              Reorganize, ReorganizeRejected, ReorganizeCommit, ConnectFurther,
              ConnectFurtherRejected, FurtherCommit, FurtherDone, NewBestBlock, ConnectInner,
              RejectInner, CommitInner, Restart

(* In a benign state ConnectBlock judges by the contents of the block.       *)
LEMMA BenignValid ==
    ASSUME TypeOK, ReleasePart, Benign
    PROVE  Valid = Connectable
  BY DEF Benign, ReleasePart, Valid, TypeOK

(* The hypotheses of every step below.                                       *)
Pre == TypeOK /\ IndexPart /\ ReleasePart /\ Benign /\ Core

(* Where the call stands, the chain of its block is in the index.            *)
LEMMA PreFacts ==
    ASSUME Pre
    PROVE  /\ Valid = Connectable
           /\ target \in Blocks /\ joining \in Blocks /\ dbBest \in Blocks
           /\ pindexBest \in Blocks
           /\ \A b \in Blocks : Trust[b] \in Nat /\ Height[b] \in Nat
           /\ Chain[target] \subseteq mapBlockIndex
  BY BenignValid, IndexedChain, TreeAssumption, NoBlockAssumption DEF Pre, TypeOK, IndexPart

(* Only a crash adds to the chains that are left behind.                     *)
LEMMA PendingShrinks ==
    ASSUME TypeOK, HeaviestPending, LeftBehind' \subseteq LeftBehind, UNCHANGED crashes
    PROVE  HeaviestPending'
  <1>1. IsFiniteSet(LeftBehind)
    BY BoundAssumption, FS_Subset DEF LeftBehind, Heavier, TypeOK
  <1>2. /\ Cardinality(LeftBehind') <= Cardinality(LeftBehind)
        /\ Cardinality(LeftBehind') \in Nat /\ Cardinality(LeftBehind) \in Nat
    BY <1>1, FS_Subset, FS_CardinalityType
  <1> QED BY <1>2 DEF HeaviestPending, TypeOK

(* They get no more when the best chain on disk gets no lighter and the call *)
(* either goes on or leaves no heavier chain.                                *)
LEMMA StillPending ==
    ASSUME Pre, UNCHANGED <<mapBlockIndex, crashes>>,
           dbBest' \in Blocks, Trust[dbBest'] >= Trust[dbBest],
           \/ pc \in {"idle", "down"}
           \/ pc' \notin {"idle", "down"} /\ UNCHANGED target
           \/ target \notin Heavier'
    PROVE  HeaviestPending'
  <1>1. mapBlockIndex \subseteq Blocks
    BY DEF Pre, TypeOK
  <1>2. Heavier' \subseteq Heavier
    BY <1>1, PreFacts DEF Heavier
  <1>3. LeftBehind' \subseteq LeftBehind
    BY <1>2 DEF LeftBehind
  <1> QED BY <1>3, PendingShrinks DEF Pre, Core

LEMMA StepAdd ==
    ASSUME Pre, NEW b \in Blocks, AddToBlockIndex(b)
    PROVE  Core'
  <1>1. DiskPart'
    BY DEF Pre, Core, DiskPart, AddToBlockIndex, BeatsBest, disk
  <1>2. CallPart'
    BY DEF Pre, Core, CallPart, AddToBlockIndex, BeatsBest, disk
  <1>3. HeaviestPending'
    <2>1. /\ pc = "idle" /\ pindexBest = dbBest /\ target' = b
          /\ pc' = IF BeatsBest(b) THEN "setbest" ELSE "idle"
          /\ mapBlockIndex' = mapBlockIndex \cup {b} /\ UNCHANGED <<dbBest, crashes>>
      BY DEF Pre, Core, CallPart, AddToBlockIndex, disk, faults
    <2>2. LeftBehind' \subseteq LeftBehind
      BY <2>1 DEF LeftBehind, Heavier, BeatsBest
    <2> QED BY <2>1, <2>2, PendingShrinks DEF Pre, Core
  <1> QED BY <1>1, <1>2, <1>3 DEF Core

LEMMA StepExtend ==
    ASSUME Pre, Extend
    PROVE  Core'
  <1> USE DEF Extend, ConnectInner, memory, disk, faults
  <1>1. target \in Connectable
    BY PreFacts DEF Pre, Core, ConnectSucceeds, Extends, CallPart, DiskPart
  <1>2. DiskPart'
    BY DEF Pre, Core, DiskPart
  <1>3. CallPart'
    BY <1>1 DEF Pre, Core, CallPart, Extends, OnBranch
  <1>4. HeaviestPending'
    BY PreFacts, StillPending
  <1> QED BY <1>2, <1>3, <1>4 DEF Core

LEMMA StepExtendRejected ==
    ASSUME Pre, ExtendRejected
    PROVE  Core'
  <1> USE DEF ExtendRejected, RejectInner, memory, disk, faults
  <1>1. target \notin Connectable
    BY PreFacts DEF Pre, Core, ConnectFails, Extends, CallPart, DiskPart
  <1>2. ~(Chain[target] \subseteq Connectable)
    BY <1>1, PreFacts, ChainBasics
  <1>3. DiskPart'
    BY DEF Pre, Core, DiskPart
  <1>4. CallPart'
    BY DEF Pre, Core, CallPart
  <1>5. HeaviestPending'
    BY <1>2, PreFacts, StillPending DEF Heavier
  <1> QED BY <1>3, <1>4, <1>5 DEF Core

(* Committing one block on top of the chain on disk.                         *)
LEMMA InnerDisk ==
    ASSUME Pre, NEW then \in {"newbest", "secondary"}, CommitInner(then),
           joining \in Connectable \ {Genesis}, Parent[joining] = dbBest, pc # "down"
    PROVE  DiskPart'
  <1>1. joining \in Blocks \ {Genesis}
    BY PreFacts
  <1>2. Chain[joining] = {joining} \cup Chain[dbBest]
    BY <1>1, ChainStep
  <1>3. /\ pnext = dbNext /\ dbNext \in [Blocks -> Blocks \cup {NoBlock}]
        /\ Linked(dbNext, Parent[joining])
    BY DEF Pre, Core, DiskPart, TypeOK
  <1>4. Linked(Relink(pnext, {joining}, {}), joining)
    BY <1>1, <1>3, RelinkOnTop
  <1>5. dbNext' = Relink(pnext, {joining}, {}) /\ pnext' = dbNext'
    BY <1>3, RelinkOnDiskSame DEF CommitInner
  <1>6. dbBest' = joining /\ dbTx' = dbTx \cup {joining}
    BY DEF CommitInner
  <1>7. dbTx = Chain[dbBest] /\ dbTx \subseteq Connectable
    BY DEF Pre, Core, DiskPart
  <1>8. Linked(dbNext, dbBest)'
    BY <1>4, <1>5, <1>6 DEF Linked
  <1> QED BY <1>2, <1>5, <1>6, <1>7, <1>8 DEF DiskPart

LEMMA StepExtendCommit ==
    ASSUME Pre, ExtendCommit
    PROVE  Core'
  <1> USE DEF ExtendCommit
  <1>1. /\ joining = target /\ joining \in Connectable \ {Genesis}
        /\ Parent[joining] = dbBest
    BY DEF Pre, Core, CallPart, Extends
  <1>2. DiskPart'
    BY <1>1, InnerDisk
  <1>3. CallPart'
    BY <1>1 DEF Pre, Core, CallPart, CommitInner
  <1>4. HeaviestPending'
    BY <1>1, PreFacts, TreeAssumption, StillPending DEF CommitInner, faults
  <1> QED BY <1>2, <1>3, <1>4 DEF Core

(* Before the first crash nothing that SetBestChain could postpone is        *)
(* connectable: the reorganization goes to pindexNew itself.                 *)
LEMMA NothingPostponed ==
    ASSUME Pre, crashes = 0, NEW k \in Blocks, Reorganize(k)
    PROVE  k = target
  <1> SUFFICES ASSUME k # target PROVE FALSE
    OBVIOUS
  <1>1. k \in Chain[target] /\ Chain[k] = Chain[target] \ Postponed(target)
    BY DEF Reorganize, Intermediate
  <1>5. Trust[k] > Trust[pindexBest]
    BY IntermediateBeats DEF Pre, Reorganize
  <1>6. pindexBest = dbBest /\ dbTx = Chain[pindexBest] /\ dbTx \subseteq Connectable
    BY DEF Pre, Core, CallPart, DiskPart, Reorganize
  <1>7. Chain[k] \subseteq Connectable
    BY <1>6, PreFacts DEF Reorganize, OnBranch
  <1>8. k \in mapBlockIndex
    BY <1>1, PreFacts
  <1>9. k \in LeftBehind
    BY <1>5, <1>6, <1>7, <1>8 DEF LeftBehind, Heavier
  <1>10. IsFiniteSet(LeftBehind)
    BY BoundAssumption, FS_Subset DEF LeftBehind, Heavier, Pre, TypeOK
  <1>11. Cardinality(LeftBehind) = 0
    BY <1>10, FS_CardinalityType DEF Pre, Core, HeaviestPending
  <1> QED BY <1>9, <1>10, <1>11, FS_EmptySet

LEMMA StepReorganize ==
    ASSUME Pre, NEW k \in Blocks, Reorganize(k)
    PROVE  Core'
  <1>1. crashes = 0 => k = target
    BY NothingPostponed
  <1>2. OnBranch(k) \subseteq Connectable /\ k \in Chain[target]
    BY PreFacts DEF Pre, Core, CallPart, DiskPart, Reorganize, Intermediate
  <1>6. Trust[k] > Trust[pindexBest]
    BY IntermediateBeats DEF Pre, Core, CallPart, Reorganize
  <1> USE DEF Reorganize, memory, disk, faults
  <1>3. DiskPart'
    BY DEF Pre, Core, DiskPart
  <1>4. CallPart'
    BY <1>1, <1>2, <1>6 DEF Pre, Core, CallPart, OnBranch
  <1>5. HeaviestPending'
    BY PreFacts, StillPending
  <1> QED BY <1>3, <1>4, <1>5 DEF Core

LEMMA StepReorganizeRejected ==
    ASSUME Pre, NEW k \in Blocks, ReorganizeRejected(k)
    PROVE  Core'
  <1>1. ~(OnBranch(k) \subseteq Connectable) /\ k \in Chain[target]
    BY PreFacts DEF Pre, Core, CallPart, DiskPart, ReorganizeRejected, Intermediate
  <1>2. ~(Chain[target] \subseteq Connectable)
    BY <1>1, PreFacts, ChainTransitive DEF OnBranch
  <1> USE DEF ReorganizeRejected, memory, disk, faults
  <1>3. DiskPart'
    BY DEF Pre, Core, DiskPart
  <1>4. CallPart'
    BY DEF Pre, Core, CallPart
  <1>5. HeaviestPending'
    BY <1>2, PreFacts, StillPending DEF Heavier
  <1> QED BY <1>3, <1>4, <1>5 DEF Core

LEMMA StepReorganizeCommit ==
    ASSUME Pre, NEW lost \in SUBSET dbTx, ReorganizeCommit(lost)
    PROVE  Core'
  <1>1. /\ pindexBest = dbBest /\ joining \in Chain[target]
        /\ OnBranch(joining) \subseteq Connectable
        /\ dbTx = Chain[dbBest] /\ dbTx \subseteq Connectable
        /\ pnext = dbNext /\ Linked(dbNext, dbBest)
        /\ dbNext \in [Blocks -> Blocks \cup {NoBlock}]
    BY DEF Pre, Core, CallPart, DiskPart, TypeOK, ReorganizeCommit
  <1>2. lost = {}
    BY <1>1 DEF ReorganizeCommit, OffBranch
  <1>3. dbBest' = joining /\ dbTx' = Chain[joining] /\ dbTx' \subseteq Connectable
    BY <1>1, <1>2 DEF ReorganizeCommit, OnBranch, OffBranch
  <1>4. dbNext' = Relink(pnext, OnBranch(joining), OffBranch(joining)) /\ pnext' = dbNext'
    BY <1>1, RelinkOnDiskSame DEF ReorganizeCommit
  <1>5. Linked(dbNext', joining)
    BY <1>1, <1>4, PreFacts, RelinkCorrect DEF OnBranch, OffBranch
  <1>6. DiskPart'
    BY <1>3, <1>4, <1>5 DEF DiskPart, Linked
  <1>7. CallPart'
    BY <1>1, <1>3 DEF Pre, Core, CallPart, ReorganizeCommit, faults
  <1>8. HeaviestPending'
    <2>1. /\ Trust[joining] > Trust[pindexBest] /\ pc' = "secondary"
          /\ UNCHANGED <<mapBlockIndex, target, crashes>>
      BY DEF Pre, Core, CallPart, ReorganizeCommit, faults
    <2> QED BY <1>1, <1>3, <2>1, PreFacts, StillPending
  <1> QED BY <1>6, <1>7, <1>8 DEF Core

(* The loop over the postponed blocks only runs when every block connects.   *)
LEMMA LoopFacts ==
    ASSUME Pre, pc = "secondary", NEW y \in Blocks, NextPostponed(y)
    PROVE  crashes # 0 /\ y \in Connectable /\ y # Genesis /\ Parent[y] = dbBest
           /\ ~ConnectFails(y)
  <1>1. y \in Chain[target] \ {Genesis} /\ Parent[y] = joining /\ joining = dbBest
    BY DEF Pre, Core, CallPart, NextPostponed
  <1>2. crashes # 0
    <2> SUFFICES ASSUME joining = target PROVE FALSE
      BY DEF Pre, Core, CallPart
    <2>1. Height[y] = Height[target] + 1
      BY <1>1, TreeAssumption
    <2> QED BY <1>1, <2>1, PreFacts, ChainBelow
  <1>3. y \in Connectable
    BY <1>1, <1>2, PreFacts DEF Pre, Benign
  <1> QED BY <1>1, <1>2, <1>3, PreFacts DEF ConnectFails, Pre, Core, DiskPart

LEMMA StepFurther ==
    ASSUME Pre, NEW y \in Blocks, ConnectFurther(y)
    PROVE  Core'
  <1>1. crashes # 0 /\ y \in Connectable /\ y # Genesis /\ Parent[y] = dbBest
    BY LoopFacts DEF ConnectFurther
  <1> USE DEF ConnectFurther, ConnectInner, memory, disk, faults
  <1>2. DiskPart'
    BY DEF Pre, Core, DiskPart
  <1>3. CallPart'
    BY <1>1 DEF Pre, Core, CallPart, NextPostponed
  <1>4. HeaviestPending'
    BY PreFacts, StillPending
  <1> QED BY <1>2, <1>3, <1>4 DEF Core

LEMMA StepFurtherCommit ==
    ASSUME Pre, FurtherCommit
    PROVE  Core'
  <1> USE DEF FurtherCommit
  <1>1. DiskPart'
    BY InnerDisk DEF Pre, Core, CallPart
  <1>2. CallPart'
    BY DEF Pre, Core, CallPart, CommitInner, faults
  <1>3. HeaviestPending'
    <2>1. joining \in Blocks \ {Genesis} /\ Parent[joining] = dbBest
      BY PreFacts DEF Pre, Core, CallPart
    <2>2. Trust[joining] > Trust[dbBest]
      BY <2>1, TreeAssumption
    <2> QED BY <2>1, <2>2, PreFacts, StillPending DEF CommitInner, faults
  <1> QED BY <1>1, <1>2, <1>3 DEF Core

LEMMA StepFurtherDone ==
    ASSUME Pre, FurtherDone
    PROVE  Core'
  <1> USE DEF FurtherDone, memory, disk, faults
  <1>1. HeaviestPending'
    BY PreFacts, StillPending
  <1> QED BY <1>1 DEF Pre, Core, DiskPart, CallPart

LEMMA StepNewBest ==
    ASSUME Pre, NewBestBlock
    PROVE  Core'
  <1> USE DEF NewBestBlock, disk, faults
  <1>1. DiskPart'
    BY DEF Pre, Core, DiskPart
  <1>2. CallPart'
    BY DEF Pre, Core, CallPart
  <1>3. HeaviestPending'
    <2>1. target \notin Heavier'
      BY PreFacts DEF Pre, Core, CallPart, Heavier
    <2> QED BY <2>1, PreFacts, StillPending
  <1> QED BY <1>1, <1>2, <1>3 DEF Core

LEMMA StepCrash ==
    ASSUME Pre, Crash
    PROVE  Core'
  <1>1. crashes' # 0
    BY DEF Crash, Pre, TypeOK
  <1>2. IsFiniteSet(LeftBehind)
    BY BoundAssumption, FS_Subset DEF LeftBehind, Heavier, Pre, TypeOK
  <1>3. LeftBehind' \subseteq LeftBehind \cup {target}
    BY DEF LeftBehind, Heavier, Crash, memory, disk
  <1>4. /\ Cardinality(LeftBehind') <= Cardinality(LeftBehind) + 1
        /\ Cardinality(LeftBehind) \in Nat /\ Cardinality(LeftBehind') \in Nat
    <2>1. /\ IsFiniteSet(LeftBehind \cup {target}) /\ Cardinality(LeftBehind) \in Nat
          /\ Cardinality(LeftBehind \cup {target}) <= Cardinality(LeftBehind) + 1
      BY <1>2, FS_AddElement, FS_CardinalityType
    <2>2. /\ IsFiniteSet(LeftBehind') /\ Cardinality(LeftBehind \cup {target}) \in Nat
          /\ Cardinality(LeftBehind') <= Cardinality(LeftBehind \cup {target})
      BY <1>3, <2>1, FS_Subset, FS_CardinalityType
    <2>3. Cardinality(LeftBehind') \in Nat
      BY <2>2, FS_CardinalityType
    <2> QED BY <2>1, <2>2, <2>3
  <1>5. HeaviestPending'
    BY <1>4 DEF HeaviestPending, Pre, Core, Crash, TypeOK
  <1> QED BY <1>1, <1>5 DEF Pre, Core, DiskPart, CallPart, Crash, memory, disk

LEMMA StepLoad ==
    ASSUME Pre, NEW rejected \in {bad, bad \cup Upgrade}, LoadBlockIndex(rejected), Benign'
    PROVE  Core'
  <1>1. crashes # 0 /\ rejected = {}
    BY DEF Pre, ReleasePart, Benign, LoadBlockIndex
  <1>2. FoundBad(rejected) = {}
    BY <1>1 DEF FoundBad
  <1>3. pc' = "idle" /\ pindexBest' = dbBest /\ pnext' = dbNext /\ UNCHANGED <<disk, faults>>
    BY <1>2 DEF LoadBlockIndex
  <1>4. mapBlockIndex' = mapBlockIndex /\ pc = "down"
    BY DEF Pre, Benign, IndexPart, LoadBlockIndex
  <1>5. HeaviestPending'
    BY <1>3, <1>4, PreFacts, StillPending DEF disk, faults
  <1> QED BY <1>1, <1>3, <1>5 DEF Pre, Core, DiskPart, CallPart, Linked, disk, faults

LEMMA CoreStep == Pre /\ [Next]_vars /\ Benign' => Core'
  <1> SUFFICES ASSUME Pre, [Next]_vars, Benign' PROVE Core'
    OBVIOUS
  <1>1. CASE UNCHANGED vars
    BY <1>1 DEF Pre, Core, DiskPart, CallPart, HeaviestPending, LeftBehind, Heavier, Linked,
                Extends, OnBranch, vars, memory, disk, faults
  <1>2. ASSUME NEW y \in Blocks, ConnectFurtherRejected(y) PROVE Core'
    BY <1>2, LoopFacts DEF ConnectFurtherRejected, RejectInner
  <1>3. ASSUME CommitFails \/ \E b \in Blocks : AddToBlockIndexFails(b) PROVE Core'
    BY <1>3 DEF CommitFails, AddToBlockIndexFails, Pre, Benign, TypeOK
  <1> QED BY <1>1, <1>2, <1>3, StepAdd, StepExtend, StepExtendRejected, StepExtendCommit,
             StepReorganize, StepReorganizeRejected, StepReorganizeCommit, StepFurther,
             StepFurtherCommit, StepFurtherDone, StepNewBest, StepCrash, StepLoad
          DEF Next, SetBestChain, Restart

(* IInv is an invariant of the specification.                                *)
THEOREM InductiveInvariant == Spec => []IInv
  <1>1. Init => IInv
    BY TypeInit, IndexInit, CoreInit DEF IInv, Core
  <1>2. IInv /\ [Next]_vars => IInv'
    <2> SUFFICES ASSUME IInv, [Next]_vars PROVE IInv'
      OBVIOUS
    <2>1. TypeOK'
      BY TypeStep DEF IInv
    <2>2. IndexPart' /\ ReleasePart'
      BY IndexStep DEF IInv
    <2>3. Benign' => Core'
      BY CoreStep, BenignBefore DEF IInv, Pre, Core
    <2> QED BY <2>1, <2>2, <2>3 DEF IInv, Core
  <1> QED BY <1>1, <1>2, PTL DEF Spec

-----------------------------------------------------------------------------
(* What follows for the node.                                                *)

(* The links on disk and in memory tell who is on the main chain.            *)
LEMMA LinksDecide ==
    ASSUME TypeOK, Linked(pnext, pindexBest)
    PROVE  /\ \A b \in Blocks : IsInMainChain(b) <=> b \in Chain[pindexBest]
           /\ \A c \in Chain[pindexBest] \ {Genesis} : pnext[Parent[c]] = c
  <1>0. pindexBest \in Blocks /\ Chain[pindexBest] \subseteq Blocks
    BY ChainBasics DEF TypeOK
  <1>1. ASSUME NEW b \in Blocks, IsInMainChain(b) PROVE b \in Chain[pindexBest]
    <2>1. CASE b = pindexBest
      BY <1>0, <2>1, ChainBasics
    <2>2. CASE pnext[b] # NoBlock
      <3>1. pnext[b] \in Blocks
        BY <2>2 DEF TypeOK
      <3>2. pnext[b] \in ChildrenIn(Chain[pindexBest], b)
        BY <3>1 DEF Linked
      <3>3. ParentClosed(Chain[pindexBest])
        BY <1>0, ChainBasics
      <3> QED BY <3>2, <3>3 DEF ChildrenIn, ParentClosed
    <2> QED BY <1>1, <2>1, <2>2 DEF IsInMainChain
  <1>2. ASSUME NEW b \in Chain[pindexBest] PROVE IsInMainChain(b)
    <2>1. CASE b = pindexBest
      BY <2>1 DEF IsInMainChain
    <2>2. CASE b # pindexBest
      <3>1. PICK d \in Chain[pindexBest] \ {Genesis} : Parent[d] = b
        BY <1>0, <2>2, ChildOnChain
      <3>2. pnext[b] = d
        BY <1>0, <3>1 DEF Linked, ChildrenIn
      <3> QED BY <1>0, <3>1, <3>2, TreeAssumption, NoBlockAssumption DEF IsInMainChain
    <2> QED BY <2>1, <2>2
  <1>3. ASSUME NEW c \in Chain[pindexBest] \ {Genesis} PROVE pnext[Parent[c]] = c
    BY <1>0, TreeAssumption, NoBlockAssumption DEF Linked, ChildrenIn
  <1> QED BY <1>1, <1>2, <1>3

(* Until a commit fails, and until a crash unless every block connects, the  *)
(* transaction index, the best-chain record, the block index and the pnext   *)
(* links agree at every commit point and after every call that               *)
(* AddToBlockIndex or the start-up makes.                                    *)
THEOREM BestChainConsistent == Spec => []ConsistentWhenBenign
  <1>1. IInv => ConsistentWhenBenign
    <2> SUFFICES ASSUME IInv, Benign
                 PROVE  TxIndexMatchesBest /\ MemoryMatchesDisk /\ MainChainLinks
      BY DEF ConsistentWhenBenign
    <2>1. TxIndexMatchesBest
      BY DEF IInv, DiskPart, IndexPart, BestChainOnDisk, TxIndexMatchesBest
    <2>2. MemoryMatchesDisk
      BY DEF IInv, Benign, DiskPart, CallPart, IndexPart, MemoryMatchesDisk
    <2>3. MainChainLinks
      BY LinksDecide DEF IInv, DiskPart, CallPart, MainChainLinks
    <2> QED BY <2>1, <2>2, <2>3
  <1> QED BY <1>1, InductiveInvariant, PTL

(* A crash leaves the node with at most one heavier connectable chain that   *)
(* it passes over, the one it was at; nothing else is ever lost, and no      *)
(* later call loses another.                                                 *)
THEOREM CrashLeavesAtMostOne == Spec => []CrashLeavesOne
  <1>1. IInv => CrashLeavesOne
    BY DEF IInv, CrashLeavesOne, HeaviestPending, LeftBehind
  <1> QED BY <1>1, InductiveInvariant, PTL

(* Before the first crash or failed commit the node is on a heaviest         *)
(* connectable chain of its index whenever no call that AddToBlockIndex or   *)
(* the start-up makes is running.                                            *)
THEOREM HeaviestUntilCrash == Spec => []HeaviestValid
  <1>1. IInv => HeaviestValid
    <2> SUFFICES ASSUME IInv, crashes = 0, writeFaults = 0, pc = "idle",
                        NEW b \in mapBlockIndex, Chain[b] \subseteq Valid
                 PROVE  Trust[b] <= Trust[pindexBest]
      BY DEF HeaviestValid
    <2>1. Benign /\ Chain[b] \subseteq Connectable
      BY DEF Valid, Benign, IInv, ReleasePart
    <2>2. /\ pindexBest = dbBest /\ Cardinality(LeftBehind) <= 0 /\ LeftBehind = Heavier
          /\ mapBlockIndex \subseteq Blocks
      BY <2>1 DEF IInv, CallPart, HeaviestPending, LeftBehind, TypeOK
    <2>3. IsFiniteSet(Heavier)
      BY <2>2, BoundAssumption, FS_Subset DEF Heavier
    <2>4. Heavier = {}
      BY <2>2, <2>3, FS_CardinalityType, FS_EmptySet
    <2>5. Trust[b] \in Nat /\ Trust[dbBest] \in Nat
      BY <2>2, TreeAssumption DEF IInv, TypeOK
    <2> QED BY <2>1, <2>2, <2>4, <2>5 DEF Heavier
  <1> QED BY <1>1, InductiveInvariant, PTL

(* In every behaviour, with crashes, blocks that do not connect and commits  *)
(* that fail, that of AddToBlockIndex included, the best chain and every     *)
(* link on disk have their block index records.                              *)
THEOREM BestChainAlwaysOnDisk == Spec => []BestChainOnDisk
  <1>1. IInv => BestChainOnDisk
    BY DEF IInv, IndexPart
  <1> QED BY <1>1, InductiveInvariant, PTL

(* Before the first crash or failed commit the best chain is only ever       *)
(* replaced by one with more trust.                                          *)
THEOREM BestTrustOnlyGrows == Spec => BestTrustGrows
  <1> DEFINE Grows == crashes = 0 /\ writeFaults = 0 /\ pindexBest' # pindexBest
                         => Trust[pindexBest'] > Trust[pindexBest]
  <1>1. IInv /\ [Next]_vars => [Grows]_vars
    <2> SUFFICES ASSUME IInv, Next, crashes = 0, writeFaults = 0, pindexBest' # pindexBest
                 PROVE  Trust[pindexBest'] > Trust[pindexBest]
      OBVIOUS
    <2>1. ~Restart
      BY DEF Restart, LoadBlockIndex, IInv, ReleasePart
    <2>2. NewBestBlock
      BY <2>1 DEF Next, AddToBlockIndex, AddToBlockIndexFails, SetBestChain, Extend, ExtendRejected, ExtendCommit,
              Reorganize, ReorganizeRejected, ReorganizeCommit, ConnectFurther,
              ConnectFurtherRejected, FurtherCommit, FurtherDone, ConnectInner,
              RejectInner, CommitInner, CommitFails, Crash, memory
    <2> QED BY <2>2 DEF NewBestBlock, IInv, ReleasePart, Benign, CallPart
  <1> QED BY <1>1, InductiveInvariant, PTL DEF Spec, BestTrustGrows

-----------------------------------------------------------------------------
(* The wallet.                                                               *)

(* No crash and no failed commit, and every block met connects.              *)
AllConnect == crashes = 0 /\ writeFaults = 0 /\ mapBlockIndex \subseteq Connectable

(* ConnectBlock and DisconnectBlock tell the wallet before the batch is      *)
(* committed: from then on it is ahead of the best chain.                    *)
WalletPart ==
    AllConnect =>
        /\ pc \in {"idle", "setbest"} => stakeSpent = Chain[pindexBest]
        /\ pc \in {"inner", "reorg", "secondary", "newbest"} => stakeSpent = Chain[target]

LEMMA WalletStep == IInv /\ WalletPart /\ [Next]_vars => WalletPart'
  <1> SUFFICES ASSUME IInv, WalletPart, [Next]_vars, AllConnect'
               PROVE  /\ pc' \in {"idle", "setbest"} => stakeSpent' = Chain[pindexBest']
                      /\ pc' \in {"inner", "reorg", "secondary", "newbest"} =>
                            stakeSpent' = Chain[target']
    BY DEF WalletPart
  <1> USE DEF memory, disk, faults
  <1>0. ~Crash /\ ~CommitFails /\ \A b \in Blocks : ~AddToBlockIndexFails(b)
    BY DEF Crash, CommitFails, AddToBlockIndexFails, AllConnect, IInv, TypeOK
  <1>1. ~Restart
    BY DEF Restart, LoadBlockIndex, AllConnect, IInv, ReleasePart
  <1>2. AllConnect
    BY <1>0, <1>1
       DEF AllConnect, Next, vars, AddToBlockIndex, SetBestChain, Extend, ExtendRejected,
           ExtendCommit, Reorganize, ReorganizeRejected, ReorganizeCommit, ConnectFurther,
           ConnectFurtherRejected, FurtherCommit, FurtherDone, ConnectInner, RejectInner,
           CommitInner, NewBestBlock
  <1>3. Pre
    BY <1>2 DEF AllConnect, IInv, Pre, Core, ReleasePart, Benign
  <1>4. /\ pc \in {"idle", "setbest"} => stakeSpent = Chain[pindexBest]
        /\ pc \in {"inner", "reorg", "secondary", "newbest"} => stakeSpent = Chain[target]
    BY <1>2 DEF WalletPart
  <1>5. Chain[target] \subseteq Connectable /\ target \in Connectable
    BY <1>2, <1>3, PreFacts DEF AllConnect, Pre, IndexPart
  <1>6. pc # "further"
    BY <1>2 DEF AllConnect, IInv, ReleasePart, Benign, CallPart
  <1>7. ASSUME NEW b \in Blocks, AddToBlockIndex(b)
        PROVE  stakeSpent' = Chain[pindexBest'] /\ pc' \in {"idle", "setbest"}
    BY <1>4, <1>7 DEF AddToBlockIndex
  <1>8. CASE Extend
    <2>1. target \in Blocks \ {Genesis} /\ Parent[target] = pindexBest
      BY <1>3, <1>8, PreFacts DEF Extend, Extends
    <2>2. Chain[target] = {target} \cup Chain[pindexBest]
      BY <2>1, ChainStep
    <2> QED BY <1>4, <1>8, <2>2 DEF Extend, ConnectInner
  <1>9. ~ExtendRejected
    <2> SUFFICES ASSUME ExtendRejected PROVE FALSE
      OBVIOUS
    <2>1. target \notin Connectable
      BY <1>3, PreFacts DEF Pre, Core, ConnectFails, Extends, CallPart, DiskPart, ExtendRejected,
                            RejectInner
    <2> QED BY <1>5, <2>1
  <1>10. ASSUME NEW k \in Blocks, Reorganize(k)
         PROVE  stakeSpent' = Chain[target'] /\ pc' = "reorg"
    <2>1. k = target
      BY <1>2, <1>3, <1>10, NothingPostponed DEF AllConnect
    <2>2. stakeSpent = Chain[pindexBest]
      BY <1>4, <1>10 DEF Reorganize
    <2> QED BY <1>10, <2>1, <2>2 DEF Reorganize, OnBranch, OffBranch
  <1>11. ASSUME NEW k \in Blocks PROVE ~ReorganizeRejected(k)
    <2> SUFFICES ASSUME ReorganizeRejected(k) PROVE FALSE
      OBVIOUS
    <2>1. ~(OnBranch(k) \subseteq Connectable) /\ k \in Chain[target]
      BY <1>3, PreFacts DEF Pre, Core, CallPart, DiskPart, ReorganizeRejected, Intermediate
    <2>2. Chain[k] \subseteq Chain[target]
      BY <1>3, <2>1, PreFacts, ChainTransitive
    <2> QED BY <1>5, <2>1, <2>2 DEF OnBranch
  <1>12. ASSUME NEW y \in Blocks PROVE ~ConnectFurther(y) /\ ~ConnectFurtherRejected(y)
    BY <1>2, <1>3, LoopFacts DEF AllConnect, ConnectFurther, ConnectFurtherRejected
  <1>13. ASSUME ExtendCommit \/ FurtherDone \/ \E lost \in SUBSET dbTx : ReorganizeCommit(lost)
         PROVE  stakeSpent' = Chain[target'] /\ pc' \in {"secondary", "newbest"}
    BY <1>4, <1>13 DEF ExtendCommit, CommitInner, FurtherDone, ReorganizeCommit
  <1>14. CASE NewBestBlock
    BY <1>4, <1>14 DEF NewBestBlock
  <1>15. CASE UNCHANGED vars
    BY <1>4, <1>15 DEF vars
  <1> QED BY <1>0, <1>1, <1>6, <1>7, <1>8, <1>9, <1>10, <1>11, <1>12, <1>13, <1>14, <1>15
          DEF Next, SetBestChain, FurtherCommit

(* What DisconnectBlock refunds and ConnectBlock takes adds up, for every    *)
(* sequence of reorganizations among blocks that connect.                    *)
THEOREM WalletStakesMatch == Spec => []WalletStakes
  <1>1. Init => WalletPart
    <2> SUFFICES ASSUME Init PROVE Chain[Genesis] = {Genesis}
      BY DEF Init, WalletPart
    <2>1. ParentClosed({Genesis})
      BY DEF ParentClosed
    <2> QED BY <2>1, ChainBasics, ChainLeast, TreeAssumption
  <1>2. IInv /\ WalletPart => WalletStakes
    BY DEF WalletPart, WalletStakes, AllConnect, Valid
  <1> QED BY <1>1, <1>2, WalletStep, InductiveInvariant, PTL DEF Spec

-----------------------------------------------------------------------------
(* The blocks that a later release rejects.                                  *)

(* Of a call that goes back on the best chain, and of one that has connected *)
(* its first blocks.                                                         *)
BadPart ==
    pc \notin {"idle", "down"} =>
        /\ target \in Chain[pindexBest] =>
              \A y \in Chain[target] : Height[y] >= Height[pindexBest] - CheckDepth => y \notin bad
        /\ target \notin Chain[pindexBest] /\ pc # "setbest" =>
              \A y \in (Chain[target] \ Chain[pindexBest]) \cap bad :
                  Trust[Parent[y]] > Trust[pindexBest]

LEMMA BadStep == IInv /\ BadPart /\ [Next]_vars => BadPart'
  <1> SUFFICES ASSUME IInv, BadPart, [Next]_vars PROVE BadPart'
    OBVIOUS
  <1>0. /\ target \in Blocks /\ pindexBest \in Blocks /\ dbBest \in Blocks
        /\ Chain[pindexBest] \subseteq mapBlockIndex
        /\ bad \subseteq Blocks \ {Genesis}
    BY IndexedChain, ValidityAssumption DEF IInv, TypeOK, IndexPart, ReleasePart
  <1> USE DEF memory, disk, faults
  <1>1. ASSUME NEW b \in Blocks, AddToBlockIndex(b) \/ AddToBlockIndexFails(b) PROVE BadPart'
    BY <1>0, <1>1 DEF AddToBlockIndex, AddToBlockIndexFails, BadPart
  <1>2. CASE Extend
    <2>1. /\ target \notin bad /\ Parent[target] = pindexBest /\ target # Genesis
          /\ UNCHANGED <<pindexBest, target, bad>>
      BY <1>2 DEF Extend, Extends, ConnectInner, ConnectSucceeds, Valid
    <2>2. Chain[target] = {target} \cup Chain[pindexBest]
      BY <1>0, <2>1, ChainStep
    <2>3. (Chain[target] \ Chain[pindexBest]) \cap bad = {}
      BY <2>1, <2>2
    <2>4. pc = "setbest"
      BY <1>2 DEF Extend
    <2> QED BY <2>1, <2>3, <2>4 DEF BadPart
  <1>3. ASSUME NEW k \in Blocks, Reorganize(k) PROVE BadPart'
    <2>1. /\ Chain[k] = Chain[target] \ Postponed(target) /\ OnBranch(k) \cap bad = {}
          /\ UNCHANGED <<pindexBest, target, bad>> /\ pc = "setbest"
      BY <1>3 DEF Reorganize, Intermediate, Valid
    <2>2. ASSUME NEW y \in (Chain[target] \ Chain[pindexBest]) \cap bad
          PROVE  Trust[Parent[y]] > Trust[pindexBest]
      <3>1. y \notin Chain[k]
        BY <2>1 DEF OnBranch
      <3> QED BY <2>1, <3>1 DEF Postponed
    <2> QED BY <2>1, <2>2 DEF BadPart
  <1>4. ASSUME NEW rejected \in {bad, bad \cup Upgrade}, LoadBlockIndex(rejected) PROVE BadPart'
    <2>1. CASE pc' = "idle"
      BY <2>1 DEF BadPart
    <2>2. CASE pc' # "idle"
      <3>1. /\ bad' = rejected /\ pindexBest' = dbBest /\ pc' = "setbest"
            /\ rejected \subseteq Blocks \ {Genesis}
        BY <1>0, <1>4, <2>2, ValidityAssumption DEF LoadBlockIndex
      <3>2. PICK x \in FoundBad(rejected) :
               target' = Parent[x] /\ \A z \in FoundBad(rejected) : Height[x] <= Height[z]
        BY <1>4, <2>2 DEF LoadBlockIndex
      <3>3. x \in Chain[dbBest] /\ x \in Blocks \ {Genesis}
        BY <3>1, <3>2 DEF FoundBad
      <3>4. /\ Parent[x] \in Blocks /\ Chain[Parent[x]] \subseteq Chain[dbBest]
            /\ Height[x] = Height[Parent[x]] + 1 /\ Height[Parent[x]] \in Nat
        BY <1>0, <3>3, ChainBasics, ChainTransitive, TreeAssumption DEF ParentClosed
      <3>5. ASSUME NEW y \in Chain[Parent[x]], Height[y] >= Height[dbBest] - CheckDepth,
                   y \in rejected
            PROVE  FALSE
        <4>1. y \in FoundBad(rejected)
          BY <3>4, <3>5 DEF FoundBad
        <4>2. Height[y] \in Nat /\ Height[y] <= Height[Parent[x]]
          BY <3>4, ChainBasics, ChainBelow, TreeAssumption
        <4> QED BY <3>2, <3>4, <4>1, <4>2
      <3> QED BY <3>1, <3>2, <3>5 DEF BadPart
    <2> QED BY <2>1, <2>2
  <1>5. CASE pc' \in {"idle", "down"}
    BY <1>5 DEF BadPart
  <1>6. CASE /\ UNCHANGED <<pindexBest, target, bad>>
             /\ pc' = pc \/ pc \notin {"idle", "down", "setbest"}
    BY <1>6 DEF BadPart
  <1> QED BY <1>1, <1>2, <1>3, <1>4, <1>5, <1>6
          DEF Next, vars, SetBestChain, ExtendRejected, ExtendCommit, ReorganizeRejected,
              ReorganizeCommit, ConnectFurther, ConnectFurtherRejected, FurtherCommit,
              FurtherDone, ConnectInner, RejectInner, CommitInner, NewBestBlock, CommitFails,
              Crash, Restart

(* In every behaviour, however often the node crashed and whatever failed to *)
(* commit or to connect, a block that the release rejects comes onto the     *)
(* best chain in one way only: among the postponed blocks of a heavier       *)
(* chain.  Start-up leaves none at the depth that it verifies.               *)
THEOREM BadBlocksAlwaysStayOff == Spec => BadBlocksStayOff
  <1> DEFINE A ==
        /\ Restart /\ pc' = "idle" =>
             \A y \in Chain[pindexBest'] : Height[y] >= Height[pindexBest'] - CheckDepth => y \notin bad'
        /\ NewBestBlock /\ target \in Chain[pindexBest] =>
             \A y \in Chain[target] : Height[y] >= Height[pindexBest] - CheckDepth => y \notin bad
        /\ NewBestBlock /\ target \notin Chain[pindexBest] =>
             \A y \in (Chain[target] \ Chain[pindexBest]) \cap bad :
                 Trust[Parent[y]] > Trust[pindexBest]
  <1>1. Init => BadPart
    BY DEF Init, BadPart
  <1>2. BadPart /\ [Next]_vars => [A]_vars
    <2> SUFFICES ASSUME BadPart PROVE A
      OBVIOUS
    <2>1. ASSUME Restart, pc' = "idle", NEW y \in Chain[pindexBest'],
                 Height[y] >= Height[pindexBest'] - CheckDepth
          PROVE  y \notin bad'
      <3>1. PICK rejected \in {bad, bad \cup Upgrade} : LoadBlockIndex(rejected)
        BY <2>1 DEF Restart
      <3>2. FoundBad(rejected) = {} /\ pindexBest' = dbBest /\ bad' = rejected
        BY <2>1, <3>1 DEF LoadBlockIndex
      <3> QED BY <2>1, <3>2 DEF FoundBad
    <2>2. NewBestBlock => pc = "newbest"
      BY DEF NewBestBlock
    <2> QED BY <2>1, <2>2 DEF BadPart
  <1> QED BY <1>1, <1>2, BadStep, InductiveInvariant, PTL DEF Spec, BadBlocksStayOff

=============================================================================
