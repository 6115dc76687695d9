-------------------------- MODULE BlockTreeProofs ---------------------------
(***************************************************************************)
(* Lemmas about chains of blocks, for every block tree.                    *)
(***************************************************************************)
EXTENDS BlockTree, WellFoundedInduction, TLAPS

(* A block is on its own chain, which is a parent-closed set of blocks.      *)
LEMMA ChainBasics ==
    ASSUME NEW b \in Blocks
    PROVE  /\ Chain[b] \subseteq Blocks
           /\ b \in Chain[b]
           /\ ParentClosed(Chain[b])
  BY TreeAssumption DEF Chain, ParentClosed

(* The chain of b is contained in every parent-closed set that contains b.   *)
LEMMA ChainLeast ==
    ASSUME NEW b \in Blocks, NEW S \in SUBSET Blocks, b \in S, ParentClosed(S)
    PROVE  Chain[b] \subseteq S
  BY DEF Chain

(* The chain of an ancestor is part of the chain.                            *)
LEMMA ChainTransitive ==
    ASSUME NEW b \in Blocks, NEW c \in Chain[b]
    PROVE  c \in Blocks /\ Chain[c] \subseteq Chain[b]
  BY ChainBasics, ChainLeast

(* The chain of a block is the block on top of its parent's chain.           *)
LEMMA ChainStep ==
    ASSUME NEW b \in Blocks \ {Genesis}
    PROVE  /\ Parent[b] \in Blocks
           /\ Chain[b] = {b} \cup Chain[Parent[b]]
  <1>1. Parent[b] \in Blocks /\ Parent[b] \in Chain[b]
    BY ChainBasics, TreeAssumption DEF ParentClosed
  <1>2. Chain[Parent[b]] \subseteq Chain[b]
    BY <1>1, ChainTransitive
  <1>3. ParentClosed({b} \cup Chain[Parent[b]])
    BY <1>1, ChainBasics DEF ParentClosed
  <1>4. Chain[b] \subseteq {b} \cup Chain[Parent[b]]
    BY <1>1, <1>3, ChainBasics, ChainLeast
  <1> QED BY <1>1, <1>2, <1>4, ChainBasics

(* Everything below a block is lower and has less trust.                     *)
LEMMA ChainBelow ==
    ASSUME NEW b \in Blocks, NEW c \in Chain[b], c # b
    PROVE  Height[c] < Height[b] /\ Trust[c] < Trust[b]
  <1> DEFINE S == {x \in Blocks : x = b \/ (Height[x] < Height[b] /\ Trust[x] < Trust[b])}
  <1>1. ParentClosed(S)
    <2> SUFFICES ASSUME NEW x \in S \ {Genesis} PROVE Parent[x] \in S
      BY DEF ParentClosed
    <2>1. x \in Blocks \ {Genesis} /\ Parent[x] \in Blocks
      BY TreeAssumption
    <2>2. /\ Height[x] \in Nat /\ Height[b] \in Nat /\ Height[Parent[x]] \in Nat
          /\ Trust[x] \in Nat /\ Trust[b] \in Nat /\ Trust[Parent[x]] \in Nat
      BY <2>1, TreeAssumption
    <2>3. Height[x] = Height[Parent[x]] + 1 /\ Trust[x] > Trust[Parent[x]]
      BY <2>1, TreeAssumption
    <2> QED BY <2>1, <2>2, <2>3
  <1>2. Chain[b] \subseteq S
    BY <1>1, ChainLeast
  <1> QED BY <1>2

(* Of two blocks of a chain one is on the chain of the other.                *)
LEMMA ChainLinear ==
    ASSUME NEW b \in Blocks, NEW c \in Chain[b], NEW d \in Chain[b]
    PROVE  c \in Chain[d] \/ d \in Chain[c]
  <1> DEFINE S == {x \in Chain[b] : x \in Chain[d] \/ d \in Chain[x]}
  <1>1. b \in S
    BY ChainBasics
  <1>2. ParentClosed(S)
    <2> SUFFICES ASSUME NEW x \in S \ {Genesis} PROVE Parent[x] \in S
      BY DEF ParentClosed
    <2>1. x \in Blocks \ {Genesis} /\ d \in Blocks /\ Parent[x] \in Chain[b]
      BY ChainBasics DEF ParentClosed
    <2>2. Chain[x] = {x} \cup Chain[Parent[x]] /\ Parent[x] \in Blocks
      BY <2>1, ChainStep
    <2>3. ParentClosed(Chain[d])
      BY <2>1, ChainBasics
    <2>4. x \in Chain[d] => Parent[x] \in Chain[d]
      BY <2>3 DEF ParentClosed
    <2>5. d = x => x \in Chain[d]
      BY <2>1, ChainBasics
    <2> QED BY <2>1, <2>2, <2>4, <2>5
  <1>3. S \in SUBSET Blocks
    BY ChainBasics
  <1>4. Chain[b] \subseteq S
    BY <1>1, <1>2, <1>3, ChainLeast
  <1> QED BY <1>4

(* A block has at most one child on a chain.                                 *)
LEMMA OneChild ==
    ASSUME NEW b \in Blocks,
           NEW c \in Chain[b] \ {Genesis}, NEW d \in Chain[b] \ {Genesis},
           Parent[c] = Parent[d]
    PROVE  c = d
  <1>1. c \in Blocks \ {Genesis} /\ d \in Blocks \ {Genesis}
    BY ChainBasics
  <1>2. /\ Height[c] \in Nat /\ Height[d] \in Nat
        /\ Height[c] = Height[Parent[c]] + 1 /\ Height[d] = Height[Parent[d]] + 1
    BY <1>1, TreeAssumption
  <1>3. CASE c \in Chain[d]
    BY <1>1, <1>2, <1>3, ChainBelow
  <1>4. CASE d \in Chain[c]
    BY <1>1, <1>2, <1>4, ChainBelow
  <1> QED BY <1>3, <1>4, ChainLinear

(* Every block of a chain but the last one has a child on it.                *)
LEMMA ChildOnChain ==
    ASSUME NEW b \in Blocks, NEW c \in Chain[b], c # b
    PROVE  \E d \in Chain[b] \ {Genesis} : Parent[d] = c
  <1> DEFINE S == {x \in Chain[b] : x = b \/ \E d \in Chain[b] \ {Genesis} : Parent[d] = x}
  <1>1. b \in S /\ S \in SUBSET Blocks
    BY ChainBasics
  <1>2. ParentClosed(S)
    <2> SUFFICES ASSUME NEW x \in S \ {Genesis} PROVE Parent[x] \in S
      BY DEF ParentClosed
    <2>1. x \in Chain[b] \ {Genesis} /\ Parent[x] \in Chain[b]
      BY ChainBasics DEF ParentClosed
    <2> QED BY <2>1
  <1>3. Chain[b] \subseteq S
    BY <1>1, <1>2, ChainLeast
  <1> QED BY <1>3

(* A set of natural numbers that is not empty has a least element: induction *)
(* over heights and positions, by looking at the least counterexample.       *)
LEMMA LeastNat ==
    ASSUME NEW T \in SUBSET Nat, T # {}
    PROVE  \E k \in T : \A j \in T : k <= j
  <1>1. PICK k \in T : \A j \in T : ~(<<j, k>> \in OpToRel(<, Nat))
    BY WFMin, NatLessThanWellFounded, Zenon
  <1>2. ASSUME NEW j \in T, ~(k <= j) PROVE FALSE
    <2>1. j < k /\ j \in Nat /\ k \in Nat
      BY <1>2
    <2>2. <<j, k>> \in OpToRel(<, Nat)
      BY <2>1, Zenon DEF OpToRel
    <2> QED BY <1>1, <2>2, Zenon
  <1> QED BY <1>2

(* Every chain starts at the genesis block: a lowest block of a chain has no *)
(* parent on it.                                                             *)
LEMMA GenesisOnChain ==
    ASSUME NEW b \in Blocks
    PROVE  Genesis \in Chain[b]
  <1> SUFFICES ASSUME Genesis \notin Chain[b] PROVE FALSE
    OBVIOUS
  <1> DEFINE heights == {Height[c] : c \in Chain[b]}
  <1>1. heights \subseteq Nat /\ heights # {}
    BY ChainBasics, TreeAssumption
  <1>2. PICK h \in heights : \A k \in heights : h <= k
    BY <1>1, LeastNat
  <1>3. PICK c \in Chain[b] : Height[c] = h
    OBVIOUS
  <1>4. c \in Blocks \ {Genesis} /\ Parent[c] \in Chain[b] /\ Parent[c] \in Blocks
    BY ChainBasics DEF ParentClosed
  <1>5. /\ Height[c] \in Nat /\ Height[Parent[c]] \in Nat /\ Height[Parent[c]] \in heights
        /\ Height[c] = Height[Parent[c]] + 1
    BY <1>4, TreeAssumption
  <1> QED BY <1>2, <1>3, <1>5

=============================================================================
