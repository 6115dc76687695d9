----------------------------- MODULE BlockTree ------------------------------
(***************************************************************************)
(* The tree of blocks that the other modules share: what hashPrevBlock,    *)
(* nHeight and nChainTrust say of the blocks that peers may deliver.  The  *)
(* contents of a block never change, so all of this is constant.           *)
(***************************************************************************)
EXTENDS Integers

CONSTANTS
    Blocks,        \* every block that peers may deliver
    Genesis,
    Parent,        \* hashPrevBlock
    Height,        \* nHeight
    Trust          \* nChainTrust

(* A block extends its parent by one and always adds trust (GetBlockTrust is *)
(* positive for every block that CheckBlock lets in).                        *)
ASSUME TreeAssumption ==
    /\ Genesis \in Blocks
    /\ Parent \in [Blocks -> Blocks]
    /\ Height \in [Blocks -> Nat]
    /\ Trust \in [Blocks -> Nat]
    /\ \A b \in Blocks \ {Genesis} :
          /\ Height[b] = Height[Parent[b]] + 1
          /\ Trust[b] > Trust[Parent[b]]

(* A set of blocks that contains the parent of each of its blocks.           *)
ParentClosed(S) == \A x \in S \ {Genesis} : Parent[x] \in S

(* The chain that ends in b, found by following pprev: the least             *)
(* parent-closed set that contains b.                                        *)
Chain ==
    [b \in Blocks |->
        {c \in Blocks : \A S \in SUBSET Blocks :
                           b \in S /\ ParentClosed(S) => c \in S}]

(* The blocks whose parent is x, among S (at most one when S is a chain).    *)
ChildrenIn(S, x) == {c \in S \ {Genesis} : Parent[c] = x}

=============================================================================
