---------------------------- MODULE MCChainState ----------------------------
(***************************************************************************)
(* Instances of ChainState for TLC: a tree of three branches.              *)
(*                                                                         *)
(*     g --- a1 --- a2            trust  g 0, a1 1, a2 2                   *)
(*      \       \--- c2 --- c3           c2 3, c3 6                        *)
(*       \--- b1 --- b2 --- b3           b1 1, b2 4, b3 5                  *)
(*                                                                         *)
(* so that the best chain can be extended, switched at two fork points, and*)
(* overtaken by a branch whose last blocks are postponed.                  *)
(***************************************************************************)
EXTENDS ChainState, TLC

MCBlocks == {"g", "a1", "a2", "b1", "b2", "b3", "c2", "c3"}
MCParent == [b \in MCBlocks |->
    CASE b \in {"g", "a1", "b1"} -> "g"
      [] b \in {"a2", "c2"} -> "a1"
      [] b = "b2" -> "b1"
      [] b = "b3" -> "b2"
      [] b = "c3" -> "c2"]
MCHeight == [b \in MCBlocks |->
    CASE b = "g" -> 0
      [] b \in {"a1", "b1"} -> 1
      [] b \in {"a2", "b2", "c2"} -> 2
      [] b \in {"b3", "c3"} -> 3]
MCTrust == [b \in MCBlocks |->
    CASE b = "g" -> 0
      [] b \in {"a1", "b1"} -> 1
      [] b = "a2" -> 2
      [] b = "c2" -> 3
      [] b = "b2" -> 4
      [] b = "b3" -> 5
      [] b = "c3" -> 6]
=============================================================================
