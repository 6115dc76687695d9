--------------------------- MODULE MCProcessBlock ---------------------------
(***************************************************************************)
(* Instances of ProcessBlock for TLC: three branches,                      *)
(*     g --- a1 --- a2 --- a3              trust  a1 1, a2 5, a3 6         *)
(*      |--- b1 --- b2 --- b3 --- b4              b1 2, b2 3, b3 4, b4 7   *)
(*      |                   \---- e4              e4 8                     *)
(*      \--- d1 --- d2                            d1 1, d2 2               *)
(* where a2, b2 and d2 stake the same coin, and a3 a coin that a1 created. *)
(***************************************************************************)
EXTENDS ProcessBlock

MCBlocks == {"g", "a1", "a2", "a3", "b1", "b2", "b3", "b4", "e4", "d1", "d2"}
MCParent == [b \in MCBlocks |->
    CASE b \in {"g", "a1", "b1", "d1"} -> "g"
      [] b = "a2" -> "a1"
      [] b = "a3" -> "a2"
      [] b = "b2" -> "b1"
      [] b = "b3" -> "b2"
      [] b \in {"b4", "e4"} -> "b3"
      [] b = "d2" -> "d1"]
MCHeight == [b \in MCBlocks |->
    CASE b = "g" -> 0
      [] b \in {"a1", "b1", "d1"} -> 1
      [] b \in {"a2", "b2", "d2"} -> 2
      [] b \in {"a3", "b3"} -> 3
      [] b \in {"b4", "e4"} -> 4]
MCTrust == [b \in MCBlocks |->
    CASE b = "g" -> 0
      [] b \in {"a1", "d1"} -> 1
      [] b \in {"d2", "b1"} -> 2
      [] b = "b2" -> 3
      [] b = "b3" -> 4
      [] b = "a2" -> 5
      [] b = "a3" -> 6
      [] b = "b4" -> 7
      [] b = "e4" -> 8]
MCStake == [b \in MCBlocks |->
    CASE b \in {"a2", "b2", "d2"} -> "s"
      [] b = "a3" -> "t"
      [] OTHER -> "none"]
MCKernel == [b \in MCBlocks |-> IF b = "a3" THEN "a1" ELSE "g"]
=============================================================================
