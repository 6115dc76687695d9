----------------------------- MODULE MCMempool ------------------------------
(***************************************************************************)
(* Instances of Mempool for TLC.  Two branches on the genesis block,       *)
(*     g --- x1 --- x2          trust 2, 3                                 *)
(*      \--- y1 --- y2                2, 4                                 *)
(* and the loose transactions                                              *)
(*     a, a2   spend the same output of genesis (a in x2, a2 in y2)        *)
(*     e       spends another output of genesis (in x1)                    *)
(*     f       spends a and e                                              *)
(*     h       spends f                                                    *)
(*     s       spends the coinbase of x1                                   *)
(***************************************************************************)
EXTENDS BlockAssembler

MCBlocks == {"g", "x1", "x2", "y1", "y2"}
MCParent == ("g" :> "g") @@ ("x1" :> "g") @@ ("x2" :> "x1") @@ ("y1" :> "g") @@ ("y2" :> "y1")
MCHeight == ("g" :> 0) @@ ("x1" :> 1) @@ ("x2" :> 2) @@ ("y1" :> 1) @@ ("y2" :> 2)
MCTrust == ("g" :> 0) @@ ("x1" :> 2) @@ ("x2" :> 3) @@ ("y1" :> 2) @@ ("y2" :> 4)
MCBody == ("g" :> <<"c0">>) @@ ("x1" :> <<"gx", "e">>) @@ ("x2" :> <<"gx2", "a">>)
          @@ ("y1" :> <<"gy">>) @@ ("y2" :> <<"gy2", "a2">>)

MCGenerated == {"c0", "gx", "gx2", "gy", "gy2"}
MCTxs == MCGenerated \cup {"a", "a2", "e", "f", "h", "s"}
MCIns == [t \in MCTxs |->
    CASE t \in {"a", "a2"} -> {<<"c0", 0>>}
      [] t = "e" -> {<<"c0", 1>>}
      [] t = "f" -> {<<"a", 0>>, <<"e", 0>>}
      [] t = "h" -> {<<"f", 0>>}
      [] t = "s" -> {<<"gx", 0>>}
      [] OTHER -> {}]
=============================================================================
