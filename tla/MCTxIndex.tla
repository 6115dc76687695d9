----------------------------- MODULE MCTxIndex ------------------------------
(***************************************************************************)
(* An instance of TxIndex for TLC.  A coinbase may be spent two blocks     *)
(* after its own.                                                          *)
(*                                                                         *)
(*  g --- a1 --- a2 --- a3 --- a4                                          *)
(*         |             \---- d4                                          *)
(*          \--- b2 --- b3 --- b4 --- b5 --- b6                            *)
(*                |---- e3                                                 *)
(*                 \--- f3 --- f4                                          *)
(*                                                                         *)
(*  a3: p spends the coinbase of a1, and q both outputs of p               *)
(*  a4: r spends q                   d4: q once more                       *)
(*  b2: the coinbase of a2           b3: p                                 *)
(*  b4: coinstake x spends an output of p                                  *)
(*  b5: v spends x early             e3: y spends the coinbase of b2 early *)
(*  f3: p and z spend the same coin  b6: only a coinbase                   *)
(*                                                                         *)
(* From a1 or a2 a call for b4, b5, b6 or f4 postpones blocks, of which b5 *)
(* and f3 do not connect; b6 then extends a best block that is not         *)
(* connected.                                                              *)
(***************************************************************************)
EXTENDS TxIndex, TLC

MCParent == ("g" :> "g") @@ ("a1" :> "g") @@ ("a2" :> "a1") @@ ("a3" :> "a2") @@ ("a4" :> "a3")
            @@ ("d4" :> "a3") @@ ("b2" :> "a1") @@ ("b3" :> "b2") @@ ("b4" :> "b3") @@ ("b5" :> "b4")
            @@ ("e3" :> "b2") @@ ("f3" :> "b2") @@ ("f4" :> "f3")
            @@ ("b6" :> "b5")
MCBlocks == DOMAIN MCParent
MCHeight == [b \in MCBlocks |->
    CASE b = "g" -> 0
      [] b = "a1" -> 1
      [] b \in {"a2", "b2"} -> 2
      [] b \in {"a3", "b3", "e3", "f3"} -> 3
      [] b = "b5" -> 5
      [] b = "b6" -> 6
      [] OTHER -> 4]

MCvtx == ("g" :> <<"c0">>) @@ ("a1" :> <<"c1">>) @@ ("a2" :> <<"c2">>)
         @@ ("a3" :> <<"c3", "p", "q">>) @@ ("a4" :> <<"c4", "r">>) @@ ("d4" :> <<"c4", "q">>)
         @@ ("b2" :> <<"c2">>) @@ ("b3" :> <<"k3", "p">>) @@ ("b4" :> <<"k4", "x">>)
         @@ ("b5" :> <<"k5", "v">>)
         @@ ("e3" :> <<"k3", "y">>) @@ ("f3" :> <<"k3", "p", "z">>) @@ ("f4" :> <<"k4">>)
         @@ ("b6" :> <<"k6">>)

MCCoinBase == {"c0", "c1", "c2", "c3", "c4", "k3", "k4", "k5", "k6"}
MCGenerated == MCCoinBase \cup {"x"}
MCTxs == MCCoinBase \cup {"p", "q", "r", "v", "x", "y", "z"}
MCIns == [t \in MCTxs |->
    CASE t \in {"p", "z"} -> {<<"c1", 1>>}
      [] t = "q" -> {<<"p", 1>>, <<"p", 2>>}
      [] t = "r" -> {<<"q", 1>>}
      [] t = "v" -> {<<"x", 1>>}
      [] t = "x" -> {<<"p", 2>>}
      [] t = "y" -> {<<"c2", 1>>}
      [] OTHER -> {}]
MCnOuts == [t \in MCTxs |-> IF t = "p" THEN 2 ELSE 1]
=============================================================================
