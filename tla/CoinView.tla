------------------------------ MODULE CoinView ------------------------------
(***************************************************************************)
(* What the transaction index promises to its readers: it holds exactly    *)
(* the unspent outputs of the best chain, and the best chain only ever     *)
(* moves, at once, to a chain that is a ledger.  The promise ends with the *)
(* first move that is built on another block than the best one.            *)
(***************************************************************************)
EXTENDS Ledger

VARIABLES
    best,      \* the block that the best chain ends in
    coins,     \* the unspent outputs
    base,      \* the block that the next move will be built on
    intact     \* the promise holds

Init == best = Genesis /\ coins = {} /\ base = Genesis /\ intact = TRUE

Move(b) ==
    /\ intact /\ base = best
    /\ b # best /\ IsLedger(b)
    /\ best' = b /\ coins' = Unspent(b) /\ base' = b
    /\ UNCHANGED intact

(* Blocks above the best one are taken for connected and are not.            *)
RunAhead(b) ==
    /\ base = best /\ best \in Chain[b] /\ b # best
    /\ base' = b
    /\ UNCHANGED <<best, coins, intact>>

(* They are forgotten.                                                       *)
Return ==
    /\ base # best /\ base' = best
    /\ UNCHANGED <<best, coins, intact>>

(* A move built on another block: from here on anything may happen.          *)
Stray == (base # best \/ ~intact) /\ intact' = FALSE

Next == Return \/ Stray \/ \E b \in Blocks : Move(b) \/ RunAhead(b)

Spec == Init /\ [][Next]_<<best, coins, base, intact>>

=============================================================================
