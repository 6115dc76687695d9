------------------------------- MODULE Ledger -------------------------------
(***************************************************************************)
(* The contents of the blocks of BlockTree, and which chains of blocks are *)
(* ledgers: every input is an earlier output, ripe, and spent only once.   *)
(* Amounts, scripts and times are left out.                                *)
(***************************************************************************)
EXTENDS BlockTree, Sequences, FiniteSets

CONSTANTS
    Txs,          \* transactions
    vtx,          \* block -> sequence of its transactions
    Ins,          \* transaction -> set of outpoints <<transaction, n>>
    nOuts,        \* transaction -> number of its outputs
    Generated,    \* coinbases and coinstakes
    Maturity      \* nCoinbaseMaturity

CoinBase == {t \in Txs : Ins[t] = {}}
TxsOf(b) == {vtx[b][i] : i \in DOMAIN vtx[b]}

(* What CheckBlock and AcceptBlock let in: a coinbase first and only there,  *)
(* that names the height of its block, and no transaction twice.             *)
ASSUME ContentsAssumption ==
    /\ vtx \in [Blocks -> Seq(Txs)]
    /\ nOuts \in [Txs -> Nat] /\ Maturity \in Nat
    /\ Ins \in [Txs -> SUBSET (Txs \X (Nat \ {0}))]
    /\ Generated \subseteq Txs
    /\ CoinBase \subseteq Generated
    /\ \A b \in Blocks : \A i, j \in DOMAIN vtx[b] :
          /\ vtx[b][i] \in CoinBase <=> i = 1
          /\ vtx[b][i] = vtx[b][j] => i = j
    /\ \A b, c \in Blocks : TxsOf(b) \cap TxsOf(c) \cap CoinBase # {} => Height[b] = Height[c]

(* The blocks of a chain whose transactions count: the genesis block is      *)
(* never connected.                                                          *)
Ledgered(b) == Chain[b] \ {Genesis}

(* The places of transactions on the chain that ends in b, and their order.  *)
Places(b) == UNION {{c} \X DOMAIN vtx[c] : c \in Ledgered(b)}
TxAt(p) == vtx[p[1]][p[2]]
Before(p, q) ==
    \/ Height[p[1]] < Height[q[1]]
    \/ p[1] = q[1] /\ p[2] < q[2]

(* o is an output that the transaction at place p may spend.                 *)
Spendable(b, p, o) ==
    \E q \in Places(b) :
        /\ TxAt(q) = o[1] /\ Before(q, p) /\ o[2] <= nOuts[o[1]]
        /\ o[1] \in Generated => Height[p[1]] - Height[q[1]] >= Maturity

IsLedger(b) ==
    \A p \in Places(b) : \A o \in Ins[TxAt(p)] :
        /\ Spendable(b, p, o)
        /\ \A q \in Places(b) \ {p} : o \notin Ins[TxAt(q)]

(* The coins of a chain: its outputs that it does not spend.                 *)
Spent(b) == UNION {Ins[TxAt(p)] : p \in Places(b)}
Unspent(b) == (UNION {{TxAt(p)} \X (1..nOuts[TxAt(p)]) : p \in Places(b)}) \ Spent(b)

=============================================================================
