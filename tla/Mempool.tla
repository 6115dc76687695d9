------------------------------ MODULE Mempool -------------------------------
(***************************************************************************)
(* The memory pool (CTxMemPool), the orphan transactions and the "tx"      *)
(* message of main.cpp, together with what SetBestChainInner and           *)
(* Reorganize do to the pool when the best chain changes.                  *)
(*                                                                         *)
(* Everything here runs under cs_main.  The loops over transactions are    *)
(* unrolled into steps, so that the pool is looked at after every single   *)
(* insertion and removal, as a thread that only takes mempool.cs sees it.  *)
(*                                                                         *)
(* All blocks of this module connect and can be read: a reorganization     *)
(* that fails leaves before it touches the pool (module ChainState).       *)
(* SetBestChain is called for a block with more trust than the best one or *)
(* by a sync-checkpoint (checkpoints.cpp), which compares no trust.        *)
(***************************************************************************)
EXTENDS BlockTree, FiniteSets, SequencesExt

CONSTANTS
    Txs,             \* every transaction that peers, blocks or the wallet may deliver
    Ins,             \* Ins[t]: the outpoints <<transaction, n>> that t spends
    Generated,       \* coinbase and coinstake transactions
    Free,            \* transactions whose fee is below MIN_RELAY_TX_FEE
    Large,           \* transactions over 5000 bytes
    Body,            \* Body[b]: the transactions of block b, in order
    NoTx,
    Maturity,        \* nCoinbaseMaturity
    LastCheckpoint,  \* Checkpoints::GetTotalBlocksEstimate
    MaxOrphans,      \* MAX_ORPHAN_TRANSACTIONS
    MaxForced        \* bound on the moves that only a sync-checkpoint makes

Outpoints == UNION {Ins[t] : t \in Txs}

(* The transactions of the chain that ends in b, and what they spend.        *)
ChainTxs == [b \in Blocks |-> UNION {ToSet(Body[c]) : c \in Chain[b]}]
SpentBy(S) == UNION {Ins[t] : t \in S}

(* No two transactions of S spend the same output.                           *)
Disjoint(S) == \A t, u \in S : t # u => Ins[t] \cap Ins[u] = {}

ASSUME TxAssumption ==
    /\ NoTx \notin Txs
    /\ Ins \in [Txs -> SUBSET (Txs \X Nat)]
    /\ Generated \subseteq Txs /\ Free \subseteq Txs /\ Large \subseteq Txs
    /\ Body \in [Blocks -> Seq(Txs)]
    /\ Maturity \in Nat /\ LastCheckpoint \in Int /\ MaxOrphans \in Nat
    /\ MaxForced \in Nat

(* Every chain is a valid ledger, as ConnectBlock makes sure.                *)
ASSUME LedgerAssumption ==
    \A b \in Blocks :
        /\ Disjoint(ChainTxs[b])
        /\ \A t \in ChainTxs[b] \ Generated : \A o \in Ins[t] : o[1] \in ChainTxs[b]

VARIABLES
    dbBest,       \* the chain in the transaction index
    pindexBest,   \* the best block in memory
    pindexNew,    \* the block that SetBestChain was last called for
    forced,       \* how often that block had no more trust than the best one
    mapTx,        \* transactions of the pool
    mapNextTx,    \* outpoint -> the pool transaction that spends it
    orphans,      \* mapOrphanTransactions
    orphansByPrev,\* mapOrphanTransactionsByPrev
    wallet,       \* transactions that the "tx" message has passed to SyncWithWallets
    relayed,      \* transactions that the "tx" message has announced to peers
    todo,         \* what is left to do to the pool after a change of the chain
    work,         \* "tx" message: pairs <<accepted tx, orphan>> still to try
    erase,        \* vEraseQueue
    current,      \* the transaction of the "tx" message being handled
    lost          \* transactions of disconnected blocks that did not return to the pool

chain == <<dbBest, pindexBest, pindexNew, forced>>
pool == <<mapTx, mapNextTx>>
orphanVars == <<orphans, orphansByPrev>>
vars == <<chain, pool, orphanVars, wallet, relayed, todo, work, erase,
          current, lost>>

Idle == todo = <<>> /\ pindexBest = dbBest /\ current = NoTx

Init ==
    /\ dbBest = Genesis /\ pindexBest = Genesis /\ pindexNew = Genesis /\ forced = 0
    /\ mapTx = {}
    /\ mapNextTx = [o \in Outpoints |-> NoTx]
    /\ orphans = {}
    /\ orphansByPrev = [t \in Txs |-> {}]
    /\ wallet = {} /\ relayed = {}
    /\ todo = <<>> /\ work = {} /\ erase = {} /\ current = NoTx
    /\ lost = {}

-----------------------------------------------------------------------------
(* AcceptToMemoryPool.                                                       *)

InChain == ChainTxs[dbBest]

(* FetchInputs, for a loose transaction: each previous transaction is in the *)
(* transaction index or in the pool.                                         *)
InputsFound(t) == \A o \in Ins[t] : o[1] \in InChain \cup mapTx

(* ConnectInputs walks back from pindexBest: a generated output must not be  *)
(* found in the last nCoinbaseMaturity blocks.                               *)
Mature(t) ==
    \A o \in Ins[t] : o[1] \in Generated =>
        \A b \in Chain[pindexBest] \cap Chain[dbBest] :
            o[1] \in ToSet(Body[b]) => Height[pindexBest] - Height[b] >= Maturity

(* The checks up to FetchInputs, and the ones after it.                      *)
NotKnown(t) ==
    /\ t \notin Generated /\ t \notin mapTx
    /\ \A o \in Ins[t] : mapNextTx[o] = NoTx
    /\ t \notin InChain
InputsConnect(t) == Mature(t) /\ Ins[t] \cap SpentBy(InChain) = {}

Acceptable(t) == NotKnown(t) /\ InputsFound(t) /\ InputsConnect(t)

(* The rate limiter may turn a free transaction away at any time.            *)
MayRefuse(t) == ~Acceptable(t) \/ t \in Free

MissingInputs(t) == NotKnown(t) /\ ~InputsFound(t)

addUnchecked(t) ==
    /\ mapTx' = mapTx \cup {t}
    /\ mapNextTx' = [o \in Outpoints |-> IF o \in Ins[t] THEN t ELSE mapNextTx[o]]

-----------------------------------------------------------------------------
(* CTxMemPool::remove and removeConflicts.                                   *)

(* Mutant: the spends of a removed transaction stay in mapNextTx.            *)
WithoutKeepingSpends(S) == mapTx' = mapTx \ S /\ UNCHANGED mapNextTx

(* Taking the transactions of S out erases the spends of their inputs.       *)
Without(S) ==
    /\ mapTx' = mapTx \ S
    /\ mapNextTx' = [o \in Outpoints |-> IF o \in SpentBy(S) THEN NoTx ELSE mapNextTx[o]]

(* remove(tx, true) follows mapNextTx from the outputs of tx, recursively.   *)
Spenders(S) == {mapNextTx[o] : o \in {p \in Outpoints : p[1] \in S}} \ {NoTx}
WithDependents(t) ==
    {u \in mapTx : \A S \in SUBSET mapTx :
                      t \in S /\ Spenders(S) \subseteq S => u \in S}

(* Mutant: the lookup in mapTx is inverted.                                  *)
removeInverted(t) == Without({t} \ mapTx)

remove(t) == Without({t} \cap mapTx)

Conflicting(t) == {mapNextTx[o] : o \in Ins[t]} \ {NoTx, t}

(* Mutant: what depends on a conflicting transaction stays.                  *)
removeConflictsFlat(t) == Without(Conflicting(t))

removeConflicts(t) == Without(UNION {WithDependents(u) : u \in Conflicting(t)})

-----------------------------------------------------------------------------
(* The "tx" message.                                                         *)

(* A transaction is accepted, shown to the wallet and relayed; the orphans   *)
(* that spend it come next.                                                  *)
ReceiveTx(t) ==
    /\ Idle
    /\ Acceptable(t)
    /\ addUnchecked(t)
    /\ wallet' = {t}
    /\ relayed' = {t}
    /\ current' = t
    /\ work' = {t} \X orphansByPrev[t]
    /\ erase' = {t}
    /\ UNCHANGED <<chain, orphanVars, todo, lost>>

(* AcceptToMemoryPool of one orphan in the loop.  The wallet is passed the   *)
(* transaction of the message, not the orphan.                               *)
AcceptOrphan(p, t) ==
    /\ <<p, t>> \in work
    /\ Acceptable(t)
    /\ addUnchecked(t)
    /\ wallet' = wallet \cup {current}
    /\ relayed' = relayed \cup {t}
    /\ work' = (work \ {<<p, t>>}) \cup ({t} \X orphansByPrev[t])
    /\ erase' = erase \cup {t}
    /\ UNCHANGED <<chain, orphanVars, todo, current, lost>>

(* Mutant: a refused orphan is always kept.                                  *)
RefuseOrphanKept(p, t) ==
    /\ <<p, t>> \in work
    /\ MayRefuse(t)
    /\ work' = work \ {<<p, t>>}
    /\ UNCHANGED <<chain, pool, orphanVars, wallet, relayed, todo, erase,
                   current, lost>>

RefuseOrphan(p, t) ==
    /\ <<p, t>> \in work
    /\ MayRefuse(t)
    /\ work' = work \ {<<p, t>>}
    /\ erase' = IF MissingInputs(t) THEN erase ELSE erase \cup {t}
    /\ UNCHANGED <<chain, pool, orphanVars, wallet, relayed, todo, current, lost>>

(* Mutant: the index by previous transaction keeps the erased orphans.       *)
EraseOrphanTxOnly(S) == orphans' = orphans \ S /\ UNCHANGED orphansByPrev

(* EraseOrphanTx, for each transaction of S.                                 *)
EraseOrphanTx(S) ==
    /\ orphans' = orphans \ S
    /\ orphansByPrev' = [p \in Txs |-> orphansByPrev[p] \ S]

EndOfTx ==
    /\ current # NoTx /\ work = {}
    /\ EraseOrphanTx(erase)
    /\ erase' = {} /\ current' = NoTx /\ relayed' = {} /\ wallet' = {}
    /\ UNCHANGED <<chain, pool, todo, work, lost>>

(* A transaction whose inputs are missing becomes an orphan, unless it is    *)
(* too large; LimitOrphanTxSize then evicts random orphans.                  *)
AddOrphanTx(t, evicted) ==
    LET stored == IF t \in Large THEN orphans ELSE orphans \cup {t} IN
    /\ Idle
    /\ MissingInputs(t)
    /\ evicted \subseteq stored
    /\ Cardinality(evicted) = IF Cardinality(stored) > MaxOrphans
                              THEN Cardinality(stored) - MaxOrphans ELSE 0
    /\ orphans' = stored \ evicted
    /\ orphansByPrev' =
          [p \in Txs |-> (IF p \in {o[1] : o \in Ins[t]} /\ t \in stored
                          THEN orphansByPrev[p] \cup {t} ELSE orphansByPrev[p]) \ evicted]
    /\ UNCHANGED <<chain, pool, wallet, relayed, todo, work, erase, current, lost>>

-----------------------------------------------------------------------------
(* Changes of the best chain.                                                *)

(* The transactions of the chain of b above a height, lowest block first.    *)
BlockAt(b, h) == CHOOSE c \in Chain[b] : Height[c] = h
BodyAbove(b, low) == FlattenSeq([k \in 1..(Height[b] - low) |-> Body[BlockAt(b, low + k)]])

(* The height at which the chains of a and b part.                           *)
ForkHeight(a, b) == Max({Height[c] : c \in Chain[a] \cap Chain[b]})

(* SetBestChainInner, after its commit: the transactions of the block leave  *)
(* the pool.                                                                 *)
ConnectInner(b) ==
    /\ dbBest' = b
    /\ todo' = [i \in 1..Len(Body[b]) |-> <<"remove", Body[b][i]>>]
    /\ lost' = lost \ ToSet(Body[b])
    /\ UNCHANGED <<pindexBest, forced, pool, orphanVars, wallet, relayed, work, erase, current>>

ConnectTip(b) ==
    /\ Idle
    /\ b # Genesis /\ Parent[b] = pindexBest
    /\ ConnectInner(b)
    /\ pindexNew' = b

(* Reorganize, after its commit.  First the transactions of the disconnected *)
(* blocks that are above the last checkpoint go back to the pool, oldest     *)
(* first; then the ones of the connected blocks leave it, with whatever      *)
(* conflicts with them.                                                      *)
Resurrect(b) ==
    LET s == BodyAbove(pindexBest, Max({ForkHeight(pindexBest, b), LastCheckpoint}))
    IN FlattenSeq([i \in 1..Len(s) |-> IF s[i] \in Generated THEN <<>> ELSE <<<<"accept", s[i]>>>>])

Redundant(b) ==
    LET s == BodyAbove(b, ForkHeight(pindexBest, b))
    IN FlattenSeq([i \in 1..Len(s) |-> <<<<"remove", s[i]>>, <<"conflicts", s[i]>>>>])

(* vpindexSecondary, and the block below it to which Reorganize goes.        *)
Postponed(b) == {y \in Chain[b] \ {Genesis} : Trust[Parent[y]] > Trust[pindexBest]}
Intermediate(b, i) == i \in Chain[b] /\ Chain[i] = Chain[b] \ Postponed(b)

(* The call is for b, and the reorganization goes to i.  Blocks are left to  *)
(* be postponed when a crash or a sync-checkpoint kept the best chain below  *)
(* them.                                                                     *)
Reorganize(b, i) ==
    /\ Idle
    /\ b \notin Chain[pindexBest] /\ Parent[b] # pindexBest
    /\ Intermediate(b, i)
    /\ pindexNew' = b
    /\ IF Trust[b] > Trust[pindexBest] THEN UNCHANGED forced
       ELSE forced < MaxForced /\ forced' = forced + 1
    /\ dbBest' = i
    /\ todo' = Resurrect(i) \o Redundant(i)
    /\ lost' = (lost \cup (ChainTxs[pindexBest] \ ChainTxs[i])) \ ChainTxs[i]
    /\ UNCHANGED <<pindexBest, pool, orphanVars, wallet, relayed, work, erase, current>>

(* The next of the postponed blocks.                                         *)
ConnectFurther(y) ==
    /\ todo = <<>> /\ pindexBest # dbBest
    /\ y \in Chain[pindexNew] \ {Genesis} /\ Parent[y] = dbBest
    /\ ConnectInner(y)
    /\ UNCHANGED pindexNew

(* The next entry of the list.                                               *)
Do(op, t) ==
    /\ todo # <<>> /\ Head(todo) = <<op, t>>
    /\ todo' = Tail(todo)
    /\ UNCHANGED <<chain, orphanVars, wallet, relayed, work, erase, current>>

ResurrectTx(t) == Do("accept", t) /\ Acceptable(t) /\ addUnchecked(t) /\ lost' = lost \ {t}
ResurrectFails(t) == Do("accept", t) /\ MayRefuse(t) /\ UNCHANGED <<pool, lost>>
RemoveTx(t) == Do("remove", t) /\ remove(t) /\ UNCHANGED lost
RemoveConflicts(t) == Do("conflicts", t) /\ removeConflicts(t) /\ UNCHANGED lost

(* SetBestChain ends: pindexBest follows.                                    *)
NewBestBlock ==
    /\ todo = <<>> /\ pindexBest # dbBest /\ dbBest = pindexNew
    /\ pindexBest' = dbBest
    /\ UNCHANGED <<dbBest, pindexNew, forced, pool, orphanVars, wallet, relayed, todo, work, erase, current, lost>>

-----------------------------------------------------------------------------
Next ==
    \/ \E t \in Txs : \/ ReceiveTx(t)
                      \/ \E evicted \in SUBSET (orphans \cup {t}) : AddOrphanTx(t, evicted)
                      \/ ResurrectTx(t) \/ ResurrectFails(t)
                      \/ RemoveTx(t) \/ RemoveConflicts(t)
    \/ \E p, t \in Txs : AcceptOrphan(p, t) \/ RefuseOrphan(p, t)
    \/ EndOfTx
    \/ \E b \in Blocks : ConnectTip(b) \/ ConnectFurther(b)
    \/ \E b, i \in Blocks : Reorganize(b, i)
    \/ NewBestBlock

Spec == Init /\ [][Next]_vars

-----------------------------------------------------------------------------
(* Properties.                                                               *)

OpNames == {"accept", "remove", "conflicts"}

(* Types of the pool, the orphan maps and the work lists.                    *)
TypeOK ==
    /\ dbBest \in Blocks /\ pindexBest \in Blocks
    /\ pindexNew \in Blocks /\ forced \in 0..MaxForced
    /\ mapTx \subseteq Txs
    /\ mapNextTx \in [Outpoints -> Txs \cup {NoTx}]
    /\ orphans \subseteq Txs /\ orphansByPrev \in [Txs -> SUBSET Txs]
    /\ wallet \subseteq Txs /\ relayed \subseteq Txs
    /\ todo \in Seq(OpNames \X Txs)
    /\ work \subseteq Txs \X Txs /\ erase \subseteq Txs
    /\ current \in Txs \cup {NoTx} /\ lost \subseteq Txs

(* At every moment mapNextTx is the exact index of what the pool spends, and *)
(* so no two transactions of the pool spend the same output; a resurrection  *)
(* or a recursive removal never leaves a stale or a missing entry.           *)
PoolIndexExact ==
    \A o \in Outpoints, t \in Txs : mapNextTx[o] = t <=> t \in mapTx /\ o \in Ins[t]

(* When the chain has settled, no transaction is both confirmed and in the   *)
(* pool.                                                                     *)
PoolNotConfirmed == Idle => mapTx \cap InChain = {}

(* CreateNewBlock (miner.cpp) says of a missing input: "This should never    *)
(* happen; all transactions in the memory pool should connect to either      *)
(* transactions in the chain or other transactions in the memory pool."  The *)
(* exact exception: a pool transaction can only miss an input that a         *)
(* disconnected block created and that did not come back to the pool.        *)
MissingInputIsLost ==
    Idle => \A t \in mapTx, o \in Outpoints :
                o \in Ins[t] => o[1] \in InChain \cup mapTx \cup lost

(* mapOrphanTransactionsByPrev is the exact index of the orphans by the      *)
(* transactions they spend, and their number is limited.                     *)
OrphanIndexExact ==
    Idle => /\ \A p \in Txs : orphansByPrev[p] = {t \in orphans : \E o \in Ins[t] : o[1] = p}
            /\ Cardinality(orphans) <= MaxOrphans

(* When a "tx" message has been handled, no orphan that spends one of the    *)
(* transactions it brought into the pool is left for which every input is    *)
(* known, unless that one was refused for another reason and dropped.        *)
OrphansFollow ==
    [][EndOfTx => \A t \in orphans' : (\E o \in Ins[t] : o[1] \in relayed) =>
                                          t \notin mapTx /\ ~InputsFound(t)]_vars

(* SyncWithWallets: "make sure all wallets know about the given              *)
(* transaction".  Every transaction accepted from a message reaches the      *)
(* wallet.                                                                   *)
WalletKnowsRelayed == relayed \subseteq wallet

=============================================================================
