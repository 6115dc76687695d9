------------------------------ MODULE TxIndex -------------------------------
(***************************************************************************)
(* The transaction index of main.cpp: the CTxIndex records, with a spender *)
(* for each output, that ConnectBlock writes and DisconnectBlock takes     *)
(* back, transaction by transaction, inside the write batches that         *)
(* SetBestChain commits: one for the reorganization or the new block, and  *)
(* one for each block that it postponed.                                   *)
(*                                                                         *)
(* SetBestChain may be asked for any block: a child of the best block, a   *)
(* block of another branch or, at start-up, an ancestor.  Which of them it *)
(* is asked for is the business of ChainState and ProcessBlock.  It works  *)
(* from the best block in memory, pindexBest, and that is not always the   *)
(* block whose index is on disk: when a postponed block fails, the call    *)
(* goes on as if it had been connected.                                    *)
(***************************************************************************)
EXTENDS Ledger, Integers

CONSTANTS NoBlock, NoTx

ASSUME TxIndexAssumption == NoBlock \notin Blocks /\ NoTx \notin Txs

VARIABLES
    dbIndex,      \* committed: transaction -> its CTxIndex
    dbBest,       \* committed: hashBestChain
    pindexBest,   \* the best block in memory
    index,        \* the records as the open batch shows them
    queued,       \* mapQueuedChanges: the changes of the block being connected
    pc,           \* "idle", or what the open batch is doing
    pindexNew,    \* the block that SetBestChain was asked for
    target,       \* the block that the open batch goes to
    first,        \* the open batch is the first one of the call
    at, i,        \* the block and the place in it that come next
    strayed       \* history: a first batch was committed that did not start
                  \* from the block whose index was on disk

committed == <<dbIndex, dbBest, strayed>>
call == <<pindexBest, pindexNew, target, first>>
vars == <<committed, call, index, queued, pc, at, i>>

(* A record: where the transaction is, and the spender of each output.       *)
NoRecord == [block |-> NoBlock, vSpent |-> <<>>]
NewRecord(b, t) == [block |-> b, vSpent |-> [n \in 1..nOuts[t] |-> NoTx]]

Empty == [t \in {} |-> NoRecord]

Init ==
    /\ dbIndex = [t \in Txs |-> NoRecord] /\ dbBest = Genesis /\ pindexBest = Genesis
    /\ index = dbIndex /\ queued = Empty
    /\ pc = "idle" /\ pindexNew = NoBlock /\ target = NoBlock /\ first = TRUE
    /\ at = NoBlock /\ i = 0 /\ strayed = FALSE

-----------------------------------------------------------------------------
(* SetBestChain.                                                             *)

(* The child of b on the way to c.                                           *)
Towards(b, c) == CHOOSE x \in Chain[c] \ {Genesis} : Parent[x] = b

(* The next thing to do once the batch stands at block b of its target's     *)
(* chain.                                                                    *)
GoOn(b, c) ==
    IF b = c THEN pc' = "commit" /\ at' = NoBlock /\ i' = 0
    ELSE pc' = "connect" /\ at' = Towards(b, c) /\ i' = 1

GoBack(b) == pc' = "disconnect" /\ at' = b /\ i' = Len(vtx[b])

(* vpindexSecondary and, below it, pindexIntermediate.  A child of the best  *)
(* block is its own intermediate block.                                      *)
Postponed(b) == {y \in Chain[b] \ {Genesis} : Trust[Parent[y]] > Trust[pindexBest]}
Intermediate(b, c) == c \in Chain[b] /\ Chain[c] = Chain[b] \ Postponed(b)

(* The first batch: from the best block in memory down to the fork and up to *)
(* the intermediate block c.                                                 *)
SetBestChain(b, c) ==
    /\ pc = "idle" /\ b # pindexBest /\ Intermediate(b, c)
    /\ pindexNew' = b /\ target' = c
    /\ IF pindexBest \in Chain[c] THEN GoOn(pindexBest, c) ELSE GoBack(pindexBest)
    /\ UNCHANGED <<committed, pindexBest, first, index, queued>>

(* The call ends, with the given best block in memory.                       *)
Return(best) ==
    /\ pindexBest' = best
    /\ pc' = "idle" /\ pindexNew' = NoBlock /\ target' = NoBlock /\ first' = TRUE
    /\ at' = NoBlock /\ i' = 0

(* The batch is dropped.  In the first one that is an error of the whole     *)
(* call; later "errors now are not fatal" and pindexNew becomes the best     *)
(* block.                                                                    *)
Abort ==
    /\ index' = dbIndex /\ queued' = Empty
    /\ Return(IF first THEN pindexBest ELSE pindexNew)
    /\ UNCHANGED committed

-----------------------------------------------------------------------------
(* DisconnectBlock, from the last transaction to the first.                  *)

(* ReadTxIndex finds the previous transaction, and it has that output.       *)
HasOutput(r, o) == r.block # NoBlock /\ o[2] \in DOMAIN r.vSpent

CanDisconnect(t) == \A o \in Ins[t] : HasOutput(index[o[1]], o)

SetSpender(r, u, outs, t) ==
    [r EXCEPT !.vSpent = [n \in DOMAIN r.vSpent |-> IF <<u, n>> \in outs THEN t ELSE r.vSpent[n]]]

(* Mutant: from the first transaction to the last.                           *)
DisconnectNextForward == vtx[at][Len(vtx[at]) + 1 - i]

(* "Disconnect in reverse order".                                            *)
DisconnectNext == vtx[at][i]

(* Mutant: the outputs stay spent.                                           *)
DisconnectInputsKeepSpent ==
    /\ pc = "disconnect" /\ i > 0
    /\ CanDisconnect(DisconnectNext)
    /\ index' = [index EXCEPT ![DisconnectNext] = NoRecord]
    /\ i' = i - 1
    /\ UNCHANGED <<committed, call, queued, pc, at>>

DisconnectInputs ==
    /\ pc = "disconnect" /\ i > 0
    /\ LET t == DisconnectNext IN
         /\ CanDisconnect(t)
         /\ index' = [u \in Txs |-> IF u = t THEN NoRecord
                                    ELSE SetSpender(index[u], u, Ins[t], NoTx)]
    /\ i' = i - 1
    /\ UNCHANGED <<committed, call, queued, pc, at>>

(* A transaction whose inputs are not in the index fails the batch.          *)
DisconnectFails ==
    pc = "disconnect" /\ i > 0 /\ ~CanDisconnect(DisconnectNext) /\ Abort

(* The block is disconnected; the next one down, or the fork, is reached.    *)
DisconnectBlock ==
    /\ pc = "disconnect" /\ i = 0
    /\ IF Parent[at] \in Chain[target] THEN GoOn(Parent[at], target) ELSE GoBack(Parent[at])
    /\ UNCHANGED <<committed, call, index, queued>>

-----------------------------------------------------------------------------
(* ConnectBlock.                                                             *)

(* Mutant: transactions of the same block are not found.                     *)
FetchCommitted(t) == index[t]

(* FetchInputs: the record of a transaction, changes of this block first.    *)
Fetch(t) == IF t \in DOMAIN queued THEN queued[t] ELSE index[t]

(* "Do not allow blocks that contain transactions which overwrite older      *)
(* transactions, unless those are already completely spent": this looks at   *)
(* the database, not at the changes of this block.                           *)
Overwrites(t) == \E n \in DOMAIN index[t].vSpent : index[t].vSpent[n] = NoTx

(* A coinbase or coinstake of one of the last Maturity blocks.               *)
Unripe(t) ==
    t \in Generated /\ \E c \in Chain[at] : c = Fetch(t).block /\ Height[at] - Height[c] < Maturity

(* Mutant: no check for an output that is spent already.                     *)
CanConnectSpent(t) ==
    /\ ~Overwrites(t)
    /\ \A o \in Ins[t] : HasOutput(Fetch(o[1]), o) /\ ~Unripe(o[1])

CanConnect(t) ==
    /\ ~Overwrites(t)
    /\ \A o \in Ins[t] :
          /\ HasOutput(Fetch(o[1]), o)
          /\ ~Unripe(o[1])
          /\ Fetch(o[1]).vSpent[o[2]] = NoTx

Connect(t) ==
    LET changed == DOMAIN queued \cup {o[1] : o \in Ins[t]} \cup {t} IN
    queued' = [u \in changed |-> IF u = t THEN NewRecord(at, t)
                                 ELSE SetSpender(Fetch(u), u, Ins[t], t)]

ConnectInputs ==
    /\ pc = "connect" /\ i <= Len(vtx[at])
    /\ CanConnect(vtx[at][i])
    /\ Connect(vtx[at][i])
    /\ i' = i + 1
    /\ UNCHANGED <<committed, call, index, pc, at>>

(* One that does not connect fails the whole batch.                          *)
ConnectFails ==
    pc = "connect" /\ i <= Len(vtx[at]) /\ ~CanConnect(vtx[at][i]) /\ Abort

(* "Write queued txindex changes".                                           *)
ConnectBlock ==
    /\ pc = "connect" /\ i > Len(vtx[at])
    /\ index' = [t \in Txs |-> Fetch(t)] /\ queued' = Empty
    /\ GoOn(at, target)
    /\ UNCHANGED <<committed, call>>

-----------------------------------------------------------------------------
(* WriteHashBestChain and TxnCommit; then the next of the postponed blocks,  *)
(* or the end of the call.                                                   *)
Commit ==
    /\ pc = "commit"
    /\ dbIndex' = index /\ dbBest' = target
    /\ strayed' = (strayed \/ (first /\ pindexBest # dbBest))
    /\ IF target = pindexNew THEN Return(pindexNew)
       ELSE /\ target' = Towards(target, pindexNew) /\ first' = FALSE
            /\ GoOn(target, target')
            /\ UNCHANGED <<pindexBest, pindexNew>>
    /\ UNCHANGED <<index, queued>>

(* A block cannot be read or the commit fails.                               *)
Lose == pc # "idle" /\ Abort

(* The process stops, at any point, and starts from what is committed.       *)
Restart ==
    /\ index' = dbIndex /\ queued' = Empty
    /\ Return(dbBest)
    /\ UNCHANGED committed

Step ==
    \/ DisconnectInputs \/ DisconnectFails \/ DisconnectBlock
    \/ ConnectInputs \/ ConnectFails \/ ConnectBlock \/ Commit

Next == Step \/ Lose \/ Restart \/ \E b, c \in Blocks : SetBestChain(b, c)

Spec == Init /\ [][Next]_vars

-----------------------------------------------------------------------------
(* Properties.                                                               *)

Record == UNION {[block : Blocks, vSpent : [1..nOuts[t] -> Txs \cup {NoTx}]] : t \in Txs}

(* Types, and that a batch is open only while SetBestChain is under way.     *)
TypeOK ==
    /\ dbIndex \in [Txs -> Record \cup {NoRecord}] /\ dbBest \in Blocks /\ pindexBest \in Blocks
    /\ index \in [Txs -> Record \cup {NoRecord}]
    /\ DOMAIN queued \subseteq Txs /\ \A t \in DOMAIN queued : queued[t] \in Record
    /\ pc \in {"idle", "disconnect", "connect", "commit"}
    /\ {pindexNew, target, at} \subseteq Blocks \cup {NoBlock} /\ i \in Nat
    /\ {first, strayed} \subseteq BOOLEAN
    /\ pc = "idle" => index = dbIndex /\ queued = Empty

(* What the index must hold for the chain that ends in b.                    *)
Spender(b, o) == {p \in Places(b) : o \in Ins[TxAt(p)]}
RecordOf(b, t) ==
    LET ps == {p \in Places(b) : TxAt(p) = t} IN
    IF ps = {} THEN NoRecord
    ELSE [block |-> (CHOOSE p \in ps : TRUE)[1],
          vSpent |-> [n \in 1..nOuts[t] |->
              LET s == Spender(b, <<t, n>>) IN
              IF s = {} THEN NoTx ELSE TxAt(CHOOSE p \in s : TRUE)]]

(* The batch works on the index of the chain that it takes it for.  This     *)
(* ends when a call starts from a best block in memory that a failed         *)
(* postponed block left unconnected; if it then commits, for good.           *)
Grounded == ~strayed /\ (first => pindexBest = dbBest)

(* The committed index is exactly that of the best chain on disk, whatever   *)
(* branches were connected, taken back, given up half way in any batch or    *)
(* lost with the process, until a batch is committed that started from a     *)
(* best block which is not the one on disk.  That a postponed block failed   *)
(* does not disturb it, nor does a restart or a failing call after that.     *)
IndexMatchesChain == ~strayed => \A t \in Txs : dbIndex[t] = RecordOf(dbBest, t)

(* A block that was connected can be disconnected: where the best block in   *)
(* memory is the one on disk, Reorganize never fails in DisconnectInputs.    *)
DisconnectSucceeds ==
    Grounded /\ pc = "disconnect" /\ i > 0 => CanDisconnect(DisconnectNext)

(* A chain that is a ledger is never refused there, whatever was connected   *)
(* and taken back before, in this batch or in earlier ones.                  *)
LedgerConnects ==
    Grounded /\ pc = "connect" /\ i <= Len(vtx[at]) /\ IsLedger(at) => CanConnect(vtx[at][i])

(* The index implements the abstract view of the coins: as long as every     *)
(* call starts from the committed best block only ledgers become the best    *)
(* chain, and an output is open exactly when that chain has it and does not  *)
(* spend it.  The block that the next batch will build on runs ahead of the  *)
(* committed one only to one of its descendants, and a restart brings it     *)
(* back.                                                                     *)
View == INSTANCE CoinView WITH
    best <- dbBest,
    base <- IF first THEN pindexBest ELSE dbBest,
    intact <- ~strayed,
    coins <- UNION {{t} \X {n \in DOMAIN dbIndex[t].vSpent : dbIndex[t].vSpent[n] = NoTx} : t \in Txs}

ImplementsView == View!Spec

=============================================================================
