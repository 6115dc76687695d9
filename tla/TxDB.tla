-------------------------------- MODULE TxDB --------------------------------
(***************************************************************************)
(* CTxDB (txdb-leveldb.h and .cpp): handles on one shared LevelDB, each    *)
(* with an optional WriteBatch.  Writes and deletes go to the end of the   *)
(* batch while there is one; Read and Exists scan the whole batch before   *)
(* they ask the database; TxnCommit applies the batch at once.             *)
(***************************************************************************)
EXTENDS Integers, Sequences

CONSTANTS
    Handles,   \* CTxDB objects
    Keys, Vals,
    None,      \* no value: not found, or a Delete entry of a batch
    Same,      \* not in the batch
    MaxBatch   \* bound on the entries of a batch

ASSUME DBAssumption ==
    /\ None \notin Vals /\ Same \notin Vals /\ None # Same
    /\ MaxBatch \in Nat

Entries == [key : Keys, val : Vals \cup {None}]

VARIABLES
    db,          \* what LevelDB holds
    active,      \* handles whose activeBatch is not NULL
    activeBatch, \* activeBatch[h]: the entries of the batch, in order
    call         \* the last call, with the answer of a Read or Exists

vars == <<db, active, activeBatch, call>>

Init ==
    /\ db = [k \in Keys |-> None]
    /\ active = {}
    /\ activeBatch = [h \in Handles |-> <<>>]
    /\ call = [op |-> "none"]

(* Mutant: the first entry for the key wins.                                 *)
IsFirst(s, k, i) ==
    /\ i \in 1..Len(s)
    /\ s[i].key = k
    /\ \A j \in 1..Len(s) : j < i => s[j].key # k

(* CBatchScanner visits every entry, so that the last one for the key wins.  *)
IsLast(s, k, i) ==
    /\ i \in 1..Len(s)
    /\ s[i].key = k
    /\ \A j \in 1..Len(s) : j > i => s[j].key # k
ScanBatch(s, k) ==
    IF \E i \in 1..Len(s) : s[i].key = k
    THEN s[CHOOSE i \in 1..Len(s) : IsLast(s, k, i)].val
    ELSE Same

TxnBegin(h) ==
    /\ h \notin active
    /\ active' = active \cup {h}
    /\ call' = [op |-> "begin", h |-> h]
    /\ UNCHANGED <<db, activeBatch>>

(* Write a value or, with v = None, Erase the key.                           *)
Write(h, k, v) ==
    /\ \/ /\ h \in active /\ Len(activeBatch[h]) < MaxBatch
          /\ activeBatch' = [activeBatch EXCEPT
                                ![h] = Append(activeBatch[h], [key |-> k, val |-> v])]
          /\ UNCHANGED db
       \/ /\ h \notin active
          /\ db' = [db EXCEPT ![k] = v]
          /\ UNCHANGED activeBatch
    /\ call' = [op |-> "write", h |-> h, k |-> k, v |-> v]
    /\ UNCHANGED active

ReadResult(h, k) ==
    LET found == IF h \in active THEN ScanBatch(activeBatch[h], k) ELSE Same
    IN  IF found = Same THEN db[k] ELSE found

Read(h, k) ==
    /\ call' = [op |-> "read", h |-> h, k |-> k, v |-> ReadResult(h, k)]
    /\ UNCHANGED <<db, active, activeBatch>>

(* Exists only believes the batch when it holds a value for the key.         *)
Exists(h, k) ==
    /\ call' = [op |-> IF \/ h \in active /\ ScanBatch(activeBatch[h], k) \in Vals
                         \/ db[k] # None
                      THEN "exists" ELSE "absent",
                h |-> h, k |-> k]
    /\ UNCHANGED <<db, active, activeBatch>>

DropBatch(h) ==
    /\ h \in active
    /\ active' = active \ {h}
    /\ activeBatch' = [activeBatch EXCEPT ![h] = <<>>]

TxnCommit(h) ==
    /\ DropBatch(h)
    /\ db' = [k \in Keys |-> LET found == ScanBatch(activeBatch[h], k)
                             IN  IF found = Same THEN db[k] ELSE found]
    /\ call' = [op |-> "commit", h |-> h]

(* A TxnCommit that fails, TxnAbort and the destructor all drop the batch.   *)
TxnAbort(h) ==
    /\ DropBatch(h)
    /\ call' = [op |-> "abort", h |-> h]
    /\ UNCHANGED db

Crash ==
    /\ active' = {}
    /\ activeBatch' = [h \in Handles |-> <<>>]
    /\ call' = [op |-> "crash"]
    /\ UNCHANGED db

Next ==
    \/ \E h \in Handles : TxnBegin(h) \/ TxnCommit(h) \/ TxnAbort(h)
    \/ \E h \in Handles, k \in Keys : \/ Read(h, k) \/ Exists(h, k)
                                    \/ \E v \in Vals \cup {None} : Write(h, k, v)
    \/ Crash

Spec == Init /\ [][Next]_vars

-----------------------------------------------------------------------------
(* Properties.                                                               *)

Calls == [op : {"none", "crash"}] \cup [op : {"begin", "commit", "abort"}, h : Handles]
         \cup [op : {"exists", "absent"}, h : Handles, k : Keys]
         \cup [op : {"write", "read"}, h : Handles, k : Keys, v : Vals \cup {None}]

(* Types of the database and the batches; a Read returns a value or None.    *)
TypeOK ==
    /\ db \in [Keys -> Vals \cup {None}]
    /\ active \subseteq Handles
    /\ activeBatch \in [Handles -> Seq(Entries)]
    /\ call \in Calls

Store == INSTANCE KVStore WITH
            store <- db,
            open <- active,
            pending <- [h \in Handles |-> [k \in Keys |-> ScanBatch(activeBatch[h], k)]]

(* The batches implement transactions: every read of a handle sees its own   *)
(* pending writes and deletes over the database, a commit applies them all,  *)
(* an abort, a failed commit or a crash none.  Exists alone looks past a     *)
(* pending delete ("the rest of the code assumes that once a database        *)
(* transaction begins reads are consistent with it", ScanBatch; no caller    *)
(* asks it about a key that it erased).                                      *)
ImplementsStore == Store!Spec

=============================================================================
