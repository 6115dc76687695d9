----------------------------- MODULE TxDBProofs -----------------------------
(***************************************************************************)
(* CTxDB implements KVStore, for every set of handles, keys and values.    *)
(* The refinement mapping turns a batch, a list of entries, into the       *)
(* pending change of each key: what ScanBatch finds.                       *)
(***************************************************************************)
EXTENDS TxDB, TLAPS

(* Every entry that is looked for and present has a last position.           *)
HasLast(s) ==
    \A k \in Keys : (\E i \in 1..Len(s) : s[i].key = k) =>
                        \E i \in 1..Len(s) : IsLast(s, k, i)

LEMMA LastUnique ==
    ASSUME NEW s \in Seq(Entries), NEW k \in Keys, NEW i, NEW j,
           IsLast(s, k, i), IsLast(s, k, j)
    PROVE  i = j
  BY DEF IsLast

(* ScanBatch returns the value at the last position.                         *)
LEMMA ScanIsLast ==
    ASSUME NEW s \in Seq(Entries), NEW k \in Keys, NEW i, IsLast(s, k, i)
    PROVE  ScanBatch(s, k) = s[i].val
  <1>1. i \in 1..Len(s) /\ s[i].key = k
    BY DEF IsLast
  <1>2. (CHOOSE m \in 1..Len(s) : IsLast(s, k, m)) = i
    <2> DEFINE c == CHOOSE m \in 1..Len(s) : IsLast(s, k, m)
    <2>1. IsLast(s, k, c)
      BY <1>1
    <2> HIDE DEF c
    <2> QED BY <2>1, LastUnique DEF c
  <1> QED BY <1>1, <1>2 DEF ScanBatch

LEMMA ScanEmpty ==
    ASSUME NEW k \in Keys
    PROVE  ScanBatch(<<>>, k) = Same
  BY DEF ScanBatch

LEMMA ScanType ==
    ASSUME NEW s \in Seq(Entries), HasLast(s), NEW k \in Keys
    PROVE  ScanBatch(s, k) \in Vals \cup {None, Same}
  <1>1. CASE \E i \in 1..Len(s) : s[i].key = k
    <2>1. PICK i \in 1..Len(s) : IsLast(s, k, i)
      BY <1>1 DEF HasLast
    <2>2. ScanBatch(s, k) = s[i].val
      BY <2>1, ScanIsLast
    <2>3. s[i] \in Entries
      BY <2>1
    <2> QED BY <2>2, <2>3 DEF Entries
  <1>2. CASE ~\E i \in 1..Len(s) : s[i].key = k
    BY <1>2 DEF ScanBatch
  <1> QED BY <1>1, <1>2

(* A new entry changes what is found for its own key and for no other.       *)
LEMMA ScanAppend ==
    ASSUME NEW s \in Seq(Entries), HasLast(s), NEW e \in Entries
    PROVE  /\ HasLast(Append(s, e))
           /\ \A k \in Keys : ScanBatch(Append(s, e), k) =
                                  IF e.key = k THEN e.val ELSE ScanBatch(s, k)
  <1> DEFINE t == Append(s, e)
             n == Len(s) + 1
  <1>1. /\ t \in Seq(Entries) /\ Len(t) = n /\ n \in 1..n /\ t[n] = e
        /\ \A i \in 1..Len(s) : t[i] = s[i]
    OBVIOUS
  <1> HIDE DEF t
  <1>2. ASSUME NEW k \in Keys, e.key = k PROVE IsLast(t, k, n)
    BY <1>1, <1>2 DEF IsLast
  <1>3. ASSUME NEW k \in Keys, e.key # k, NEW i, IsLast(s, k, i) PROVE IsLast(t, k, i)
    BY <1>1, <1>3 DEF IsLast
  <1>4. ASSUME NEW k \in Keys, e.key # k
        PROVE  (\E i \in 1..Len(t) : t[i].key = k) <=> (\E i \in 1..Len(s) : s[i].key = k)
    BY <1>1, <1>4
  <1>5. HasLast(t)
    <2> SUFFICES ASSUME NEW k \in Keys, \E i \in 1..Len(t) : t[i].key = k
                 PROVE  \E i \in 1..Len(t) : IsLast(t, k, i)
      BY DEF HasLast
    <2>1. CASE e.key = k
      BY <1>1, <1>2, <2>1
    <2>2. CASE e.key # k
      <3>1. PICK i \in 1..Len(s) : IsLast(s, k, i)
        BY <1>4, <2>2 DEF HasLast
      <3> QED BY <1>1, <1>3, <2>2, <3>1
    <2> QED BY <2>1, <2>2
  <1>6. ASSUME NEW k \in Keys
        PROVE  ScanBatch(t, k) = IF e.key = k THEN e.val ELSE ScanBatch(s, k)
    <2>1. CASE e.key = k
      BY <1>1, <1>2, <2>1, ScanIsLast
    <2>2. CASE e.key # k /\ \E i \in 1..Len(s) : s[i].key = k
      <3>1. PICK i \in 1..Len(s) : IsLast(s, k, i)
        BY <2>2 DEF HasLast
      <3>2. ScanBatch(t, k) = t[i].val /\ ScanBatch(s, k) = s[i].val
        BY <1>1, <1>3, <2>2, <3>1, ScanIsLast
      <3> QED BY <1>1, <2>2, <3>2
    <2>3. CASE e.key # k /\ ~\E i \in 1..Len(s) : s[i].key = k
      BY <1>4, <2>3 DEF ScanBatch
    <2> QED BY <2>1, <2>2, <2>3
  <1> QED BY <1>5, <1>6 DEF t

-----------------------------------------------------------------------------
(* The invariant.                                                            *)

DBInv ==
    /\ TypeOK
    /\ \A h \in Handles \ active : activeBatch[h] = <<>>
    /\ \A h \in Handles : HasLast(activeBatch[h])

LEMMA EmptyHasLast == HasLast(<<>>)
  BY DEF HasLast

(* Every step records a call.                                                *)
LEMMA BareCall == [op |-> "none"] \in Calls /\ [op |-> "crash"] \in Calls
  BY DEF Calls

LEMMA BatchCall ==
    ASSUME NEW h \in Handles, NEW o \in {"begin", "commit", "abort"}
    PROVE  [op |-> o, h |-> h] \in Calls
  BY DEF Calls

LEMMA KeyCall ==
    ASSUME NEW h \in Handles, NEW k \in Keys, NEW v \in Vals \cup {None},
           NEW o \in {"write", "read"}
    PROVE  [op |-> o, h |-> h, k |-> k, v |-> v] \in Calls
  BY DEF Calls

LEMMA ExistsCall ==
    ASSUME NEW h \in Handles, NEW k \in Keys, NEW o \in {"exists", "absent"}
    PROVE  [op |-> o, h |-> h, k |-> k] \in Calls
  BY DEF Calls

LEMMA InvInit == Init => DBInv
  BY EmptyHasLast, BareCall DEF Init, DBInv, TypeOK

LEMMA ReadType ==
    ASSUME DBInv, NEW h \in Handles, NEW k \in Keys
    PROVE  /\ ReadResult(h, k) \in Vals \cup {None}
           /\ (IF ScanBatch(activeBatch[h], k) = Same THEN db[k]
               ELSE ScanBatch(activeBatch[h], k)) \in Vals \cup {None}
  <1>1. ScanBatch(activeBatch[h], k) \in Vals \cup {None, Same}
    BY ScanType DEF DBInv, TypeOK
  <1> QED BY <1>1, DBAssumption DEF ReadResult, DBInv, TypeOK

LEMMA InvStep == DBInv /\ [Next]_vars => DBInv'
  <1> SUFFICES ASSUME DBInv, [Next]_vars PROVE DBInv'
    OBVIOUS
  <1>1. ASSUME NEW h \in Handles, TxnBegin(h) PROVE DBInv'
    BY <1>1, BatchCall DEF TxnBegin, DBInv, TypeOK
  <1>2. ASSUME NEW h \in Handles, TxnCommit(h) PROVE DBInv'
    <2>1. db' \in [Keys -> Vals \cup {None}]
      BY <1>2, ReadType DEF TxnCommit
    <2>2. call' \in Calls
      BY <1>2, BatchCall DEF TxnCommit
    <2>3. DropBatch(h)
      BY <1>2 DEF TxnCommit
    <2> QED BY <2>1, <2>2, <2>3, EmptyHasLast DEF DropBatch, DBInv, TypeOK
  <1>3. ASSUME NEW h \in Handles, TxnAbort(h) PROVE DBInv'
    <2>1. call' \in Calls
      BY <1>3, BatchCall DEF TxnAbort
    <2>2. DropBatch(h) /\ UNCHANGED db
      BY <1>3 DEF TxnAbort
    <2> QED BY <2>1, <2>2, EmptyHasLast DEF DropBatch, DBInv, TypeOK
  <1>4. ASSUME NEW h \in Handles, NEW k \in Keys, Read(h, k) PROVE DBInv'
    <2>1. call' \in Calls
      BY <1>4, ReadType, KeyCall DEF Read
    <2> QED BY <1>4, <2>1 DEF Read, DBInv, TypeOK
  <1>5. ASSUME NEW h \in Handles, NEW k \in Keys, NEW v \in Vals \cup {None}, Write(h, k, v)
        PROVE  DBInv'
    <2>0. call' \in Calls
      BY <1>5, KeyCall DEF Write
    <2>1. CASE h \in active
      <3> DEFINE e == [key |-> k, val |-> v]
      <3>1. e \in Entries /\ activeBatch[h] \in Seq(Entries) /\ HasLast(activeBatch[h])
        BY DEF Entries, DBInv, TypeOK
      <3>2. activeBatch' = [activeBatch EXCEPT ![h] = Append(activeBatch[h], e)]
        BY <1>5, <2>1 DEF Write
      <3>3. HasLast(Append(activeBatch[h], e)) /\ Append(activeBatch[h], e) \in Seq(Entries)
        BY <3>1, ScanAppend
      <3> HIDE DEF e
      <3> QED BY <1>5, <2>0, <2>1, <3>2, <3>3 DEF Write, DBInv, TypeOK
    <2>2. CASE h \notin active
      BY <1>5, <2>0, <2>2 DEF Write, DBInv, TypeOK
    <2> QED BY <2>1, <2>2
  <1>8. ASSUME NEW h \in Handles, NEW k \in Keys, Exists(h, k) PROVE DBInv'
    <2>1. call' \in Calls
      BY <1>8, ExistsCall DEF Exists
    <2> QED BY <1>8, <2>1 DEF Exists, DBInv, TypeOK
  <1>6. CASE Crash
    BY <1>6, EmptyHasLast, BareCall DEF Crash, DBInv, TypeOK
  <1>7. CASE UNCHANGED vars
    BY <1>7 DEF vars, DBInv, TypeOK
  <1> QED BY <1>1, <1>2, <1>3, <1>4, <1>5, <1>6, <1>7, <1>8 DEF Next

(* The database keeps its types.                                             *)
THEOREM DBTypeCorrect == Spec => []TypeOK
  <1>1. DBInv => TypeOK
    BY DEF DBInv
  <1> QED BY <1>1, InvInit, InvStep, PTL DEF Spec

-----------------------------------------------------------------------------
(* The refinement.                                                           *)

Pending == [h \in Handles |-> [k \in Keys |-> ScanBatch(activeBatch[h], k)]]

LEMMA RefineInit == Init => Store!Init
  BY ScanEmpty DEF Init, Store!Init, Store!NoChange

(* A handle without a batch finds nothing in it.                             *)
LEMMA NotOpen ==
    ASSUME DBInv, NEW h \in Handles, h \notin active, NEW k \in Keys
    PROVE  ScanBatch(activeBatch[h], k) = Same
  BY ScanEmpty DEF DBInv

(* Dropping the batch of h leaves no pending change of h.                    *)
LEMMA DropPending ==
    ASSUME DBInv, NEW h \in Handles, DropBatch(h)
    PROVE  Pending' = [Pending EXCEPT ![h] = [k \in Keys |-> Same]]
  BY ScanEmpty DEF DropBatch, Pending, DBInv, TypeOK

LEMMA WritePending ==
    ASSUME DBInv, NEW h \in Handles, NEW k \in Keys, NEW v \in Vals \cup {None},
           h \in active, Write(h, k, v)
    PROVE  Pending' = [Pending EXCEPT ![h] = [Pending[h] EXCEPT ![k] = v]]
  <1> DEFINE e == [key |-> k, val |-> v]
             s == activeBatch[h]
  <1>1. e \in Entries /\ s \in Seq(Entries) /\ HasLast(s) /\ e.key = k /\ e.val = v
    BY DEF Entries, DBInv, TypeOK
  <1>2. activeBatch' = [activeBatch EXCEPT ![h] = Append(s, e)]
    BY DEF Write
  <1> HIDE DEF e
  <1>3. \A x \in Keys : ScanBatch(Append(s, e), x) = IF k = x THEN v ELSE ScanBatch(s, x)
    BY <1>1, ScanAppend
  <1>4. ASSUME NEW g \in Handles
        PROVE  activeBatch'[g] = IF g = h THEN Append(s, e) ELSE activeBatch[g]
    BY <1>2 DEF DBInv, TypeOK
  <1>5. ASSUME NEW g \in Handles, NEW x \in Keys
        PROVE  ScanBatch(activeBatch'[g], x) =
                   IF g = h /\ x = k THEN v ELSE ScanBatch(activeBatch[g], x)
    BY <1>3, <1>4
  <1> QED BY <1>5 DEF Pending

LEMMA RefineStep == DBInv /\ [Next]_vars => [Store!Next]_(Store!kvVars)
  <1> SUFFICES ASSUME DBInv, [Next]_vars PROVE [Store!Next]_(Store!kvVars)
    OBVIOUS
  <1>1. ASSUME NEW h \in Handles, TxnBegin(h) PROVE Store!Begin(h)
    BY <1>1 DEF TxnBegin, Store!Begin
  <1>2. ASSUME NEW h \in Handles, DropBatch(h) PROVE Store!End(h)
    BY <1>2, DropPending DEF DropBatch, Store!End, Store!NoChange, Pending
  <1>3. ASSUME NEW h \in Handles, TxnCommit(h) PROVE Store!Commit(h)
    <2>1. \A k \in Keys : Store!View(h, k) = IF ScanBatch(activeBatch[h], k) = Same THEN db[k]
                                             ELSE ScanBatch(activeBatch[h], k)
      BY DEF Store!View
    <2> QED BY <1>2, <1>3, <2>1 DEF TxnCommit, Store!Commit
  <1>4. ASSUME NEW h \in Handles, TxnAbort(h) PROVE Store!Abort(h)
    BY <1>2, <1>4 DEF TxnAbort, Store!Abort
  <1>5. ASSUME NEW h \in Handles, NEW k \in Keys, Read(h, k) PROVE Store!Get(h, k)
    <2>1. Store!View(h, k) = ReadResult(h, k)
      BY NotOpen DEF Store!View, ReadResult
    <2> QED BY <1>5, <2>1 DEF Read, Store!Get
  <1>6. ASSUME NEW h \in Handles, NEW k \in Keys, NEW v \in Vals \cup {None}, Write(h, k, v)
        PROVE  Store!Put(h, k, v)
    <2>1. CASE h \in active
      BY <1>6, <2>1, WritePending DEF Write, Store!Put, Pending
    <2>2. CASE h \notin active
      BY <1>6, <2>2 DEF Write, Store!Put
    <2> QED BY <2>1, <2>2
  <1>9. ASSUME NEW h \in Handles, NEW k \in Keys, Exists(h, k) PROVE Store!Has(h, k)
    <2>1. ScanBatch(activeBatch[h], k) \in Vals => h \in active
      BY NotOpen, DBAssumption
    <2> QED BY <1>9, <2>1 DEF Exists, Store!Has
  <1>7. ASSUME Crash PROVE Store!Crash
    BY <1>7, ScanEmpty DEF Crash, Store!Crash, Store!NoChange
  <1>8. CASE UNCHANGED vars
    BY <1>8 DEF vars, Store!kvVars
  <1> QED BY <1>1, <1>3, <1>4, <1>5, <1>6, <1>7, <1>8, <1>9 DEF Next, Store!Next

(* Every behaviour of the batches is a behaviour of the transactional store: *)
(* reads are consistent with the transaction, commits atomic.                *)
THEOREM BatchesImplementStore == Spec => ImplementsStore
  BY InvInit, InvStep, RefineInit, RefineStep, PTL DEF Spec, ImplementsStore, Store!Spec
=============================================================================
