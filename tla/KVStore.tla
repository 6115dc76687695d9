------------------------------ MODULE KVStore -------------------------------
(***************************************************************************)
(* What the callers of CTxDB rely on: a key-value store with one optional  *)
(* transaction per handle.  A handle with an open transaction sees the     *)
(* store with its own changes on top; the changes reach the store all      *)
(* together at the commit, or never.                                       *)
(***************************************************************************)
CONSTANTS Handles, Keys, Vals, None, Same

VARIABLES
    store,   \* Keys -> Vals \cup {None}
    open,    \* handles with an open transaction
    pending, \* pending[h][k]: the change of h to k, or Same
    call     \* the last call with its arguments and its answer: what callers see

kvVars == <<store, open, pending, call>>

NoChange == [k \in Keys |-> Same]

Init ==
    /\ store = [k \in Keys |-> None]
    /\ open = {}
    /\ pending = [h \in Handles |-> NoChange]
    /\ call = [op |-> "none"]

(* The store as h sees it. *)
View(h, k) == IF pending[h][k] = Same THEN store[k] ELSE pending[h][k]

Begin(h) ==
    /\ h \notin open
    /\ open' = open \cup {h}
    /\ call' = [op |-> "begin", h |-> h]
    /\ UNCHANGED <<store, pending>>

(* Write v, or erase when v is None. *)
Put(h, k, v) ==
    /\ IF h \in open
       THEN /\ pending' = [pending EXCEPT ![h] = [pending[h] EXCEPT ![k] = v]]
            /\ UNCHANGED store
       ELSE /\ store' = [store EXCEPT ![k] = v]
            /\ UNCHANGED pending
    /\ call' = [op |-> "write", h |-> h, k |-> k, v |-> v]
    /\ UNCHANGED open

Get(h, k) ==
    /\ call' = [op |-> "read", h |-> h, k |-> k, v |-> View(h, k)]
    /\ UNCHANGED <<store, open, pending>>

(* A key exists for h when h has given it a value or the store has one: a    *)
(* pending erase of h does not hide what the store holds.                    *)
Has(h, k) ==
    /\ call' = [op |-> IF pending[h][k] \in Vals \/ store[k] # None THEN "exists" ELSE "absent",
                h |-> h, k |-> k]
    /\ UNCHANGED <<store, open, pending>>

End(h) ==
    /\ h \in open
    /\ open' = open \ {h}
    /\ pending' = [pending EXCEPT ![h] = NoChange]

Commit(h) ==
    /\ End(h)
    /\ store' = [k \in Keys |-> View(h, k)]
    /\ call' = [op |-> "commit", h |-> h]

Abort(h) ==
    /\ End(h)
    /\ call' = [op |-> "abort", h |-> h]
    /\ UNCHANGED store

Crash ==
    /\ open' = {}
    /\ pending' = [h \in Handles |-> NoChange]
    /\ call' = [op |-> "crash"]
    /\ UNCHANGED store

Next ==
    \/ \E h \in Handles : Begin(h) \/ Commit(h) \/ Abort(h)
    \/ \E h \in Handles, k \in Keys : \/ Get(h, k) \/ Has(h, k)
                                    \/ \E v \in Vals \cup {None} : Put(h, k, v)
    \/ Crash

Spec == Init /\ [][Next]_kvVars

=============================================================================
