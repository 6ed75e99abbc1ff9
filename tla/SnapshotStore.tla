---------------------------- MODULE SnapshotStore ----------------------------
(***************************************************************************)
(* What the transactions of dbtrain promise their clients (doc/Lab4 and    *)
(* doc/Lab5): a transaction reads the rows committed when it began and its *)
(* own, nothing else ever enters or leaves its view, all of its rows are   *)
(* published at Commit and none of them otherwise, and a shutdown loses    *)
(* exactly the rows of the transactions that were open.                    *)
(***************************************************************************)
CONSTANTS
    TxnIDs,     \* transaction identifiers
    Rows        \* rows, each a record with the identifier of its writer in txn

VARIABLES
    store,      \* the committed rows
    open,       \* the transactions between Begin and Commit or Abort
    used,       \* the transactions that ever began
    view        \* view[t]: what a Search of the open transaction t returns

vars == <<store, open, used, view>>

Own(t) == {r \in view[t] : r.txn = t}

Init ==
    /\ store = {}
    /\ open = {}
    /\ used = {}
    /\ view = [t \in TxnIDs |-> {}]

Begin(t) ==
    /\ t \notin used
    /\ open' = open \union {t}
    /\ used' = used \union {t}
    /\ view' = [view EXCEPT ![t] = store]
    /\ UNCHANGED store

Insert(t) ==
    /\ t \in open
    /\ \E r \in Rows :
        /\ r.txn = t
        /\ r \notin view[t]
        /\ view' = [view EXCEPT ![t] = @ \union {r}]
    /\ UNCHANGED <<store, open, used>>

Commit(t) ==
    /\ t \in open
    /\ store' = store \union Own(t)
    /\ open' = open \ {t}
    /\ view' = [view EXCEPT ![t] = {}]
    /\ UNCHANGED used

Abort(t) ==
    /\ t \in open
    /\ open' = open \ {t}
    /\ view' = [view EXCEPT ![t] = {}]
    /\ UNCHANGED <<store, used>>

Shutdown ==
    /\ open' = {}
    /\ view' = [t \in TxnIDs |-> {}]
    /\ UNCHANGED <<store, used>>

Next ==
    \/ \E t \in TxnIDs : Begin(t) \/ Insert(t) \/ Commit(t) \/ Abort(t)
    \/ Shutdown

Spec == Init /\ [][Next]_vars
=============================================================================
