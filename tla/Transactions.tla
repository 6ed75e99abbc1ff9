---------------------------- MODULE Transactions ----------------------------
(***************************************************************************)
(* Transactions of dbtrain: TransactionManager, Transaction, LogPage and   *)
(* RecoveryManager over the rows of the tables created with useTxn, as     *)
(* they are driven through Instance.  The program has one thread: a step   *)
(* is one call, and transactions interleave between calls.                 *)
(*                                                                         *)
(* A row is known by its writer, which the code keeps in the table's last  *)
(* column, and by its place n in the writer's sequence of inserts, which   *)
(* stands for the user's columns.                                          *)
(***************************************************************************)
EXTENDS Heap, Sequences

CONSTANTS
    MaxTxn,         \* bound: transactions that may begin
    LogCap,         \* log lines LogPage::Full leaves room for, 20 in the code
    Deletes,        \* TRUE: clients call Instance::Delete, too
    StaleRestarts   \* TRUE: a shutdown may find in the log a transaction
                    \* that is neither committed nor active

ASSUME MaxTxnAssumption == MaxTxn \in Nat
ASSUME LogCapAssumption == LogCap \in Nat \ {0}
ASSUME NoRowAssumption == NoRow \notin [txn : 0..MaxTxn-1, n : 1..LogCap+1]
ASSUME SwitchAssumption == {Deletes, StaleRestarts} \subseteq BOOLEAN

TxnIDs == 0..MaxTxn-1
Rows == [txn : TxnIDs, n : 1..LogCap+1]

VARIABLES
    rows,           \* the records of the tables, by location
    nextTxnID,      \* TransactionManager::nextTxnID
    activeTxns,     \* TransactionManager::activeTxns
    snapshot,       \* Transaction::activeTxns, of every Transaction object
    insertHistory,  \* Transaction::insertHistory
    log,            \* the lines of the log page, oldest first
    savedTxnID,     \* nextTxnID as page TXN_MANAGER_PAGEID stores it
    phase           \* see Phases

vars == <<rows, nextTxnID, activeTxns, snapshot, insertHistory, log,
          savedTxnID, phase>>

(* LogLine; _tableID is left out: deletions go by page and slot.           *)
LogLine(t, op, loc) == [txn |-> t, op |-> op, loc |-> loc]

InsertLines == [txn : TxnIDs, op : {"INSERT"}, loc : Slots]
CommitLines == [txn : TxnIDs, op : {"COMMIT"}, loc : {NoRow}]

(***************************************************************************)
(* "up": the Instance takes calls.  "down": it has been deleted; MiniOS    *)
(* still holds the pages.  "recovering": the new Instance has been built   *)
(* and RecoveryManager is about to run.  The others are processes that     *)
(* died: in LogPage::log's assertion, on the null Transaction of an Insert *)
(* without one, or in Abort's Table object with an unset table id.         *)
(***************************************************************************)
Phases == {"up", "down", "recovering", "logAssert", "nullTxn", "unsetTable"}

(* Mutant: one line too many. *)
Full_OffByOne == Len(log) > LogCap

(* LogPage::Full *)
Full == Len(log) >= LogCap

Committed == {log[i].txn : i \in {j \in DOMAIN log : log[j].op = "COMMIT"}}

Logged == {log[i].txn : i \in DOMAIN log}

Init ==
    /\ rows = [s \in Slots |-> NoRow]
    /\ nextTxnID = 0
    /\ activeTxns = {}
    /\ snapshot = [t \in TxnIDs |-> {}]
    /\ insertHistory = [t \in TxnIDs |-> << >>]
    /\ log = << >>
    /\ savedTxnID = 0
    /\ phase = "up"

-----------------------------------------------------------------------------
(* Reads *)

(* Mutant: a smaller id is taken for an earlier transaction. *)
Visible_ById(t, u) == u <= t

(* Transaction::visible *)
Visible(t, u) == u = t \/ (u < t /\ u \notin snapshot[t])

(* The rows Table::SearchRecord returns to transaction t. *)
Seen(t) ==
    {rows[s] : s \in {x \in Slots : rows[x] # NoRow /\ Visible(t, rows[x].txn)}}

-----------------------------------------------------------------------------
(* Calls on a live Instance *)

(* TransactionManager::Begin: the snapshot includes the new transaction. *)
Begin ==
    /\ phase = "up"
    /\ nextTxnID < MaxTxn
    /\ activeTxns' = activeTxns \union {nextTxnID}
    /\ snapshot' = [snapshot EXCEPT ![nextTxnID] = activeTxns']
    /\ nextTxnID' = nextTxnID + 1
    /\ UNCHANGED <<rows, insertHistory, log, savedTxnID, phase>>

(* Instance::Insert: the table first, then the log, then the history. *)
Insert(t) ==
    /\ phase = "up"
    /\ t \in activeTxns
    /\ \E s \in FreeSlots(rows) :
        /\ rows' = Put(rows, s, [txn |-> t, n |-> Len(insertHistory[t]) + 1])
        /\ \/ /\ ~Full
              /\ log' = Append(log, LogLine(t, "INSERT", s))
              /\ insertHistory' = [insertHistory EXCEPT ![t] = Append(@, s)]
              /\ UNCHANGED phase
           \/ /\ Full
              /\ phase' = "logAssert"
              /\ UNCHANGED <<log, insertHistory>>
    /\ UNCHANGED <<nextTxnID, activeTxns, snapshot, savedTxnID>>

(***************************************************************************)
(* Instance::Insert with the default txn, into a table without _txn_id:    *)
(* LogInsert(nullptr, ...) reads the members of a null Transaction.        *)
(***************************************************************************)
InsertWithoutTxn ==
    /\ phase = "up"
    /\ phase' = "nullTxn"
    /\ UNCHANGED <<rows, nextTxnID, activeTxns, snapshot, insertHistory, log,
                   savedTxnID>>

(* The transaction leaves activeTxns before its COMMIT line is written. *)
Commit(t) ==
    /\ phase = "up"
    /\ t \in activeTxns
    /\ activeTxns' = activeTxns \ {t}
    /\ \/ /\ ~Full
          /\ log' = Append(log, LogLine(t, "COMMIT", NoRow))
          /\ UNCHANGED phase
       \/ /\ Full
          /\ phase' = "logAssert"
          /\ UNCHANGED log
    /\ UNCHANGED <<rows, nextTxnID, snapshot, insertHistory, savedTxnID>>

(***************************************************************************)
(* Abort deletes the history backwards and writes no log line.  The first  *)
(* location without a record throws and leaves the history as it is.  A    *)
(* transaction without inserts has an uninitialized nTableID: the Table    *)
(* built from it throws, works or takes the process down.                  *)
(***************************************************************************)
Abort(t) ==
    /\ phase = "up"
    /\ t \in activeTxns
    /\ activeTxns' = activeTxns \ {t}
    /\ LET history == insertHistory[t]
           places  == DOMAIN history
       IN  /\ rows' = DeleteBackward(rows, history, places)
           /\ IF Stuck(rows, history, places) = {}
                 THEN insertHistory' = [insertHistory EXCEPT ![t] = << >>]
                 ELSE UNCHANGED insertHistory
           /\ \/ UNCHANGED phase
              \/ history = << >> /\ phase' = "unsetTable"
    /\ UNCHANGED <<nextTxnID, snapshot, log, savedTxnID>>

(***************************************************************************)
(* Instance::Delete searches without its txn argument: whatever rows match *)
(* the condition go, whoever wrote them, and no log line is written.       *)
(***************************************************************************)
Delete ==
    /\ Deletes
    /\ phase = "up"
    /\ \E found \in (SUBSET {s \in Slots : rows[s] # NoRow}) \ {{}} :
        rows' = [s \in Slots |-> IF s \in found THEN NoRow ELSE rows[s]]
    /\ UNCHANGED <<nextTxnID, activeTxns, snapshot, insertHistory, log,
                   savedTxnID, phase>>

-----------------------------------------------------------------------------
(* Shutdown and recovery *)

(* Every transaction with a line in the log is committed or still active.  *)
LogIsClean == Logged \subseteq Committed \union activeTxns

(* Mutant: the destructor does not save nextTxnID. *)
Close_ForgetsTxnID ==
    /\ phase = "up"
    /\ StaleRestarts \/ LogIsClean
    /\ phase' = "down"
    /\ UNCHANGED <<rows, nextTxnID, activeTxns, snapshot, insertHistory, log,
                   savedTxnID>>

(* delete db: ~TransactionManager saves nextTxnID. *)
Close ==
    /\ phase = "up"
    /\ StaleRestarts \/ LogIsClean
    /\ savedTxnID' = nextTxnID
    /\ phase' = "down"
    /\ UNCHANGED <<rows, nextTxnID, activeTxns, snapshot, insertHistory, log>>

(* db = new Instance(): no transaction is active in the new manager. *)
Open ==
    /\ phase = "down"
    /\ nextTxnID' = savedTxnID
    /\ activeTxns' = {}
    /\ phase' = "recovering"
    /\ UNCHANGED <<rows, snapshot, insertHistory, log, savedTxnID>>

(* Mutant: the loop over the log stops before its first line. *)
Undos_OffByOne == {i \in DOMAIN log : i > 1 /\ log[i].txn \notin Committed}

(* Mutant: every INSERT line is rolled back. *)
Undos_Committed == {i \in DOMAIN log : log[i].op = "INSERT"}

(* The lines whose transaction has no COMMIT line. *)
Undos == {i \in DOMAIN log : log[i].txn \notin Committed}

(***************************************************************************)
(* RecoveryManager::Redo changes nothing.  Undo deletes the locations of   *)
(* Undos, newest first.  The log keeps its lines, and the Instance goes on *)
(* when Undo throws.                                                       *)
(***************************************************************************)
Undo ==
    /\ phase = "recovering"
    /\ rows' = DeleteBackward(rows, [i \in DOMAIN log |-> log[i].loc], Undos)
    /\ phase' = "up"
    /\ UNCHANGED <<nextTxnID, activeTxns, snapshot, insertHistory, log,
                   savedTxnID>>

Next ==
    \/ Begin
    \/ \E t \in TxnIDs : Insert(t) \/ Commit(t) \/ Abort(t)
    \/ InsertWithoutTxn
    \/ Delete
    \/ Close
    \/ Open
    \/ Undo

Spec == Init /\ [][Next]_vars
-----------------------------------------------------------------------------
(* Correctness *)

(* Every variable keeps its type; a transaction that is active has an id   *)
(* the manager gave out.                                                   *)
TypeOK ==
    /\ rows \in [Slots -> Rows \union {NoRow}]
    /\ nextTxnID \in 0..MaxTxn
    /\ activeTxns \subseteq 0..nextTxnID-1
    /\ snapshot \in [TxnIDs -> SUBSET TxnIDs]
    /\ insertHistory \in [TxnIDs -> Seq(Slots)]
    /\ log \in Seq(InsertLines \union CommitLines)
    /\ \A t \in TxnIDs : Len(insertHistory[t]) <= Len(log)
    /\ Len(log) <= LogCap
    /\ savedTxnID \in 0..nextTxnID
    /\ phase \in Phases

(* What t sees of the other transactions. *)
SeenOfOthers(t) == {r \in Seen(t) : r.txn # t}

(* The rows whose writer has a COMMIT line in the log. *)
CommittedRows ==
    {rows[s] : s \in {x \in Slots : rows[x] # NoRow /\ rows[x].txn \in Committed}}

(* Atomicity: on a live Instance every row belongs to a transaction that   *)
(* is committed or active; Abort and Undo leave no row behind.             *)
RolledBack ==
    phase = "up" =>
        \A s \in Slots : rows[s] # NoRow => rows[s].txn \in Committed \union activeTxns

(* Durability: no call and no restart loses a row of a committed           *)
(* transaction, nor changes it.                                            *)
KeepsCommitted == [][CommittedRows \subseteq CommittedRows']_vars

(* Isolation: while a transaction is active, what it sees of the others    *)
(* does not change, whatever they insert, commit and abort.                *)
RepeatableRead ==
    [][\A t \in activeTxns \intersect activeTxns' :
            SeenOfOthers(t)' = SeenOfOthers(t)]_vars

(* Nothing of another transaction ever enters the view of an active one,   *)
(* not even after deletions that ignore transactions, an Abort that threw  *)
(* half way or an Undo that did.                                           *)
NoPhantoms ==
    [][\A t \in activeTxns \intersect activeTxns' :
            SeenOfOthers(t)' \subseteq SeenOfOthers(t)]_vars

(* The transactions implement SnapshotStore: its committed rows are those  *)
(* of the writers with a COMMIT line, its views what Search returns.       *)
Store == INSTANCE SnapshotStore WITH
    store <- CommittedRows,
    open  <- IF phase = "up" THEN activeTxns ELSE {},
    used  <- 0..nextTxnID-1,
    view  <- [t \in TxnIDs |->
                IF phase = "up" /\ t \in activeTxns THEN Seen(t) ELSE {}]

ImplementsSnapshotStore == Store!Spec
-----------------------------------------------------------------------------
(* The inductive invariant, for clients that do not delete and restarts    *)
(* that find a clean log.                                                  *)

(* The transactions that Undo would roll back if it ran on the current     *)
(* rows: the active ones, and after a restart those that were active.      *)
Pending == IF phase = "recovering" THEN Logged \ Committed ELSE activeTxns

(* Ids are given out once, also across a restart. *)
IdsInOrder ==
    /\ phase \in {"down", "recovering"} => savedTxnID = nextTxnID
    /\ phase = "recovering" => activeTxns = {}
    /\ phase = "down" => LogIsClean
    /\ Committed \intersect activeTxns = {}
    /\ Logged \subseteq 0..nextTxnID-1
    /\ \A t \in TxnIDs : t >= nextTxnID => insertHistory[t] = << >>
    /\ \A s \in Slots : rows[s] # NoRow => rows[s].txn < nextTxnID

(* An active transaction whose rows t could see began after t. *)
SnapshotsHide ==
    \A t \in activeTxns, u \in activeTxns : u < t => u \in snapshot[t]

(* The history of an active transaction lists its rows, in order. *)
HistoryLocatesRows ==
    phase \in {"up", "down"} =>
        /\ \A t \in activeTxns : \A k \in DOMAIN insertHistory[t] :
                rows[insertHistory[t][k]] = [txn |-> t, n |-> k]
        /\ \A s \in Slots : rows[s] # NoRow /\ rows[s].txn \in activeTxns =>
                /\ rows[s].n \in DOMAIN insertHistory[rows[s].txn]
                /\ insertHistory[rows[s].txn][rows[s].n] = s

(* Each line of a pending transaction locates one of its rows, no two the  *)
(* same one, and each row that is not committed has such a line.           *)
LogLocatesRows ==
    /\ \A i \in DOMAIN log : log[i].txn \in Pending =>
            /\ log[i].loc \in Slots
            /\ rows[log[i].loc] # NoRow
            /\ rows[log[i].loc].txn = log[i].txn
            /\ \A j \in DOMAIN log :
                    j > i /\ log[j].txn \in Pending => log[j].loc # log[i].loc
    /\ phase \in {"up", "down", "recovering"} =>
            \A s \in Slots : rows[s] # NoRow /\ rows[s].txn \notin Committed =>
                /\ rows[s].txn \in Pending
                /\ \E i \in DOMAIN log : log[i].txn = rows[s].txn /\ log[i].loc = s

IInv ==
    /\ TypeOK
    /\ IdsInOrder
    /\ SnapshotsHide
    /\ HistoryLocatesRows
    /\ LogLocatesRows
=============================================================================
