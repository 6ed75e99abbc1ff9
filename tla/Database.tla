------------------------------ MODULE Database ------------------------------
(***************************************************************************)
(* Instance over tables, indexes and transactions together: what Insert,   *)
(* Delete, Update, CreateIndex and DropIndex do to the rows of a table and *)
(* to the entries of its indexes, while transactions insert and abort.     *)
(* The catalogs (Catalog), chains (TableFile), trees (BPTree) and the log  *)
(* (Transactions) below are seen through what they promise: a table is a   *)
(* map from locations to rows, an index a bag of pairs <<key, location>>.  *)
(*                                                                         *)
(* A location is a pair <<table, slot>>.  All tables are made with useTxn: *)
(* the last column holds the id of the inserting transaction.              *)
(***************************************************************************)
EXTENDS Records, Heap, Bags, FiniteSets, SequencesExt

CONSTANTS
    Columns,    \* of each table, in order; the last one is _txn_id
    MaxTxn,     \* bound: transactions that may begin
    MaxInserts  \* bound: inserts of one transaction

Tables == DOMAIN Columns

ASSUME ColumnsAssumption ==
    \A t \in Tables :
        /\ Columns[t] \in Seq(ToSet(Columns[t]))
        /\ Len(Columns[t]) > 1
        /\ Last(Columns[t]).type = "INT"
        /\ \A i \in DOMAIN Columns[t] : Columns[t][i].type \in FieldTypes /\ Columns[t][i].size \in Nat
        /\ \A i, j \in DOMAIN Columns[t] : Columns[t][i].name = Columns[t][j].name => i = j

ASSUME SlotsAssumption == IsFiniteSet(Slots) /\ Slots \subseteq Tables \X Nat
ASSUME NoRowAssumption == NoRow \notin Seq(Fields)
ASSUME BoundsAssumption == MaxTxn \in Nat \ {0} /\ MaxInserts \in Nat \ {0}

TxnIDs == 0..MaxTxn-1
NoTxn == -1

VARIABLES
    rows,           \* the records of all tables, by location
    entries,        \* the indexes, pairs <<table, column>>, and their entries
    nextTxnID,      \* TransactionManager::nextTxnID
    activeTxns,     \* TransactionManager::activeTxns
    snapshot,       \* Transaction::activeTxns
    insertHistory,  \* Transaction::insertHistory
    alive,          \* FALSE: an assertion failed or a null pointer was read
    reply           \* the last call and how it ended

tables == <<rows, entries>>
txns == <<nextTxnID, activeTxns, snapshot, insertHistory>>
vars == <<tables, txns, alive, reply>>

TableOf(loc) == loc[1]
LocationsOf(t) == {loc \in Slots : TableOf(loc) = t}
GetPos(t, c) == CHOOSE i \in DOMAIN Columns[t] : Columns[t][i].name = c
GetType(t, c) == Columns[t][GetPos(t, c)].type
IsIndex(t, c) == <<t, c>> \in DOMAIN entries
IndexesOf(t) == {i \in DOMAIN entries : i[1] = t}
(* A row of table t has a field of the right type for each column. *)
Fits(row, t) ==
    /\ row \in Seq(Fields)
    /\ Len(row) = Len(Columns[t])
    /\ \A i \in DOMAIN Columns[t] : TypeOf(row[i]) = Columns[t][i].type

Entry(index, row, loc) == <<row[GetPos(index[1], index[2])], loc>>
WriterOf(row) == Last(row)[2]

(* Transaction::visible *)
Visible(x, u) == u = x \/ (u < x /\ u \notin snapshot[x])

-----------------------------------------------------------------------------
(* Instance::Search.  A condition is a record of two sequences, `other' and *)
(* `index', as SystemVisitor splits them.                                  *)

Everything == [other |-> << >>, index |-> << >>]

InOrder(locs) ==
    CHOOSE q \in SetToSeqs(locs) : \A i, j \in DOMAIN q : i < j => q[i][2] < q[j][2]

(* Mutant: the search without a transaction forgets its condition. *)
Scanned_NoCondition(t, x, conds) ==
    InOrder({loc \in LocationsOf(t) :
        /\ rows[loc] # NoRow
        /\ x = NoTxn \/ (Visible(x, WriterOf(rows[loc])) /\ AndMatches(conds, rows[loc]))})

(* Table::SearchRecord, by page and slot; NoTxn sees every row. *)
Scanned(t, x, conds) ==
    InOrder({loc \in LocationsOf(t) :
        /\ rows[loc] # NoRow
        /\ x = NoTxn \/ Visible(x, WriterOf(rows[loc]))
        /\ AndMatches(conds, rows[loc])})

ScanAssertFails(t, conds) ==
    \E loc \in LocationsOf(t) : rows[loc] # NoRow /\ AndAssertFails(conds, rows[loc])

(* Index::Range: the entries from low to below high, by key.  It may give  *)
(* up and find nothing when no entry has the key low (BPTree).             *)
Ranges(cond) ==
    LET bag     == entries[<<cond.table, cond.column>>]
        inside  == {e \in DOMAIN bag : InRange(e[1], cond.low, cond.high)}
        copies  == {copy \in inside \X (1..MaxTxn * MaxInserts) : copy[2] <= bag[copy[1]]}
        ordered == {q \in SetToSeqs(copies) : \A i, j \in DOMAIN q :
                        i < j => AtMost(NumberOf(q[i][1][1]), NumberOf(q[j][1][1]))}
    IN  {[i \in DOMAIN q |-> q[i][1][2]] : q \in ordered}
        \union (IF \E e \in inside : e[1] = cond.low THEN {} ELSE {<< >>})

(* A loop over q: what is left of `start' after a Step for each element. *)
Loop(Step(_, _), start, q) ==
    LET after[i \in 0..Len(q)] == IF i = 0 THEN start ELSE Step(after[i-1], q[i])
    IN  after[Len(q)]

Times(q, loc) == Cardinality({i \in DOMAIN q : q[i] = loc})

(* std::set_intersection of the two sorted vectors. *)
Intersection(a, b) ==
    LET both == {p \in (ToSet(a) \X DOMAIN a) :
                    p[2] <= Times(a, p[1]) /\ p[2] <= Times(b, p[1])}
        Before(m, n) == m[1][2] < n[1][2] \/ (m[1][2] = n[1][2] /\ m[2] < n[2])
        q    == CHOOSE p \in SetToSeqs(both) : \A i, j \in DOMAIN p : i < j => Before(p[i], p[j])
    IN  [i \in DOMAIN q |-> q[i][1]]

Intersections(found, c) == {Intersection(a, b) : a \in found, b \in Ranges(c)}

(* With index conditions neither the others nor the transaction count. *)
Searches(t, x, cond) ==
    IF cond.index = << >> THEN {Scanned(t, x, cond.other)}
    ELSE Loop(Intersections, Ranges(Head(cond.index)), Tail(cond.index))

SearchAssertFails(t, cond) == cond.index = << >> /\ ScanAssertFails(t, cond.other)

-----------------------------------------------------------------------------
(* Loops over the locations found.  Their state: the tables, the indexes,  *)
(* and whether an exception has ended the loop.                            *)

Now == [rows |-> rows, entries |-> entries, thrown |-> FALSE]

WithEntries(db, row, loc) ==
    [i \in DOMAIN db.entries |->
        IF i[1] = TableOf(loc) THEN db.entries[i] (+) SetToBag({Entry(i, row, loc)}) ELSE db.entries[i]]

(* Mutant: only the first index of a table is kept up. *)
WithoutEntries_FirstIndex(db, row, loc) ==
    [i \in DOMAIN db.entries |->
        IF i[1] = TableOf(loc) /\ \A j \in DOMAIN db.entries : j[1] = i[1] => i[2] <= j[2]
        THEN db.entries[i] (-) SetToBag({Entry(i, row, loc)}) ELSE db.entries[i]]

WithoutEntries(db, row, loc) ==
    [i \in DOMAIN db.entries |->
        IF i[1] = TableOf(loc) THEN db.entries[i] (-) SetToBag({Entry(i, row, loc)}) ELSE db.entries[i]]

(* An iteration of Delete; a location without a record throws. *)
DeleteRow(db, loc) ==
    IF db.thrown \/ db.rows[loc] = NoRow THEN [db EXCEPT !.thrown = TRUE]
    ELSE [db EXCEPT !.rows[loc] = NoRow, !.entries = WithoutEntries(db, db.rows[loc], loc)]

(* Mutant: the new entries are made of the row before the Transforms. *)
UpdateRow_OldKey(db, loc, trans) ==
    IF db.thrown \/ db.rows[loc] = NoRow THEN [db EXCEPT !.thrown = TRUE]
    ELSE LET old == [db EXCEPT !.entries = WithoutEntries(db, db.rows[loc], loc)]
             row == Stored(Transformed(db.rows[loc], trans), Columns[TableOf(loc)])
         IN  IF TransformsThrow(trans) THEN [old EXCEPT !.thrown = TRUE]
             ELSE [old EXCEPT !.rows[loc] = row, !.entries = WithEntries(old, db.rows[loc], loc)]

(* An iteration of Update: the old entries, the row, the new entries.  A   *)
(* Transform that throws comes between the first and the second.           *)
UpdateRow(db, loc, trans) ==
    IF db.thrown \/ db.rows[loc] = NoRow THEN [db EXCEPT !.thrown = TRUE]
    ELSE LET old == [db EXCEPT !.entries = WithoutEntries(db, db.rows[loc], loc)]
             row == Stored(Transformed(db.rows[loc], trans), Columns[TableOf(loc)])
         IN  IF TransformsThrow(trans) THEN [old EXCEPT !.thrown = TRUE]
             ELSE [old EXCEPT !.rows[loc] = row, !.entries = WithEntries(old, row, loc)]

AllDeleted(found) == Loop(DeleteRow, Now, found)
AllUpdated(found, trans) == Loop(LAMBDA db, loc : UpdateRow(db, loc, trans), Now, found)

-----------------------------------------------------------------------------
(* How a call ends. *)

Outcome(call, end) == [call |-> call, end |-> end]

Becomes(db) == rows' = db.rows /\ entries' = db.entries

Throws(call) ==
    /\ reply' = Outcome(call, "exception")
    /\ UNCHANGED <<tables, txns, alive>>

Dies(call) ==
    /\ alive' = FALSE
    /\ reply' = Outcome(call, "dead")
    /\ UNCHANGED <<tables, txns>>

Init ==
    /\ rows = [loc \in Slots |-> NoRow]
    /\ entries = << >>
    /\ nextTxnID = 0
    /\ activeTxns = {}
    /\ snapshot = [x \in TxnIDs |-> {}]
    /\ insertHistory = [x \in TxnIDs |-> << >>]
    /\ alive = TRUE
    /\ reply = Outcome("Open", "ok")

-----------------------------------------------------------------------------
(* The calls. *)

(* TransactionManager::Begin *)
Begin ==
    /\ alive
    /\ nextTxnID < MaxTxn
    /\ activeTxns' = activeTxns \union {nextTxnID}
    /\ snapshot' = [snapshot EXCEPT ![nextTxnID] = activeTxns']
    /\ nextTxnID' = nextTxnID + 1
    /\ reply' = Outcome("Begin", "ok")
    /\ UNCHANGED <<tables, insertHistory, alive>>

(* Mutant: the transaction's id comes first. *)
RawRow_Front(x, raws) == IF x = NoTxn THEN raws ELSE <<<<"Integer", x>>>> \o raws

(* What Build gets: the values and, with a transaction, its id. *)
RawRow(x, raws) == IF x = NoTxn THEN raws ELSE Append(raws, <<"Integer", x>>)

(* The row at its location and in all indexes of its table. *)
Entered(db, row, loc) ==
    [db EXCEPT !.rows[loc] = row, !.entries = WithEntries(db, row, loc)]

(***************************************************************************)
(* Instance::Insert.  Without a transaction LogInsert reads a null         *)
(* pointer, when the row is already stored.                                *)
(***************************************************************************)
Insert(x, t, raws) ==
    LET raw     == RawRow(x, raws)
        columns == Columns[t]
        row     == Stored(Build(raw, columns), columns)
    IN  /\ alive
        /\ IF t \notin Tables THEN Throws("Insert")
           ELSE IF BuildAssertFails(raw, columns) THEN Dies("Insert")
           ELSE IF BuildThrows(raw, columns) THEN Throws("Insert")
           ELSE IF StoreCrashes(Build(raw, columns), columns) \/ x = NoTxn THEN Dies("Insert")
           ELSE \E loc \in LocationsOf(t) \intersect FreeSlots(rows) :
                   /\ Len(insertHistory[x]) < MaxInserts
                   /\ Becomes(Entered(Now, row, loc))
                   /\ insertHistory' = [insertHistory EXCEPT ![x] = Append(@, loc)]
                   /\ reply' = Outcome("Insert", "ok")
                   /\ UNCHANGED <<nextTxnID, activeTxns, snapshot, alive>>

(* TransactionManager::Commit, with room in the log. *)
Commit(x) ==
    /\ alive
    /\ x \in activeTxns
    /\ activeTxns' = activeTxns \ {x}
    /\ reply' = Outcome("Commit", "ok")
    /\ UNCHANGED <<tables, nextTxnID, snapshot, insertHistory, alive>>

(***************************************************************************)
(* TransactionManager::Abort of a transaction with inserts.  It calls      *)
(* Table::DeleteRecord, which knows of no index: the entries stay.         *)
(***************************************************************************)
Abort(x) ==
    LET history == insertHistory[x]
        stuck   == Stuck(rows, history, DOMAIN history) # {}
    IN  /\ alive
        /\ x \in activeTxns
        /\ history # << >>
        /\ activeTxns' = activeTxns \ {x}
        /\ rows' = DeleteBackward(rows, history, DOMAIN history)
        /\ insertHistory' = IF stuck THEN insertHistory ELSE [insertHistory EXCEPT ![x] = << >>]
        /\ reply' = Outcome("Abort", IF stuck THEN "exception" ELSE "ok")
        /\ UNCHANGED <<entries, nextTxnID, snapshot, alive>>

(* The end of Delete and Update: the state db that their loop over the     *)
(* locations found leaves.                                                 *)
Changed(call, t, cond, found, db) ==
    /\ Becomes(db)
    /\ reply' = [call |-> call, end |-> IF db.thrown THEN "exception" ELSE "ok",
                 table |-> t, cond |-> cond, found |-> found]
    /\ UNCHANGED <<txns, alive>>

(* Instance::Delete and Instance::Update search without the transaction    *)
(* they are given.                                                         *)
Delete(t, cond) ==
    /\ alive
    /\ IF t \notin Tables THEN Throws("Delete")
       ELSE IF SearchAssertFails(t, cond) THEN Dies("Delete")
       ELSE \E found \in Searches(t, NoTxn, cond) :
               Changed("Delete", t, cond, found, AllDeleted(found))

Update(t, cond, trans) ==
    /\ alive
    /\ IF t \notin Tables THEN Throws("Update")
       ELSE IF SearchAssertFails(t, cond) THEN Dies("Update")
       ELSE \E found \in Searches(t, NoTxn, cond) :
               Changed("Update", t, cond, found, AllUpdated(found, trans))

(* The entries of all rows of t for column c. *)
Indexed(t, c) ==
    SetToBag({Entry(<<t, c>>, rows[loc], loc) : loc \in {l \in LocationsOf(t) : rows[l] # NoRow}})

CreateIndex(t, c) ==
    /\ alive
    /\ IF t \notin Tables \/ IsIndex(t, c) THEN Throws("CreateIndex")
       ELSE /\ entries' = [i \in DOMAIN entries \union {<<t, c>>} |->
                              IF i = <<t, c>> THEN Indexed(t, c) ELSE entries[i]]
            /\ reply' = Outcome("CreateIndex", "ok")
            /\ UNCHANGED <<rows, txns, alive>>

(* The rows are taken out of the index one by one before anybody asks      *)
(* whether it exists.                                                      *)
DropIndex(t, c) ==
    /\ alive
    /\ IF t \notin Tables THEN Throws("DropIndex")
       ELSE IF ~IsIndex(t, c) /\ Scanned(t, NoTxn, << >>) # << >> THEN Dies("DropIndex")
       ELSE IF ~IsIndex(t, c) THEN Throws("DropIndex")
       ELSE /\ entries' = [i \in DOMAIN entries \ {<<t, c>>} |-> entries[i]]
            /\ reply' = Outcome("DropIndex", "ok")
            /\ UNCHANGED <<rows, txns, alive>>
=============================================================================
