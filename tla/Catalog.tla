------------------------------- MODULE Catalog -------------------------------
(***************************************************************************)
(* The names of the database: the tables and their columns (TableManager,  *)
(* TablePage), the indexes (IndexManager), their catalog pages, and the    *)
(* life of the files around them (backend/backend.cc).                     *)
(*                                                                         *)
(* A table is its TablePage: its record pages are in TableFile.  An index  *)
(* is a path of pages from its root down to one leaf, so that roots come   *)
(* and go as in BPTree.  Names are numbers, in the order of the strings    *)
(* they stand for; an index name, "table column", is a pair.  What is left *)
(* of one that a record cuts before its space is a pair with NoColumn.     *)
(***************************************************************************)
EXTENDS Naturals, SequencesExt, FiniteSetsExt

CONSTANTS
    TableNames,     \* a set of numbers
    ColumnNames,    \* a set of numbers
    Truncated,      \* the table name that 60 bytes of a table name make
    TruncatedIndex, \* what 124 bytes of an index name make
    NoColumn,       \* the column of what has no space
    Schemas,        \* the sequences of columns that tables are created with
    TxnColumn,      \* the column _txn_id
    PageIDs,        \* the pages that MiniOS can give out
    TableSlots,     \* tables the catalog page holds
    IndexSlots,     \* indexes the catalog page holds
    Null            \* no page

ASSUME NamesAssumption ==
    /\ TableNames \subseteq Nat /\ ColumnNames \subseteq Nat
    /\ Truncated \in [TableNames -> TableNames]
    /\ \A t \in TableNames : Truncated[Truncated[t]] = Truncated[t]
    /\ TxnColumn \in Nat \ ColumnNames
    /\ NoColumn \in Nat \ (ColumnNames \union {TxnColumn})
    /\ \A schema \in Schemas : schema \in Seq(ColumnNames) /\ IsInjective(schema)
ASSUME PagesAssumption ==
    /\ PageIDs \subseteq Nat /\ IsFiniteSet(PageIDs) /\ Null \notin PageIDs
    /\ TableSlots \in Nat /\ IndexSlots \in Nat

Columns == ColumnNames \union {TxnColumn}
IndexNames == TableNames \X Columns
StoredNames == TableNames \X (Columns \union {NoColumn})

ASSUME IndexNamesAssumption ==
    /\ TruncatedIndex \in [IndexNames -> StoredNames]
    /\ \A a \in IndexNames :
        TruncatedIndex[a] \in IndexNames => TruncatedIndex[TruncatedIndex[a]] = TruncatedIndex[a]

VARIABLES
    phase,          \* the files are absent, or left by a process, or an Instance runs, or it died
    page,           \* the used pages and what they hold
    tablePage,      \* the records of the catalog page of the tables
    indexPage,      \* the records of the catalog page of the indexes
    tableIDs,       \* TableManager::_iTableIDMap
    tables,         \* TableManager::_iTableMap
    indexIDs,       \* IndexManager::_iIndexIDMap
    indexes,        \* IndexManager::_iIndexMap, an Index being its root
    tableIndexes,   \* IndexManager::_iTableIndexes
    lossless        \* history: every shutdown so far had room for every name

stored == <<tablePage, indexPage, lossless>>
vars == <<phase, page, stored, tableIDs, tables, indexIDs, indexes, tableIndexes>>

(* A TablePage: the types of its columns, one for each declared column,    *)
(* and the names in its "%" separated string.  A node: the one below.      *)
TablePage == [declared : {s \in Seq(Columns) : IsInjective(s)},
              columns : {s \in Seq(Columns) : IsInjective(s)}]
Node == [below : PageIDs \union {Null}]

(* A Table object: its page, TablePage::_iColMap and _bModified. *)
IsTable(obj) ==
    /\ DOMAIN obj = {"id", "columns", "modified"}
    /\ obj.id \in PageIDs
    /\ DOMAIN obj.columns \subseteq Columns /\ obj.columns \in [DOMAIN obj.columns -> Nat]
    /\ obj.modified \in BOOLEAN

Set(f, key, value) == [k \in DOMAIN f \union {key} |-> IF k = key THEN value ELSE f[k]]
Erase(f, keys) == Restrict(f, DOMAIN f \ keys)

Running == phase = "open"

(* MiniOS::NewPage.  Ids do not matter here: the least unused one is taken. *)
HasPage == DOMAIN page # PageIDs
NewPage == Min(PageIDs \ DOMAIN page)

Init ==
    /\ phase = "none"
    /\ page = << >>
    /\ tablePage = << >> /\ indexPage = << >>
    /\ tableIDs = << >> /\ tables = << >>
    /\ indexIDs = << >> /\ indexes = << >> /\ tableIndexes = << >>
    /\ lossless = TRUE

-----------------------------------------------------------------------------
(* Tables and their columns *)

(* Mutant: the position of a column is that of its name in the alphabet. *)
LoadColumnsString_Sorted(names) ==
    [c \in Range(names) |-> Cardinality({d \in Range(names) : d < c})]

(* LoadColumnsString: a column's position is its place in the string. *)
PlaceOf(name, names) == SelectInSeq(names, LAMBDA d : d = name)
LoadColumnsString(names) == [c \in Range(names) |-> PlaceOf(c, names) - 1]

(* BuildColumnsString: the names by position; std::sort may leave those    *)
(* with the same position in any order.                                    *)
BuildColumnsString(columns) ==
    {names \in SetToSeqs(DOMAIN columns) :
        \A i, j \in DOMAIN names : columns[names[i]] < columns[names[j]] => i < j}

(* TableManager::GetTable, of a table that exists. *)
GetTable(t) ==
    IF t \in DOMAIN tables THEN tables[t]
    ELSE [id |-> tableIDs[t],
          columns |-> LoadColumnsString(page[tableIDs[t]].columns),
          modified |-> FALSE]

Exists(t) == t \in DOMAIN tableIDs

(* TablePage::GetPos of the columns: `_iColMap[sCol]' makes an entry, at   *)
(* position 0, for a name that is not a column.                            *)
GetPos(obj, cols) ==
    [obj EXCEPT !.columns = [c \in DOMAIN @ \union cols |->
                                IF c \in DOMAIN @ THEN @[c] ELSE 0]]

(* Instance::CreateTable.  A second table of a name is refused, after      *)
(* GetTable has opened the first.                                          *)
CreateTable(t, schema, useTxn) ==
    LET cols == IF useTxn THEN Append(schema, TxnColumn) ELSE schema
        new  == [id |-> NewPage, columns |-> LoadColumnsString(cols), modified |-> FALSE]
    IN  /\ Running
        /\ \/ /\ ~Exists(t)
              /\ HasPage
              /\ page' = Set(page, NewPage, [declared |-> cols, columns |-> cols])
              /\ tables' = Set(tables, t, new)
              /\ tableIDs' = Set(tableIDs, t, NewPage)
           \/ /\ Exists(t)
              /\ tables' = Set(tables, t, GetTable(t))
              /\ UNCHANGED <<page, tableIDs>>
        /\ UNCHANGED <<phase, stored, indexIDs, indexes, tableIndexes>>

(* Instance::GetColID, GetColType and GetColSize, with which every clause  *)
(* that names a column begins.                                             *)
LookUp(t, c) ==
    /\ Running
    /\ Exists(t)
    /\ tables' = Set(tables, t, GetPos(GetTable(t), {c}))
    /\ UNCHANGED <<phase, page, stored, tableIDs, indexIDs, indexes, tableIndexes>>

(* An insert that adds a record page moves the tail: the TablePage will be *)
(* written when the Table object goes (TablePage::SetTailID).              *)
SetTailID(t) ==
    /\ Running
    /\ Exists(t)
    /\ tables' = Set(tables, t, [GetTable(t) EXCEPT !.modified = TRUE])
    /\ UNCHANGED <<phase, page, stored, tableIDs, indexIDs, indexes, tableIndexes>>

-----------------------------------------------------------------------------
(* Indexes *)

IsIndex(name) == name \in DOMAIN indexIDs

(* IndexManager::GetIndex, of an index that exists: its root. *)
GetIndex(name) == IF name \in DOMAIN indexes THEN indexes[name] ELSE indexIDs[name]

IsNode(d, p) == p \in DOMAIN d /\ d[p] \in Node

Descends(d, S) == \A p \in S : IsNode(d, p) /\ d[p].below \in DOMAIN d => d[p].below \in S

(* The pages of an index, which Index::Clear frees: those that are reached *)
(* from the root, being in every set that has it and goes on to the leaf.  *)
Tree(d, root) ==
    LET used == DOMAIN d \union {root}
    IN  {p \in used : \A S \in SUBSET used : root \in S /\ Descends(d, S) => p \in S}

(* ALTER TABLE ADD INDEX: SystemVisitor asks for the column's type, then   *)
(* Instance::CreateIndex and IndexManager::AddIndex.                       *)
CreateIndex(t, c) ==
    /\ Running
    /\ Exists(t)
    /\ tables' = Set(tables, t, GetPos(GetTable(t), {c}))
    /\ \/ /\ ~IsIndex(<<t, c>>)
          /\ HasPage
          /\ page' = Set(page, NewPage, [below |-> Null])
          /\ indexIDs' = Set(indexIDs, <<t, c>>, NewPage)
          /\ indexes' = Set(indexes, <<t, c>>, NewPage)
          /\ tableIndexes' = Set(tableIndexes, t,
                IF t \in DOMAIN tableIndexes THEN Append(tableIndexes[t], c) ELSE <<c>>)
       \/ /\ IsIndex(<<t, c>>)
          /\ UNCHANGED <<page, indexIDs, indexes, tableIndexes>>
    /\ UNCHANGED <<phase, stored, tableIDs>>

(* A split or a merge of the root (Index::Insert, Index::Delete), by which *)
(* the Index object's _nRootID changes and nothing else does.              *)
MoveRoot(t, c) ==
    LET root == GetIndex(<<t, c>>)
    IN  /\ Running
        /\ IsIndex(<<t, c>>)
        /\ \/ /\ HasPage
              /\ page' = Set(page, NewPage, [below |-> root])
              /\ indexes' = Set(indexes, <<t, c>>, NewPage)
           \/ /\ page[root].below # Null
              /\ page' = Erase(page, {root})
              /\ indexes' = Set(indexes, <<t, c>>, page[root].below)
        /\ UNCHANGED <<phase, stored, tableIDs, tables, indexIDs, tableIndexes>>

(* Mutant: the last index of a table leaves an empty list. *)
DropIndexes_EmptyList(t, cols, rest) ==
    /\ indexIDs' = Erase(indexIDs, {t} \X cols)
    /\ indexes' = Erase(indexes, {t} \X cols)
    /\ tableIndexes' = IF cols = {} THEN tableIndexes ELSE [tableIndexes EXCEPT ![t] = rest]

(* Mutant: the id map keeps the name. *)
DropIndexes_KeepsID(t, cols, rest) ==
    /\ UNCHANGED indexIDs
    /\ indexes' = Erase(indexes, {t} \X cols)
    /\ tableIndexes' = IF rest = << >> THEN Erase(tableIndexes, {t})
                       ELSE [tableIndexes EXCEPT ![t] = rest]

(* IndexManager::DropIndex of the indexes of table t on the columns, after *)
(* which the list of the table's indexes is the rest.                      *)
DropIndexes(t, cols, rest) ==
    /\ indexIDs' = Erase(indexIDs, {t} \X cols)
    /\ indexes' = Erase(indexes, {t} \X cols)
    /\ tableIndexes' = IF rest = << >> THEN Erase(tableIndexes, {t})
                       ELSE [tableIndexes EXCEPT ![t] = rest]

(***************************************************************************)
(* Instance::DropIndex deletes the pair of each row, through GetPos and    *)
(* GetIndex, before IndexManager::DropIndex looks whether there is such an *)
(* index: when there is none and the table has rows, GetIndex returns a    *)
(* null pointer and the process dies.                                      *)
(***************************************************************************)
DropIndex(t, c, hasRows) ==
    /\ Running
    /\ Exists(t)
    /\ tables' = Set(tables, t, IF hasRows THEN GetPos(GetTable(t), {c}) ELSE GetTable(t))
    /\ \/ /\ IsIndex(<<t, c>>)
          /\ page' = Erase(page, Tree(page, GetIndex(<<t, c>>)))
          /\ DropIndexes(t, {c}, RemoveFirst(tableIndexes[t], c))
          /\ UNCHANGED phase
       \/ /\ ~IsIndex(<<t, c>>)
          /\ phase' = IF hasRows THEN "dead" ELSE phase
          /\ UNCHANGED <<page, indexIDs, indexes, tableIndexes>>
    /\ UNCHANGED <<stored, tableIDs>>

(* Instance::DropTable: the indexes of the name go first, also when there  *)
(* is no such table and TableManager::DropTable throws.                    *)
DropTable(t) ==
    LET cols  == IF t \in DOMAIN tableIndexes THEN Range(tableIndexes[t]) ELSE {}
        trees == UNION {Tree(page, GetIndex(<<t, c>>)) : c \in cols}
    IN  /\ Running
        /\ DropIndexes(t, cols, << >>)
        /\ page' = Erase(page, trees \union (IF Exists(t) THEN {tableIDs[t]} ELSE {}))
        /\ tableIDs' = Erase(tableIDs, {t})
        /\ tables' = Erase(tables, {t})
        /\ UNCHANGED <<phase, stored>>

(* The order of the index names, as strings. *)
Before(a, b) == a[1] < b[1] \/ (a[1] = b[1] /\ a[2] < b[2])

(* SHOW INDEXES (Instance::GetIndexInfos) looks the column of every index  *)
(* up, and throws at the first whose table is missing.                     *)
ShowIndexes ==
    LET shown == {a \in DOMAIN indexIDs :
                    \A b \in DOMAIN indexIDs : b = a \/ Before(b, a) => Exists(b[1])}
    IN  /\ Running
        /\ tables' = [t \in DOMAIN tables \union {a[1] : a \in shown} |->
                        GetPos(GetTable(t), {a[2] : a \in {b \in shown : b[1] = t}})]
        /\ UNCHANGED <<phase, page, stored, tableIDs, indexIDs, indexes, tableIndexes>>

-----------------------------------------------------------------------------
(* The life of the files *)

(* What a std::map iterates over: each key has those before it below it. *)
Enumerated(below) ==
    [i \in 1..Cardinality(DOMAIN below) |->
        CHOOSE x \in DOMAIN below : Cardinality(below[x]) = i - 1]

Ascending(numbers) == Enumerated([a \in numbers |-> {b \in numbers : b < a}])
InOrder(names) == Enumerated([a \in names |-> {b \in names : Before(b, a)}])

(* Mutant: the page is taken for one record larger. *)
Filled_OneMore(records, slots) == SubSeq(records, 1, Min({slots + 1, Len(records)}))

(* RecordPage::Clear, then RecordPage::InsertRecord of one record after    *)
(* the other: what comes when the page is full is not stored.              *)
Filled(records, slots) == SubSeq(records, 1, Min({slots, Len(records)}))

(* Mutant: the roots that the Index objects have moved are not looked at. *)
IndexRecords_OldRoots == [i \in 1..Cardinality(DOMAIN indexIDs) |->
    LET name == InOrder(DOMAIN indexIDs)[i] IN <<TruncatedIndex[name], indexIDs[name]>>]

(* IndexManager::Store: the roots of the open indexes, then every index,   *)
(* by as much of its name as StringField::GetData puts in 124 bytes.       *)
IndexRecords == [i \in 1..Cardinality(DOMAIN indexIDs) |->
    LET name == InOrder(DOMAIN indexIDs)[i] IN <<TruncatedIndex[name], GetIndex(name)>>]

(* Mutant: newest pages first. *)
TableRecords_ByID ==
    LET byID == Enumerated([a \in DOMAIN tableIDs |->
                                {b \in DOMAIN tableIDs : tableIDs[b] > tableIDs[a]}])
    IN  [i \in DOMAIN byID |-> <<Truncated[byID[i]], tableIDs[byID[i]]>>]

(* TableManager::Store *)
TableRecords ==
    LET byName == Ascending(DOMAIN tableIDs)
    IN  [i \in DOMAIN byName |-> <<Truncated[byName[i]], tableIDs[byName[i]]>>]

(* TableManager::Load and IndexManager::Load: of two records of one name   *)
(* the later one stays.                                                    *)
Loaded(records) ==
    [name \in {r[1] : r \in Range(records)} |->
        records[SelectLastInSeq(records, LAMBDA r : r[1] = name)][2]]

(* IndexManager::Init *)
IndexesByTable(ids) ==
    [t \in {name[1] : name \in DOMAIN ids} |->
        Ascending({name[2] : name \in {n \in DOMAIN ids : n[1] = t}})]

(* thdb_init *)
InitFiles ==
    /\ phase = "none"
    /\ phase' = "closed"
    /\ UNCHANGED <<page, stored, tableIDs, tables, indexIDs, indexes, tableIndexes>>

(* thdb_clear *)
ClearFiles ==
    /\ phase = "closed"
    /\ phase' = "none"
    /\ page' = << >>
    /\ tablePage' = << >> /\ indexPage' = << >>
    /\ lossless' = TRUE
    /\ UNCHANGED <<tableIDs, tables, indexIDs, indexes, tableIndexes>>

(* SplitIndexName asserts it of every name that is loaded. *)
HasSpace(name) == name[2] # NoColumn

(* new Instance; the process dies of an index name that has no space. *)
Open ==
    /\ phase = "closed"
    /\ \/ /\ \A name \in DOMAIN Loaded(indexPage) : HasSpace(name)
          /\ phase' = "open"
          /\ tableIDs' = Loaded(tablePage)
          /\ indexIDs' = Loaded(indexPage)
          /\ tableIndexes' = IndexesByTable(indexIDs')
       \/ /\ \E name \in DOMAIN Loaded(indexPage) : ~HasSpace(name)
          /\ phase' = "dead"
          /\ UNCHANGED <<tableIDs, indexIDs, tableIndexes>>
    /\ UNCHANGED <<page, stored, tables, indexes>>

(* The Table objects that write their columns when they go, which they     *)
(* have built as the names say (TablePage::Store).                         *)
Modified == {t \in DOMAIN tables : tables[t].modified}
Stored(names) ==
    [p \in DOMAIN page |->
        IF \E t \in Modified : tables[t].id = p
           THEN [declared |-> page[p].declared,
                 columns  |-> names[CHOOSE t \in Modified : tables[t].id = p]]
           ELSE page[p]]

(* delete pDB and Close(): the catalog pages are written, and each Table   *)
(* object whose page is modified writes its columns (TablePage::Store).    *)
Shutdown ==
    /\ Running
    /\ phase' = "closed"
    /\ tablePage' = Filled(TableRecords, TableSlots)
    /\ indexPage' = Filled(IndexRecords, IndexSlots)
    /\ lossless' = /\ lossless
                   /\ Len(TableRecords) <= TableSlots /\ Len(IndexRecords) <= IndexSlots
                   /\ \A t \in DOMAIN tableIDs : Truncated[t] = t
                   /\ \A a \in DOMAIN indexIDs : TruncatedIndex[a] = a
    /\ \E names \in [Modified -> UNION {BuildColumnsString(tables[t].columns) : t \in Modified}] :
        /\ \A t \in Modified : names[t] \in BuildColumnsString(tables[t].columns)
        /\ page' = Stored(names)
    /\ tableIDs' = << >> /\ tables' = << >>
    /\ indexIDs' = << >> /\ indexes' = << >> /\ tableIndexes' = << >>

Next ==
    \/ InitFiles \/ ClearFiles \/ Open \/ Shutdown \/ ShowIndexes
    \/ \E t \in TableNames :
        \/ \E schema \in Schemas, useTxn \in BOOLEAN : CreateTable(t, schema, useTxn)
        \/ DropTable(t)
        \/ SetTailID(t)
        \/ \E c \in ColumnNames :
            \/ LookUp(t, c) \/ CreateIndex(t, c) \/ MoveRoot(t, c)
            \/ \E hasRows \in BOOLEAN : DropIndex(t, c, hasRows)

Spec == Init /\ [][Next]_vars
-----------------------------------------------------------------------------
(* Correctness *)

(* Every variable keeps its type; objects belong to names, and the catalog *)
(* pages hold no more records than they have room for.                     *)
TypeOK ==
    /\ phase \in {"none", "closed", "open", "dead"} /\ lossless \in BOOLEAN
    /\ DOMAIN page \subseteq PageIDs
    /\ \A p \in DOMAIN page : page[p] \in Node \/ page[p] \in TablePage
    /\ tablePage \in Seq(TableNames \X PageIDs) /\ Len(tablePage) <= TableSlots
    /\ indexPage \in Seq(StoredNames \X PageIDs) /\ Len(indexPage) <= IndexSlots
    /\ DOMAIN tableIDs \subseteq TableNames /\ tableIDs \in [DOMAIN tableIDs -> PageIDs]
    /\ DOMAIN indexIDs \subseteq IndexNames /\ indexIDs \in [DOMAIN indexIDs -> PageIDs]
    /\ DOMAIN tables \subseteq DOMAIN tableIDs /\ \A t \in DOMAIN tables : IsTable(tables[t])
    /\ DOMAIN indexes \subseteq DOMAIN indexIDs /\ indexes \in [DOMAIN indexes -> PageIDs]
    /\ DOMAIN tableIndexes \subseteq TableNames
    /\ tableIndexes \in [DOMAIN tableIndexes -> Seq(Columns)]

(* The tables and indexes by name, in memory or, between two processes, in *)
(* the catalog pages; an index is known by its root.                       *)
KnownTables == IF phase = "closed" THEN Loaded(tablePage) ELSE tableIDs
KnownIndexes == IF phase = "closed" THEN Loaded(indexPage)
                ELSE [name \in DOMAIN indexIDs |-> GetIndex(name)]

(* A name leads to a page in use, of its kind, and to no page of another   *)
(* name: also when the catalog has lost names, or cut them.                *)
NamesLeadToTheirPages ==
    /\ \A t \in DOMAIN KnownTables :
        LET id == KnownTables[t]
        IN  /\ id \in DOMAIN page /\ "declared" \in DOMAIN page[id]
            /\ t \in DOMAIN tables => tables[t].id = id
            /\ \A u \in DOMAIN KnownTables \ {t} : KnownTables[u] # id
    /\ \A a \in DOMAIN KnownIndexes :
        /\ \A p \in Tree(page, KnownIndexes[a]) : IsNode(page, p)
        /\ \A b \in DOMAIN KnownIndexes \ {a} :
            Tree(page, KnownIndexes[a]) \intersect Tree(page, KnownIndexes[b]) = {}

(* The list of a table's indexes, by which rows are entered and DropTable  *)
(* works, and the map by which the front end decides to use an index, tell *)
(* the same.                                                               *)
IndexListsAgree ==
    Running =>
        /\ \A t \in TableNames, c \in Columns :
            <<t, c>> \in DOMAIN indexIDs
                <=> t \in DOMAIN tableIndexes /\ c \in Range(tableIndexes[t])
        /\ \A t \in DOMAIN tableIndexes : tableIndexes[t] # << >> /\ IsInjective(tableIndexes[t])

(* As long as no shutdown has met a catalog page that was too small or a   *)
(* name, of a table or of an index, that was too long, every used page     *)
(* belongs to a name and every index to a table.                           *)
NothingIsLost ==
    phase # "dead" /\ lossless =>
        /\ DOMAIN page = Range(KnownTables)
                \union UNION {Tree(page, KnownIndexes[a]) : a \in DOMAIN KnownIndexes}
        /\ \A a \in DOMAIN KnownIndexes : a[1] \in DOMAIN KnownTables

(* A shutdown and a start keep the tables and indexes that the pages have  *)
(* room for, in the order of their names, under their ids and roots: those *)
(* of a name that is neither cut nor what a longer one is cut to.  (A      *)
(* start that dies of an index name keeps nothing.)                        *)
RestartsKeepNames ==
    [][phase' # phase /\ {phase, phase'} = {"open", "closed"} =>
        /\ \A t \in DOMAIN KnownTables :
            (/\ Cardinality({u \in DOMAIN KnownTables : u <= t}) <= TableSlots
             /\ \A u \in DOMAIN KnownTables : u = t <=> Truncated[u] = t)
                => t \in DOMAIN KnownTables' /\ KnownTables'[t] = KnownTables[t]
        /\ \A a \in DOMAIN KnownIndexes :
            (/\ PlaceOf(a, InOrder(DOMAIN KnownIndexes)) <= IndexSlots
             /\ \A b \in DOMAIN KnownIndexes : b = a <=> TruncatedIndex[b] = a)
                => a \in DOMAIN KnownIndexes' /\ KnownIndexes'[a] = KnownIndexes[a]]_vars

(* The declared columns of a table stay known and in their order, whatever *)
(* names are looked up in it; and as long as the map has no other name,    *)
(* each is at the position of its field in the record (instance.cc:320).   *)
ColumnsKeepTheirOrder ==
    \A t \in DOMAIN tableIDs :
        LET columns  == GetTable(t).columns
            declared == page[tableIDs[t]].declared
        IN  /\ Range(declared) \subseteq DOMAIN columns
            /\ \A i, j \in DOMAIN declared : i < j => columns[declared[i]] < columns[declared[j]]
            /\ DOMAIN columns = Range(declared)
                => \A i \in DOMAIN declared : columns[declared[i]] = i - 1
=============================================================================
