# A TLA+ model of dbtrain

dbtrain is a small single-threaded relational database: an SQL front end, records and B+ tree
indexes over 4 KB pages, a simulated operating system that keeps the pages, multi-version
transactions and a log. This directory holds TLA+ modules for its core, the TLC runs that
check them on small instances, and proofs checked by TLAPS.

Run a model with `tlc -workers 2 -config MCMiniOS.cfg MCMiniOS`, check a proof with
`tlapm MiniOSProofs.tla`. `PROJECT.json` lists the runs, maps each definition to the lines it
models, and lists the hazards, the disagreements found and the theorems.

## The system

| part | state | operations | talks to |
|---|---|---|---|
| MiniOS (`minios/`) | pages in memory, used-bitmap, clock; files THDB_BITMAP and THDB_PAGE | NewPage, DeletePage, ReadPage, WritePage, WriteBack, load | everyone below calls the singleton |
| pages (`page/`) | header links, slot bitmap, records; table page: head, tail, columns | PushBack, InsertRecord, DeleteRecord, UpdateRecord; destructors write back | MiniOS |
| Table (`table/`) | cached head, tail, `_nNotFull` | InsertRecord, DeleteRecord, UpdateRecord, SearchRecord, Clear | pages |
| TableManager | name to page id, name to Table object; catalog page 2 | GetTable, AddTable, DropTable, Store, Load | Table |
| Index, BPTreeNode, overflow pages | root id, key type; keys, children, overflow chains, links | Insert, Delete, Update, Range, Clear | MiniOS |
| IndexManager | name to root, name to Index, table to columns; catalog page 3 | GetIndex, AddIndex, DropIndex, Store, Load | Index |
| TransactionManager, Transaction | next id, active ids; snapshot and insert history | Begin, Commit, Abort, LogInsert | LogPage, Table |
| LogPage, RecoveryManager | lines of one page | log, getLogs; Redo, Undo | Table |
| Instance | the four managers | Insert, Delete, Update, Search, Join, DDL | all managers |
| conditions, records, fields | values | Match, Build, Store, Load, compare | called by Table and Instance |
| SQL parser (`parser/SQL*.cc`, generated) | none | one function per rule | SQL front end |
| SQL front end (`parser/SystemVisitor.cc`) | the statements of the line | one or several calls of Instance per statement | Instance |
| backend (`backend/`) | the files | Init, Clear, Close, Execute | MiniOS, parser, front end |

All interaction is by calls in one thread. What is hard is therefore not scheduling but
*sequences*: transactions interleave between calls and see each other's rows in place; objects
cache what other objects over the same pages change (`_nNotFull`, tails, roots, ids); destructors
are the moment of persistence; an exception leaves a call half done and the program goes on;
MiniOS runs out of pages; catalog pages run out of room; the process ends at any time, also
between the two files of a WriteBack; recovery reads a log that nobody ever cleans; and WHERE
clauses pass through doubles, sentinels and casts on their way to an interval of keys.

What makes each part correct:

- MiniOS: an id is given out once until it is deleted; a free page is found if there is one; a
  finished WriteBack is what the next process finds, under the same ids.
- Record layer: the pages of a table are one doubly linked chain, no page is in two tables or in
  none, the cached tail is the last page, the page for the next insert has room, and a table is
  a map from locations to rows that only its own calls change.
- Transactions: atomic abort and recovery, durable commits, repeatable reads, no phantoms.
- Index: a multimap from keys to locations, `Range` its restriction to an interval; balanced,
  ordered, linked.
- Catalogs: a restart finds the names, ids, roots and columns of before; every page in use
  belongs to a name; the lists of indexes agree.
- Instance: an index entry for each row and none besides; a search by index finds what a scan does.
- Parser and front end: a line is understood as it was written; SELECT,
  DELETE and UPDATE touch the rows SQL says, a join returns the pairs of equal keys; the interval of
  an operator is that of its meaning.

## Modules

| module | models | kind |
|---|---|---|
| `Allocation` | the bitmap scan of `MiniOS::NewPage` | operators |
| `OrderProofs` | least and greatest elements, induction up to a number, ranks, loops | lemmas |
| `PageStore` | what MiniOS promises | abstract specification |
| `MiniOS` | `minios/os.cc` | implements `PageStore` |
| `MiniOSProofs` | `Allocation`, `MiniOS` | proofs |
| `TableStore` | what the record layer promises | abstract specification |
| `TableFile` | `table/`, `page/` (record, table, linked pages), the pointers of TableManager | implements `TableStore` |
| `TableFileProofs` | `TableFile` | proofs |
| `Heap` | a table as the transaction layer sees it | operators |
| `SnapshotStore` | what transactions promise (doc/Lab4, doc/Lab5) | abstract specification |
| `Transactions` | TransactionManager, Transaction, LogPage, RecoveryManager, and Instance above them | implements `SnapshotStore` |
| `TransactionsProofs` | `Transactions` | proofs |
| `Multimap` | what an index promises | abstract specification |
| `BPTreeNode` | one node and its neighbours: split, loan, merge | operators |
| `BPTree` | `index/index.cc`, `page/bptree_page/` | implements `Multimap` |
| `BPTreeShape` | `BPTree`: order, balance and links through every operation on nodes | proofs |
| `BPTreeProofs` | `BPTree`: overflow pages, pairs, the calls, ranges | proofs |
| `Catalog` | TableManager, IndexManager, columns of TablePage, `backend/` | state machine |
| `CatalogProofs` | `Catalog` | proofs |
| `Parser` | `parser/SQLParser.cc`: a function per rule from tokens to trees | operators |
| `Conditions` | `condition/`, `field/compare.cc`, the intervals of SystemVisitor | operators |
| `Records` | `record/`, `field/`: Build, Store and Load, Transform | operators |
| `Database` | Instance over rows, index entries and transactions | actions, on `Records` and `Heap` |
| `Sessions` | clients that call Instance | composes `Database` with transactions |
| `Query` | SystemVisitor, `Execute`, Instance::Join | composes `Parser` and `Database` |
| `DatabaseProofs` | `Conditions`, `Database`, `Sessions`, `Query` | proofs |
| `MC*` | constants, symmetry, views | instances for TLC |

**MiniOS.** `memory` is the function from the used pages to their contents, so `DOMAIN memory`
is `_pUsed`. `WriteBack` is two steps, `StoreBitmap` and `StorePages`; `Die` may come before,
between them or inside the second, which leaves a prefix of the pages in THDB_PAGE. The bitmap
file is 32 KB written by one call and treated as written or not. `Load` models `LoadPages` as
written: its buffer keeps the last page where the file is short, and is uninitialised where the
file is empty. A page without an object (a bitmap file without a page file) is `Null`, and the
process dies on it.

**TableFile.** `disk` holds record pages and table pages, `tableID` and `handle` are
`_iTableIDMap` and `_iTableMap`. An operator per member function (`PushBack`, `NextNotFull`,
`InsertRecord`, ...) maps a record of disk, clock, Table object and "NewPage threw" to the next
one; an action is a call of TableManager or Instance and all it causes. The five system pages are
left out: they are always in use. `RollBack` is the Table object of Abort (destroyed) or Undo
(leaked), beside the one of TableManager. `Exhausts` admits calls that fail because MiniOS is full.
C++11 does not order the two sides of `map[k] = new T`, so an object whose constructor throws may
leave a null entry: both outcomes are allowed.

**Transactions.** A row is its writer and its place among the writer's inserts; `rows` maps
locations to rows. `phase` tells a live Instance from the steps of a restart and from the ways
the process ends (the assertion of the log page, a null transaction, an unset table id). `Abort` and
`Undo` go through `Heap!DeleteBackward`: deletion stops at the first empty location, which throws.
`Deletes` admits Instance::Delete, `StaleRestarts` admits a shutdown while the log has lines of an
aborted transaction; the properties that need these to be false say so by the run.

**BPTree.** A node's three vectors `_iKeyVec`, `_iChildVec`, `_iOverflowVec` always move together
and are one sequence of entries. Its keys are sorted, so the two binary searches are counts. Every
member function of Index and of its pages is an operator from one tree (pages, root) to the next;
the recursions over levels (`SolveOverflow`, `SolveUnderflow`, the descents, `ClearInner`) are loops
here, one step per level (`OverflowStep`, `UnderflowStep`, `DownStep`, `LevelStep`), which `Loop`
runs to a bound no tree reaches; the work on one level is in `BPTreeNode`. An action is one call of Index, or Instance::CreateIndex. Ids do not matter to a tree:
nodes are numbered from 0 up and overflow pages from -1 down. NewPage succeeds. `Update` and the
deletion of a whole key are public and modelled, though nothing in `src/` calls them yet. `Clear` is
IndexManager::DropIndex, which has no other way to be called. Clients insert a pair only while it is
absent, as Instance does as long as no Abort leaves a stale entry behind (`Database`).

**Catalog.** Names are numbers in the order of the strings, which is the order of the maps and so
that of the records in a catalog page. `page` maps the used pages to what they hold: a table page
with its declared columns and the names in its "%" string, or a node of an index. A tree is the
path from its root to one leaf, enough for a root to move up and down (`MoveRoot`, as BPTree does
it); `Tree` is the least set of pages that holds the root and is closed under links, and the
iteration over a map, in the order of its names, is `Enumerated`, which counts the names before. `GetPos` is `operator[]` of a map: a look-up of an unknown column enters it at position 0,
and a page that is written afterwards (`SetTailID`, then `Shutdown`) keeps it. `Filled` is a page
that takes what it has room for. `Truncated` is the table name that is left of a long one in 60
bytes, `TruncatedIndex` what 124 bytes leave of an index name "table column": two may become one,
a column may become a shorter one, and a table name that fills the bytes leaves no space
(`NoColumn`), on which SplitIndexName asserts at every later start (`HasSpace`, the second outcome
of `Open`).
`lossless` is a history variable: no shutdown so far met a page or a name too small. `InitFiles`,
`ClearFiles`, `Open` and `Shutdown` are thdb_init, thdb_clear and the life of an Instance; the
crash between the two files is in `MiniOS`.

**Parser.** A line is a sequence of tokens `<<type, n>>`; each rule of the grammar is an operator
from a place in the line to the next place and a tree, 0 where the parser reports an error. The
`Lexed` of a line is what the lexer leaves. Where no token begins it reports, forgets what it has
read since the last token and skips one more character: of `-5;` nothing is left, of `-SELECT` the
name `ELECT` (`Beheaded`).
`ProgramText` is the inverse, from a tree to its tokens; it is not code but the meaning
`LinesAreUnderstood` compares with.

**Conditions, Records.** A number is a pair of a whole part and of `Unit` parts of 1, so that int,
double, EPOSILO, DBL_MIN and the casts between them are told apart with small integers. A string is
its length. `Match` and `AssertFails` are the two ways a condition ends; `BuildThrows`,
`StoreCrashes`, `TransformsThrow` the ways a record does.

**Database.** A location is `<<table, slot>>`, an index a bag of `<<key, location>>`. `Searches`
is Instance::Search: a scan, or the `Range` of each index condition, intersected, where `Range` is
the contract of `Multimap` with the early end that `range_misses` shows. `Loop` is a loop over a
vector as a recursive function: `DeleteRow` and `UpdateRow` step from one record of rows, entries
and "an exception has ended the loop" to the next, so that what an iteration did before the
exception stays. `reply` is how a call ended and is read by no call. Columns have names of their
own and the last one is an INT, as `CreateTable` with useTxn makes them; the clients of `Sessions`
name columns that every table has and set no `_txn_id`, though visitSet_clause would let them.

**Query.** `pending` is what is left of the line. `ReadLine` is Execute up to the visitor, each
action of `Visit` one call of the visitor; ALTER takes a step for each column. Names of
`Statement` kinds are the grammar's. What a statement throws or crashes on comes in the code's
order: WHERE is visited first, then the number of its tables asserted, then the table looked up.
A table that is named twice in FROM is searched twice, the second time by conditions that are
deleted already (`ReadsDeleted`): the answer or the end of the process. Join looks only at the
table on the left of the first join condition (`JoinPos`), and Table::GetPos gives an unknown
column the place of the first (`PosOf`).

## Runs

| run | question | instance | states, time |
|---|---|---|---|
| `txn_clean` | atomicity, durability, isolation, implements SnapshotStore, for clients that do not delete and restarts on a clean log | 3 transactions, 3 slots, 6 log lines | 137 k, 10 s |
| `txn_any` | types and no phantoms for any clients | 3 transactions, 2 slots, 5 log lines | 3.1 M, 40 s |
| `minios` | implements PageStore, finds every free page | 3 pages, 2 contents | 30 k, 4 s |
| `table` | chains, tails, room, no lost page, implements TableStore | 4 pages of 2 records, 2 tables | 6 k, 90 s |
| `table_full` | chains survive exhaustion | the same, `Exhausts` | 32 k, 130 s |
| `bptree_nodes` | ordered, balanced and linked nodes, exact calls | 10 keys of one row, nodes of 3 entries | 67 k, 100 s |
| `bptree_pairs` | types, no lost page, overflow chains, `Range`, implements Multimap | 5 keys, two with several rows, overflow pages of 1 | 8 k, 45 s |
| `catalog` | names, roots, columns and index lists over creations, drops and restarts | 3 names (one too long), 2 columns, 3 pages, index names cut, room for 2 tables and 2 indexes | 188 k, 34 s |
| `database` | index entries and searches under interleaved transactions | 1 table of 3 columns and 2 rows, 2 transactions of 2 inserts, 2 comparisons, an Update that throws | 70 k, 70 s |
| `query` | lines of SQL understood, answered and compared as SQL says | 2 tables of 2 and 3 rows, 50 fillings, 40 lines | 20 k, 30 s |

Why the bounds are enough: three transactions give an older, a middle and a younger one, so that
every order of beginning, committing and aborting around a snapshot occurs; three slots let a
freed slot be reused while two are held; the log is long enough for an abort, a reuse and a
restart. Three pages let the clock wrap over a hole; two contents tell pages apart. Four pages of
two records hold two tables at once, or one with a chain of three pages whose ids are not in
order; two tables exchange pages through DropTable. Rows are symmetric, and so are names and
slots. Nodes of three entries are the smallest for which a half-full node is not a nearly empty
one; ten keys fill three levels of them, so that inner nodes split, lend, merge and move their
children, the root grows and goes, and every shape that insertions and deletions in any order
produce is visited. With overflow pages of one location the third row of a key makes a chain of
two, whose first page can be empty while the second is not.

The catalog has one table name more than its page has room for, one that is cut to another, an
index name that is cut to another and one that loses its space, so each way of losing a name
happens but one: with three pages no third index fits in beside its table, and a full page of
indexes is left to the theorems. A restart may come at any place. In `database` a slot is filled, deleted and filled again while a transaction that saw the
first row is active, one row has a key twice, and two indexes are kept. In `query` the rows cover
empty and full sides of a join, equal keys on the left and on the right, right rows without a
partner, and a side that is hashed (`HashFrom` stands for 1024); the lines have each kind of
statement, each operator, one and two conditions, conditions on another table, wrong tables, wrong
values, NULL, a comment and an empty statement before another. The parser is checked with each of
these lines and with every line that differs by one token left out, doubled or moved.

`View` in three MC modules leaves out what no action reads: the outcome of the call before, what is
known of transactions that are over, and whether an object of a manager has been built already. The
action properties read the primed outcome, which is evaluated for every step.

Deadlock is checked except in the transaction and catalog runs, in `database` and in `query`,
where ids run out and a process that has died takes no step.

No liveness property is checked and no fairness assumed: nothing runs unless a client calls, no
call waits for another, every call is one step (or one per statement of a line), and that loops
within a call end is implied by the operators that stand for them (a scan visits each page once).

Runs that find a disagreement between the code and what its documents, comments or
assertions say (details in `PROJECT.json`, findings):

| run | what happens |
|---|---|
| `undo_aborted` | Undo rolls back an aborted transaction again and deletes a committed row in the reused slot |
| `range_misses` | a range that starts between two leaves finds nothing, though the next leaf has keys in it |

Others show in the modules and have no run of their own; the properties name the cases they leave
out:

- A Delete by one transaction takes rows out of another's snapshot, and Undo stops at the first
  empty location and leaves later lines standing: this is why the atomicity and isolation
  properties of `txn_clean` are stated for `Deletes = FALSE`.
- `LogPage::Full` compares the number of lines with the size of a line (log_page.cc:54): the 21st
  line ends the process (`phase` in Transactions).
- A table whose object cannot be built for want of pages may keep a null entry in `_iTableMap`
  (`Broken`), after which AddTable takes it for absent: under `Exhausts` pages can be lost. After
  a NewPage that threw within NextNotFull, an insert returns slot -1 and stores nothing. So
  `table_full` checks only the chains of the tables that remain.
- A catalog page that is full drops names at the next shutdown, a table name of more than 60
  bytes or an index name of more than 124 is cut and may meet another, and an index whose table was
  forgotten is inherited by the next table of that name. `NothingIsLost` and `RestartsKeepNames`
  are stated up to there. An index name cut before its space ends the process at every later start.
- A look-up of an unknown column enters it at position 0 and may be written to the page, which
  shifts all columns after a restart; the order of the declared ones survives
  (`ColumnsKeepTheirOrder`).
- Entries outlive rows that Abort takes away; an UPDATE that throws between old and new entries
  leaves a row without any (`EntriesFollowRows`). `IndexesFindWhatScansFind` confines this to the
  indexes and locations of those two calls; `damaged` in `Sessions` lists them.
- A search with an index condition looks at no other condition and at no transaction. DropIndex of
  an absent index on a table with rows, an insert of NULL, an insert without a transaction and a
  hash join over floats read a null pointer; Abort of a transaction without inserts reads an
  uninitialised table id. The merge join stops at a right row without a partner.
- DELETE and UPDATE with a WHERE on another table, or a join, change every row.
- `<` and `<=` begin at DBL_MIN, the least positive double: no value of zero or below is less than
  anything. INT32_MAX as a value, and literals within EPOSILO below an integer, are the other
  values `ComparesLikeSQL` leaves out; `RowsCompareLikeSQL` states it of the positive ints in the
  tables.

## Proofs

TLAPS checks for every value of the constants that satisfies the assumptions named below. Each
inductive invariant was checked by TLC on the instances of the runs before it was proved, except
`TreeInv` of `BPTreeProofs`: it says that levels and limits of the nodes exist, which TLC cannot
look for, so of it TLC has checked what the runs' properties state.

**Where induction is missing.** The theorems of the library that take an operator cannot be
used, so `OrderProofs` has their place, for sets instead of operators: a set of numbers has a least
element (`LeastExists`, by the well-foundedness of strict inclusion on 0..n) and a greatest one, a
subset of 0..n that holds 0 and with k < n also k + 1 is 0..n (`InductionUpTo`), and a finite set
of integers is numbered from 1 on by rank (`Ranks`). Chains and trees of pages are least sets
closed under links, loops are recursive functions over 0..n.

- `MiniOSProofs`: `TypeCorrect`, `NoPageIsMissed` and `Implements` (Spec =>
  PageStore's Spec). `MiniOS!IInv` adds to the types that between the two halves of WriteBack the
  bitmap of the file is that of the memory; without it `EndSave` could not be mapped. The scan
  from any clock position reaches every page (`ScanMissesNone`), and `Place` numbers the used pages
  from 1 on without gaps, so that reading THDB_PAGE back by rank inverts writing it. Assumptions:
  MemPages is positive, `Null` is no content, `NoFile` is no file.
- `TransactionsProofs`: `TypeCorrect` and `PhantomFree` without conditions;
  `AbortAndUndoAreAtomic`, `CommittedRowsStay`, `ReadsRepeat` and `ImplementsSnapshots` (the
  refinement of `SnapshotStore`) under ~Deletes and ~StaleRestarts, without which the runs
  `undo_aborted` and a Delete refute them. `Transactions!IInv` says that ids are given out in
  order, that a snapshot hides every older transaction still active, that the history of an active
  transaction locates exactly its rows, and that the lines of pending transactions locate their
  rows, each once; the last two are what lets Abort and Undo run to their end. For the refinement
  the steps of a restart map to the abstract crash and to stuttering.
- `TableFileProofs`: `TablesAreTyped`, `ChainsStayLinked` and `FileImplementsStore` (the refinement
  of `TableStore`), also when pages run out; `PagesStayOwned`, `ObjectsStayRight` and
  `InsertsAlwaysStore` under ~Exhausts. The invariant `TableInv` has two parts. `TablesHold`, which
  exhaustion does not break: the chain of a table, read from its head as the least set closed under
  links, is doubly linked and ends, chains of two tables are apart, and a Table object caches a
  page of its own chain. `TablesAreWhole`: every used page is in a chain, and the cached tail and
  the page with room are what `NextNotFull` needs. Each call is followed through its page
  operations (`PushBack`, `InsertRecord`, `Clear`, ...) by one lemma per operation. Assumptions: a
  page has room for one record, `Null` and `NoRow` are no page and no row, and the states of a
  handle are told apart.
- `CatalogProofs`: `CatalogIsTyped`, `NamesKeepTheirPages`, `ListsAgreeWithNames`,
  `PagesBelongToNames`, `ColumnsStayInOrder` and `NamesSurviveRestarts`, that is every property of
  the run `catalog`. `CatalogInv` says that known names lead to pages apart, that an index is a
  path that nobody else's link enters (so that freeing one tree leaves the others), that the map
  of column names places the declared columns rigidly, behind any the look-ups added, and that
  lists and names agree. A root that moves is `RootGrows` or `RootShrinks`, a dropped table takes
  its indexes one by one (`IndexesGo`), and `Enumerates` says that the rank in the order of the
  names lists the map once, which is why what `Store` writes and `Load` reads are the same names.
  Assumptions: `NamesAssumption` and `PagesAssumption`.
- `BPTreeShape` and `BPTreeProofs`: `TreesAreTyped`, `TreesStayWellFormed`, `PagesStayWithTheIndex`,
  `EveryCallIsExact`, `RangesAreExactOrEmpty` and `IndexImplementsMultimap`, that is every property
  of the runs of `BPTree`, for trees of any height and nodes of any capacity from 3 on. The
  invariant `TreeInv` says that the pages are one whole tree (`IsTree`): a set of nodes, for each
  node a level and an upper limit, and overflow chains apart from one another. The program keeps
  neither level nor limit, and the invariant has to: keys of inner nodes lag behind after a
  deletion, so what a subtree may hold is bounded by its neighbours' keys and its father's limit
  and not by the key above it, and that all leaves are equally deep must be known in the middle of a
  cascade. `Sound` collects what holds of the pages: `Shape` (levels, limits, order, fathers),
  `Plain` (no overflow pages in inner nodes), `Listed` (the leaves in order, both ways), `Full` (the
  bounds of nodes) and `Filled` (the chains of the leaves' entries, which have all other pages).
  - A cascade is a loop. Between two of its steps one node is over its capacity (`Overflowing`) or
    one short of its half (`Underflowing`), everything else holds, and a step moves the exception
    one level up or ends. What a level does to the pages is said once, by `HasSplit`, `HasGrown`,
    `HasLent`, `HasMerged` and `HasLowered`, with one lemma each that the rest of the tree stays
    sound. A tree has more pages than levels (`Inhabited`), so every loop comes to its end within
    the number of pages it is given in the model.
  - `SplitHalves`, the loans and `MergeFits` are the arithmetic of a level: the halves of a node one
    over its capacity are within the bounds, a loan restores the borrower and leaves the lender at
    least half full, a short node fits into one page with a neighbour that cannot lend.
  - The overflow pages of a key are a chain that nobody else's entry leads into (`HasChain`), which
    each call on a leaf edits in one place (`HasEdited`, `HasBecome`); so the pairs in the leaves
    change by what the call says.
  - For `Range`: no leaf before the one that the descent finds has a key from the lower bound on
    (`IsStart`), though that leaf may have none either, which is when nothing is found; the leaves
    passed are those before the place reached (`Passed`), and what they answer has each location
    as often as the pairs in the interval do (`IsRangeOf`, `FlattenCounts`).

  Assumptions: capacities of at least 3 entries, overflow pages of at least 1 location, keys are
  ints (the model's keys are numbers in their order), `Null` is none, no row is twice in a table.
- `DatabaseProofs`, about the values: `IntsCompareAsSQLSays`, for any width of int, any grain of
  doubles and any EPOSILO below 1. What SystemVisitor makes of a comparison holds for an int exactly
  if the operator says so, by scan and by index: cutting an interval of doubles to ints keeps the
  ints it held (`BoundsKeepTheirInts`), the sentinels are beyond the positive ints (`NoUpperBound`,
  `PositiveBound`), and v + EPOSILO passes no int (`EpsilonIsSmall`). What is excluded is in
  `PlainInts` and `PlainLiterals`. `RowsCompareAsSQLSays` says it of the rows of `Query`.
- `DatabaseProofs`, about the sessions: `SessionsAreTyped`, `EntriesFollow`,
  `IndexesFindRows`, `ChangesFollow` and `ViewsAreKept`, that is every property of the run
  `database`, for any tables, clients, transactions and numbers. `SessionsInv` adds to the types
  that the indexes are finite bags, that an active transaction has every older active one in its
  snapshot (so that a new row is hidden from the others), and, for clients without sentinels
  (`PlainClients`, the hypothesis of `IndexesFindRows` alone), that compared fields are plain
  ints. What an index lacks or holds too much of is followed entry by entry: `NoneLost` and
  `NoneLeft` relate two states of rows and entries and compose (`LostAndLeft`), one row that goes
  or comes with its entries keeps both (`RowGoes`, `RowComes`), and by `InductionUpTo` so does a
  loop of any length (`DeletionLeaves`, `UpdateLeaves`), of which an Update that throws between the
  old entries and the new is the exception `EntriesFollowRows` names. `SearchesFind` and
  `RangesList` say what a scan and a Range return. For `IndexesFindRows` the history variable
  `damaged` keeps, from the calls alone and without a look at the entries, where an Abort took a row
  away and where an Update broke off; the invariant `DamageInv` says that what an index lacks or
  holds too much of is there and nowhere else. A call that leaves `Missing` and `Stale` as they were
  keeps it, Abort and the Update that throws are followed to the location they damage
  (`DamageIsSeen`, `DamageIsKnown`), and at every other location an index has one entry for the row
  and a scan finds the row once, so that both find it or neither (`IndexAndScanAgree`). Assumptions: those of `Conditions`, finitely
  many locations, the columns and clients described above.

- `DatabaseProofs`, about the lines of clients: `RowsCompareAsSQLSays`, `LinesChangeExactly` and
  `LinesAnswerExactly`, that is what `query` checks of SELECT on one table, DELETE and UPDATE, for
  any tables, rows and lines. The inductive invariant is `LinesInv`: rows are as they were stored
  and, of plain lines, plain; indexes are on numbers of columns that exist, finite, and hold no
  entry that is stale; what is left of a line is what the parser made of it. Without a transaction
  no entry becomes stale, which is why a search finds only rows that are there, each once
  (`IsFound`), and the loops over them meet no exception but that of a Transform
  (`DeletedSoFar`, `UpdatedExactly`). `RowMatches` and `KeysCompare` say that the conditions made of
  WHERE, and the intervals the indexes are asked for, hold of the rows SQL means; `IndexesFind` that
  the intersection of the Ranges is what all of them find, or nothing. Assumptions: `LinesAssumption`
  (columns are those of the table, indexes are of numbers), `RowsAssumption` (rows of the right
  types, stored before), and for the two theorems about SQL `PlainLines`: no literal, row or value
  of SET in a column that is compared is one of those that stand for infinity or, of floats, within
  EPOSILO of a literal. TLC evaluates all three for the lines of `query`.

Model-checked only: `LinesAreUnderstood`, whose truth for every line is an induction over the grammar; `JoinAnswers`, which rests on a sorting
(TLC's SortSeq, which the prover does not know) and on what a fold leaves; and the runs that expect a violation.

## Not modelled

Bytes: serialisation of fields and page headers, and the uninitialised half of the page pointer
array (os.cc:33). The lexer's automaton and ANTLR's recovery after an error, which Execute turns
into an exception. In `Query` CREATE, DROP, SHOW and DESC, whose work is in `Catalog`; indexes on
strings. The log in `Database`: recovery is in `Transactions`, over one table that stays, so that
an Undo after DropTable is in no model. NewPage failing between two levels of a split.
LinkedPage::PopBack, OrCondition, FixedRecord::Sub and Remove, which nothing reaches. Formatting
of results and the straight-line I/O of `executable/`. A file system that fails or tears the
bitmap file.

## Plan

Built and proved: `Transactions` refining `SnapshotStore`, `MiniOS` refining `PageStore`,
`TableFile` refining `TableStore`, `BPTree` refining `Multimap`, `Catalog`, `Conditions`, `Records`,
`Database` with `Sessions`. Built and proved but for joins: `Query`. Built and checked: `Parser`.

Next, in this order:

1. `JoinAnswers` of `Query`, with a sort and a merge written for the prover, and a loop over the
   rules of the grammar for `LinesAreUnderstood`.
2. NewPage failing between two levels of a split in `BPTree`.
3. The log in `Database`, for Undo after DropTable.
