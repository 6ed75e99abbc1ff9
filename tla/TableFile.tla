------------------------------ MODULE TableFile ------------------------------
(***************************************************************************)
(* The record layer: Table, TablePage, RecordPage and LinkedPage over the  *)
(* pages of MiniOS, and the table pointers of TableManager.  A table is a  *)
(* page with the ids of its first and last record page, and a doubly       *)
(* linked chain of record pages.  A Table object caches these ids and a    *)
(* page _nNotFull for the next insert.                                     *)
(*                                                                         *)
(* The system pages 0 to 4 are always in use and not modelled: page ids    *)
(* here count from the first page after them.                              *)
(***************************************************************************)
EXTENDS Allocation, FiniteSets, FiniteSetsExt

CONSTANTS
    Cap,            \* RecordPage::_nCap: records a page holds
    Tables,         \* table names
    Rows,           \* contents of a record
    NoRow,          \* the content of a slot whose bitmap bit is clear
    Null,           \* NULL_PAGE
    Closed,         \* no Table object in TableManager::_iTableMap
    Broken,         \* a null pointer in TableManager::_iTableMap
    Exhausts        \* TRUE: clients go on until MiniOS runs out of pages

ASSUME CapAssumption == Cap \in Nat \ {0}
ASSUME NoRowAssumption == NoRow \notin Rows
ASSUME ExhaustsAssumption == Exhausts \in BOOLEAN

SlotIDs == 0..Cap-1
PageSlotIDs == PageIDs \X SlotIDs

ASSUME NullAssumption ==
    Null \notin PageIDs \union UNION {[locs -> Rows] : locs \in SUBSET PageSlotIDs}

VARIABLES
    disk,       \* the used pages of MiniOS and what they hold
    clock,      \* MiniOS::_nClock
    tableID,    \* TableManager::_iTableIDMap, Null where it has no entry
    handle      \* TableManager::_iTableMap

vars == <<disk, clock, tableID, handle>>

(* What a page can hold: a RecordPage, a TablePage, or the zeroes of a     *)
(* page whose constructor did not come to its end.                         *)
RecordPage == [next : PageIDs \union {Null}, prev : PageIDs \union {Null},
               slots : [SlotIDs -> Rows \union {NoRow}]]
TablePage == [head : PageIDs, tail : PageIDs]
Blank == [zeroes |-> TRUE]

(* A Table object: _nHeadID, _nTailID, _nNotFull, and whether its          *)
(* TablePage has been modified.                                            *)
Table == [head : PageIDs, tail : PageIDs, notFull : PageIDs, modified : BOOLEAN]

ASSUME HandleAssumption == Closed # Broken /\ {Closed, Broken} \intersect Table = {}

NewRecordPage(prev, next) ==
    [next |-> next, prev |-> prev, slots |-> [s \in SlotIDs |-> NoRow]]

IsRecordPage(d, p) == p \in DOMAIN d /\ "slots" \in DOMAIN d[p]

HasRoom(d, p) == \E s \in SlotIDs : d[p].slots[s] = NoRow

(* The pages that some NextPageID leads to. *)
Linked(d) == {d[q].next : q \in {r \in DOMAIN d : IsRecordPage(d, r)}} \ {Null}

LinksStayIn(d, S) == \A q \in S : IsRecordPage(d, q) => d[q].next \in S \union {Null}

(* The pages that NextPageID leads to from p on, p included: p and those   *)
(* that no set with p can leave out when the links of its pages stay in it. *)
Chain(d, p) ==
    LET closed == {S \in SUBSET Linked(d) : LinksStayIn(d, {p} \union S)}
    IN  {p} \union {q \in Linked(d) : \A S \in closed : q \in {p} \union S}

(* Table::SearchRecord without a condition. *)
Content(d, head) ==
    LET found == {loc \in Chain(d, head) \X SlotIDs : d[loc[1]].slots[loc[2]] # NoRow}
    IN  [loc \in found |-> d[loc[1]].slots[loc[2]]]

Init ==
    /\ disk = << >>
    /\ clock = 0
    /\ tableID = [t \in Tables |-> Null]
    /\ handle = [t \in Tables |-> Closed]

-----------------------------------------------------------------------------
(* What the member functions do to a file, a record of the disk, the       *)
(* clock, a Table object and whether NewPage threw.                        *)

(* Mutant: the new page does not learn its predecessor. *)
PushBack_NoPrev(d, tail, p) ==
    [q \in DOMAIN d \union {p} |->
        CASE q = p    -> NewRecordPage(Null, d[tail].next)
          [] q = tail -> [d[q] EXCEPT !.next = p]
          [] OTHER    -> d[q]]

(* Mutant: the page after the new one is forgotten. *)
PushBack_KeepsAfter(d, tail, p) ==
    [q \in DOMAIN d \union {p} |->
        CASE q = p    -> NewRecordPage(tail, d[tail].next)
          [] q = tail -> [d[q] EXCEPT !.next = p]
          [] OTHER    -> d[q]]

(* LinkedPage::PushBack of a new page p on the page `tail'. *)
PushBack(d, tail, p) ==
    LET after == d[tail].next
    IN  [q \in DOMAIN d \union {p} |->
            CASE q = p     -> NewRecordPage(tail, after)
              [] q = tail  -> [d[q] EXCEPT !.next = p]
              [] q = after -> [d[q] EXCEPT !.prev = p]
              [] OTHER     -> d[q]]

(* Table::NextNotFull: the first page with room from _nNotFull on, or a    *)
(* new page behind _nTailID.                                               *)
NextNotFull(f) ==
    LET roomy == {p \in Chain(f.disk, f.table.notFull) : HasRoom(f.disk, p)}
        first == CHOOSE p \in roomy : roomy \subseteq Chain(f.disk, p)
        used  == DOMAIN f.disk
        page  == FirstFree(used, f.clock)
    IN  IF roomy # {}
           THEN [f EXCEPT !.table.notFull = first]
        ELSE IF FreeSteps(used, f.clock) # {}
           THEN [disk  |-> PushBack(f.disk, f.table.tail, page),
                 clock |-> page,
                 table |-> [head |-> f.table.head, tail |-> page,
                            notFull |-> page, modified |-> TRUE],
                 threw |-> FALSE]
           ELSE [f EXCEPT !.threw = TRUE]

(* Table::Table *)
Opened(d, c, id) ==
    NextNotFull([disk  |-> d,
                 clock |-> c,
                 table |-> [head |-> d[id].head, tail |-> d[id].tail,
                            notFull |-> d[id].head, modified |-> FALSE],
                 threw |-> FALSE])

(* Mutant: the bitmap is not looked at. *)
InsertRecord_FirstSlot(f, row) ==
    NextNotFull([f EXCEPT !.disk[f.table.notFull].slots[0] = row])

(* Table::InsertRecord.  RecordPage::InsertRecord stores nothing in a full *)
(* page and returns slot -1.                                               *)
InsertRecord(f, row) ==
    LET page   == f.table.notFull
        free   == {s \in SlotIDs : f.disk[page].slots[s] = NoRow}
        stored == IF free = {} THEN f
                  ELSE [f EXCEPT !.disk[page].slots[Min(free)] = row]
    IN  IF HasRoom(stored.disk, page) THEN stored ELSE NextNotFull(stored)

(* Mutant: the page of a location is not looked at. *)
Erased_AnyPage(d, locs) ==
    [p \in DOMAIN d |->
        IF IsRecordPage(d, p)
           THEN [d[p] EXCEPT !.slots =
                    [s \in SlotIDs |-> IF \E l \in locs : l[2] = s THEN NoRow ELSE @[s]]]
           ELSE d[p]]

(* RecordPage::DeleteRecord of each of the locations. *)
Erased(d, locs) ==
    [p \in DOMAIN d |->
        IF IsRecordPage(d, p)
           THEN [d[p] EXCEPT !.slots =
                    [s \in SlotIDs |-> IF <<p, s>> \in locs THEN NoRow ELSE @[s]]]
           ELSE d[p]]

(* Table::DeleteRecord of each of the locations. *)
DeleteRecords(f, locs) ==
    [f EXCEPT !.disk = Erased(@, locs),
              !.table.notFull = Min({@} \union {loc[1] : loc \in locs})]

(* Table::UpdateRecord *)
UpdateRecord(f, loc, row) == [f EXCEPT !.disk[loc[1]].slots[loc[2]] = row]

(* Mutant: only the head is freed. *)
Cleared_HeadOnly(d, head) == [p \in DOMAIN d \ {head} |-> d[p]]

(* Table::Clear *)
Cleared(d, head) == [p \in DOMAIN d \ Chain(d, head) |-> d[p]]

(* Mutant: the tail is not written. *)
TailStored_Never(d, id, table) == d

(* Table::~Table *)
TailStored(d, id, table) ==
    IF table.modified THEN [d EXCEPT ![id].tail = table.tail] ELSE d

-----------------------------------------------------------------------------
(* Calls *)

Allowed(f) == f.threw => Exhausts

(* TableManager::GetTable, of a table that has an id. *)
GetTable(t) ==
    IF handle[t] = Closed
       THEN Opened(disk, clock, tableID[t])
       ELSE [disk |-> disk, clock |-> clock, table |-> handle[t], threw |-> FALSE]

(***************************************************************************)
(* A call on the file of table t.  When the constructor of the Table       *)
(* throws, its entry in _iTableMap may have been made already: C++11 does  *)
(* not order the two sides of an assignment.  A null entry is reported as  *)
(* a missing table.                                                        *)
(***************************************************************************)
Call(t, Op(_)) ==
    /\ tableID[t] # Null
    /\ handle[t] # Broken
    /\ LET got    == GetTable(t)
           result == Op(got)
       IN  \/ /\ ~got.threw
              /\ Allowed(result)
              /\ disk' = result.disk
              /\ clock' = result.clock
              /\ handle' = [handle EXCEPT ![t] = result.table]
           \/ /\ got.threw
              /\ Allowed(got)
              /\ \E entry \in {Closed, Broken} :
                    handle' = [handle EXCEPT ![t] = entry]
              /\ UNCHANGED <<disk, clock>>
    /\ UNCHANGED tableID

(* The locations that a Search of table t returns. *)
Found(t) == DOMAIN Content(disk, disk[tableID[t]].head)

Insert(t, row) == Call(t, LAMBDA f : InsertRecord(f, row))

Update(t, row) ==
    /\ tableID[t] # Null
    /\ \E loc \in Found(t) : Call(t, LAMBDA f : UpdateRecord(f, loc, row))

(* Instance::Delete: the locations come from a Search. *)
Delete(t) ==
    /\ tableID[t] # Null
    /\ \E locs \in SUBSET Found(t) : Call(t, LAMBDA f : DeleteRecords(f, locs))

(***************************************************************************)
(* TransactionManager::Abort and RecoveryManager::Undo build a Table of    *)
(* their own, next to TableManager's.  Abort destroys it; Undo does not,   *)
(* and its tail is never stored.                                           *)
(***************************************************************************)
RollBack(t, destroyed) ==
    /\ tableID[t] # Null
    /\ LET got == Opened(disk, clock, tableID[t])
       IN  \/ /\ ~got.threw
              /\ \E locs \in (SUBSET Found(t)) \ {{}} :
                    LET result == DeleteRecords(got, locs)
                    IN  disk' = IF destroyed
                                   THEN TailStored(result.disk, tableID[t], result.table)
                                   ELSE result.disk
              /\ clock' = got.clock
           \/ /\ got.threw
              /\ Allowed(got)
              /\ UNCHANGED <<disk, clock>>
    /\ UNCHANGED <<tableID, handle>>

(* TableManager::AddTable: a page for the TablePage, then one for its      *)
(* first RecordPage.                                                       *)
AddTable(t) ==
    /\ tableID[t] = Null \/ handle[t] = Broken
    /\ LET used == DOMAIN disk
           id   == FirstFree(used, clock)
           head == FirstFree(used \union {id}, id)
       IN  \/ /\ FreeSteps(used, clock) # {}
              /\ FreeSteps(used \union {id}, id) # {}
              /\ disk' = [p \in used \union {id, head} |->
                            CASE p = id   -> [head |-> head, tail |-> head]
                              [] p = head -> NewRecordPage(Null, Null)
                              [] OTHER    -> disk[p]]
              /\ clock' = head
              /\ tableID' = [tableID EXCEPT ![t] = id]
              /\ handle' = [handle EXCEPT ![t] =
                    [head |-> head, tail |-> head, notFull |-> head, modified |-> FALSE]]
           \/ /\ Exhausts
              /\ FreeSteps(used, clock) # {}
              /\ FreeSteps(used \union {id}, id) = {}
              /\ disk' = [p \in used \union {id} |-> IF p = id THEN Blank ELSE disk[p]]
              /\ clock' = id
              /\ UNCHANGED <<tableID, handle>>

(* TableManager::DropTable *)
DropTable(t) ==
    /\ tableID[t] # Null
    /\ handle[t] # Broken
    /\ LET got  == GetTable(t)
           rest == Cleared(got.disk, got.table.head)
       IN  /\ ~got.threw
           /\ disk' = [p \in DOMAIN rest \ {tableID[t]} |-> rest[p]]
           /\ clock' = got.clock
    /\ tableID' = [tableID EXCEPT ![t] = Null]
    /\ handle' = [handle EXCEPT ![t] = Closed]

(***************************************************************************)
(* delete db: the Table objects go, the tails they have moved are written. *)
(* The next Instance finds the same ids.  If the process has ended in      *)
(* between, MiniOS starts with its clock at 0.                             *)
(***************************************************************************)
Restart ==
    /\ disk' = [p \in DOMAIN disk |->
                  IF \E t \in Tables : tableID[t] = p /\ handle[t] \notin {Closed, Broken}
                     THEN LET t == CHOOSE u \in Tables : tableID[u] = p
                          IN  TailStored(disk, p, handle[t])[p]
                     ELSE disk[p]]
    /\ clock' \in {clock, 0}
    /\ handle' = [t \in Tables |-> Closed]
    /\ UNCHANGED tableID

Next ==
    \/ \E t \in Tables :
        \/ \E row \in Rows : Insert(t, row) \/ Update(t, row)
        \/ Delete(t)
        \/ \E destroyed \in BOOLEAN : RollBack(t, destroyed)
        \/ AddTable(t)
        \/ DropTable(t)
    \/ Restart

Spec == Init /\ [][Next]_vars
-----------------------------------------------------------------------------
(* Correctness *)

(* The tables that exist, and the table objects TableManager holds. *)
Existing == {t \in Tables : tableID[t] # Null}
Opens == {t \in Tables : handle[t] \notin {Closed, Broken}}

Pages(t) == Chain(disk, disk[tableID[t]].head)

(* Every variable keeps its type; a Table object belongs to a table.       *)
TypeOK ==
    /\ DOMAIN disk \subseteq PageIDs
    /\ \A p \in DOMAIN disk : disk[p] \in RecordPage \/ disk[p] \in TablePage \/ disk[p] = Blank
    /\ clock \in PageIDs
    /\ tableID \in [Tables -> PageIDs \union {Null}]
    /\ handle \in [Tables -> Table \union {Closed, Broken}]
    /\ Opens \subseteq Existing

(* The pages of a table form one doubly linked chain: every link leads to  *)
(* a record page that leads back, the chain begins at the head and ends,   *)
(* and no page is in two tables.                                           *)
ChainsAreLinked ==
    \A t \in Existing :
        /\ disk[tableID[t]] \in TablePage
        /\ Pages(t) \subseteq {p \in DOMAIN disk : IsRecordPage(disk, p)}
        /\ disk[disk[tableID[t]].head].prev = Null
        /\ \A p \in Pages(t) : disk[p].next # Null => disk[disk[p].next].prev = p
        /\ \E p \in Pages(t) : disk[p].next = Null
        /\ \A u \in Existing \ {t} : tableID[u] # tableID[t] /\ Pages(u) \intersect Pages(t) = {}

(* A page MiniOS regards as used belongs to a table. *)
NoPageIsLost == DOMAIN disk = UNION {{tableID[t]} \union Pages(t) : t \in Existing}

(* The tail of a Table object is the last page, or the stored one is when  *)
(* TableManager holds no object.                                           *)
TailsAreLast ==
    \A t \in Existing :
        LET tail == IF t \in Opens THEN handle[t].tail ELSE disk[tableID[t]].tail
        IN  tail \in Pages(t) /\ disk[tail].next = Null

(* _nNotFull is what table.h:83 calls it, the id of a page that is not     *)
(* full, of the same table; an insert finds its slot there.                *)
NotFullHasRoom ==
    \A t \in Opens : handle[t].notFull \in Pages(t) /\ HasRoom(disk, handle[t].notFull)

(* A Table object never has to be built on a chain without room: Abort and *)
(* Undo, which build one beside TableManager's, allocate no page.          *)
SomePageHasRoom == \A t \in Existing : \E p \in Pages(t) : HasRoom(disk, p)

(* What a Table object keeps of its chain stays true while other objects   *)
(* over the same pages, and Clear and restarts, change it: the head, the   *)
(* tail, and the page for the next insert (table.h:80-85).                 *)
ObjectsKnowTheirChain ==
    /\ \A t \in Opens : handle[t].head = disk[tableID[t]].head
    /\ TailsAreLast
    /\ NotFullHasRoom
    /\ SomePageHasRoom

(* The rows of table t, as a Search of all of them finds them. *)
Stored(t) ==
    IF tableID[t] = Null THEN Null ELSE Content(disk, disk[tableID[t]].head)

(* The file implements TableStore: what a Search finds changes by inserts  *)
(* at locations that were free, and by nothing but the calls on the table. *)
Store == INSTANCE TableStore WITH
    Locations <- PageSlotIDs,
    NoTable   <- Null,
    content   <- [t \in Tables |-> Stored(t)]

ImplementsTableStore == Store!Spec

(* An insert that does not fail to open its table has stored the row where *)
(* there was none, and lost no other (table.h:27-33).                      *)
InsertsStore ==
    [][\A t \in Existing :
        (\E row \in Rows : Insert(t, row)) /\ t \in Opens'
            => Store!Insert(Stored(t), Stored(t)')]_vars
=============================================================================
