--------------------------- MODULE TableFileProofs ---------------------------
(***************************************************************************)
(* The record layer for any number of pages, tables and rows: the chains   *)
(* stay linked and apart, also when pages run out; as long as they do not, *)
(* no page is lost, the Table objects know their chains, and the file      *)
(* implements TableStore.                                                  *)
(***************************************************************************)
EXTENDS TableFile, OrderProofs

-----------------------------------------------------------------------------
(* The page a scan finds is free, for any number of pages and any clock.   *)
LEMMA FirstFreeIsFree ==
    ASSUME NEW U, NEW c \in PageIDs, FreeSteps(U, c) # {}
    PROVE  FirstFree(U, c) \in PageIDs \ U
<1> DEFINE K == FreeSteps(U, c)
<1>1. K \in SUBSET (0..MemPages) /\ K # {} /\ MemPages \in Nat
  BY MemPagesAssumption DEF FreeSteps
<1>2. (CHOOSE i \in K : \A j \in K : i <= j) \in K
  <2> HIDE DEF K
  <2> QED
    BY <1>1, LeastChosen
<1>3. \A k \in 0..MemPages-1 : Scanned(c, k) \in PageIDs
  BY RoundCovers, MemPagesAssumption DEF Scanned, PageIDs
<1> QED
  BY <1>2, <1>3 DEF FirstFree, FreeSteps

(* Chains *)

LEMMA ChainBegins == \A d, p : p \in Chain(d, p)
  BY DEF Chain

(* A chain goes on where its links lead.                                   *)
LEMMA ChainGoesOn ==
    ASSUME NEW d, NEW p, NEW q \in Chain(d, p), IsRecordPage(d, q), d[q].next # Null
    PROVE  d[q].next \in Chain(d, p)
<1>1. d[q].next \in Linked(d)
  BY DEF Linked, IsRecordPage
<1>2. ASSUME NEW S \in SUBSET Linked(d), LinksStayIn(d, {p} \union S)
      PROVE  d[q].next \in {p} \union S
  <2>1. q \in {p} \union S
    BY <1>2 DEF Chain
  <2> QED
    BY <1>2, <2>1 DEF LinksStayIn
<1> QED
  BY <1>1, <1>2 DEF Chain

(* Induction along a chain: a set that has its first page, and of each     *)
(* page in it the next one, has all of them.                               *)
LEMMA ChainInduction ==
    ASSUME NEW d, NEW p, NEW T, p \in T,
           \A q \in T \intersect Chain(d, p) :
                IsRecordPage(d, q) /\ d[q].next # Null => d[q].next \in T
    PROVE  Chain(d, p) \subseteq T
<1> DEFINE S == T \intersect Chain(d, p) \intersect Linked(d)
<1>1. LinksStayIn(d, {p} \union S)
  <2> SUFFICES ASSUME NEW q \in {p} \union S, IsRecordPage(d, q), d[q].next # Null
               PROVE  d[q].next \in S
    BY DEF LinksStayIn
  <2>1. q \in T \intersect Chain(d, p)
    BY ChainBegins
  <2>2. d[q].next \in Linked(d)
    BY DEF Linked, IsRecordPage
  <2> QED
    BY <2>1, <2>2, ChainGoesOn
<1>2. S \in SUBSET Linked(d)
  OBVIOUS
<1>3. Chain(d, p) \subseteq {p} \union S
  <2> HIDE DEF S
  <2> QED
    BY <1>1, <1>2 DEF Chain
<1> QED
  BY <1>3

(* Where a page lies, its chain lies.                                      *)
LEMMA ChainOfMember ==
    ASSUME NEW d, NEW p, NEW q \in Chain(d, p)
    PROVE  Chain(d, q) \subseteq Chain(d, p)
  BY ChainInduction, ChainGoesOn

(* The first page of a chain, and the chain of its successor.              *)
LEMMA ChainSplits ==
    ASSUME NEW d, NEW p, NEW q \in Chain(d, p), q # p
    PROVE  IsRecordPage(d, p) /\ d[p].next # Null /\ q \in Chain(d, d[p].next)
<1> DEFINE T == {p} \union {r \in Chain(d, p) : /\ IsRecordPage(d, p) /\ d[p].next # Null
                                               /\ r \in Chain(d, d[p].next)}
<1>1. ASSUME NEW r \in T \intersect Chain(d, p), IsRecordPage(d, r), d[r].next # Null
      PROVE  d[r].next \in T
  <2>1. d[r].next \in Chain(d, p)
    BY <1>1, ChainGoesOn
  <2>2. CASE r = p
    BY <1>1, <2>1, <2>2, ChainBegins
  <2>3. CASE r # p
    BY <1>1, <2>1, <2>3, ChainGoesOn
  <2> QED
    BY <2>2, <2>3
<1>2. Chain(d, p) \subseteq T
  <2> HIDE DEF T
  <2>1. p \in T
    BY DEF T
  <2> QED
    BY <1>1, <2>1, ChainInduction
<1> QED
  BY <1>2

(* A chain depends on the links of its own pages alone.                    *)
SameLink(d, e, q) ==
    /\ IsRecordPage(e, q) <=> IsRecordPage(d, q)
    /\ e[q].next = d[q].next

LEMMA ChainKeeps ==
    ASSUME NEW d, NEW e, NEW p, \A q \in Chain(d, p) : SameLink(d, e, q)
    PROVE  Chain(e, p) = Chain(d, p)
<1>1. Chain(e, p) \subseteq Chain(d, p)
  BY ChainBegins, ChainGoesOn, ChainInduction DEF SameLink
<1>2. Chain(d, p) \subseteq Chain(e, p)
  BY ChainBegins, ChainGoesOn, ChainInduction DEF SameLink
<1> QED
  BY <1>1, <1>2

-----------------------------------------------------------------------------
(* Tables on a disk d *)

Typed(d) ==
    /\ DOMAIN d \subseteq PageIDs
    /\ \A p \in DOMAIN d : d[p] \in RecordPage \/ d[p] \in TablePage \/ d[p] = Blank

(* What ChainsAreLinked says of one chain. *)
Chained(d, head) ==
    /\ \A q \in Chain(d, head) : IsRecordPage(d, q)
    /\ d[head].prev = Null
    /\ \A q \in Chain(d, head) : d[q].next # Null => d[d[q].next].prev = q
    /\ \E q \in Chain(d, head) : d[q].next = Null

ChainAt(d, id) == Chain(d, d[id].head)
Own(d, id) == {id} \union ChainAt(d, id)

TableAt(d, id) ==
    /\ id \in DOMAIN d /\ d[id] \in TablePage
    /\ Chained(d, d[id].head)
    /\ d[id].tail \in ChainAt(d, id)

(* The kinds of pages can be told apart. *)
LEMMA Kinds ==
    /\ \A r \in RecordPage : "slots" \in DOMAIN r
    /\ \A r \in TablePage : "slots" \notin DOMAIN r
    /\ "slots" \notin DOMAIN Blank
  BY DEF RecordPage, TablePage, Blank

LEMMA RecordPages ==
    ASSUME NEW d, Typed(d), NEW q
    PROVE  IsRecordPage(d, q) <=> q \in DOMAIN d /\ d[q] \in RecordPage
  BY Kinds DEF Typed, IsRecordPage

LEMMA ChainsArePages ==
    ASSUME NEW d, Typed(d), NEW id, TableAt(d, id)
    PROVE  /\ d[id].head \in PageIDs
           /\ ChainAt(d, id) \subseteq DOMAIN d /\ id \notin ChainAt(d, id)
           /\ \A q \in ChainAt(d, id) :
                /\ q \in PageIDs /\ d[q] \in RecordPage
                /\ d[q].next \in PageIDs \union {Null} /\ d[q].prev \in PageIDs \union {Null}
                /\ d[q].slots \in [SlotIDs -> Rows \union {NoRow}]
<1>1. \A q \in ChainAt(d, id) : IsRecordPage(d, q)
  BY DEF TableAt, Chained, ChainAt
<1>2. ~IsRecordPage(d, id)
  BY Kinds DEF TableAt, IsRecordPage
<1>3. d[id].head \in PageIDs
  BY DEF TableAt, TablePage
<1> QED
  BY <1>1, <1>2, <1>3, RecordPages DEF Typed, RecordPage

(* What a call on the table at id may do to the disk: change the pages of  *)
(* the table, and give its chain new ones.                                 *)
Grows(d, e, id) ==
    /\ Typed(e) /\ TableAt(e, id)
    /\ e[id].head = d[id].head
    /\ \A q \in DOMAIN d \ Own(d, id) : e[q] = d[q]
    /\ DOMAIN d \subseteq DOMAIN e /\ DOMAIN e \subseteq DOMAIN d \union ChainAt(e, id)
    /\ ChainAt(d, id) \subseteq ChainAt(e, id)
    /\ ChainAt(e, id) \subseteq ChainAt(d, id) \union (DOMAIN e \ DOMAIN d)

LEMMA GrowsTwice ==
    ASSUME NEW d, NEW e, NEW f, NEW id, id \in DOMAIN d, Grows(d, e, id), Grows(e, f, id)
    PROVE  Grows(d, f, id)
<1>1. \A q \in DOMAIN d \ Own(d, id) : q \in DOMAIN e \ Own(e, id)
  BY DEF Grows, Own
<1> QED
  BY <1>1 DEF Grows

(* A table is what its chain's links, its head and its tail make it.       *)
LEMMA SameTable ==
    ASSUME NEW d, NEW e, NEW id, TableAt(d, id),
           id \in DOMAIN e, e[id] \in TablePage,
           e[id].head = d[id].head, e[id].tail \in ChainAt(d, id),
           \A q \in ChainAt(d, id) :
                IsRecordPage(e, q) /\ e[q].next = d[q].next /\ e[q].prev = d[q].prev
    PROVE  TableAt(e, id) /\ ChainAt(e, id) = ChainAt(d, id) /\ Own(e, id) = Own(d, id)
<1> DEFINE head == d[id].head
<1>1. ChainAt(d, id) = Chain(d, head) /\ head \in Chain(d, head) /\ Chained(d, head)
  BY ChainBegins DEF ChainAt, TableAt
<1>2. Chain(e, head) = Chain(d, head)
  BY <1>1, ChainKeeps DEF Chained, SameLink
<1>3. ChainAt(e, id) = ChainAt(d, id)
  BY <1>1, <1>2 DEF ChainAt
<1>4. \A q \in Chain(d, head) : d[q].next # Null => d[q].next \in Chain(d, head)
  BY <1>1, ChainGoesOn DEF Chained
<1>5. Chained(e, head)
  <2> HIDE DEF head
  <2> QED
    BY <1>1, <1>2, <1>4 DEF Chained
<1> QED
  BY <1>3, <1>5 DEF TableAt, Own

(* A table whose pages nobody touches. *)
LEMMA Untouched ==
    ASSUME NEW d, NEW e, NEW id, Typed(d), TableAt(d, id),
           \A q \in Own(d, id) : q \in DOMAIN e /\ e[q] = d[q]
    PROVE  TableAt(e, id) /\ ChainAt(e, id) = ChainAt(d, id) /\ Own(e, id) = Own(d, id)
<1>1. \A q \in ChainAt(d, id) : IsRecordPage(e, q) /\ e[q] = d[q]
  BY DEF TableAt, Chained, ChainAt, Own, IsRecordPage
<1>2. id \in DOMAIN e /\ e[id] = d[id]
  BY DEF Own
<1> QED
  BY <1>1, <1>2, SameTable DEF TableAt

(* Other tables keep their pages, and stay apart.                          *)
LEMMA OthersStay ==
    ASSUME NEW d, NEW e, NEW id, Typed(d), TableAt(d, id), Grows(d, e, id),
           NEW other, TableAt(d, other), Own(d, other) \intersect Own(d, id) = {}
    PROVE  /\ TableAt(e, other)
           /\ \A q \in Own(d, other) : e[q] = d[q]
           /\ ChainAt(e, other) = ChainAt(d, other)
           /\ Own(e, other) = Own(d, other)
           /\ Own(e, other) \intersect Own(e, id) = {}
<1>1. Own(d, other) \subseteq DOMAIN d /\ Own(d, id) \subseteq DOMAIN d
  BY ChainsArePages DEF Own, TableAt
<1>2. \A q \in Own(d, other) : e[q] = d[q] /\ q \in DOMAIN e
  BY <1>1 DEF Grows
<1>3. TableAt(e, other) /\ ChainAt(e, other) = ChainAt(d, other) /\ Own(e, other) = Own(d, other)
  BY <1>2, Untouched
<1>4. Own(e, other) \intersect Own(e, id) = {}
  BY <1>1, <1>3 DEF Own, Grows
<1> QED
  BY <1>2, <1>3, <1>4

(* Inserts into pages with room, updates and deletions change slots alone. *)
SlotsChange(d, e, id) ==
    /\ DOMAIN e = DOMAIN d
    /\ \A q \in DOMAIN d \ ChainAt(d, id) : e[q] = d[q]
    /\ \A q \in ChainAt(d, id) :
        e[q] \in RecordPage /\ e[q].next = d[q].next /\ e[q].prev = d[q].prev

LEMMA SlotsGrow ==
    ASSUME NEW d, NEW e, NEW id, Typed(d), TableAt(d, id), SlotsChange(d, e, id)
    PROVE  Grows(d, e, id) /\ ChainAt(e, id) = ChainAt(d, id) /\ e[id] = d[id]
<1>1. /\ ChainAt(d, id) \subseteq DOMAIN d /\ id \notin ChainAt(d, id) /\ id \in DOMAIN d
      /\ \A q \in ChainAt(d, id) : d[q] \in RecordPage
  BY ChainsArePages DEF TableAt
<1>2. e[id] = d[id]
  BY <1>1 DEF SlotsChange
<1>3. Typed(e)
  BY <1>1 DEF SlotsChange, Typed
<1>4. \A q \in ChainAt(d, id) : IsRecordPage(e, q)
  BY <1>1, Kinds DEF SlotsChange, IsRecordPage
<1>5. TableAt(e, id) /\ ChainAt(e, id) = ChainAt(d, id)
  BY <1>1, <1>2, <1>4, SameTable DEF SlotsChange, TableAt
<1> QED
  BY <1>1, <1>2, <1>3, <1>5 DEF Grows, SlotsChange, Own

(* Storing a tail changes the table page alone. *)
TailMoves(d, e, id, tail) ==
    /\ DOMAIN e = DOMAIN d /\ \A q \in DOMAIN d \ {id} : e[q] = d[q]
    /\ e[id] \in TablePage /\ e[id].head = d[id].head /\ e[id].tail = tail

LEMMA TailGrows ==
    ASSUME NEW d, NEW e, NEW id, Typed(d), TableAt(d, id),
           NEW tail \in ChainAt(d, id), TailMoves(d, e, id, tail)
    PROVE  /\ Grows(d, e, id) /\ ChainAt(e, id) = ChainAt(d, id)
           /\ \A q \in ChainAt(d, id) : e[q] = d[q]
<1>1. ChainAt(d, id) \subseteq DOMAIN d /\ id \notin ChainAt(d, id) /\ id \in DOMAIN d
  BY ChainsArePages DEF TableAt
<1>2. Typed(e)
  BY <1>1 DEF Typed, TailMoves
<1>3. \A q \in ChainAt(d, id) : IsRecordPage(e, q) /\ e[q] = d[q]
  BY <1>1 DEF TableAt, Chained, ChainAt, IsRecordPage, TailMoves
<1>4. TableAt(e, id) /\ ChainAt(e, id) = ChainAt(d, id)
  BY <1>1, <1>3, SameTable DEF TailMoves
<1> QED
  BY <1>1, <1>2, <1>3, <1>4 DEF Grows, Own, TailMoves

LEMMA TailOfObjectMoves ==
    ASSUME NEW d, NEW id, Typed(d), TableAt(d, id), NEW tail \in ChainAt(d, id)
    PROVE  TailMoves(d, [d EXCEPT ![id].tail = tail], id, tail)
<1>1. d[id] = [head |-> d[id].head, tail |-> d[id].tail] /\ d[id].head \in PageIDs
  BY DEF TableAt, TablePage
<1>2. tail \in PageIDs /\ id \in DOMAIN d
  BY ChainsArePages DEF TableAt
<1>3. [d[id] EXCEPT !.tail = tail] = [head |-> d[id].head, tail |-> tail]
  BY <1>1
<1> QED
  BY <1>1, <1>2, <1>3 DEF TailMoves, TablePage

-----------------------------------------------------------------------------
(* PushBack *)

(* No page of a chain links to itself: its predecessors are unique, and    *)
(* the head has none.                                                      *)
LEMMA NoLoop ==
    ASSUME NEW d, Typed(d), NEW id, TableAt(d, id), NEW q \in ChainAt(d, id)
    PROVE  d[q].next # q /\ d[q].next # d[id].head
<1> DEFINE head == d[id].head
<1>1. /\ ChainAt(d, id) = Chain(d, head) /\ d[head].prev = Null
      /\ \A r \in ChainAt(d, id) : IsRecordPage(d, r)
      /\ \A r \in ChainAt(d, id) : d[r].next # Null => d[d[r].next].prev = r
  BY DEF ChainAt, TableAt, Chained
<1>2. \A r \in ChainAt(d, id) : r # Null
  BY ChainsArePages, NullAssumption
<1>3. head \in ChainAt(d, id)
  BY ChainBegins DEF ChainAt
<1>4. d[q].next # head
  BY <1>1, <1>2, <1>3
<1>5. ASSUME d[q].next = q PROVE FALSE
  <2> DEFINE T == ChainAt(d, id) \ {q}
  <2>1. d[q].prev = q /\ q # head
    BY <1>1, <1>2, <1>4, <1>5
  <2>2. ASSUME NEW r \in T, d[r].next # Null PROVE d[r].next \in T
    BY <1>1, <1>5, <2>1, <2>2, ChainGoesOn
  <2>3. head \in T
    BY <1>3, <2>1
  <2>4. Chain(d, head) \subseteq T
    <3> HIDE DEF T
    <3> QED
      BY <2>2, <2>3, ChainInduction
  <2> QED
    BY <1>1, <2>4
<1> QED
  BY <1>4, <1>5

LEMMA PushBackGrows ==
    ASSUME NEW d, Typed(d), NEW id, TableAt(d, id),
           NEW tail \in ChainAt(d, id), NEW p \in PageIDs \ DOMAIN d,
           NEW e, e = PushBack(d, tail, p)
    PROVE  /\ Grows(d, e, id) /\ e[id] = d[id]
           /\ ChainAt(e, id) = ChainAt(d, id) \union {p}
           /\ e[p] = NewRecordPage(tail, d[tail].next)
           /\ \A q \in ChainAt(d, id) : e[q].slots = d[q].slots
<1> DEFINE head == d[id].head
           after == d[tail].next
           C == ChainAt(d, id)
<1>1. /\ C = Chain(d, head) /\ head \in C /\ d[head].prev = Null
      /\ id \in DOMAIN d /\ d[id] \in TablePage /\ d[id].tail \in C
      /\ \A r \in C : IsRecordPage(d, r)
      /\ \A r \in C : d[r].next # Null => d[d[r].next].prev = r
  BY ChainBegins DEF ChainAt, TableAt, Chained
<1>2. /\ C \subseteq DOMAIN d /\ id \notin C /\ p \notin C
      /\ \A r \in C : r \in PageIDs /\ d[r] \in RecordPage /\ d[r].next \in PageIDs \union {Null}
  BY ChainsArePages
<1>3. \A r \in C : d[r].next # Null => d[r].next \in C
  BY <1>1, ChainGoesOn
<1>4. Null \notin PageIDs /\ Null \notin DOMAIN d
  BY NullAssumption DEF Typed
<1>5. after # tail /\ after # head
  BY NoLoop
<1>6. /\ DOMAIN e = DOMAIN d \union {p}
      /\ e[p] = NewRecordPage(tail, after)
      /\ e[tail] = [d[tail] EXCEPT !.next = p]
      /\ after # Null => e[after] = [d[after] EXCEPT !.prev = p]
      /\ \A q \in DOMAIN d \ {tail, after} : e[q] = d[q]
  <2>1. e = [q \in DOMAIN d \union {p} |->
                CASE q = p     -> NewRecordPage(tail, after)
                  [] q = tail  -> [d[q] EXCEPT !.next = p]
                  [] q = after -> [d[q] EXCEPT !.prev = p]
                  [] OTHER     -> d[q]]
    BY DEF PushBack
  <2>2. /\ tail \in DOMAIN d /\ tail # p /\ after # p /\ after # tail
        /\ after # Null => after \in DOMAIN d
    BY <1>2, <1>3, <1>4, <1>5
  <2> HIDE DEF after, C, head
  <2>3. DOMAIN e = DOMAIN d \union {p} /\ e[p] = NewRecordPage(tail, after)
    BY <2>1, <2>2
  <2>4. e[tail] = [d[tail] EXCEPT !.next = p]
    BY <2>1, <2>2
  <2>5. after # Null => e[after] = [d[after] EXCEPT !.prev = p]
    BY <2>1, <2>2
  <2>6. \A q \in DOMAIN d \ {tail, after} : e[q] = d[q]
    BY <2>1
  <2> QED
    BY <2>3, <2>4, <2>5, <2>6
<1> HIDE DEF C, head, after
<1>7. /\ e[p] \in RecordPage /\ e[p].next = after /\ e[p].prev = tail
      /\ e[tail] \in RecordPage /\ e[tail].next = p
      /\ e[tail].prev = d[tail].prev /\ e[tail].slots = d[tail].slots
  BY <1>2, <1>6 DEF NewRecordPage, RecordPage, C, after
<1>8. after # Null =>
        /\ after \in C /\ e[after] \in RecordPage /\ e[after].prev = p
        /\ e[after].next = d[after].next /\ e[after].slots = d[after].slots
  BY <1>2, <1>3, <1>6 DEF RecordPage, C, after
<1>9. \A q \in C : /\ e[q] \in RecordPage /\ e[q].slots = d[q].slots
                   /\ q # tail => e[q].next = d[q].next
                   /\ q # after => e[q].prev = d[q].prev
  <2> SUFFICES ASSUME NEW q \in C
               PROVE  /\ e[q] \in RecordPage /\ e[q].slots = d[q].slots
                      /\ q # tail => e[q].next = d[q].next
                      /\ q # after => e[q].prev = d[q].prev
    OBVIOUS
  <2>1. CASE q = tail
    BY <1>7, <2>1
  <2>2. CASE q = after
    BY <1>2, <1>4, <1>8, <2>2
  <2>3. CASE q \notin {tail, after}
    BY <1>2, <1>6, <2>3
  <2> QED
    BY <2>1, <2>2, <2>3
<1>10. e[id] = d[id] /\ id \in DOMAIN e /\ e[id].head = head
  <2>1. id # tail /\ id # after
    BY <1>1, <1>2, <1>3, <1>4 DEF C, after
  <2> QED
    BY <1>1, <1>6, <2>1 DEF head
<1>11. Typed(e)
  <2>1. \A q \in DOMAIN d : q \in C \/ e[q] = d[q]
    BY <1>4, <1>6, <1>8 DEF C
  <2>2. DOMAIN e \subseteq PageIDs
    BY <1>6 DEF Typed
  <2>3. \A q \in DOMAIN e : e[q] \in RecordPage \/ e[q] \in TablePage \/ e[q] = Blank
    BY <1>6, <1>7, <1>9, <2>1 DEF Typed
  <2> QED
    BY <2>2, <2>3 DEF Typed
<1>12. \A q \in C \union {p} : IsRecordPage(e, q)
  BY <1>2, <1>6, <1>7, <1>9, Kinds DEF IsRecordPage
<1>13. Chain(e, head) \subseteq C \union {p}
  <2>1. \A q \in C \union {p} : e[q].next # Null => e[q].next \in C \union {p}
    BY <1>3, <1>7, <1>8, <1>9
  <2> QED
    BY <1>1, <2>1, ChainInduction
<1>14. C \union {p} \subseteq Chain(e, head)
  <2> DEFINE T == Chain(e, head)
  <2>1. ASSUME NEW q \in T \intersect C, d[q].next # Null PROVE d[q].next \in T
    <3>1. CASE q = tail
      <4>1. p \in T
        BY <1>2, <1>4, <1>7, <1>12, <2>1, <3>1, ChainGoesOn
      <4> QED
        BY <1>7, <1>12, <2>1, <3>1, <4>1, ChainGoesOn DEF after
    <3>2. CASE q # tail
      BY <1>9, <1>12, <2>1, <3>2, ChainGoesOn
    <3> QED
      BY <3>1, <3>2
  <2>2. C \subseteq T
    BY <1>1, <2>1, ChainBegins, ChainInduction
  <2>3. p \in T
    BY <1>2, <1>4, <1>7, <1>12, <2>2, ChainGoesOn DEF C
  <2> QED
    BY <2>2, <2>3
<1>15. ChainAt(e, id) = C \union {p}
  BY <1>10, <1>13, <1>14 DEF ChainAt
<1>16. Chained(e, head)
  <2>1. e[head].prev = Null
    BY <1>1, <1>5, <1>9
  <2>2. ASSUME NEW q \in C \union {p}, e[q].next # Null PROVE e[e[q].next].prev = q
    <3>1. CASE q \in {tail, p}
      BY <1>2, <1>7, <1>8, <2>2, <3>1 DEF C
    <3>2. CASE q \notin {tail, p}
      <4>1. e[q].next = d[q].next /\ d[d[q].next].prev = q /\ d[q].next \in C
        BY <1>1, <1>3, <1>9, <2>2, <3>2
      <4>2. d[q].next # after
        BY <1>1, <3>2, <4>1, <1>4, <1>2 DEF after, C
      <4> QED
        BY <1>9, <4>1, <4>2
    <3> QED
      BY <3>1, <3>2
  <2>3. \E q \in C \union {p} : e[q].next = Null
    <3>1. PICK z \in C : d[z].next = Null
      BY <1>1 DEF TableAt, Chained, head
    <3> QED
      BY <1>7, <1>9, <3>1 DEF after
  <2> QED
    BY <1>12, <1>13, <1>14, <2>1, <2>2, <2>3 DEF Chained
<1>17. TableAt(e, id)
  BY <1>1, <1>10, <1>15, <1>16 DEF TableAt
<1>18. Grows(d, e, id)
  <2>1. \A q \in DOMAIN d \ Own(d, id) : e[q] = d[q]
    <3>1. tail \in Own(d, id) /\ (after # Null => after \in Own(d, id))
      BY <1>8 DEF Own, C
    <3> QED
      BY <1>4, <1>6, <3>1
  <2> QED
    BY <1>6, <1>10, <1>11, <1>15, <1>17, <2>1 DEF Grows, C, head
<1> QED
  BY <1>6, <1>9, <1>10, <1>15, <1>18 DEF C, after

-----------------------------------------------------------------------------
(* Table objects and the calls on them *)

ObjectOf(d, id, obj) ==
    /\ obj \in Table /\ obj.head = d[id].head
    /\ obj.tail \in ChainAt(d, id) /\ obj.notFull \in ChainAt(d, id)

(* What an object knows as long as no page has been missing.               *)
KnowsChain(d, id, obj) ==
    /\ d[obj.tail].next = Null
    /\ HasRoom(d, obj.notFull)
    /\ obj.modified \/ obj.tail = d[id].tail

FileFields == {"disk", "clock", "table", "threw"}

FileOf(f, id) ==
    /\ DOMAIN f = FileFields
    /\ Typed(f.disk) /\ TableAt(f.disk, id)
    /\ f.clock \in PageIDs
    /\ ObjectOf(f.disk, id, f.table)
    /\ f.threw \in BOOLEAN

(* The rows of the table at id stay the same. *)
SameRows(d, e, id) ==
    /\ ChainAt(d, id) \subseteq ChainAt(e, id)
    /\ \A q \in ChainAt(d, id) : e[q].slots = d[q].slots
    /\ \A q \in ChainAt(e, id) \ ChainAt(d, id) : \A s \in SlotIDs : e[q].slots[s] = NoRow

LEMMA NextPageChosen ==
    ASSUME NEW o \in Table, NEW p \in PageIDs, NEW r, r = [o EXCEPT !.notFull = p]
    PROVE  /\ r \in Table /\ r.head = o.head /\ r.tail = o.tail
           /\ r.notFull = p /\ r.modified = o.modified
  BY DEF Table

LEMMA SlotsAreThere == 0 \in SlotIDs
  BY CapAssumption DEF SlotIDs

LEMMA NewPageHasRoom ==
    ASSUME NEW prev, NEW next
    PROVE  \A s \in SlotIDs : NewRecordPage(prev, next).slots[s] = NoRow
  BY DEF NewRecordPage

(* Of the pages of a chain that have a property, one comes first.          *)
LEMMA FirstInChain ==
    ASSUME NEW d, NEW p, NEW R \in SUBSET Chain(d, p), R # {}
    PROVE  \E q \in R : R \subseteq Chain(d, q)
<1> SUFFICES ASSUME \A q \in R : ~(R \subseteq Chain(d, q)) PROVE FALSE
  OBVIOUS
<1> DEFINE T == {q \in Chain(d, p) : R \subseteq Chain(d, q)}
<1>1. p \in T
  BY ChainBegins
<1>2. ASSUME NEW q \in T, IsRecordPage(d, q), d[q].next # Null PROVE d[q].next \in T
  <2>1. d[q].next \in Chain(d, p)
    BY <1>2, ChainGoesOn
  <2>2. ASSUME NEW r \in R PROVE r \in Chain(d, d[q].next)
    BY ChainSplits
  <2> QED
    BY <2>1, <2>2
<1>3. Chain(d, p) \subseteq T
  <2> HIDE DEF T
  <2> QED
    BY <1>1, <1>2, ChainInduction
<1> QED
  BY <1>3

LEMMA NextNotFullGrows ==
    ASSUME NEW f, NEW id, FileOf(f, id), ~f.threw,
           NEW g, g = NextNotFull(f)
    PROVE  /\ FileOf(g, id)
           /\ Grows(f.disk, g.disk, id) /\ g.disk[id] = f.disk[id]
           /\ SameRows(f.disk, g.disk, id)
           /\ g.threw => g.disk = f.disk /\ g.clock = f.clock
           /\ ~g.threw => HasRoom(g.disk, g.table.notFull)
           /\ f.disk[f.table.tail].next = Null => g.disk[g.table.tail].next = Null
           /\ g.table.modified \/ (g.table.tail = f.table.tail /\ g.table.modified = f.table.modified)
           /\ (\E p \in Chain(f.disk, f.table.notFull) : HasRoom(f.disk, p)) =>
                /\ g.disk = f.disk /\ g.clock = f.clock /\ ~g.threw
                /\ g.table.tail = f.table.tail /\ g.table.modified = f.table.modified
<1> DEFINE d     == f.disk
           roomy == {p \in Chain(d, f.table.notFull) : HasRoom(d, p)}
           first == CHOOSE p \in roomy : roomy \subseteq Chain(d, p)
           page  == FirstFree(DOMAIN d, f.clock)
<1>1. /\ Typed(d) /\ TableAt(d, id) /\ ObjectOf(d, id, f.table) /\ f.clock \in PageIDs
      /\ DOMAIN f = FileFields /\ f.table \in Table
  BY DEF FileOf, ObjectOf
<1>3. Grows(d, d, id) /\ SameRows(d, d, id)
  BY <1>1 DEF Grows, SameRows, Own
<1>4. ChainAt(d, id) \subseteq DOMAIN d /\ DOMAIN d \subseteq PageIDs
  BY <1>1, ChainsArePages DEF Typed
<1>5. CASE roomy # {}
  <2>1. first \in roomy
    <3>1. roomy \in SUBSET Chain(d, f.table.notFull)
      OBVIOUS
    <3> HIDE DEF roomy
    <3> QED
      BY <1>5, <3>1, FirstInChain
  <2>2. first \in ChainAt(d, id) /\ HasRoom(d, first) /\ first \in PageIDs
    BY <1>1, <1>4, <2>1, ChainOfMember DEF ObjectOf, ChainAt
  <2>3. g = [f EXCEPT !.table.notFull = first]
    BY <1>5 DEF NextNotFull
  <2> HIDE DEF first, roomy, d
  <2>4. /\ DOMAIN g = FileFields /\ g.disk = f.disk /\ g.clock = f.clock /\ g.threw = f.threw
        /\ g.table = [f.table EXCEPT !.notFull = first]
    BY <1>1, <2>3 DEF FileFields
  <2>5. /\ g.table \in Table /\ g.table.head = f.table.head /\ g.table.tail = f.table.tail
        /\ g.table.notFull = first /\ g.table.modified = f.table.modified
    BY <1>1, <2>2, <2>4, NextPageChosen
  <2>6. ObjectOf(d, id, g.table)
    BY <1>1, <2>2, <2>5 DEF ObjectOf
  <2>7. FileOf(g, id)
    BY <1>1, <2>4, <2>6 DEF FileOf, d
  <2> QED
    BY <1>3, <2>2, <2>4, <2>5, <2>7 DEF d
<1>6. CASE roomy = {} /\ FreeSteps(DOMAIN d, f.clock) # {}
  <2> DEFINE e == PushBack(d, f.table.tail, page)
  <2>1. page \in PageIDs \ DOMAIN d
    BY <1>1, <1>6, FirstFreeIsFree
  <2>2. g = [disk  |-> e, clock |-> page,
             table |-> [head |-> f.table.head, tail |-> page,
                        notFull |-> page, modified |-> TRUE],
             threw |-> FALSE]
    BY <1>6 DEF NextNotFull
  <2> HIDE DEF page
  <2>3. f.table.tail \in ChainAt(d, id)
    BY <1>1 DEF ObjectOf
  <2>4. /\ Grows(d, e, id) /\ e[id] = d[id]
        /\ ChainAt(e, id) = ChainAt(d, id) \union {page}
        /\ e[page] = NewRecordPage(f.table.tail, d[f.table.tail].next)
        /\ \A q \in ChainAt(d, id) : e[q].slots = d[q].slots
    BY <1>1, <2>1, <2>3, PushBackGrows
  <2> HIDE DEF e, d, roomy
  <2>5. SameRows(d, e, id) /\ HasRoom(e, page)
    BY <2>4, NewPageHasRoom, SlotsAreThere DEF SameRows, HasRoom
  <2>6. e[page].next = d[f.table.tail].next
    BY <2>4 DEF NewRecordPage
  <2>7. /\ DOMAIN g = FileFields /\ g.disk = e /\ g.clock = page /\ g.threw = FALSE
        /\ g.table = [head |-> f.table.head, tail |-> page, notFull |-> page, modified |-> TRUE]
    BY <2>2 DEF FileFields
  <2>8. /\ g.table \in Table /\ g.table.head = f.table.head /\ g.table.tail = page
        /\ g.table.notFull = page /\ g.table.modified = TRUE
    BY <1>1, <2>1, <2>7 DEF Table
  <2>9. ObjectOf(e, id, g.table)
    BY <1>1, <2>4, <2>8 DEF ObjectOf
  <2>10. FileOf(g, id)
    BY <2>1, <2>4, <2>7, <2>9 DEF FileOf, Grows
  <2>11. ~\E p \in Chain(f.disk, f.table.notFull) : HasRoom(f.disk, p)
    BY <1>6 DEF roomy, d
  <2>12. /\ g.disk[id] = f.disk[id] /\ ~g.threw /\ g.table.modified
         /\ f.disk[f.table.tail].next = Null => g.disk[g.table.tail].next = Null
         /\ HasRoom(g.disk, g.table.notFull)
    BY <2>4, <2>5, <2>6, <2>7, <2>8 DEF d
  <2>13. Grows(f.disk, g.disk, id) /\ SameRows(f.disk, g.disk, id)
    BY <2>4, <2>5, <2>7 DEF d
  <2>14. g.table.modified \/ (g.table.tail = f.table.tail /\ g.table.modified = f.table.modified)
    BY <2>12, Zenon
  <2> QED
    BY <2>10, <2>11, <2>12, <2>13, <2>14, Zenon
<1>7. CASE roomy = {} /\ FreeSteps(DOMAIN d, f.clock) = {}
  <2>1. g = [f EXCEPT !.threw = TRUE]
    BY <1>7 DEF NextNotFull
  <2>2. ~\E p \in Chain(f.disk, f.table.notFull) : HasRoom(f.disk, p)
    BY <1>7
  <2> HIDE DEF roomy, d
  <2>3. /\ DOMAIN g = FileFields /\ g.disk = f.disk /\ g.clock = f.clock /\ g.threw = TRUE
        /\ g.table = f.table
    BY <1>1, <2>1 DEF FileFields
  <2>4. FileOf(g, id)
    BY <1>1, <2>3 DEF FileOf, d
  <2> QED
    BY <1>3, <2>2, <2>3, <2>4 DEF d
<1> QED
  BY <1>5, <1>6, <1>7

(* A new Table object; one over a chain with room changes nothing.         *)
LEMMA OpenedGrows ==
    ASSUME NEW d, NEW c \in PageIDs, NEW id, Typed(d), TableAt(d, id),
           NEW g, g = Opened(d, c, id)
    PROVE  /\ FileOf(g, id)
           /\ Grows(d, g.disk, id) /\ g.disk[id] = d[id]
           /\ SameRows(d, g.disk, id)
           /\ g.threw => g.disk = d /\ g.clock = c
           /\ ~g.threw => HasRoom(g.disk, g.table.notFull)
           /\ d[d[id].tail].next = Null /\ ~g.threw => KnowsChain(g.disk, id, g.table)
           /\ (\E p \in ChainAt(d, id) : HasRoom(d, p)) =>
                /\ g.disk = d /\ g.clock = c /\ ~g.threw
                /\ g.table.tail = d[id].tail /\ ~g.table.modified
<1> DEFINE f == [disk  |-> d, clock |-> c,
                 table |-> [head |-> d[id].head, tail |-> d[id].tail,
                            notFull |-> d[id].head, modified |-> FALSE],
                 threw |-> FALSE]
<1>1. d[id].head \in ChainAt(d, id) /\ d[id].tail \in ChainAt(d, id)
  BY ChainBegins DEF ChainAt, TableAt
<1>2. d[id].head \in PageIDs /\ d[id].tail \in PageIDs
  BY <1>1, ChainsArePages
<1>3. /\ DOMAIN f = FileFields /\ f.disk = d /\ f.clock = c /\ f.threw = FALSE
      /\ f.table.head = d[id].head /\ f.table.tail = d[id].tail
      /\ f.table.notFull = d[id].head /\ f.table.modified = FALSE
  BY DEF FileFields
<1>4. f.table \in Table
  BY <1>2 DEF Table
<1>5. g = NextNotFull(f)
  BY DEF Opened
<1> HIDE DEF f
<1>6. FileOf(f, id) /\ ~f.threw
  BY <1>1, <1>3, <1>4 DEF FileOf, ObjectOf
<1>7. /\ FileOf(g, id)
      /\ Grows(d, g.disk, id) /\ g.disk[id] = d[id]
      /\ SameRows(d, g.disk, id)
      /\ g.threw => g.disk = d /\ g.clock = c
      /\ ~g.threw => HasRoom(g.disk, g.table.notFull)
      /\ d[d[id].tail].next = Null => g.disk[g.table.tail].next = Null
      /\ g.table.modified \/ (g.table.tail = d[id].tail /\ g.table.modified = FALSE)
      /\ (\E p \in ChainAt(d, id) : HasRoom(d, p)) =>
            /\ g.disk = d /\ g.clock = c /\ ~g.threw
            /\ g.table.tail = d[id].tail /\ g.table.modified = FALSE
  BY <1>3, <1>5, <1>6, NextNotFullGrows, SMTT(30) DEF ChainAt
<1>8. d[d[id].tail].next = Null /\ ~g.threw => KnowsChain(g.disk, id, g.table)
  BY <1>7 DEF KnowsChain
<1> QED
  BY <1>7, <1>8

LEMMA OpenedKnows ==
    ASSUME NEW d, NEW c \in PageIDs, NEW id, Typed(d), TableAt(d, id),
           d[d[id].tail].next = Null, \E p \in ChainAt(d, id) : HasRoom(d, p),
           NEW g, g = Opened(d, c, id)
    PROVE  ~g.threw /\ KnowsChain(g.disk, id, g.table)
  BY OpenedGrows

(* A slot of a page of the chain is written. *)
LEMMA SlotPut ==
    ASSUME NEW d, NEW id, Typed(d), TableAt(d, id),
           NEW p \in ChainAt(d, id), NEW s \in SlotIDs, NEW row \in Rows \union {NoRow}
    PROVE  LET e == [d EXCEPT ![p].slots[s] = row]
           IN  /\ SlotsChange(d, e, id)
               /\ e[p].slots = [d[p].slots EXCEPT ![s] = row]
               /\ \A q \in DOMAIN d \ {p} : e[q] = d[q]
<1>1. p \in DOMAIN d /\ d[p] \in RecordPage /\ ChainAt(d, id) \subseteq DOMAIN d
  BY ChainsArePages
<1> DEFINE slots == [d[p].slots EXCEPT ![s] = row]
           r == [d[p] EXCEPT !.slots = slots]
           e == [d EXCEPT ![p] = r]
<1>2. slots \in [SlotIDs -> Rows \union {NoRow}]
  BY <1>1 DEF RecordPage
<1>3. r \in RecordPage /\ r.slots = slots /\ r.next = d[p].next /\ r.prev = d[p].prev
  <2> HIDE DEF slots
  <2> QED
    BY <1>1, <1>2 DEF RecordPage
<1>4. /\ DOMAIN e = DOMAIN d /\ e[p] = r /\ \A q \in DOMAIN d \ {p} : e[q] = d[q]
      /\ \A q \in ChainAt(d, id) : d[q] \in RecordPage
  <2> HIDE DEF r
  <2> QED
    BY <1>1, ChainsArePages
<1>5. SlotsChange(d, e, id)
  <2> HIDE DEF r, e, slots
  <2> QED
    BY <1>1, <1>3, <1>4 DEF SlotsChange
<1> QED
  <2>1. e[p].slots = slots
    <3> HIDE DEF r, e, slots
    <3> QED
      BY <1>3, <1>4
  <2> QED
    BY <1>4, <1>5, <2>1

LEMMA MinIsIn ==
    ASSUME NEW n \in Nat, NEW K \in SUBSET (0..n), K # {}
    PROVE  Min(K) \in K
  BY LeastExists DEF Min

(* A chain that grows keeps the pages an object refers to. *)
LEMMA ObjectStays ==
    ASSUME NEW d, NEW e, NEW id, NEW obj, ObjectOf(d, id, obj), Grows(d, e, id)
    PROVE  ObjectOf(e, id, obj)
  BY DEF ObjectOf, Grows

LEMMA FileStays ==
    ASSUME NEW f, NEW g, NEW id, FileOf(f, id), DOMAIN g = FileFields,
           g.clock = f.clock, g.table = f.table, g.threw = f.threw,
           Grows(f.disk, g.disk, id)
    PROVE  FileOf(g, id)
  BY ObjectStays DEF FileOf, Grows

(* The table at id gets a row at a slot that was free, and loses none.     *)
RowPut(d, e, id, p, s, row) ==
    /\ p \in ChainAt(d, id) /\ s \in SlotIDs /\ d[p].slots[s] = NoRow
    /\ ChainAt(d, id) \subseteq ChainAt(e, id)
    /\ e[p].slots = [d[p].slots EXCEPT ![s] = row]
    /\ \A q \in ChainAt(d, id) \ {p} : e[q].slots = d[q].slots
    /\ \A q \in ChainAt(e, id) \ ChainAt(d, id) : \A n \in SlotIDs : e[q].slots[n] = NoRow

LEMMA InsertRecordGrows ==
    ASSUME NEW f, NEW id, FileOf(f, id), ~f.threw, NEW row \in Rows,
           NEW g, g = InsertRecord(f, row)
    PROVE  /\ FileOf(g, id) /\ Grows(f.disk, g.disk, id)
           /\ KnowsChain(f.disk, id, f.table) /\ ~g.threw => KnowsChain(g.disk, id, g.table)
           /\ IF HasRoom(f.disk, f.table.notFull)
                 THEN \E s \in SlotIDs : RowPut(f.disk, g.disk, id, f.table.notFull, s, row)
                 ELSE SameRows(f.disk, g.disk, id)
<1> DEFINE d      == f.disk
           page   == f.table.notFull
           free   == {s \in SlotIDs : d[page].slots[s] = NoRow}
           s      == Min(free)
           stored == IF free = {} THEN f ELSE [f EXCEPT !.disk[page].slots[s] = row]
           h      == stored.disk
<1>1. /\ Typed(d) /\ TableAt(d, id) /\ page \in ChainAt(d, id) /\ f.table.tail \in ChainAt(d, id)
      /\ id \in DOMAIN d /\ DOMAIN f = FileFields
  BY DEF FileOf, ObjectOf, TableAt
<1>2. g = IF HasRoom(h, page) THEN stored ELSE NextNotFull(stored)
  BY DEF InsertRecord
<1>3. free # {} <=> HasRoom(d, page)
  BY DEF HasRoom
<1>4. CASE free = {}
  <2>1. g = NextNotFull(f)
    BY <1>2, <1>3, <1>4
  <2>2. ~HasRoom(d, page)
    BY <1>3, <1>4
  <2>3. /\ FileOf(g, id) /\ Grows(d, g.disk, id) /\ SameRows(d, g.disk, id)
        /\ KnowsChain(d, id, f.table) /\ ~g.threw => KnowsChain(g.disk, id, g.table)
    BY <2>1, <2>2, NextNotFullGrows DEF KnowsChain
  <2> QED
    BY <2>2, <2>3
<1>5. CASE free # {}
  <2>1. s \in free /\ s \in SlotIDs
    <3>1. Cap - 1 \in Nat /\ free \in SUBSET (0..Cap-1)
      BY CapAssumption DEF SlotIDs
    <3> HIDE DEF free
    <3>2. Min(free) \in free
      BY <1>5, <3>1, MinIsIn
    <3> QED
      BY <3>2 DEF free
  <2>2. /\ DOMAIN stored = FileFields /\ h = [d EXCEPT ![page].slots[s] = row]
        /\ stored.clock = f.clock /\ stored.table = f.table /\ stored.threw = f.threw
    <3>1. stored = [f EXCEPT !.disk[page].slots[s] = row]
      BY <1>5
    <3> HIDE DEF s, page, stored, free
    <3> QED
      BY <1>1, <3>1 DEF FileFields
  <2> HIDE DEF s
  <2>3. /\ SlotsChange(d, h, id)
        /\ h[page].slots = [d[page].slots EXCEPT ![s] = row]
        /\ \A q \in DOMAIN d \ {page} : h[q] = d[q]
    <3> HIDE DEF page, d, stored
    <3> QED
      BY <1>1, <2>1, <2>2, SlotPut
  <2> HIDE DEF page, stored
  <2>4. Grows(d, h, id) /\ ChainAt(h, id) = ChainAt(d, id) /\ h[id] = d[id]
    BY <1>1, <2>3, SlotsGrow
  <2>5. FileOf(stored, id) /\ ~stored.threw
    BY <2>2, <2>4, FileStays DEF h
  <2>6. d[page].slots[s] = NoRow
    BY <2>1
  <2> HIDE DEF free, h
  <2>7. RowPut(d, h, id, page, s, row)
    <3>1. ChainAt(d, id) \subseteq DOMAIN d
      BY <1>1, ChainsArePages
    <3> HIDE DEF d
    <3> QED
      BY <1>1, <2>1, <2>3, <2>4, <2>6, <3>1 DEF RowPut
  <2>8. h[f.table.tail].next = d[f.table.tail].next
    BY <1>1, <2>3 DEF SlotsChange
  <2>9. CASE HasRoom(h, page)
    <3>1. g = stored
      BY <1>2, <2>9
    <3>2. KnowsChain(d, id, f.table) => KnowsChain(h, id, f.table)
      BY <2>4, <2>8, <2>9 DEF KnowsChain, page
    <3> QED
      BY <1>3, <1>5, <2>1, <2>2, <2>4, <2>5, <2>7, <3>1, <3>2 DEF h, page, d
  <2>10. CASE ~HasRoom(h, page)
    <3>1. g = NextNotFull(stored)
      BY <1>2, <2>10
    <3>2. /\ FileOf(g, id) /\ Grows(h, g.disk, id) /\ SameRows(h, g.disk, id) /\ g.disk[id] = h[id]
          /\ ~g.threw => HasRoom(g.disk, g.table.notFull)
          /\ h[f.table.tail].next = Null => g.disk[g.table.tail].next = Null
          /\ g.table.modified \/ (g.table.tail = f.table.tail /\ g.table.modified = f.table.modified)
      <4>1. /\ FileOf(g, id) /\ Grows(stored.disk, g.disk, id)
            /\ SameRows(stored.disk, g.disk, id) /\ g.disk[id] = stored.disk[id]
            /\ ~g.threw => HasRoom(g.disk, g.table.notFull)
            /\ stored.disk[stored.table.tail].next = Null => g.disk[g.table.tail].next = Null
            /\ \/ g.table.modified
               \/ g.table.tail = stored.table.tail /\ g.table.modified = stored.table.modified
        BY <2>5, <3>1, NextNotFullGrows
      <4> QED
        BY <2>2, <4>1 DEF h
    <3>3. Grows(d, g.disk, id)
      BY <1>1, <2>4, <3>2, GrowsTwice
    <3>4. RowPut(d, g.disk, id, page, s, row)
      BY <2>4, <2>7, <3>2 DEF RowPut, SameRows
    <3>5. KnowsChain(d, id, f.table) /\ ~g.threw => KnowsChain(g.disk, id, g.table)
      BY <2>4, <2>8, <3>2 DEF KnowsChain
    <3> QED
      BY <1>3, <1>5, <2>1, <3>2, <3>3, <3>4, <3>5 DEF page
  <2> QED
    BY <2>9, <2>10
<1> QED
  BY <1>4, <1>5

(* No slot of the table at id is taken. *)
RoomKept(d, e, id) ==
    \A q \in ChainAt(d, id), s \in SlotIDs :
        d[q].slots[s] = NoRow => e[q].slots[s] = NoRow

LEMMA KnowledgeStays ==
    ASSUME NEW d, NEW e, NEW id, NEW obj, Typed(d), TableAt(d, id), ObjectOf(d, id, obj),
           SlotsChange(d, e, id), RoomKept(d, e, id), KnowsChain(d, id, obj)
    PROVE  KnowsChain(e, id, obj)
<1>1. e[id] = d[id]
  BY SlotsGrow
<1>2. e[obj.tail].next = d[obj.tail].next
  BY DEF SlotsChange, ObjectOf
<1>3. HasRoom(e, obj.notFull)
  BY DEF HasRoom, KnowsChain, RoomKept, ObjectOf
<1> QED
  BY <1>1, <1>2, <1>3 DEF KnowsChain

LEMMA UpdateRecordGrows ==
    ASSUME NEW f, NEW id, FileOf(f, id), NEW row \in Rows,
           NEW loc \in ChainAt(f.disk, id) \X SlotIDs, f.disk[loc[1]].slots[loc[2]] # NoRow,
           NEW g, g = UpdateRecord(f, loc, row)
    PROVE  /\ FileOf(g, id) /\ SlotsChange(f.disk, g.disk, id) /\ RoomKept(f.disk, g.disk, id)
           /\ g.threw = f.threw
           /\ KnowsChain(f.disk, id, f.table) => KnowsChain(g.disk, id, g.table)
           /\ g.disk[loc[1]].slots = [f.disk[loc[1]].slots EXCEPT ![loc[2]] = row]
           /\ \A q \in ChainAt(f.disk, id) \ {loc[1]} : g.disk[q].slots = f.disk[q].slots
<1> DEFINE d == f.disk
           p == loc[1]
           s == loc[2]
<1>1. Typed(d) /\ TableAt(d, id) /\ DOMAIN f = FileFields /\ ObjectOf(d, id, f.table)
  BY DEF FileOf
<1>2. p \in ChainAt(d, id) /\ s \in SlotIDs /\ d[p].slots[s] # NoRow
  OBVIOUS
<1>3. /\ DOMAIN g = FileFields /\ g.disk = [d EXCEPT ![p].slots[s] = row]
      /\ g.clock = f.clock /\ g.table = f.table /\ g.threw = f.threw
  <2>1. g = [f EXCEPT !.disk[p].slots[s] = row]
    BY DEF UpdateRecord
  <2> HIDE DEF p, s
  <2> QED
    BY <1>1, <2>1 DEF FileFields
<1> HIDE DEF p, s
<1>4. /\ SlotsChange(d, g.disk, id)
      /\ g.disk[p].slots = [d[p].slots EXCEPT ![s] = row]
      /\ \A q \in DOMAIN d \ {p} : g.disk[q] = d[q]
  <2> HIDE DEF d
  <2> QED
    BY <1>1, <1>2, <1>3, SlotPut, SMTT(30)
<1> HIDE DEF d
<1>5. /\ ChainAt(d, id) \subseteq DOMAIN d
      /\ \A q \in ChainAt(d, id) : d[q].slots \in [SlotIDs -> Rows \union {NoRow}]
  BY <1>1, ChainsArePages
<1>6. RoomKept(d, g.disk, id)
  <2> SUFFICES ASSUME NEW q \in ChainAt(d, id), NEW n \in SlotIDs, d[q].slots[n] = NoRow
               PROVE  g.disk[q].slots[n] = NoRow
    BY DEF RoomKept
  <2>1. CASE q = p
    BY <1>2, <1>4, <1>5, <2>1
  <2>2. CASE q # p
    BY <1>4, <1>5, <2>2
  <2> QED
    BY <2>1, <2>2
<1>7. FileOf(g, id)
  BY <1>1, <1>3, <1>4, SlotsGrow, FileStays DEF d
<1>8. KnowsChain(d, id, f.table) => KnowsChain(g.disk, id, g.table)
  BY <1>1, <1>3, <1>4, <1>6, KnowledgeStays
<1> QED
  BY <1>3, <1>4, <1>5, <1>6, <1>7, <1>8 DEF d, p, s

LEMMA ErasedSlots ==
    ASSUME NEW d, NEW id, Typed(d), TableAt(d, id),
           NEW locs \in SUBSET (ChainAt(d, id) \X SlotIDs),
           NEW e, e = Erased(d, locs)
    PROVE  /\ SlotsChange(d, e, id) /\ RoomKept(d, e, id)
           /\ \A q \in ChainAt(d, id), s \in SlotIDs :
                e[q].slots[s] = IF <<q, s>> \in locs THEN NoRow ELSE d[q].slots[s]
           /\ \A q \in ChainAt(d, id) : e[q].slots \in [SlotIDs -> Rows \union {NoRow}]
<1> DEFINE Left(q) == [s \in SlotIDs |-> IF <<q, s>> \in locs THEN NoRow ELSE d[q].slots[s]]
<1>1. /\ DOMAIN e = DOMAIN d
      /\ \A q \in DOMAIN d :
            e[q] = IF IsRecordPage(d, q) THEN [d[q] EXCEPT !.slots = Left(q)] ELSE d[q]
  BY DEF Erased
<1>2. /\ ChainAt(d, id) \subseteq DOMAIN d
      /\ \A q \in ChainAt(d, id) : IsRecordPage(d, q)
      /\ \A q \in DOMAIN d : IsRecordPage(d, q) => d[q] \in RecordPage
  BY ChainsArePages, RecordPages DEF TableAt, Chained, ChainAt
<1>3. ASSUME NEW q \in DOMAIN d, IsRecordPage(d, q)
      PROVE  /\ e[q] \in RecordPage /\ e[q].next = d[q].next /\ e[q].prev = d[q].prev
             /\ e[q].slots = Left(q)
  <2>1. d[q] \in RecordPage /\ e[q] = [d[q] EXCEPT !.slots = Left(q)]
    BY <1>1, <1>2, <1>3
  <2>2. d[q].slots \in [SlotIDs -> Rows \union {NoRow}]
    BY <2>1 DEF RecordPage
  <2>3. Left(q) \in [SlotIDs -> Rows \union {NoRow}]
    BY <2>2
  <2> HIDE DEF Left
  <2> QED
    BY <2>1, <2>3 DEF RecordPage
<1>4. ASSUME NEW q \in DOMAIN d \ ChainAt(d, id) PROVE e[q] = d[q]
  <2>1. CASE IsRecordPage(d, q)
    <3>1. d[q] \in RecordPage /\ e[q] = [d[q] EXCEPT !.slots = Left(q)]
      BY <1>1, <1>2, <2>1
    <3>2. d[q].slots \in [SlotIDs -> Rows \union {NoRow}]
      BY <3>1 DEF RecordPage
    <3>3. \A s \in SlotIDs : <<q, s>> \notin locs
      BY <1>4
    <3>4. Left(q) = d[q].slots
      BY <3>2, <3>3
    <3> HIDE DEF Left
    <3> QED
      BY <3>1, <3>4 DEF RecordPage
  <2>2. CASE ~IsRecordPage(d, q)
    BY <1>1, <2>2
  <2> QED
    BY <2>1, <2>2
<1>5. SlotsChange(d, e, id)
  BY <1>1, <1>2, <1>3, <1>4 DEF SlotsChange
<1>6. \A q \in ChainAt(d, id), s \in SlotIDs : e[q].slots[s] = Left(q)[s]
  BY <1>2, <1>3
<1>7. RoomKept(d, e, id)
  BY <1>6 DEF RoomKept
<1> QED
  BY <1>2, <1>3, <1>5, <1>6, <1>7 DEF RecordPage

LEMMA DeleteRecordsGrows ==
    ASSUME NEW f, NEW id, FileOf(f, id),
           NEW locs \in SUBSET (ChainAt(f.disk, id) \X SlotIDs),
           NEW g, g = DeleteRecords(f, locs)
    PROVE  /\ FileOf(g, id) /\ g.disk = Erased(f.disk, locs)
           /\ g.clock = f.clock /\ g.threw = f.threw
           /\ g.table.tail = f.table.tail /\ g.table.modified = f.table.modified
           /\ KnowsChain(f.disk, id, f.table) => KnowsChain(g.disk, id, g.table)
<1> DEFINE d == f.disk
           candidates == {f.table.notFull} \union {loc[1] : loc \in locs}
           next == Min(candidates)
<1>1. /\ Typed(d) /\ TableAt(d, id) /\ DOMAIN f = FileFields /\ ObjectOf(d, id, f.table)
      /\ f.table \in Table /\ f.clock \in PageIDs /\ f.threw \in BOOLEAN
  BY DEF FileOf, ObjectOf
<1>2. candidates \subseteq ChainAt(d, id) /\ candidates # {}
  BY <1>1 DEF ObjectOf
<1>3. next \in candidates /\ next \in ChainAt(d, id) /\ next \in PageIDs
  <2>1. ChainAt(d, id) \subseteq PageIDs
    BY <1>1, ChainsArePages
  <2>2. MemPages - 1 \in Nat /\ PageIDs = 0..MemPages-1
    BY MemPagesAssumption DEF PageIDs
  <2> HIDE DEF candidates
  <2>3. candidates \in SUBSET (0..MemPages-1)
    BY <1>2, <2>1, <2>2
  <2>4. Min(candidates) \in candidates
    BY <1>2, <2>2, <2>3, MinIsIn
  <2> QED
    BY <1>2, <2>1, <2>4
<1>4. g = [f EXCEPT !.disk = Erased(d, locs), !.table.notFull = next]
  BY DEF DeleteRecords
<1> HIDE DEF next
<1>5. /\ DOMAIN g = FileFields /\ g.disk = Erased(d, locs)
      /\ g.clock = f.clock /\ g.threw = f.threw
      /\ g.table = [f.table EXCEPT !.notFull = next]
  <2> HIDE DEF candidates, d
  <2> QED
    BY <1>1, <1>4 DEF FileFields
<1>6. /\ g.table \in Table /\ g.table.head = f.table.head /\ g.table.tail = f.table.tail
      /\ g.table.notFull = next /\ g.table.modified = f.table.modified
  BY <1>1, <1>3, <1>5, NextPageChosen
<1>7. /\ SlotsChange(d, g.disk, id) /\ RoomKept(d, g.disk, id)
      /\ \A q \in ChainAt(d, id), s \in SlotIDs :
            <<q, s>> \in locs => g.disk[q].slots[s] = NoRow
  BY <1>1, <1>5, ErasedSlots
<1>8. Grows(d, g.disk, id) /\ ChainAt(g.disk, id) = ChainAt(d, id) /\ g.disk[id] = d[id]
  BY <1>1, <1>7, SlotsGrow
<1>9. FileOf(g, id)
  <2>1. ObjectOf(g.disk, id, g.table)
    BY <1>1, <1>3, <1>6, <1>8 DEF ObjectOf
  <2> QED
    BY <1>1, <1>5, <1>8, <2>1 DEF FileOf, Grows
<1>10. ASSUME KnowsChain(d, id, f.table) PROVE KnowsChain(g.disk, id, g.table)
  <2>1. KnowsChain(g.disk, id, f.table)
    BY <1>1, <1>7, <1>10, KnowledgeStays
  <2>2. HasRoom(g.disk, next)
    <3>1. CASE next = f.table.notFull
      BY <2>1, <3>1 DEF KnowsChain
    <3>2. CASE next # f.table.notFull
      <4>1. PICK loc \in locs : next = loc[1]
        BY <1>3, <3>2
      <4>2. loc = <<next, loc[2]>> /\ loc[2] \in SlotIDs
        BY <4>1
      <4> QED
        BY <1>3, <1>7, <4>1, <4>2 DEF HasRoom
    <3> QED
      BY <3>1, <3>2
  <2> QED
    BY <1>6, <2>1, <2>2 DEF KnowsChain
<1> QED
  BY <1>5, <1>6, <1>9, <1>10

-----------------------------------------------------------------------------
(* The rows of the table at id, as a Search finds them *)

Held(d, id) == Content(d, d[id].head)

Used(d, id) == {loc \in ChainAt(d, id) \X SlotIDs : d[loc[1]].slots[loc[2]] # NoRow}

LEMMA HeldIsMap ==
    ASSUME NEW d, NEW id, Typed(d), TableAt(d, id)
    PROVE  /\ Held(d, id) = [loc \in Used(d, id) |-> d[loc[1]].slots[loc[2]]]
           /\ Used(d, id) \subseteq PageSlotIDs
           /\ Held(d, id) \in [Used(d, id) -> Rows]
           /\ Held(d, id) # Null
<1> USE DEF Used
<1> DEFINE used == Used(d, id)
<1>1. Held(d, id) = [loc \in used |-> d[loc[1]].slots[loc[2]]]
  BY DEF Held, Content, ChainAt
<1>2. \A q \in ChainAt(d, id) : q \in PageIDs /\ d[q].slots \in [SlotIDs -> Rows \union {NoRow}]
  BY ChainsArePages
<1>3. used \subseteq PageSlotIDs
  BY <1>2 DEF PageSlotIDs
<1>4. \A loc \in used : d[loc[1]].slots[loc[2]] \in Rows
  BY <1>2
<1>5. Held(d, id) \in [used -> Rows]
  <2> HIDE DEF used, Used
  <2> QED
    BY <1>1, <1>4
<1>6. Held(d, id) # Null
  <2> HIDE DEF used, Used
  <2> QED
    BY <1>3, <1>5, NullAssumption
<1> QED
  BY <1>1, <1>3, <1>5, <1>6

LEMMA RowsStayHeld ==
    ASSUME NEW d, NEW e, NEW id, Typed(d), TableAt(d, id), Typed(e), TableAt(e, id),
           SameRows(d, e, id)
    PROVE  Held(e, id) = Held(d, id)
<1>1. Used(e, id) = Used(d, id) /\ \A loc \in Used(d, id) : e[loc[1]].slots[loc[2]] = d[loc[1]].slots[loc[2]]
  BY DEF SameRows, Used
<1>2. Held(e, id) = [loc \in Used(e, id) |-> e[loc[1]].slots[loc[2]]]
  BY HeldIsMap
<1>3. Held(d, id) = [loc \in Used(d, id) |-> d[loc[1]].slots[loc[2]]]
  BY HeldIsMap
<1> QED
  BY <1>1, <1>2, <1>3

LEMMA UntouchedHeld ==
    ASSUME NEW d, NEW e, NEW id, Typed(d), TableAt(d, id), Typed(e),
           \A q \in Own(d, id) : q \in DOMAIN e /\ e[q] = d[q]
    PROVE  Held(e, id) = Held(d, id)
<1>1. TableAt(e, id) /\ ChainAt(e, id) = ChainAt(d, id)
  BY Untouched
<1>2. SameRows(d, e, id)
  BY <1>1 DEF SameRows, Own
<1> QED
  BY <1>1, <1>2, RowsStayHeld

LEMMA PutInserts ==
    ASSUME NEW d, NEW e, NEW id, Typed(d), TableAt(d, id), Typed(e), TableAt(e, id),
           NEW p, NEW s, NEW row \in Rows, RowPut(d, e, id, p, s, row)
    PROVE  Store!Insert(Held(d, id), Held(e, id))
<1> DEFINE new == <<p, s>>
<1>1. /\ \A q \in ChainAt(d, id) : d[q].slots \in [SlotIDs -> Rows \union {NoRow}]
      /\ p \in ChainAt(d, id) /\ s \in SlotIDs /\ d[p].slots[s] = NoRow /\ row # NoRow
      /\ e[p].slots = [d[p].slots EXCEPT ![s] = row]
  BY ChainsArePages, NoRowAssumption DEF RowPut
<1>2. ASSUME NEW q \in ChainAt(d, id), NEW n \in SlotIDs
      PROVE  e[q].slots[n] = IF q = p /\ n = s THEN row ELSE d[q].slots[n]
  <2>1. CASE q = p
    BY <1>1, <2>1
  <2>2. CASE q # p
    BY <2>2 DEF RowPut
  <2> QED
    BY <2>1, <2>2
<1>3. new \in ChainAt(d, id) \X SlotIDs /\ new \notin Used(d, id) /\ e[new[1]].slots[new[2]] = row
  BY <1>1, <1>2 DEF Used
<1>4. Used(e, id) = Used(d, id) \union {new}
  <2>1. ASSUME NEW q, NEW n PROVE <<q, n>> \in Used(e, id) <=> <<q, n>> \in Used(d, id) \union {new}
    <3>1. CASE q \in ChainAt(d, id) /\ n \in SlotIDs
      BY <1>1, <1>2, <3>1 DEF RowPut, Used
    <3>2. CASE ~(q \in ChainAt(d, id) /\ n \in SlotIDs)
      BY <1>1, <3>2 DEF RowPut, Used
    <3> QED
      BY <3>1, <3>2
  <2>2. \A loc \in Used(e, id) \union Used(d, id) \union {new} : loc = <<loc[1], loc[2]>>
    BY DEF Used
  <2> QED
    BY <2>1, <2>2
<1>5. \A loc \in Used(d, id) : e[loc[1]].slots[loc[2]] = d[loc[1]].slots[loc[2]]
  BY <1>1, <1>2 DEF Used
<1>6. /\ Held(d, id) = [loc \in Used(d, id) |-> d[loc[1]].slots[loc[2]]]
      /\ Held(d, id) # Null
  BY HeldIsMap
<1>7. /\ Held(e, id) = [loc \in Used(e, id) |-> e[loc[1]].slots[loc[2]]]
      /\ Held(e, id) # Null /\ Used(e, id) \subseteq PageSlotIDs
  BY HeldIsMap
<1> HIDE DEF new
<1>8. /\ DOMAIN Held(d, id) = Used(d, id) /\ DOMAIN Held(e, id) = Used(d, id) \union {new}
      /\ new \in PageSlotIDs \ Used(d, id)
      /\ Held(e, id)[new] = row
  BY <1>3, <1>4, <1>6, <1>7
<1>9. Store!Restrict(Held(e, id), DOMAIN Held(d, id)) = Held(d, id)
  BY <1>4, <1>5, <1>6, <1>7 DEF Store!Restrict
<1> QED
  BY <1>6, <1>7, <1>8, <1>9 DEF Store!Insert

LEMMA PutUpdates ==
    ASSUME NEW d, NEW e, NEW id, Typed(d), TableAt(d, id), Typed(e), TableAt(e, id),
           ChainAt(e, id) = ChainAt(d, id), NEW row \in Rows,
           NEW loc \in ChainAt(d, id) \X SlotIDs, d[loc[1]].slots[loc[2]] # NoRow,
           e[loc[1]].slots = [d[loc[1]].slots EXCEPT ![loc[2]] = row],
           \A q \in ChainAt(d, id) \ {loc[1]} : e[q].slots = d[q].slots
    PROVE  Store!Update(Held(d, id), Held(e, id))
<1>1. /\ \A q \in ChainAt(d, id) : d[q].slots \in [SlotIDs -> Rows \union {NoRow}]
      /\ row # NoRow /\ loc[1] \in ChainAt(d, id) /\ loc[2] \in SlotIDs
      /\ loc = <<loc[1], loc[2]>>
  BY ChainsArePages, NoRowAssumption
<1>2. ASSUME NEW q \in ChainAt(d, id), NEW n \in SlotIDs
      PROVE  e[q].slots[n] = IF q = loc[1] /\ n = loc[2] THEN row ELSE d[q].slots[n]
  <2>1. CASE q = loc[1]
    BY <1>1, <2>1
  <2>2. CASE q # loc[1]
    BY <2>2
  <2> QED
    BY <2>1, <2>2
<1>3. ASSUME NEW at \in ChainAt(d, id) \X SlotIDs
      PROVE  e[at[1]].slots[at[2]] = IF at = loc THEN row ELSE d[at[1]].slots[at[2]]
  <2>1. at[1] \in ChainAt(d, id) /\ at[2] \in SlotIDs /\ at = <<at[1], at[2]>>
    OBVIOUS
  <2>2. at = loc <=> at[1] = loc[1] /\ at[2] = loc[2]
    BY <1>1, <2>1
  <2> QED
    BY <1>2, <2>1, <2>2
<1>4. Used(e, id) = Used(d, id) /\ loc \in Used(d, id)
  BY <1>1, <1>3 DEF Used
<1>5. \A at \in Used(d, id) : e[at[1]].slots[at[2]] = IF at = loc THEN row ELSE d[at[1]].slots[at[2]]
  BY <1>3 DEF Used
<1>6. /\ Held(d, id) = [at \in Used(d, id) |-> d[at[1]].slots[at[2]]]
      /\ Held(d, id) # Null
  BY HeldIsMap
<1>7. /\ Held(e, id) = [at \in Used(e, id) |-> e[at[1]].slots[at[2]]]
      /\ Held(e, id) # Null
  BY HeldIsMap
<1>8. Held(e, id) = [Held(d, id) EXCEPT ![loc] = row] /\ loc \in DOMAIN Held(d, id)
  BY <1>4, <1>5, <1>6, <1>7, SMTT(30)
<1> QED
  BY <1>6, <1>7, <1>8 DEF Store!Update

LEMMA ErasedDeletes ==
    ASSUME NEW d, NEW id, Typed(d), TableAt(d, id),
           NEW locs \in SUBSET (ChainAt(d, id) \X SlotIDs),
           NEW e, e = Erased(d, locs)
    PROVE  Store!Delete(Held(d, id), Held(e, id))
<1>1. /\ SlotsChange(d, e, id)
      /\ \A q \in ChainAt(d, id), s \in SlotIDs :
            e[q].slots[s] = IF <<q, s>> \in locs THEN NoRow ELSE d[q].slots[s]
  BY ErasedSlots
<1>2. Typed(e) /\ TableAt(e, id) /\ ChainAt(e, id) = ChainAt(d, id)
  BY <1>1, SlotsGrow DEF Grows
<1>3. ASSUME NEW at \in Used(e, id)
      PROVE  at \in Used(d, id) /\ e[at[1]].slots[at[2]] = d[at[1]].slots[at[2]]
  BY <1>1, <1>2 DEF Used
<1>4. /\ Held(d, id) = [at \in Used(d, id) |-> d[at[1]].slots[at[2]]]
      /\ Held(d, id) # Null
  BY HeldIsMap
<1>5. /\ Held(e, id) = [at \in Used(e, id) |-> e[at[1]].slots[at[2]]]
      /\ Held(e, id) # Null
  BY <1>2, HeldIsMap
<1>6. DOMAIN Held(e, id) \subseteq DOMAIN Held(d, id)
  BY <1>3, <1>4, <1>5
<1>7. Held(e, id) = Store!Restrict(Held(d, id), DOMAIN Held(e, id))
  BY <1>3, <1>4, <1>5 DEF Store!Restrict
<1> QED
  BY <1>4, <1>5, <1>6, <1>7 DEF Store!Delete

-----------------------------------------------------------------------------
(* The inductive invariant.  TablesHold is true in every state.  An object *)
(* may not know its chain once a page has been missing, but what it refers *)
(* to stays in its chain; so does the stored tail, on which Abort and Undo *)
(* build.  TablesAreWhole is lost with the first page that is missing.     *)

ObjectAt(d, id, h) == h \in {Closed, Broken} \/ ObjectOf(d, id, h)

WholeAt(d, id, h) ==
    /\ \E p \in ChainAt(d, id) : HasRoom(d, p)
    /\ h # Broken
    /\ IF h = Closed THEN d[d[id].tail].next = Null ELSE KnowsChain(d, id, h)

TablesHold ==
    /\ Typed(disk) /\ clock \in PageIDs
    /\ tableID \in [Tables -> PageIDs \union {Null}]
    /\ handle \in [Tables -> Table \union {Closed, Broken}]
    /\ Opens \subseteq Existing
    /\ \A t \in Existing : TableAt(disk, tableID[t]) /\ ObjectAt(disk, tableID[t], handle[t])
    /\ \A t, u \in Existing : t # u => Own(disk, tableID[t]) \intersect Own(disk, tableID[u]) = {}

TablesAreWhole ==
    /\ \A p \in DOMAIN disk : \E t \in Existing : p \in Own(disk, tableID[t])
    /\ \A t \in Existing : WholeAt(disk, tableID[t], handle[t])
    /\ \A t \in Tables : handle[t] # Broken

TableInv == TablesHold /\ (~Exhausts => TablesAreWhole)

LEMMA InvInit == Init => TableInv
<1> SUFFICES ASSUME Init PROVE TableInv
  OBVIOUS
<1>1. DOMAIN disk = {} /\ clock \in PageIDs
  BY MemPagesAssumption DEF Init, PageIDs
<1>2. Existing = {} /\ Opens = {} /\ \A t \in Tables : handle[t] # Broken
  BY HandleAssumption DEF Init, Existing, Opens
<1>3. tableID \in [Tables -> PageIDs \union {Null}] /\ handle \in [Tables -> Table \union {Closed, Broken}]
  BY DEF Init
<1> QED
  BY <1>1, <1>2, <1>3 DEF TableInv, TablesHold, TablesAreWhole, Typed

(* The parts of the invariant the runs check. *)
LEMMA InvTypes == TableInv => TypeOK
  BY DEF TableInv, TablesHold, Typed, TypeOK

LEMMA InvChains == TableInv => ChainsAreLinked
<1> SUFFICES ASSUME TableInv, NEW t \in Existing
             PROVE  /\ disk[tableID[t]] \in TablePage
                    /\ Pages(t) \subseteq {p \in DOMAIN disk : IsRecordPage(disk, p)}
                    /\ disk[disk[tableID[t]].head].prev = Null
                    /\ \A p \in Pages(t) : disk[p].next # Null => disk[disk[p].next].prev = p
                    /\ \E p \in Pages(t) : disk[p].next = Null
                    /\ \A u \in Existing \ {t} : tableID[u] # tableID[t] /\ Pages(u) \intersect Pages(t) = {}
  BY DEF ChainsAreLinked
<1>1. TableAt(disk, tableID[t])
  BY DEF TableInv, TablesHold
<1>2. \A u \in Existing : tableID[u] \in Own(disk, tableID[u]) /\ Pages(u) \subseteq Own(disk, tableID[u])
  BY DEF Own, Pages, ChainAt
<1>3. \A u \in Existing \ {t} : Own(disk, tableID[u]) \intersect Own(disk, tableID[t]) = {}
  BY DEF TableInv, TablesHold
<1>4. \A u \in Existing \ {t} : tableID[u] # tableID[t] /\ Pages(u) \intersect Pages(t) = {}
  BY <1>2, <1>3
<1> QED
  BY <1>1, <1>4 DEF TableAt, Chained, Pages, ChainAt, IsRecordPage

LEMMA InvWhole == TableInv /\ ~Exhausts => NoPageIsLost /\ ObjectsKnowTheirChain
<1> SUFFICES ASSUME TableInv, ~Exhausts PROVE NoPageIsLost /\ ObjectsKnowTheirChain
  OBVIOUS
<1>1. /\ TablesHold /\ TablesAreWhole
      /\ \A t \in Existing : Pages(t) = ChainAt(disk, tableID[t])
      /\ \A t \in Existing : tableID[t] \in DOMAIN disk /\ ChainAt(disk, tableID[t]) \subseteq DOMAIN disk
  BY ChainsArePages DEF TableInv, TablesHold, Pages, ChainAt, TableAt
<1>2. NoPageIsLost
  <2>1. \A t \in Existing : {tableID[t]} \union Pages(t) = Own(disk, tableID[t])
    BY <1>1 DEF Own
  <2>2. \A p \in DOMAIN disk : \E t \in Existing : p \in {tableID[t]} \union Pages(t)
    BY <1>1, <2>1 DEF TablesAreWhole
  <2>3. \A t \in Existing : {tableID[t]} \union Pages(t) \subseteq DOMAIN disk
    BY <1>1
  <2> QED
    BY <2>2, <2>3 DEF NoPageIsLost
<1>3. \A t \in Opens : t \in Existing /\ ObjectOf(disk, tableID[t], handle[t])
                       /\ KnowsChain(disk, tableID[t], handle[t])
  BY <1>1 DEF TablesHold, TablesAreWhole, Opens, ObjectAt, WholeAt
<1>4. \A t \in Existing \ Opens : disk[disk[tableID[t]].tail].next = Null
  BY <1>1 DEF TablesAreWhole, WholeAt, Opens, Existing
<1>5. TailsAreLast
  BY <1>1, <1>3, <1>4 DEF TailsAreLast, ObjectOf, KnowsChain, TablesHold, TableAt
<1>6. NotFullHasRoom /\ SomePageHasRoom
  BY <1>1, <1>3 DEF NotFullHasRoom, SomePageHasRoom, ObjectOf, KnowsChain, TablesAreWhole, WholeAt
<1>7. \A t \in Opens : handle[t].head = disk[tableID[t]].head
  BY <1>3 DEF ObjectOf
<1> QED
  BY <1>2, <1>5, <1>6, <1>7 DEF ObjectsKnowTheirChain

-----------------------------------------------------------------------------
(* Steps *)

(* A table nobody touches keeps what its object and its chain say. *)
LEMMA UntouchedHolds ==
    ASSUME NEW d, NEW e, NEW id, NEW h, Typed(d), TableAt(d, id), ObjectAt(d, id, h),
           \A q \in Own(d, id) : q \in DOMAIN e /\ e[q] = d[q]
    PROVE  /\ TableAt(e, id) /\ Own(e, id) = Own(d, id) /\ ChainAt(e, id) = ChainAt(d, id)
           /\ ObjectAt(e, id, h)
           /\ WholeAt(d, id, h) => WholeAt(e, id, h)
<1>1. TableAt(e, id) /\ ChainAt(e, id) = ChainAt(d, id) /\ Own(e, id) = Own(d, id)
  BY Untouched
<1>2. e[id] = d[id] /\ \A q \in ChainAt(d, id) : e[q] = d[q]
  BY DEF Own
<1>3. ObjectAt(e, id, h)
  BY <1>1, <1>2 DEF ObjectAt, ObjectOf
<1>4. ASSUME WholeAt(d, id, h) PROVE WholeAt(e, id, h)
  <2>1. \E p \in ChainAt(e, id) : HasRoom(e, p)
    BY <1>1, <1>2, <1>4 DEF WholeAt, HasRoom
  <2>2. CASE h = Closed
    BY <1>2, <1>4, <2>1, <2>2 DEF WholeAt, TableAt
  <2>3. CASE h # Closed
    <3>1. h.tail \in ChainAt(d, id) /\ h.notFull \in ChainAt(d, id)
      BY <1>4, <2>3 DEF WholeAt, ObjectAt, ObjectOf
    <3>2. KnowsChain(e, id, h)
      BY <1>2, <1>4, <2>3, <3>1 DEF WholeAt, KnowsChain, HasRoom
    <3> QED
      BY <1>4, <2>1, <2>3, <3>2 DEF WholeAt
  <2> QED
    BY <2>2, <2>3
<1> QED
  BY <1>1, <1>3, <1>4

(* A call that lets one table grow. *)
LEMMA CallKeeps ==
    ASSUME TableInv, NEW t \in Existing, tableID' = tableID,
           Grows(disk, disk', tableID[t]), clock' \in PageIDs,
           handle' \in [Tables -> Table \union {Closed, Broken}],
           \A u \in Tables \ {t} : handle'[u] = handle[u],
           ObjectAt(disk', tableID[t], handle'[t]),
           ~Exhausts => WholeAt(disk', tableID[t], handle'[t])
    PROVE  TableInv'
<1> DEFINE id(u) == tableID[u]
<1>1. /\ Typed(disk) /\ TableAt(disk, id(t)) /\ Existing' = Existing
      /\ Existing \subseteq Tables /\ t \in Tables
  BY DEF TableInv, TablesHold, Existing
<1>2. ASSUME NEW u \in Existing \ {t}
      PROVE  /\ TableAt(disk', id(u)) /\ ObjectAt(disk', id(u), handle'[u])
             /\ Own(disk', id(u)) = Own(disk, id(u))
             /\ Own(disk', id(u)) \intersect Own(disk', id(t)) = {}
             /\ WholeAt(disk, id(u), handle[u]) => WholeAt(disk', id(u), handle'[u])
  <2>1. /\ TableAt(disk, id(u)) /\ ObjectAt(disk, id(u), handle[u])
        /\ Own(disk, id(u)) \intersect Own(disk, id(t)) = {}
        /\ handle'[u] = handle[u]
    BY <1>1 DEF TableInv, TablesHold
  <2>2. /\ \A q \in Own(disk, id(u)) : disk'[q] = disk[q]
        /\ Own(disk', id(u)) \intersect Own(disk', id(t)) = {}
    BY <1>1, <2>1, OthersStay
  <2>3. \A q \in Own(disk, id(u)) : q \in DOMAIN disk'
    BY <1>1, <2>1, ChainsArePages DEF Own, Grows, TableAt
  <2> QED
    BY <1>1, <2>1, <2>2, <2>3, UntouchedHolds
<1>3. TableAt(disk', id(t)) /\ Typed(disk') /\ Own(disk, id(t)) \subseteq Own(disk', id(t))
  BY DEF Grows, Own
<1>4. TablesHold'
  <2>1. Opens' \subseteq Existing
    BY <1>1 DEF Opens, TableInv, TablesHold
  <2>2. \A u \in Existing : TableAt(disk', id(u)) /\ ObjectAt(disk', id(u), handle'[u])
    BY <1>2, <1>3
  <2>3. \A u, v \in Existing : u # v => Own(disk', id(u)) \intersect Own(disk', id(v)) = {}
    <3> SUFFICES ASSUME NEW u \in Existing, NEW v \in Existing, u # v
                 PROVE  Own(disk', id(u)) \intersect Own(disk', id(v)) = {}
      OBVIOUS
    <3>1. CASE u = t
      BY <1>2, <3>1
    <3>2. CASE v = t
      BY <1>2, <3>2
    <3>3. CASE u # t /\ v # t
      <4>1. Own(disk, id(u)) \intersect Own(disk, id(v)) = {}
        BY DEF TableInv, TablesHold
      <4> QED
        BY <1>2, <3>3, <4>1
    <3> QED
      BY <3>1, <3>2, <3>3
  <2>4. tableID' \in [Tables -> PageIDs \union {Null}]
    BY DEF TableInv, TablesHold
  <2> QED
    BY <1>1, <1>3, <2>1, <2>2, <2>3, <2>4 DEF TablesHold
<1>5. ASSUME ~Exhausts PROVE TablesAreWhole'
  <2>1. TablesAreWhole
    BY <1>5 DEF TableInv
  <2>2. ASSUME NEW p \in DOMAIN disk' PROVE \E u \in Existing : p \in Own(disk', id(u))
    <3>1. CASE p \in DOMAIN disk
      <4>1. PICK u \in Existing : p \in Own(disk, id(u))
        BY <2>1, <3>1 DEF TablesAreWhole
      <4> QED
        BY <1>2, <1>3, <4>1
    <3>2. CASE p \notin DOMAIN disk
      BY <2>2, <3>2 DEF Grows, Own
    <3> QED
      BY <3>1, <3>2
  <2>3. \A u \in Existing : WholeAt(disk', id(u), handle'[u])
    BY <1>2, <1>5, <2>1 DEF TablesAreWhole
  <2>4. \A u \in Tables : handle'[u] # Broken
    BY <1>5, <2>1 DEF TablesAreWhole, WholeAt
  <2> QED
    BY <1>1, <2>2, <2>3, <2>4 DEF TablesAreWhole
<1> QED
  BY <1>4, <1>5 DEF TableInv

(* The object a call works on. *)
LEMMA GetTableGrows ==
    ASSUME TableInv, NEW t \in Existing, handle[t] # Broken, NEW got, got = GetTable(t)
    PROVE  LET id == tableID[t]
           IN  /\ FileOf(got, id) /\ Grows(disk, got.disk, id) /\ SameRows(disk, got.disk, id)
               /\ got.disk[id] = disk[id]
               /\ ~Exhausts => ~got.threw /\ KnowsChain(got.disk, id, got.table)
<1> DEFINE id == tableID[t]
<1>1. /\ Typed(disk) /\ TableAt(disk, id) /\ clock \in PageIDs
      /\ ObjectAt(disk, id, handle[t])
  BY DEF TableInv, TablesHold
<1>2. ~Exhausts => WholeAt(disk, id, handle[t])
  BY DEF TableInv, TablesAreWhole
<1> HIDE DEF id
<1>3. CASE handle[t] = Closed
  <2>1. got = Opened(disk, clock, id)
    BY <1>3 DEF GetTable, id
  <2>2. ~Exhausts => /\ \E p \in ChainAt(disk, id) : HasRoom(disk, p)
                     /\ disk[disk[id].tail].next = Null
    BY <1>2, <1>3 DEF WholeAt
  <2>3. /\ FileOf(got, id) /\ Grows(disk, got.disk, id) /\ SameRows(disk, got.disk, id)
        /\ got.disk[id] = disk[id]
        /\ ~Exhausts => ~got.threw /\ KnowsChain(got.disk, id, got.table)
    <3> DEFINE new == Opened(disk, clock, id)
    <3>1. /\ FileOf(new, id) /\ Grows(disk, new.disk, id) /\ SameRows(disk, new.disk, id)
          /\ new.disk[id] = disk[id]
      BY <1>1, OpenedGrows
    <3>2. ~Exhausts => ~new.threw /\ KnowsChain(new.disk, id, new.table)
      BY <1>1, <2>2, OpenedKnows
    <3> QED
      BY <2>1, <3>1, <3>2
  <2> QED
    BY <2>3 DEF id
<1>4. CASE handle[t] # Closed
  <2>1. got = [disk |-> disk, clock |-> clock, table |-> handle[t], threw |-> FALSE]
    BY <1>4 DEF GetTable
  <2>2. /\ DOMAIN got = FileFields /\ got.disk = disk /\ got.clock = clock
        /\ got.table = handle[t] /\ got.threw = FALSE
    BY <2>1 DEF FileFields
  <2>3. ObjectOf(disk, id, handle[t])
    BY <1>1, <1>4 DEF ObjectAt
  <2>4. FileOf(got, id)
    BY <1>1, <2>2, <2>3 DEF FileOf
  <2>5. Grows(disk, disk, id) /\ SameRows(disk, disk, id)
    BY <1>1 DEF Grows, SameRows, Own
  <2>6. ~Exhausts => KnowsChain(disk, id, handle[t])
    BY <1>2, <1>4 DEF WholeAt
  <2> QED
    BY <2>2, <2>4, <2>5, <2>6 DEF id
<1> QED
  BY <1>3, <1>4

(* What a call comes to. *)
Outcome(t, got, result) ==
    /\ \/ /\ ~got.threw
          /\ Allowed(result)
          /\ disk' = result.disk
          /\ clock' = result.clock
          /\ handle' = [handle EXCEPT ![t] = result.table]
       \/ /\ got.threw
          /\ Allowed(got)
          /\ \E entry \in {Closed, Broken} :
                handle' = [handle EXCEPT ![t] = entry]
          /\ UNCHANGED <<disk, clock>>
    /\ UNCHANGED tableID

(* A call whose function keeps files and what objects know. *)
LEMMA OutcomeKeeps ==
    ASSUME TableInv, NEW t \in Existing, handle[t] # Broken,
           NEW got, got = GetTable(t), NEW result, Outcome(t, got, result),
           ~got.threw => /\ FileOf(result, tableID[t])
                         /\ Grows(got.disk, result.disk, tableID[t])
                         /\ KnowsChain(got.disk, tableID[t], got.table) /\ ~result.threw =>
                                KnowsChain(result.disk, tableID[t], result.table)
    PROVE  TableInv' /\ Grows(disk, disk', tableID[t])
<1> DEFINE id == tableID[t]
<1>1. /\ FileOf(got, id) /\ Grows(disk, got.disk, id)
      /\ ~Exhausts => ~got.threw /\ KnowsChain(got.disk, id, got.table)
  BY GetTableGrows
<1>2. /\ t \in Tables /\ id \in DOMAIN disk /\ Typed(disk) /\ TableAt(disk, id)
      /\ clock \in PageIDs /\ tableID' = tableID
      /\ handle \in [Tables -> Table \union {Closed, Broken}]
  BY DEF TableInv, TablesHold, TableAt, Existing, Outcome
<1> HIDE DEF id
<1>3. CASE ~got.threw
  <2>1. /\ Allowed(result) /\ disk' = result.disk /\ clock' = result.clock
        /\ handle' = [handle EXCEPT ![t] = result.table]
    BY <1>3 DEF Outcome
  <2>2. /\ FileOf(result, id) /\ Grows(disk, disk', id)
        /\ KnowsChain(got.disk, id, got.table) /\ ~result.threw => KnowsChain(disk', id, result.table)
    BY <1>1, <1>2, <1>3, <2>1, GrowsTwice DEF id
  <2>3. /\ clock' \in PageIDs /\ result.table \in Table /\ ObjectOf(disk', id, result.table)
    BY <2>1, <2>2 DEF FileOf, ObjectOf
  <2>4. /\ handle' \in [Tables -> Table \union {Closed, Broken}]
        /\ handle'[t] = result.table /\ \A u \in Tables \ {t} : handle'[u] = handle[u]
    BY <1>2, <2>1, <2>3
  <2>5. ~Exhausts => WholeAt(disk', id, handle'[t])
    <3> SUFFICES ASSUME ~Exhausts PROVE WholeAt(disk', id, handle'[t])
      OBVIOUS
    <3>1. KnowsChain(disk', id, result.table)
      BY <1>1, <2>1, <2>2 DEF Allowed
    <3>2. \E p \in ChainAt(disk', id) : HasRoom(disk', p)
      BY <2>3, <3>1 DEF KnowsChain, ObjectOf
    <3> QED
      BY <2>3, <2>4, <3>1, <3>2, HandleAssumption DEF WholeAt
  <2> QED
    BY <1>2, <2>2, <2>3, <2>4, <2>5, CallKeeps DEF id, ObjectAt
<1>4. CASE got.threw
  <2>1. Exhausts /\ disk' = disk /\ clock' = clock
    BY <1>4 DEF Outcome, Allowed
  <2>2. PICK entry \in {Closed, Broken} : handle' = [handle EXCEPT ![t] = entry]
    BY <1>4 DEF Outcome
  <2>3. /\ handle' \in [Tables -> Table \union {Closed, Broken}]
        /\ handle'[t] \in {Closed, Broken} /\ \A u \in Tables \ {t} : handle'[u] = handle[u]
    BY <1>2, <2>2
  <2>4. Grows(disk, disk', id)
    BY <1>2, <2>1 DEF Grows, Own
  <2> QED
    BY <1>2, <2>1, <2>3, <2>4, CallKeeps DEF id, ObjectAt
<1> QED
  BY <1>3, <1>4

LEMMA InsertKeeps ==
    ASSUME TableInv, NEW t \in Tables, NEW row \in Rows, Insert(t, row)
    PROVE  LET old == Held(disk, tableID[t])
               new == Held(disk', tableID[t])
           IN  /\ t \in Existing /\ TableInv' /\ Grows(disk, disk', tableID[t])
               /\ new = old \/ Store!Insert(old, new)
               /\ ~Exhausts => Store!Insert(old, new)
<1> DEFINE got == GetTable(t)
           result == InsertRecord(got, row)
<1>1. t \in Existing /\ handle[t] # Broken /\ Outcome(t, got, result)
  BY DEF Insert, Call, Outcome, Existing
<1>2. /\ FileOf(got, tableID[t]) /\ Grows(disk, got.disk, tableID[t])
      /\ SameRows(disk, got.disk, tableID[t])
      /\ ~Exhausts => ~got.threw /\ KnowsChain(got.disk, tableID[t], got.table)
  BY <1>1, GetTableGrows
<1>3. Typed(disk) /\ TableAt(disk, tableID[t])
  BY <1>1 DEF TableInv, TablesHold
<1> HIDE DEF got
<1>4. Held(got.disk, tableID[t]) = Held(disk, tableID[t])
  BY <1>2, <1>3, RowsStayHeld DEF FileOf
<1>5. ~got.threw =>
        /\ FileOf(result, tableID[t])
        /\ Grows(got.disk, result.disk, tableID[t])
        /\ KnowsChain(got.disk, tableID[t], got.table) /\ ~result.threw =>
                KnowsChain(result.disk, tableID[t], result.table)
        /\ IF HasRoom(got.disk, got.table.notFull)
              THEN \E s \in SlotIDs : RowPut(got.disk, result.disk, tableID[t], got.table.notFull, s, row)
              ELSE SameRows(got.disk, result.disk, tableID[t])
  BY <1>2, InsertRecordGrows
<1> HIDE DEF result
<1>6. TableInv' /\ Grows(disk, disk', tableID[t])
  BY <1>1, <1>5, OutcomeKeeps DEF got
<1>7. CASE got.threw
  <2>1. disk' = disk /\ Exhausts
    BY <1>1, <1>7 DEF Outcome, Allowed
  <2> QED
    BY <1>1, <1>6, <2>1
<1>8. CASE ~got.threw
  <2>1. disk' = result.disk
    BY <1>1, <1>8 DEF Outcome
  <2>2. /\ Typed(got.disk) /\ TableAt(got.disk, tableID[t])
        /\ Typed(disk') /\ TableAt(disk', tableID[t])
    BY <1>2, <1>5, <1>8, <2>1 DEF FileOf
  <2>3. CASE HasRoom(got.disk, got.table.notFull)
    <3>1. PICK s \in SlotIDs : RowPut(got.disk, disk', tableID[t], got.table.notFull, s, row)
      BY <1>5, <1>8, <2>1, <2>3
    <3>2. Store!Insert(Held(got.disk, tableID[t]), Held(disk', tableID[t]))
      BY <2>2, <3>1, PutInserts
    <3> QED
      BY <1>1, <1>4, <1>6, <3>2
  <2>4. CASE ~HasRoom(got.disk, got.table.notFull)
    <3>1. Exhausts
      BY <1>2, <2>4 DEF KnowsChain
    <3>2. Held(disk', tableID[t]) = Held(got.disk, tableID[t])
      BY <1>5, <1>8, <2>1, <2>2, <2>4, RowsStayHeld
    <3> QED
      BY <1>1, <1>4, <1>6, <3>1, <3>2
  <2> QED
    BY <2>3, <2>4
<1> QED
  BY <1>7, <1>8

(* The locations a search finds are used slots of the chain. *)
LEMMA FoundAreUsed ==
    ASSUME NEW t \in Existing, NEW loc \in Found(t)
    PROVE  /\ loc \in ChainAt(disk, tableID[t]) \X SlotIDs
           /\ disk[loc[1]].slots[loc[2]] # NoRow
  BY DEF Found, Content, ChainAt

LEMMA FoundStay ==
    ASSUME NEW t \in Existing, NEW e, SameRows(disk, e, tableID[t]), NEW loc \in Found(t)
    PROVE  /\ loc \in ChainAt(e, tableID[t]) \X SlotIDs
           /\ e[loc[1]].slots[loc[2]] # NoRow
<1>1. /\ loc \in ChainAt(disk, tableID[t]) \X SlotIDs
      /\ disk[loc[1]].slots[loc[2]] # NoRow
  BY FoundAreUsed
<1> QED
  BY <1>1 DEF SameRows

LEMMA UpdateKeeps ==
    ASSUME TableInv, NEW t \in Tables, NEW row \in Rows, Update(t, row)
    PROVE  LET old == Held(disk, tableID[t])
               new == Held(disk', tableID[t])
           IN  /\ t \in Existing /\ TableInv' /\ Grows(disk, disk', tableID[t])
               /\ new = old \/ Store!Update(old, new)
<1> DEFINE got == GetTable(t)
<1>1. t \in Existing
  BY DEF Update, Existing
<1>2. PICK loc \in Found(t) : Call(t, LAMBDA f : UpdateRecord(f, loc, row))
  BY DEF Update
<1> DEFINE result == UpdateRecord(got, loc, row)
<1>3. handle[t] # Broken /\ Outcome(t, got, result)
  BY <1>2 DEF Call, Outcome
<1>4. /\ FileOf(got, tableID[t]) /\ SameRows(disk, got.disk, tableID[t])
      /\ Typed(disk) /\ TableAt(disk, tableID[t])
  BY <1>1, <1>3, GetTableGrows DEF TableInv, TablesHold
<1> HIDE DEF got
<1>5. loc \in ChainAt(got.disk, tableID[t]) \X SlotIDs /\ got.disk[loc[1]].slots[loc[2]] # NoRow
  BY <1>1, <1>4, FoundStay
<1>6. /\ FileOf(result, tableID[t]) /\ SlotsChange(got.disk, result.disk, tableID[t])
      /\ KnowsChain(got.disk, tableID[t], got.table) => KnowsChain(result.disk, tableID[t], result.table)
      /\ result.disk[loc[1]].slots = [got.disk[loc[1]].slots EXCEPT ![loc[2]] = row]
      /\ \A q \in ChainAt(got.disk, tableID[t]) \ {loc[1]} : result.disk[q].slots = got.disk[q].slots
  BY <1>4, <1>5, UpdateRecordGrows
<1> HIDE DEF result
<1>7. Grows(got.disk, result.disk, tableID[t])
  BY <1>4, <1>6, SlotsGrow DEF FileOf
<1>8. TableInv' /\ Grows(disk, disk', tableID[t])
  BY <1>1, <1>3, <1>6, <1>7, OutcomeKeeps DEF got
<1>9. Held(got.disk, tableID[t]) = Held(disk, tableID[t])
  BY <1>4, RowsStayHeld DEF FileOf
<1>10. CASE got.threw
  BY <1>1, <1>3, <1>8, <1>10 DEF Outcome
<1>11. CASE ~got.threw
  <2>1. disk' = result.disk
    BY <1>3, <1>11 DEF Outcome
  <2>2. Store!Update(Held(got.disk, tableID[t]), Held(result.disk, tableID[t]))
    BY <1>4, <1>5, <1>6, SlotsGrow, PutUpdates DEF FileOf
  <2> QED
    BY <1>1, <1>8, <1>9, <2>1, <2>2
<1> QED
  BY <1>10, <1>11

LEMMA DeleteKeeps ==
    ASSUME TableInv, NEW t \in Tables, Delete(t)
    PROVE  LET old == Held(disk, tableID[t])
               new == Held(disk', tableID[t])
           IN  /\ t \in Existing /\ TableInv' /\ Grows(disk, disk', tableID[t])
               /\ new = old \/ Store!Delete(old, new)
<1> DEFINE got == GetTable(t)
<1>1. t \in Existing
  BY DEF Delete, Existing
<1>2. PICK locs \in SUBSET Found(t) : Call(t, LAMBDA f : DeleteRecords(f, locs))
  BY DEF Delete
<1> DEFINE result == DeleteRecords(got, locs)
<1>3. handle[t] # Broken /\ Outcome(t, got, result)
  BY <1>2 DEF Call, Outcome
<1>4. /\ FileOf(got, tableID[t]) /\ SameRows(disk, got.disk, tableID[t])
      /\ Typed(disk) /\ TableAt(disk, tableID[t])
  BY <1>1, <1>3, GetTableGrows DEF TableInv, TablesHold
<1> HIDE DEF got
<1>5. locs \in SUBSET (ChainAt(got.disk, tableID[t]) \X SlotIDs)
  BY <1>1, <1>4, FoundStay
<1>6. /\ FileOf(result, tableID[t]) /\ result.disk = Erased(got.disk, locs)
      /\ KnowsChain(got.disk, tableID[t], got.table) => KnowsChain(result.disk, tableID[t], result.table)
  BY <1>4, <1>5, DeleteRecordsGrows
<1> HIDE DEF result
<1>7. Grows(got.disk, result.disk, tableID[t])
  BY <1>4, <1>5, <1>6, ErasedSlots, SlotsGrow DEF FileOf
<1>8. TableInv' /\ Grows(disk, disk', tableID[t])
  BY <1>1, <1>3, <1>6, <1>7, OutcomeKeeps DEF got
<1>9. Held(got.disk, tableID[t]) = Held(disk, tableID[t])
  BY <1>4, RowsStayHeld DEF FileOf
<1>10. CASE got.threw
  BY <1>1, <1>3, <1>8, <1>10 DEF Outcome
<1>11. CASE ~got.threw
  <2>1. disk' = result.disk
    BY <1>3, <1>11 DEF Outcome
  <2>2. Store!Delete(Held(got.disk, tableID[t]), Held(result.disk, tableID[t]))
    BY <1>4, <1>5, <1>6, ErasedDeletes DEF FileOf
  <2> QED
    BY <1>1, <1>8, <1>9, <2>1, <2>2
<1> QED
  BY <1>10, <1>11

(* Erasing rows takes nothing from what is known of the table. *)
LEMMA WholeStays ==
    ASSUME NEW d, NEW e, NEW id, NEW h, Typed(d), TableAt(d, id), ObjectAt(d, id, h),
           SlotsChange(d, e, id), RoomKept(d, e, id), WholeAt(d, id, h)
    PROVE  WholeAt(e, id, h)
<1>1. e[id] = d[id] /\ ChainAt(e, id) = ChainAt(d, id)
  BY SlotsGrow
<1>2. \E p \in ChainAt(e, id) : HasRoom(e, p)
  BY <1>1 DEF WholeAt, HasRoom, RoomKept
<1>3. CASE h = Closed
  BY <1>1, <1>2, <1>3 DEF WholeAt, SlotsChange, TableAt
<1>4. CASE h # Closed
  <2>1. ObjectOf(d, id, h) /\ KnowsChain(d, id, h) /\ h # Broken
    BY <1>4 DEF WholeAt, ObjectAt
  <2>2. KnowsChain(e, id, h)
    BY <2>1, KnowledgeStays
  <2> QED
    BY <1>2, <1>4, <2>1, <2>2 DEF WholeAt
<1> QED
  BY <1>3, <1>4

LEMMA RollBackKeeps ==
    ASSUME TableInv, NEW t \in Tables, NEW destroyed \in BOOLEAN, RollBack(t, destroyed)
    PROVE  LET old == Held(disk, tableID[t])
               new == Held(disk', tableID[t])
           IN  /\ t \in Existing /\ TableInv' /\ Grows(disk, disk', tableID[t])
               /\ new = old \/ Store!Delete(old, new)
<1> DEFINE id  == tableID[t]
           got == Opened(disk, clock, id)
<1>1. /\ t \in Existing /\ tableID' = tableID /\ handle' = handle
  BY DEF RollBack, Existing
<1>2. /\ Typed(disk) /\ TableAt(disk, id) /\ ObjectAt(disk, id, handle[t]) /\ clock \in PageIDs
      /\ handle \in [Tables -> Table \union {Closed, Broken}]
      /\ ~Exhausts => WholeAt(disk, id, handle[t])
  BY <1>1 DEF TableInv, TablesHold, TablesAreWhole
<1> HIDE DEF id
<1>3. /\ FileOf(got, id) /\ Grows(disk, got.disk, id) /\ SameRows(disk, got.disk, id)
      /\ (\E p \in ChainAt(disk, id) : HasRoom(disk, p)) =>
            got.disk = disk /\ ~got.threw /\ ~got.table.modified
  BY <1>2, OpenedGrows
<1>4. ~Exhausts => got.disk = disk /\ ~got.threw /\ ~got.table.modified
  BY <1>2, <1>3 DEF WholeAt
<1>5. CASE got.threw
  <2>1. disk' = disk /\ clock' = clock
    BY <1>5 DEF RollBack, id
  <2>2. Grows(disk, disk', id)
    BY <1>2, <2>1 DEF Grows, Own
  <2>3. TableInv'
    BY <1>1, <1>2, <2>1, <2>2, CallKeeps DEF id
  <2> QED
    BY <1>1, <2>1, <2>2, <2>3 DEF id
<1>6. CASE ~got.threw
  <2>1. PICK locs \in SUBSET Found(t) :
            LET result == DeleteRecords(got, locs)
            IN  disk' = IF destroyed THEN TailStored(result.disk, id, result.table)
                                     ELSE result.disk
    BY <1>6 DEF RollBack, id
  <2> DEFINE result == DeleteRecords(got, locs)
             e == result.disk
  <2>2. clock' = got.clock
    BY <1>6 DEF RollBack, id
  <2> HIDE DEF got
  <2>3. locs \in SUBSET (ChainAt(got.disk, id) \X SlotIDs)
    BY <1>1, <1>3, FoundStay DEF id
  <2>4. FileOf(result, id) /\ e = Erased(got.disk, locs) /\ result.table.modified = got.table.modified
    BY <1>3, <2>3, DeleteRecordsGrows
  <2>5. disk' = IF destroyed THEN TailStored(e, id, result.table) ELSE e
    BY <2>1
  <2> HIDE DEF result, e
  <2>6. SlotsChange(got.disk, e, id) /\ RoomKept(got.disk, e, id)
    BY <1>3, <2>3, <2>4, ErasedSlots DEF FileOf
  <2>7. Grows(disk, e, id)
    <3>1. Grows(got.disk, e, id)
      BY <1>3, <2>6, SlotsGrow DEF FileOf
    <3> QED
      BY <1>2, <1>3, <3>1, GrowsTwice DEF TableAt
  <2>8. Grows(disk, disk', id) /\ SameRows(e, disk', id)
    <3>1. CASE disk' = e
      BY <2>7, <3>1 DEF SameRows
    <3>2. CASE disk' # e
      <4>1. disk' = [e EXCEPT ![id].tail = result.table.tail]
        BY <2>5, <3>2 DEF TailStored
      <4>2. Typed(e) /\ TableAt(e, id) /\ result.table.tail \in ChainAt(e, id)
        BY <2>4 DEF FileOf, ObjectOf, e
      <4>3. TailMoves(e, [e EXCEPT ![id].tail = result.table.tail], id, result.table.tail)
        BY <4>2, TailOfObjectMoves
      <4>4. TailMoves(e, disk', id, result.table.tail)
        BY <4>1, <4>3
      <4>5. /\ Grows(e, disk', id) /\ ChainAt(disk', id) = ChainAt(e, id)
            /\ \A q \in ChainAt(e, id) : disk'[q] = e[q]
        BY <4>2, <4>4, TailGrows
      <4> QED
        BY <1>2, <2>7, <4>5, GrowsTwice DEF TableAt, SameRows
    <3> QED
      BY <3>1, <3>2
  <2>9. ObjectAt(disk', id, handle'[t])
    BY <1>1, <1>2, <2>8, ObjectStays DEF ObjectAt
  <2>10. ~Exhausts => WholeAt(disk', id, handle'[t])
    <3> SUFFICES ASSUME ~Exhausts PROVE WholeAt(disk', id, handle'[t])
      OBVIOUS
    <3>1. got.disk = disk /\ disk' = e
      BY <1>4, <2>4, <2>5 DEF TailStored
    <3> QED
      BY <1>1, <1>2, <2>6, <3>1, WholeStays
  <2>11. clock' \in PageIDs
    BY <1>3, <2>2 DEF FileOf
  <2>12. TableInv'
    BY <1>1, <1>2, <2>8, <2>9, <2>10, <2>11, CallKeeps DEF id
  <2>13. Held(disk', id) = Held(e, id)
    BY <2>4, <2>8, RowsStayHeld DEF FileOf, Grows, e
  <2>14. Store!Delete(Held(got.disk, id), Held(e, id))
    BY <1>3, <2>3, <2>4, ErasedDeletes DEF FileOf
  <2>15. Held(got.disk, id) = Held(disk, id)
    BY <1>2, <1>3, RowsStayHeld DEF FileOf
  <2> QED
    BY <1>1, <2>8, <2>12, <2>13, <2>14, <2>15 DEF id
<1> QED
  BY <1>5, <1>6

(* A step changes what a Search finds in table t alone, as TableStore says. *)
StoreStep(t) ==
    /\ \A u \in Tables \ {t} : Stored(u)' = Stored(u)
    /\ Stored(t)' = Stored(t) \/ Store!Call(Stored(t), Stored(t)')

(* Steps that leave the tables but t alone, and give t other pages.        *)
LEMMA OthersKeep ==
    ASSUME TableInv, NEW t \in Tables, NEW u \in Existing \ {t},
           Typed(disk'), handle'[u] = handle[u], tableID'[u] = tableID[u],
           \A q \in Own(disk, tableID[u]) : q \in DOMAIN disk' /\ disk'[q] = disk[q]
    PROVE  /\ TableAt(disk', tableID'[u]) /\ ObjectAt(disk', tableID'[u], handle'[u])
           /\ Own(disk', tableID'[u]) = Own(disk, tableID[u])
           /\ WholeAt(disk, tableID[u], handle[u]) => WholeAt(disk', tableID'[u], handle'[u])
           /\ Held(disk', tableID'[u]) = Held(disk, tableID[u])
<1>1. /\ Typed(disk) /\ TableAt(disk, tableID[u])
      /\ ObjectAt(disk, tableID[u], handle[u])
  BY DEF TableInv, TablesHold
<1> QED
  BY <1>1, UntouchedHolds, UntouchedHeld

LEMMA OwnIsUsed ==
    ASSUME TableInv, NEW u \in Existing
    PROVE  Own(disk, tableID[u]) \subseteq DOMAIN disk
  BY ChainsArePages DEF TableInv, TablesHold, TableAt, Own

LEMMA AddTableKeeps ==
    ASSUME TableInv, NEW t \in Tables, AddTable(t)
    PROVE  TableInv' /\ StoreStep(t)
<1> DEFINE used == DOMAIN disk
           id   == FirstFree(used, clock)
           head == FirstFree(used \union {id}, id)
<1>1. /\ TablesHold /\ Typed(disk) /\ clock \in PageIDs
      /\ tableID \in [Tables -> PageIDs \union {Null}]
      /\ handle \in [Tables -> Table \union {Closed, Broken}]
      /\ Opens \subseteq Existing
      /\ FreeSteps(used, clock) # {}
  BY DEF TableInv, TablesHold, AddTable
<1>2. id \in PageIDs \ used
  BY <1>1, FirstFreeIsFree
<1> HIDE DEF id
<1>3. CASE FreeSteps(used \union {id}, id) = {}
  <2>1. /\ Exhausts /\ clock' = id /\ UNCHANGED <<tableID, handle>>
        /\ disk' = [p \in used \union {id} |-> IF p = id THEN Blank ELSE disk[p]]
    BY <1>3 DEF AddTable, id
  <2>2. /\ DOMAIN disk' = used \union {id} /\ disk'[id] = Blank
        /\ \A p \in used : disk'[p] = disk[p]
    BY <1>2, <2>1
  <2>3. Typed(disk')
    BY <1>1, <1>2, <2>2 DEF Typed
  <2>4. \A u \in Existing :
            /\ TableAt(disk', tableID[u]) /\ ObjectAt(disk', tableID[u], handle[u])
            /\ Own(disk', tableID[u]) = Own(disk, tableID[u])
            /\ Held(disk', tableID[u]) = Held(disk, tableID[u])
    <3> SUFFICES ASSUME NEW u \in Existing
                 PROVE  /\ TableAt(disk', tableID[u]) /\ ObjectAt(disk', tableID[u], handle[u])
                        /\ Own(disk', tableID[u]) = Own(disk, tableID[u])
                        /\ Held(disk', tableID[u]) = Held(disk, tableID[u])
      OBVIOUS
    <3>1. \A q \in Own(disk, tableID[u]) : q \in DOMAIN disk' /\ disk'[q] = disk[q]
      BY <2>2, OwnIsUsed
    <3>2. TableAt(disk, tableID[u]) /\ ObjectAt(disk, tableID[u], handle[u])
      BY <1>1 DEF TablesHold
    <3> QED
      BY <1>1, <2>3, <3>1, <3>2, UntouchedHolds, UntouchedHeld
  <2>5. TablesHold'
    BY <1>1, <1>2, <2>1, <2>3, <2>4 DEF TablesHold, Existing, Opens
  <2>6. \A u \in Tables : Stored(u)' = Stored(u)
    BY <2>1, <2>4 DEF Stored, Held, Existing
  <2> QED
    BY <2>1, <2>5, <2>6 DEF TableInv, StoreStep
<1>4. CASE FreeSteps(used \union {id}, id) # {}
  <2> DEFINE obj == [head |-> head, tail |-> head, notFull |-> head, modified |-> FALSE]
             table == [head |-> head, tail |-> head]
  <2>1. head \in PageIDs \ (used \union {id})
    BY <1>2, <1>4, FirstFreeIsFree
  <2>2. /\ disk' = [p \in used \union {id, head} |->
                        CASE p = id   -> table
                          [] p = head -> NewRecordPage(Null, Null)
                          [] OTHER    -> disk[p]]
        /\ clock' = head
        /\ tableID' = [tableID EXCEPT ![t] = id]
        /\ handle' = [handle EXCEPT ![t] = obj]
    BY <1>4 DEF AddTable, id
  <2> HIDE DEF head, obj, table
  <2>3. /\ DOMAIN disk' = used \union {id, head}
        /\ disk'[id] = table /\ disk'[head] = NewRecordPage(Null, Null)
        /\ \A p \in used : disk'[p] = disk[p]
    BY <1>2, <2>1, <2>2
  <2>4. table \in TablePage /\ table.head = head /\ table.tail = head
    BY <2>1 DEF table, TablePage
  <2>5. /\ obj \in Table /\ obj.head = head /\ obj.tail = head /\ obj.notFull = head
        /\ obj \notin {Closed, Broken}
    <3>1. obj.head = head /\ obj.tail = head /\ obj.notFull = head
      BY DEF obj
    <3>2. obj \in Table
      BY <2>1 DEF obj, Table
    <3> QED
      BY <3>1, <3>2, HandleAssumption
  <2>6. /\ tableID'[t] = id /\ handle'[t] = obj
        /\ \A u \in Tables \ {t} : tableID'[u] = tableID[u] /\ handle'[u] = handle[u]
        /\ tableID' \in [Tables -> PageIDs \union {Null}]
        /\ handle' \in [Tables -> Table \union {Closed, Broken}]
    BY <1>1, <1>2, <2>2, <2>5
  <2>7. LET new == NewRecordPage(Null, Null)
        IN  new \in RecordPage /\ new.next = Null /\ new.prev = Null
    BY DEF NewRecordPage, RecordPage
  <2>8. Typed(disk')
    BY <1>1, <1>2, <2>1, <2>3, <2>4, <2>7 DEF Typed
  <2>9. ChainAt(disk', id) = {head}
    <3>1. Chain(disk', head) \subseteq {head}
      BY <2>3, <2>7, ChainInduction
    <3> QED
      BY <2>3, <2>4, <3>1, ChainBegins DEF ChainAt
  <2>10. TableAt(disk', id)
    <3>1. IsRecordPage(disk', head)
      BY <2>3, <2>7, Kinds DEF IsRecordPage
    <3>2. Chain(disk', head) = {head}
      BY <2>3, <2>4, <2>9 DEF ChainAt
    <3>3. Chained(disk', head)
      BY <2>3, <2>7, <3>1, <3>2 DEF Chained
    <3> QED
      BY <2>3, <2>4, <2>9, <3>3 DEF TableAt
  <2>11. ObjectOf(disk', id, obj)
    BY <2>3, <2>4, <2>5, <2>9 DEF ObjectOf
  <2>12. KnowsChain(disk', id, obj)
    <3>1. HasRoom(disk', head)
      BY <2>3, NewPageHasRoom, SlotsAreThere DEF HasRoom
    <3> QED
      BY <2>3, <2>4, <2>5, <2>7, <3>1 DEF KnowsChain
  <2>13. WholeAt(disk', id, obj)
    BY <2>5, <2>9, <2>12 DEF WholeAt, KnowsChain
  <2>14. ASSUME NEW u \in Existing \ {t}
         PROVE  /\ TableAt(disk', tableID'[u]) /\ ObjectAt(disk', tableID'[u], handle'[u])
                /\ Own(disk', tableID'[u]) = Own(disk, tableID[u])
                /\ WholeAt(disk, tableID[u], handle[u]) => WholeAt(disk', tableID'[u], handle'[u])
                /\ Held(disk', tableID'[u]) = Held(disk, tableID[u])
    <3>1. \A q \in Own(disk, tableID[u]) : q \in DOMAIN disk' /\ disk'[q] = disk[q]
      BY <2>3, OwnIsUsed
    <3>2. handle'[u] = handle[u] /\ tableID'[u] = tableID[u]
      BY <2>6 DEF Existing
    <3> QED
      BY <2>8, <3>1, <3>2, OthersKeep
  <2>15. Existing' = Existing \union {t}
    <3>1. id # Null
      BY <1>2, NullAssumption
    <3> QED
      BY <2>6, <3>1 DEF Existing
  <2>16. Opens' = Opens \union {t}
    BY <2>5, <2>6 DEF Opens
  <2>17. Own(disk', id) = {id, head}
    BY <2>9 DEF Own
  <2>18. \A u, v \in Existing' : u # v => Own(disk', tableID'[u]) \intersect Own(disk', tableID'[v]) = {}
    <3>1. ASSUME NEW u \in Existing \ {t} PROVE Own(disk', tableID'[u]) \intersect Own(disk', id) = {}
      BY <1>2, <2>1, <2>14, <2>17, OwnIsUsed
    <3>2. ASSUME NEW u \in Existing \ {t}, NEW v \in Existing \ {t}, u # v
          PROVE  Own(disk', tableID'[u]) \intersect Own(disk', tableID'[v]) = {}
      <4>1. Own(disk, tableID[u]) \intersect Own(disk, tableID[v]) = {}
        BY <1>1, <3>2 DEF TablesHold
      <4> QED
        BY <2>14, <4>1
    <3> QED
      BY <2>6, <2>15, <3>1, <3>2
  <2>19. TablesHold'
    <3>1. \A u \in Existing' : TableAt(disk', tableID'[u]) /\ ObjectAt(disk', tableID'[u], handle'[u])
      BY <2>6, <2>10, <2>11, <2>14, <2>15 DEF ObjectAt
    <3>2. Opens' \subseteq Existing'
      BY <1>1, <2>15, <2>16
    <3> QED
      BY <2>1, <2>2, <2>6, <2>8, <2>18, <3>1, <3>2 DEF TablesHold
  <2>20. ASSUME ~Exhausts PROVE TablesAreWhole'
    <3>1. TablesAreWhole
      BY <2>20 DEF TableInv
    <3>2. t \notin Existing
      BY <3>1 DEF AddTable, TablesAreWhole, Existing
    <3>3. ASSUME NEW p \in DOMAIN disk' PROVE \E u \in Existing' : p \in Own(disk', tableID'[u])
      <4>1. CASE p \in used
        <5>1. PICK u \in Existing : p \in Own(disk, tableID[u])
          BY <3>1, <4>1 DEF TablesAreWhole
        <5> QED
          BY <2>14, <2>15, <3>2, <5>1
      <4>2. CASE p \notin used
        BY <2>3, <2>6, <2>15, <2>17, <3>3, <4>2
      <4> QED
        BY <4>1, <4>2
    <3>4. \A u \in Existing' : WholeAt(disk', tableID'[u], handle'[u])
      BY <2>6, <2>13, <2>14, <2>15, <3>1 DEF TablesAreWhole
    <3>5. \A u \in Tables : handle'[u] # Broken
      BY <2>5, <2>6, <3>1 DEF TablesAreWhole
    <3> QED
      BY <3>3, <3>4, <3>5 DEF TablesAreWhole
  <2>21. \A u \in Tables \ {t} : Stored(u)' = Stored(u)
    BY <2>6, <2>14 DEF Stored, Held, Existing
  <2>22. Stored(t)' = << >>
    <3>1. Used(disk', id) = {}
      BY <2>3, <2>9, NewPageHasRoom DEF Used
    <3>2. Held(disk', id) = [loc \in Used(disk', id) |-> disk'[loc[1]].slots[loc[2]]]
      BY <2>8, <2>10, HeldIsMap
    <3>3. Held(disk', id) = << >>
      BY <3>1, <3>2
    <3>4. tableID'[t] # Null
      BY <1>2, <2>6, NullAssumption
    <3> QED
      BY <2>6, <3>3, <3>4 DEF Stored, Held
  <2>23. Store!Call(Stored(t), Stored(t)')
    <3>1. CASE t \in Existing
      <4>1. Stored(t) = Held(disk, tableID[t]) /\ Held(disk, tableID[t]) # Null
        BY <1>1, <3>1, HeldIsMap DEF Stored, Held, Existing, TablesHold
      <4>2. << >> # Null
        <5>1. Held(disk', id) # Null
          BY <2>8, <2>10, HeldIsMap
        <5>2. Stored(t)' = Held(disk', id)
          BY <1>2, <2>6, NullAssumption DEF Stored, Held
        <5> QED
          BY <2>22, <5>1, <5>2
      <4>3. << >> = Store!Restrict(Stored(t), {}) /\ DOMAIN << >> = {}
        BY DEF Store!Restrict
      <4> QED
        BY <2>22, <4>1, <4>2, <4>3 DEF Store!Call, Store!Delete
    <3>2. CASE t \notin Existing
      BY <2>22, <3>2 DEF Stored, Existing, Store!Call, Store!Create
    <3> QED
      BY <3>1, <3>2
  <2> QED
    BY <2>19, <2>20, <2>21, <2>23 DEF TableInv, StoreStep
<1> QED
  BY <1>3, <1>4

LEMMA DropTableKeeps ==
    ASSUME TableInv, NEW t \in Tables, DropTable(t)
    PROVE  TableInv' /\ StoreStep(t)
<1> DEFINE id   == tableID[t]
           got  == GetTable(t)
           rest == Cleared(got.disk, got.table.head)
<1>1. /\ t \in Existing /\ handle[t] # Broken
      /\ disk' = [p \in DOMAIN rest \ {id} |-> rest[p]]
      /\ clock' = got.clock
      /\ tableID' = [tableID EXCEPT ![t] = Null]
      /\ handle' = [handle EXCEPT ![t] = Closed]
  BY DEF DropTable, Existing
<1>2. /\ TablesHold /\ Typed(disk) /\ TableAt(disk, id)
      /\ tableID \in [Tables -> PageIDs \union {Null}]
      /\ handle \in [Tables -> Table \union {Closed, Broken}]
      /\ Opens \subseteq Existing
  BY <1>1 DEF TableInv, TablesHold
<1>3. FileOf(got, id) /\ Grows(disk, got.disk, id)
  BY <1>1, GetTableGrows
<1> HIDE DEF id, got
<1>4. Chain(got.disk, got.table.head) = ChainAt(got.disk, id)
  BY <1>3 DEF FileOf, ObjectOf, ChainAt
<1>5. /\ DOMAIN disk' = DOMAIN got.disk \ Own(got.disk, id)
      /\ \A q \in DOMAIN disk' : disk'[q] = got.disk[q]
  BY <1>1, <1>4 DEF Cleared, Own
<1>6. \A q \in DOMAIN disk' : q \in DOMAIN disk \ Own(disk, id) /\ disk'[q] = disk[q]
  BY <1>3, <1>5 DEF Grows, Own
<1>7. \A q \in DOMAIN disk \ Own(disk, id) : q \in DOMAIN disk' /\ disk'[q] = disk[q]
  BY <1>3, <1>5, <1>6 DEF Grows, Own
<1>8. /\ tableID'[t] = Null /\ handle'[t] = Closed
      /\ \A u \in Tables \ {t} : tableID'[u] = tableID[u] /\ handle'[u] = handle[u]
      /\ tableID' \in [Tables -> PageIDs \union {Null}]
      /\ handle' \in [Tables -> Table \union {Closed, Broken}]
  BY <1>1, <1>2
<1>9. Existing' = Existing \ {t} /\ Opens' = Opens \ {t}
  BY <1>8 DEF Existing, Opens
<1>10. ASSUME NEW u \in Existing \ {t}
       PROVE  /\ TableAt(disk', tableID'[u]) /\ ObjectAt(disk', tableID'[u], handle'[u])
              /\ Own(disk', tableID'[u]) = Own(disk, tableID[u])
              /\ WholeAt(disk, tableID[u], handle[u]) => WholeAt(disk', tableID'[u], handle'[u])
              /\ Held(disk', tableID'[u]) = Held(disk, tableID[u])
  <2>1. Own(disk, tableID[u]) \intersect Own(disk, id) = {}
    BY <1>1, <1>2 DEF TablesHold, id
  <2>2. \A q \in Own(disk, tableID[u]) : q \in DOMAIN disk' /\ disk'[q] = disk[q]
    BY <1>7, <2>1, OwnIsUsed
  <2>3. handle'[u] = handle[u] /\ tableID'[u] = tableID[u]
    BY <1>8 DEF Existing
  <2>4. Typed(disk')
    BY <1>2, <1>6 DEF Typed
  <2> QED
    BY <2>2, <2>3, <2>4, OthersKeep
<1>11. TablesHold'
  <2>1. clock' \in PageIDs
    BY <1>1, <1>3 DEF FileOf
  <2>2. Typed(disk')
    BY <1>2, <1>6 DEF Typed
  <2>3. \A u, v \in Existing' : u # v => Own(disk', tableID'[u]) \intersect Own(disk', tableID'[v]) = {}
    BY <1>2, <1>9, <1>10 DEF TablesHold
  <2>4. \A u \in Existing' : TableAt(disk', tableID'[u]) /\ ObjectAt(disk', tableID'[u], handle'[u])
    BY <1>9, <1>10
  <2>5. Opens' \subseteq Existing'
    BY <1>2, <1>9
  <2> QED
    BY <1>8, <2>1, <2>2, <2>3, <2>4, <2>5 DEF TablesHold
<1>12. ASSUME ~Exhausts PROVE TablesAreWhole'
  <2>1. TablesAreWhole
    BY <1>12 DEF TableInv
  <2>2. ASSUME NEW p \in DOMAIN disk' PROVE \E u \in Existing' : p \in Own(disk', tableID'[u])
    <3>1. p \in DOMAIN disk /\ p \notin Own(disk, id)
      BY <1>6, <2>2
    <3>2. PICK u \in Existing : p \in Own(disk, tableID[u])
      BY <2>1, <3>1 DEF TablesAreWhole
    <3>3. u # t
      BY <3>1, <3>2 DEF id
    <3> QED
      BY <1>9, <1>10, <3>2, <3>3
  <2>3. \A u \in Existing' : WholeAt(disk', tableID'[u], handle'[u])
    BY <1>9, <1>10, <2>1 DEF TablesAreWhole
  <2>4. \A u \in Tables : handle'[u] # Broken
    BY <1>8, <2>1, HandleAssumption DEF TablesAreWhole
  <2> QED
    BY <2>2, <2>3, <2>4 DEF TablesAreWhole
<1>13. \A u \in Tables \ {t} : Stored(u)' = Stored(u)
  BY <1>8, <1>10 DEF Stored, Held, Existing
<1>14. Store!Drop(Stored(t), Stored(t)')
  <2>1. Stored(t) = Held(disk, id) /\ Held(disk, id) # Null
    BY <1>1, <1>2, HeldIsMap DEF Stored, Held, Existing, id
  <2>2. Stored(t)' = Null
    BY <1>8 DEF Stored
  <2> QED
    BY <2>1, <2>2 DEF Store!Drop
<1> QED
  BY <1>11, <1>12, <1>13, <1>14 DEF TableInv, StoreStep, Store!Call

LEMMA RestartKeeps ==
    ASSUME TableInv, Restart
    PROVE  TableInv' /\ \A u \in Tables : Stored(u)' = Stored(u)
<1> DEFINE id(u) == tableID[u]
<1>1. /\ TablesHold /\ Typed(disk)
      /\ \A u \in Existing :
            TableAt(disk, id(u)) /\ ObjectAt(disk, id(u), handle[u]) /\ u \in Tables
      /\ \A u \in Opens : u \in Existing /\ ObjectOf(disk, id(u), handle[u])
  BY DEF TableInv, TablesHold, Existing, Opens, ObjectAt
<1>2. /\ clock' \in PageIDs /\ tableID' = tableID /\ Existing' = Existing
      /\ handle' = [t \in Tables |-> Closed] /\ Opens' = {}
  BY MemPagesAssumption DEF Restart, TableInv, TablesHold, PageIDs, Existing, Opens
<1>3. /\ DOMAIN disk' = DOMAIN disk
      /\ \A p \in DOMAIN disk :
            disk'[p] = IF \E t \in Tables : tableID[t] = p /\ handle[t] \notin {Closed, Broken}
                          THEN TailStored(disk, p, handle[CHOOSE u \in Tables : tableID[u] = p])[p]
                          ELSE disk[p]
  BY DEF Restart
<1>4. \A u \in Existing, v \in Tables : tableID[v] = tableID[u] => v = u
  BY <1>1 DEF TablesHold, Own, Existing
<1>5. ASSUME NEW u \in Opens
      PROVE  /\ disk'[id(u)] \in TablePage /\ disk'[id(u)].head = disk[id(u)].head
             /\ disk'[id(u)].tail = IF handle[u].modified THEN handle[u].tail ELSE disk[id(u)].tail
  <2>1. /\ u \in Tables /\ u \in Existing /\ id(u) \in DOMAIN disk
        /\ handle[u] \notin {Closed, Broken} /\ handle[u].tail \in ChainAt(disk, id(u))
    BY <1>1 DEF Opens, TableAt, ObjectOf
  <2>2. (CHOOSE v \in Tables : tableID[v] = id(u)) = u
    BY <1>4, <2>1
  <2>3. disk'[id(u)] = TailStored(disk, id(u), handle[u])[id(u)]
    BY <1>3, <2>1, <2>2
  <2>4. disk[id(u)] \in TablePage
    BY <1>1, <2>1 DEF TableAt
  <2> HIDE DEF id
  <2>5. CASE handle[u].modified
    <3>1. TailMoves(disk, [disk EXCEPT ![id(u)].tail = handle[u].tail], id(u), handle[u].tail)
      BY <1>1, <2>1, TailOfObjectMoves
    <3>2. disk'[id(u)] = [disk EXCEPT ![id(u)].tail = handle[u].tail][id(u)]
      BY <2>3, <2>5 DEF TailStored
    <3> QED
      BY <2>5, <3>1, <3>2 DEF TailMoves
  <2>6. CASE ~handle[u].modified
    BY <2>3, <2>4, <2>6 DEF TailStored
  <2> QED
    BY <2>5, <2>6
<1>6. ASSUME NEW p \in DOMAIN disk, \A u \in Opens : tableID[u] # p
      PROVE  disk'[p] = disk[p]
  BY <1>3, <1>6 DEF Opens
<1>7. ASSUME NEW u \in Existing, NEW q \in ChainAt(disk, id(u))
      PROVE  q \in DOMAIN disk /\ disk'[q] = disk[q]
  <2>1. q \in DOMAIN disk /\ q \in Own(disk, id(u)) /\ q # id(u)
    BY <1>1, ChainsArePages DEF Own
  <2>2. ASSUME NEW v \in Opens PROVE tableID[v] # q
    <3>1. v \in Existing /\ tableID[v] \in Own(disk, id(v))
      BY <1>1 DEF Own
    <3>2. v # u => Own(disk, id(v)) \intersect Own(disk, id(u)) = {}
      BY <1>1, <3>1 DEF TablesHold
    <3> QED
      BY <2>1, <3>1, <3>2
  <2> QED
    BY <1>6, <2>1, <2>2
<1>8. ASSUME NEW u \in Existing
      PROVE  /\ TableAt(disk', id(u)) /\ ChainAt(disk', id(u)) = ChainAt(disk, id(u))
             /\ Own(disk', id(u)) = Own(disk, id(u))
             /\ WholeAt(disk, id(u), handle[u]) => WholeAt(disk', id(u), Closed)
             /\ disk'[id(u)] \in TablePage
  <2>1. /\ TableAt(disk, id(u)) /\ id(u) \in DOMAIN disk /\ disk[id(u)] \in TablePage
        /\ disk[id(u)].tail \in ChainAt(disk, id(u))
    BY <1>1 DEF TableAt
  <2>2. /\ disk'[id(u)] \in TablePage /\ disk'[id(u)].head = disk[id(u)].head
        /\ disk'[id(u)].tail \in ChainAt(disk, id(u))
        /\ WholeAt(disk, id(u), handle[u]) => disk[disk'[id(u)].tail].next = Null
    <3>1. CASE u \in Opens
      <4>1. ObjectOf(disk, id(u), handle[u]) /\ handle[u] \notin {Closed, Broken}
        BY <1>1, <3>1 DEF Opens
      <4>2. disk'[id(u)].tail \in ChainAt(disk, id(u))
        BY <1>5, <2>1, <3>1, <4>1 DEF ObjectOf
      <4>3. ASSUME WholeAt(disk, id(u), handle[u]) PROVE disk[disk'[id(u)].tail].next = Null
        <5>1. KnowsChain(disk, id(u), handle[u])
          BY <4>1, <4>3 DEF WholeAt
        <5>2. disk'[id(u)].tail = handle[u].tail
          BY <1>5, <3>1, <5>1 DEF KnowsChain
        <5> QED
          BY <5>1, <5>2 DEF KnowsChain
      <4> QED
        BY <1>5, <3>1, <4>2, <4>3
    <3>2. CASE u \notin Opens
      <4>1. \A v \in Opens : tableID[v] # id(u)
        BY <1>4, <3>2 DEF Opens
      <4>2. disk'[id(u)] = disk[id(u)]
        BY <1>6, <2>1, <4>1
      <4>3. WholeAt(disk, id(u), handle[u]) => handle[u] = Closed
        BY <1>1, <3>2 DEF WholeAt, Opens
      <4> QED
        BY <2>1, <4>2, <4>3 DEF WholeAt
    <3> QED
      BY <3>1, <3>2
  <2>3. \A q \in ChainAt(disk, id(u)) : IsRecordPage(disk, q)
    BY <2>1 DEF TableAt, Chained, ChainAt
  <2>4. \A q \in ChainAt(disk, id(u)) :
            IsRecordPage(disk', q) /\ disk'[q].next = disk[q].next /\ disk'[q].prev = disk[q].prev
    BY <1>3, <1>7, <2>3 DEF IsRecordPage
  <2> HIDE DEF id
  <2>5. /\ TableAt(disk', id(u)) /\ ChainAt(disk', id(u)) = ChainAt(disk, id(u))
        /\ Own(disk', id(u)) = Own(disk, id(u))
    BY <1>3, <2>1, <2>2, <2>4, SameTable
  <2>6. ASSUME WholeAt(disk, id(u), handle[u]) PROVE WholeAt(disk', id(u), Closed)
    <3>1. \E p \in ChainAt(disk', id(u)) : HasRoom(disk', p)
      BY <1>7, <2>5, <2>6 DEF WholeAt, HasRoom
    <3>2. disk'[disk'[id(u)].tail].next = Null
      BY <1>7, <2>2, <2>6
    <3> QED
      BY <3>1, <3>2, HandleAssumption DEF WholeAt
  <2> QED
    BY <2>2, <2>5, <2>6
<1>9. TablesHold'
  <2>1. Typed(disk')
    <3>1. \A p \in DOMAIN disk : disk'[p] = disk[p] \/ disk'[p] \in TablePage
      BY <1>1, <1>5, <1>6
    <3> QED
      BY <1>1, <1>3, <3>1 DEF Typed
  <2>2. \A u \in Existing : TableAt(disk', id(u)) /\ ObjectAt(disk', id(u), handle'[u])
    BY <1>1, <1>2, <1>8 DEF ObjectAt
  <2>3. \A u, v \in Existing : u # v => Own(disk', id(u)) \intersect Own(disk', id(v)) = {}
    BY <1>1, <1>8 DEF TablesHold
  <2>4. handle' \in [Tables -> Table \union {Closed, Broken}] /\ tableID' \in [Tables -> PageIDs \union {Null}]
    BY <1>1, <1>2 DEF TablesHold
  <2> QED
    BY <1>2, <2>1, <2>2, <2>3, <2>4 DEF TablesHold
<1>10. ASSUME ~Exhausts PROVE TablesAreWhole'
  <2>1. TablesAreWhole
    BY <1>10 DEF TableInv
  <2>2. \A p \in DOMAIN disk' : \E u \in Existing : p \in Own(disk', id(u))
    BY <1>3, <1>8, <2>1 DEF TablesAreWhole
  <2>3. \A u \in Existing : WholeAt(disk', id(u), handle'[u])
    BY <1>1, <1>2, <1>8, <2>1 DEF TablesAreWhole
  <2>4. \A u \in Tables : handle'[u] # Broken
    BY <1>2, HandleAssumption
  <2> QED
    BY <1>2, <2>2, <2>3, <2>4 DEF TablesAreWhole
<1>11. ASSUME NEW u \in Existing PROVE Held(disk', id(u)) = Held(disk, id(u))
  <2>1. SameRows(disk, disk', id(u))
    BY <1>7, <1>8 DEF SameRows
  <2>2. Typed(disk')
    BY <1>9 DEF TablesHold
  <2> HIDE DEF id
  <2> QED
    BY <1>1, <1>8, <2>1, <2>2, RowsStayHeld
<1>12. \A u \in Tables : Stored(u)' = Stored(u)
  BY <1>2, <1>11 DEF Stored, Held, Existing
<1> QED
  BY <1>9, <1>10, <1>12 DEF TableInv

LEMMA InvStep == TableInv /\ [Next]_vars => TableInv'
<1> SUFFICES ASSUME TableInv, [Next]_vars PROVE TableInv'
  OBVIOUS
<1>1. CASE UNCHANGED vars
  <2>1. disk' = disk /\ clock' = clock /\ tableID' = tableID /\ handle' = handle
    BY <1>1 DEF vars
  <2>2. Existing' = Existing /\ Opens' = Opens
    BY <2>1 DEF Existing, Opens
  <2> QED
    BY <2>1, <2>2 DEF TableInv, TablesHold, TablesAreWhole
<1>2. ASSUME NEW t \in Tables, NEW row \in Rows, Insert(t, row) PROVE TableInv'
  BY <1>2, InsertKeeps
<1>3. ASSUME NEW t \in Tables, NEW row \in Rows, Update(t, row) PROVE TableInv'
  BY <1>3, UpdateKeeps
<1>4. ASSUME NEW t \in Tables, Delete(t) PROVE TableInv'
  BY <1>4, DeleteKeeps
<1>5. ASSUME NEW t \in Tables, NEW destroyed \in BOOLEAN, RollBack(t, destroyed) PROVE TableInv'
  BY <1>5, RollBackKeeps
<1>6. ASSUME NEW t \in Tables, AddTable(t) PROVE TableInv'
  BY <1>6, AddTableKeeps
<1>7. ASSUME NEW t \in Tables, DropTable(t) PROVE TableInv'
  BY <1>7, DropTableKeeps
<1>8. CASE Restart
  BY <1>8, RestartKeeps
<1> QED
  BY <1>1, <1>2, <1>3, <1>4, <1>5, <1>6, <1>7, <1>8 DEF Next

-----------------------------------------------------------------------------
(* Refinement of TableStore *)

(* A call that lets the table at id grow reads the same rows elsewhere. *)
LEMMA CallMaps ==
    ASSUME TableInv, TableInv', NEW t \in Existing, tableID' = tableID,
           Grows(disk, disk', tableID[t]),
           LET old == Held(disk, tableID[t])
               new == Held(disk', tableID[t])
           IN  new = old \/ Store!Call(old, new)
    PROVE  StoreStep(t)
<1>1. /\ Typed(disk) /\ TableAt(disk, tableID[t]) /\ Typed(disk')
  BY DEF TableInv, TablesHold
<1>2. ASSUME NEW u \in Existing \ {t}
      PROVE  Held(disk', tableID[u]) = Held(disk, tableID[u])
  <2>1. TableAt(disk, tableID[u]) /\ Own(disk, tableID[u]) \intersect Own(disk, tableID[t]) = {}
    BY DEF TableInv, TablesHold
  <2>2. \A q \in Own(disk, tableID[u]) : q \in DOMAIN disk' /\ disk'[q] = disk[q]
    BY <2>1, OwnIsUsed DEF Grows
  <2> QED
    BY <1>1, <2>1, <2>2, UntouchedHeld
<1>3. \A u \in Existing : Stored(u) = Held(disk, tableID[u]) /\ Stored(u)' = Held(disk', tableID[u])
  BY DEF Stored, Held, Existing
<1>4. \A u \in Tables \ Existing : Stored(u) = Null /\ Stored(u)' = Null
  BY DEF Stored, Existing
<1> QED
  BY <1>2, <1>3, <1>4 DEF StoreStep

LEMMA StepsMap ==
    ASSUME TableInv, TableInv', Next
    PROVE  (\A u \in Tables : Stored(u)' = Stored(u)) \/ (\E t \in Tables : StoreStep(t))
<1>1. ASSUME NEW t \in Tables, NEW row \in Rows, Insert(t, row) PROVE StoreStep(t)
  <2>1. tableID' = tableID
    BY <1>1 DEF Insert, Call
  <2> QED
    BY <1>1, <2>1, InsertKeeps, CallMaps DEF Store!Call
<1>2. ASSUME NEW t \in Tables, NEW row \in Rows, Update(t, row) PROVE StoreStep(t)
  <2>1. tableID' = tableID
    BY <1>2 DEF Update, Call
  <2> QED
    BY <1>2, <2>1, UpdateKeeps, CallMaps DEF Store!Call
<1>3. ASSUME NEW t \in Tables, Delete(t) PROVE StoreStep(t)
  <2>1. tableID' = tableID
    BY <1>3 DEF Delete, Call
  <2> QED
    BY <1>3, <2>1, DeleteKeeps, CallMaps DEF Store!Call
<1>4. ASSUME NEW t \in Tables, NEW destroyed \in BOOLEAN, RollBack(t, destroyed) PROVE StoreStep(t)
  <2>1. tableID' = tableID
    BY <1>4 DEF RollBack
  <2> QED
    BY <1>4, <2>1, RollBackKeeps, CallMaps DEF Store!Call
<1>5. ASSUME NEW t \in Tables, AddTable(t) PROVE StoreStep(t)
  BY <1>5, AddTableKeeps
<1>6. ASSUME NEW t \in Tables, DropTable(t) PROVE StoreStep(t)
  BY <1>6, DropTableKeeps
<1>7. CASE Restart
  BY <1>7, RestartKeeps
<1> QED
  BY <1>1, <1>2, <1>3, <1>4, <1>5, <1>6, <1>7 DEF Next

LEMMA InitMaps == Init => Store!Init
  BY DEF Init, Store!Init, Stored

LEMMA NextMaps ==
    ASSUME TableInv, TableInv', [Next]_vars
    PROVE  [Store!Next]_[t \in Tables |-> Stored(t)]
<1> DEFINE content == [t \in Tables |-> Stored(t)]
<1>1. CASE \A u \in Tables : Stored(u)' = Stored(u)
  BY <1>1
<1>2. ASSUME NEW t \in Tables, StoreStep(t) PROVE [Store!Next]_content
  <2>1. CASE Stored(t)' = Stored(t)
    BY <1>2, <1>1, <2>1 DEF StoreStep
  <2>2. CASE Store!Call(Stored(t), Stored(t)')
    BY <1>2, <2>2 DEF StoreStep, Store!Next
  <2> QED
    BY <1>2, <2>1, <2>2 DEF StoreStep
<1>3. CASE UNCHANGED vars
  <2>1. disk' = disk /\ tableID' = tableID
    BY <1>3 DEF vars
  <2> QED
    BY <1>1, <2>1 DEF Stored
<1> QED
  BY <1>1, <1>2, <1>3, StepsMap

-----------------------------------------------------------------------------
(* Theorems *)

THEOREM TablesInvariant == Spec => []TableInv
  BY InvInit, InvStep, PTL DEF Spec

(* Every variable keeps its type, also when pages run out.                 *)
THEOREM TablesAreTyped == Spec => []TypeOK
  BY TablesInvariant, InvTypes, PTL

(* Whatever calls and restarts do, and also when pages run out, each       *)
(* table's pages form one doubly linked chain and no page is in two        *)
(* tables (linked_page.cc, table.cc, table_manager.cc).                    *)
THEOREM ChainsStayLinked == Spec => []ChainsAreLinked
  BY TablesInvariant, InvChains, PTL

(* As long as pages do not run out, a page MiniOS regards as used belongs  *)
(* to a table (os.cc, table.cc, table_manager.cc).                    *)
THEOREM PagesStayOwned ==
    ASSUME ~Exhausts
    PROVE  Spec => []NoPageIsLost
  BY TablesInvariant, InvWhole, PTL

(* As long as pages do not run out, a Table object knows head, tail and a  *)
(* page with room of its chain, also when Abort and Undo work beside it    *)
(* and after restarts (table.h:80-85).                                     *)
THEOREM ObjectsStayRight ==
    ASSUME ~Exhausts
    PROVE  Spec => []ObjectsKnowTheirChain
  BY TablesInvariant, InvWhole, PTL

(* The file implements TableStore, also when pages run out: what a Search  *)
(* finds in a table changes by calls on this table alone, and an insert    *)
(* takes a location that was free and loses no other row.                  *)
THEOREM FileImplementsStore == Spec => ImplementsTableStore
<1>1. TableInv /\ TableInv' /\ [Next]_vars => [Store!Next]_[t \in Tables |-> Stored(t)]
  BY NextMaps
<1> QED
  BY <1>1, TablesInvariant, InitMaps, PTL DEF Spec, ImplementsTableStore, Store!Spec

(* As long as pages do not run out, an insert stores its row at a location *)
(* that was free, whatever object it finds (table.h:27-33).                *)
THEOREM InsertsAlwaysStore ==
    ASSUME ~Exhausts
    PROVE  Spec => InsertsStore
<1>1. ASSUME TableInv, [Next]_vars, NEW t \in Existing, NEW row \in Rows, Insert(t, row)
      PROVE  Store!Insert(Stored(t), Stored(t)')
  <2>1. tableID' = tableID /\ t \in Tables /\ tableID[t] # Null
    BY <1>1 DEF Insert, Call, Existing
  <2>2. Store!Insert(Held(disk, tableID[t]), Held(disk', tableID[t]))
    BY <1>1, <2>1, InsertKeeps
  <2> QED
    BY <2>1, <2>2 DEF Stored, Held
<1>2. TableInv /\ [Next]_vars =>
        [\A t \in Existing :
            (\E row \in Rows : Insert(t, row)) /\ t \in Opens'
                => Store!Insert(Stored(t), Stored(t)')]_vars
  BY <1>1
<1> QED
  BY <1>2, TablesInvariant, PTL DEF Spec, InsertsStore
=============================================================================
