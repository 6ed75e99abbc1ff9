------------------------------- MODULE BPTree -------------------------------
(***************************************************************************)
(* One index: a B+ tree of pages, as src/index/index.cc keeps it.  A leaf  *)
(* entry holds the first location of its key and the chain of overflow     *)
(* pages with the others.  Leaves form a list through their next pages,    *)
(* and every node knows its parent.  Each operation is one step: a single  *)
(* thread runs it to its end, and MiniOS has the pages it asks for.        *)
(***************************************************************************)
EXTENDS BPTreeNode

CONSTANTS
    OverflowCap,    \* OVERFLOW_NODE_CAP: locations an overflow page holds
    Keys,           \* the values of the indexed column, integers
    Locations,      \* where a row can be
    Tables,         \* the rows a table can have when CreateIndex is called
    Inserts,        \* the pairs that clients insert, each while it is not there
    NoIndex         \* the content of an index that does not exist

ASSUME OverflowCapAssumption == OverflowCap \in Nat \ {0}
ASSUME KeysAssumption == Keys \subseteq Int
ASSUME TablesAssumption ==
    \A rows \in Tables : rows \in Seq(Keys \X Locations) /\ IsInjective(rows)
ASSUME InsertsAssumption == Inserts \subseteq Keys \X Locations
ASSUME NullAssumption == Null \notin Int
ASSUME NoIndexAssumption == \A pairs \in SUBSET (Keys \X Locations) : pairs # NoIndex

VARIABLES
    pages,      \* the pages of the index and what they hold
    root        \* _nRootID, Null before AddIndex and after DropIndex

vars == <<pages, root>>

OverflowPage(values, next) == [values |-> values, next |-> next]

(* No way through the pages of an index is longer than there are pages. *)
Bound(d) == Cardinality(DOMAIN d)

(* A loop from `start' on.  An iteration with nothing left to do changes   *)
(* nothing, so that it may run on to its bound n.  The state after i       *)
(* iterations is the element of a set, for TLC to evaluate it once.        *)
Loop(Step(_), start, n) ==
    LET after[i \in 0..n] == IF i = 0 THEN {start} ELSE {Step(s) : s \in after[i-1]}
    IN  CHOOSE s \in after[n] : TRUE

(* The ids MiniOS gives out do not matter to an index.  Nodes take the     *)
(* least free from 0 up and overflow pages from -1 down, so that trees     *)
(* that differ in ids alone are mostly one state.                          *)
NewPage(d) == Min(0..Bound(d) \ DOMAIN d)
NewOverflowPage(d) == Max(-Bound(d)-1..-1 \ DOMAIN d)

DeletePages(d, S) == Restrict(d, DOMAIN d \ S)

(* BPTreeNode::SetParentID of the children among the entries. *)
Adopted(d, entries, p) ==
    LET kids == {e.child : e \in Range(entries)}
    IN  [q \in DOMAIN d |-> IF q \in kids THEN [d[q] EXCEPT !.parent = p] ELSE d[q]]

(* Mutant: the children keep their old parent. *)
AdoptedBy_Forgotten(d, p, entries) == d

(* The same where the node p is an inner one. *)
AdoptedBy(d, p, entries) == IF d[p].leaf THEN d ELSE Adopted(d, entries, p)

(* The pages of a chain, as far as they are seen, and the next one. *)
ChainStep(s) ==
    LET next == IF s.seen = << >> THEN s.first ELSE s.pages[Last(s.seen)].next
    IN  IF next = Null THEN s ELSE [s EXCEPT !.seen = Append(@, next)]

OverflowChain(d, o) ==
    IF o = Null THEN << >>
    ELSE Loop(ChainStep, [pages |-> d, first |-> o, seen |-> << >>], Bound(d)).seen

(* BPTreeNode::GetAllValueByRank *)
Values(d, entry) ==
    LET chain == OverflowChain(d, entry.over)
    IN  <<entry.child>> \o FlattenSeq([i \in DOMAIN chain |-> d[chain[i]].values])

-----------------------------------------------------------------------------
(* Solving an overflow, level by level.  A tree is its pages and its root; *)
(* a loop over it is at one of its nodes, at Null when it is done.         *)

From(t, p) == [pages |-> t.pages, root |-> t.root, at |-> p]

(* The root gets a father. *)
Rooted(s) ==
    LET father == NewPage(s.pages)
        entry  == Entry(s.pages[s.root].entries[1].key, s.root, Null)
    IN  [s EXCEPT !.root = father, !.pages =
            [q \in DOMAIN @ \union {father} |->
                IF q = father THEN [Node(FALSE) EXCEPT !.entries = <<entry>>]
                ELSE IF q = s.root THEN [@[q] EXCEPT !.parent = father] ELSE @[q]]]

(* The body of SolveOverflow: the right half of a node moves to a new      *)
(* page, which the father gets to know.                                    *)
SplitPage(s) ==
    LET d      == s.pages
        halves == Split(d[s.at])
        right  == NewPage(d)
        father == d[s.at].parent
        left   == IF d[s.at].leaf THEN [halves.left EXCEPT !.next = right] ELSE halves.left
        new    == Entry(halves.right.entries[1].key, right, Null)
        known  == InsertAt(d[father].entries, LowerBound(d[father], new.key), new)
        moved  == [q \in DOMAIN d \union {right} |->
                        IF q = right THEN halves.right
                        ELSE IF q = s.at THEN left
                        ELSE IF q = father THEN [d[q] EXCEPT !.entries = known] ELSE d[q]]
    IN  [s EXCEPT !.pages = AdoptedBy(moved, right, halves.right.entries), !.at = father]

OverflowStep(s) ==
    IF ~needSplit(s.pages[s.at]) THEN s
    ELSE IF s.pages[s.at].parent = Null THEN SplitPage(Rooted(s)) ELSE SplitPage(s)

SolveOverflow(t, p) ==
    LET s == Loop(OverflowStep, From(t, p), Bound(t.pages))
    IN  [pages |-> s.pages, root |-> s.root]

-----------------------------------------------------------------------------
(* Solving an underflow, level by level. *)

(* The neighbours at places i and i + 1 of the father f become `pair', and *)
(* the father's key of the right one follows.                              *)
Lent(d, f, i, pair) ==
    LET left  == d[f].entries[i].child
        right == d[f].entries[i + 1].child
        first == pair.right.entries[1].key
    IN  [q \in DOMAIN d |->
            IF q = left THEN pair.left
            ELSE IF q = right THEN pair.right
            ELSE IF q = f THEN [d[q] EXCEPT !.entries[i + 1].key = first] ELSE d[q]]

(* Case 1: the last child of the left page becomes the first of the right. *)
BorrowedLeft(d, f, i) ==
    LET left  == d[f].entries[i].child
        right == d[f].entries[i + 1].child
        pair  == BorrowLeft(d[left], d[right])
    IN  AdoptedBy(Lent(d, f, i, pair), right, <<pair.right.entries[1]>>)

(* Case 2: the first child of the right page becomes the last of the left. *)
BorrowedRight(d, f, i) ==
    LET left  == d[f].entries[i].child
        right == d[f].entries[i + 1].child
        pair  == BorrowRight(d[left], d[right])
    IN  AdoptedBy(Lent(d, f, i, pair), left, <<Last(pair.left.entries)>>)

(* Case 3: the page at place i takes in the page at i + 1. *)
Merged(d, f, i) ==
    LET left  == d[f].entries[i].child
        right == d[f].entries[i + 1].child
        taken == [q \in DOMAIN d |->
                    IF q = left THEN Merge(d[left], d[right])
                    ELSE IF q = f THEN [d[q] EXCEPT !.entries = RemoveAt(@, i + 1)] ELSE d[q]]
    IN  DeletePages(AdoptedBy(taken, left, d[right].entries), {right})

(* The root's only child becomes the root. *)
Lowered(s) ==
    LET child == s.pages[s.root].entries[1].child
        freed == [s.pages EXCEPT ![child].parent = Null]
    IN  [pages |-> DeletePages(freed, {s.root}), root |-> child, at |-> Null]

(* One call of SolveUnderflow, for the node at `at', which has a father f. *)
Refilled(s, f) ==
    LET entries == s.pages[f].entries
        rank == CHOOSE i \in DOMAIN entries : entries[i].child = s.at
        Lends(i) == i \in DOMAIN entries /\ canBeBorrow(s.pages[entries[i].child])
    IN  IF Lends(rank - 1)
           THEN [s EXCEPT !.pages = BorrowedLeft(@, f, rank - 1), !.at = Null]
        ELSE IF Lends(rank + 1)
           THEN [s EXCEPT !.pages = BorrowedRight(@, f, rank), !.at = Null]
           ELSE [s EXCEPT !.pages = Merged(@, f, IF rank > 1 THEN rank - 1 ELSE rank), !.at = f]

UnderflowStep(s) ==
    LET cur == s.pages[s.at]
    IN  IF s.at = Null \/ ~needMerge(cur) THEN s
        ELSE IF cur.parent # Null THEN Refilled(s, cur.parent)
        ELSE IF Size(cur) = 1 /\ ~cur.leaf THEN Lowered(s) ELSE s

SolveUnderflow(t, p) ==
    LET s == Loop(UnderflowStep, From(t, p), Bound(t.pages))
    IN  [pages |-> s.pages, root |-> s.root]

-----------------------------------------------------------------------------
(* The way down.  A search for a key is at a page. *)

Search(d, p, key) == [pages |-> d, at |-> p, key |-> key]

(* The entry of an inner node that is followed: the first one for a key    *)
(* smaller than all of them.                                               *)
Followed(n, key) == Max({1, LessOrEqualBound(n, key)})

(* searchIntoLeaf *)
DownStep(s) ==
    LET n == s.pages[s.at]
    IN  IF n.leaf THEN s ELSE [s EXCEPT !.at = n.entries[Followed(n, s.key)].child]

LeafOf(d, p, key) == Loop(DownStep, Search(d, p, key), Bound(d)).at

(* Is the key there, at its place? *)
IsKeyOf(n, rank, key) == rank \in DOMAIN n.entries /\ n.entries[rank].key = key

(* searchInfoLeafEqual: Null for a key below the first one of a node, or   *)
(* missing in the leaf.                                                    *)
EqualStep(s) ==
    LET n    == s.pages[s.at]
        rank == LessOrEqualBound(n, s.key)
    IN  IF s.at = Null \/ n.leaf THEN s
        ELSE [s EXCEPT !.at = IF rank = 0 THEN Null ELSE n.entries[rank].child]

EqualLeafOf(d, p, key) ==
    LET leaf == Loop(EqualStep, Search(d, p, key), Bound(d)).at
    IN  IF leaf = Null \/ ~IsKeyOf(d[leaf], LessOrEqualBound(d[leaf], key), key) THEN Null
        ELSE leaf

(* searchIntoLeafInsert: a key smaller than all others lowers the keys it  *)
(* passes on its way down.                                                 *)
LowerStep(s) ==
    LET n == s.pages[s.at]
        i == Followed(n, s.key)
    IN  IF n.leaf THEN s
        ELSE [s EXCEPT !.pages[s.at].entries[i].key = Min({@, s.key}), !.at = n.entries[i].child]

LeafForInsert(d, p, key) == Loop(LowerStep, Search(d, p, key), Bound(d))

-----------------------------------------------------------------------------
(* Inside a leaf. *)

(* BPTreeNode::InsertInLeaf: a new key makes an entry, a known one takes   *)
(* the first place free in its overflow chain, or a new page behind it.    *)
InsertInLeaf(d, p, key, loc) ==
    LET rank  == LowerBound(d[p], key)
        chain == OverflowChain(d, d[p].entries[rank].over)
        roomy == {i \in DOMAIN chain : Len(d[chain[i]].values) < OverflowCap}
        new   == NewOverflowPage(d)
        more  == [q \in DOMAIN d \union {new} |->
                    IF q = new THEN OverflowPage(<<loc>>, Null) ELSE d[q]]
    IN  IF ~IsKeyOf(d[p], rank, key)
           THEN [d EXCEPT ![p].entries = InsertAt(@, rank, Entry(key, loc, Null))]
        ELSE IF roomy # {}
           THEN [d EXCEPT ![chain[Min(roomy)]].values = Append(@, loc)]
        ELSE IF chain # << >>
           THEN [more EXCEPT ![Last(chain)].next = new]
           ELSE [more EXCEPT ![p].entries[rank].over = new]

(* Mutant: the overflow pages of the key are not given back. *)
DeleteAllInLeaf_KeepsChain(d, p, rank) == [d EXCEPT ![p].entries = RemoveAt(@, rank)]

(* BPTreeNode::DeleteAllInLeaf *)
DeleteAllInLeaf(d, p, rank) ==
    DeletePages([d EXCEPT ![p].entries = RemoveAt(@, rank)],
                Range(OverflowChain(d, d[p].entries[rank].over)))

(* BPTreeNode::DeleteInLeaf: the last location of the first overflow page  *)
(* that has one replaces the entry's own.  Empty overflow pages stay.      *)
DeleteInLeaf(d, p, rank, loc) ==
    LET entry  == d[p].entries[rank]
        chain  == OverflowChain(d, entry.over)
        filled == {i \in DOMAIN chain : d[chain[i]].values # << >>}
        having == {i \in DOMAIN chain : loc \in Range(d[chain[i]].values)}
        from(S) == chain[Min(S)]
    IN  IF entry.child # loc
           THEN IF having = {} THEN d
                ELSE [d EXCEPT ![from(having)].values = RemoveFirst(@, loc)]
        ELSE IF filled = {}
           THEN DeleteAllInLeaf(d, p, rank)
           ELSE [d EXCEPT ![p].entries[rank].child = Last(d[from(filled)].values),
                          ![from(filled)].values = Front(@)]

(* BPTreeNode::UpdateInLeaf *)
UpdateInLeaf(d, p, key, old, new) ==
    LET rank   == LowerBound(d[p], key)
        chain  == OverflowChain(d, d[p].entries[rank].over)
        having == {i \in DOMAIN chain : old \in Range(d[chain[i]].values)}
        page   == chain[Min(having)]
        place  == SelectInSeq(d[page].values, LAMBDA v : v = old)
    IN  IF ~IsKeyOf(d[p], rank, key) THEN d
        ELSE IF d[p].entries[rank].child = old
           THEN [d EXCEPT ![p].entries[rank].child = new]
        ELSE IF having = {} THEN d
           ELSE [d EXCEPT ![page].values[place] = new]

-----------------------------------------------------------------------------
(* The member functions of Index. *)

Inserted(t, key, loc) ==
    LET found == LeafForInsert(t.pages, t.root, key)
    IN  SolveOverflow([t EXCEPT !.pages = InsertInLeaf(found.pages, found.at, key, loc)], found.at)

PairDeleted(t, key, loc) ==
    LET leaf == LeafOf(t.pages, t.root, key)
        rank == LessOrEqualBound(t.pages[leaf], key)
    IN  IF ~IsKeyOf(t.pages[leaf], rank, key) THEN t
        ELSE SolveUnderflow([t EXCEPT !.pages = DeleteInLeaf(@, leaf, rank, loc)], leaf)

KeyDeleted(t, key) ==
    LET leaf == LeafOf(t.pages, t.root, key)
        rank == LessOrEqualBound(t.pages[leaf], key)
    IN  IF ~IsKeyOf(t.pages[leaf], rank, key) THEN t
        ELSE SolveUnderflow([t EXCEPT !.pages = DeleteAllInLeaf(@, leaf, rank)], leaf)

Updated(t, key, old, new) ==
    LET leaf == EqualLeafOf(t.pages, t.root, key)
    IN  IF leaf = Null THEN t
        ELSE [t EXCEPT !.pages = UpdateInLeaf(t.pages, leaf, key, old, new)]

(* The entries of a leaf from low on and before the first from high on.    *)
Hits(n, low, high) == SubSeq(n.entries, LowerBound(n, low), LowerBound(n, high) - 1)

(* What the leaf adds to the range. *)
Collected(s, at) ==
    LET hits == Hits(s.pages[s.at], s.low, s.high)
    IN  [s EXCEPT !.at = at,
                  !.found = @ \o FlattenSeq([i \in DOMAIN hits |-> Values(s.pages, hits[i])])]

(* Mutant: the list of leaves is not followed. *)
RangeStep_OneLeaf(s) == IF s.at = Null THEN s ELSE Collected(s, Null)

(* The loop of Range along the leaves.  A leaf with no key from low on, or *)
(* with one from high on, ends it.                                         *)
RangeStep(s) ==
    IF s.at = Null THEN s
    ELSE LET n    == s.pages[s.at]
             ends == LowerBound(n, s.low) > Size(n) \/ LowerBound(n, s.high) <= Size(n)
         IN  Collected(s, IF ends THEN Null ELSE n.next)

RangeOf(t, low, high) ==
    Loop(RangeStep, [pages |-> t.pages, low |-> low, high |-> high, found |-> << >>,
                     at |-> LeafOf(t.pages, t.root, low)], Bound(t.pages)).found

-----------------------------------------------------------------------------
(* What is under a node: ClearInner goes there. *)

Children(n) == IF n.leaf THEN {} ELSE {e.child : e \in Range(n.entries)}

(* One level further down: `edge' is the last level found. *)
LevelStep(s) ==
    LET below == UNION {Children(s.pages[q]) : q \in s.edge}
    IN  [s EXCEPT !.edge = below, !.found = @ \union below]

NodesUnder(d, p) ==
    Loop(LevelStep, [pages |-> d, edge |-> {p}, found |-> {p}], Bound(d)).found

LeafEntries(d, S) == UNION {Range(d[q].entries) : q \in {r \in S : d[r].leaf}}

Owned(d, entry) == Range(OverflowChain(d, entry.over))

(* The pages ClearInner gives back. *)
Held(d, p) ==
    LET nodes == NodesUnder(d, p)
    IN  nodes \union UNION {Owned(d, e) : e \in LeafEntries(d, nodes)}

-----------------------------------------------------------------------------
(* What clients see: the pairs in the leaves under the root. *)

LocationsOf(d, entry) == {entry.child} \union UNION {Range(d[o].values) : o \in Owned(d, entry)}

ContentOf(t) ==
    UNION {{e.key} \X LocationsOf(t.pages, e) :
           e \in LeafEntries(t.pages, NodesUnder(t.pages, t.root))}

Tree == [pages |-> pages, root |-> root]

content == IF root = Null THEN NoIndex ELSE ContentOf(Tree)

(* The pairs clients may add to the index, none if there is none: a row is *)
(* indexed once.                                                           *)
Absent == IF root = Null THEN {} ELSE Inserts \ content

-----------------------------------------------------------------------------
Become(t) == pages' = t.pages /\ root' = t.root

Init ==
    /\ pages = << >>
    /\ root = Null

(* Instance::CreateIndex: a new leaf, and the rows of the table one by one. *)

Empty == [pages |-> [q \in {0} |-> Node(TRUE)], root |-> 0]

RowStep(s) ==
    LET pair == s.rows[s.done + 1]
    IN  [s EXCEPT !.tree = Inserted(@, pair[1], pair[2]), !.done = @ + 1]

CreateIndex(rows) ==
    /\ root = Null
    /\ Become(Loop(RowStep, [rows |-> rows, tree |-> Empty, done |-> 0], Len(rows)).tree)

Insert(key, loc) ==
    /\ <<key, loc>> \in Absent
    /\ Become(Inserted(Tree, key, loc))

DeletePair(key, loc) ==
    /\ root # Null
    /\ Become(PairDeleted(Tree, key, loc))

DeleteKey(key) ==
    /\ root # Null
    /\ Become(KeyDeleted(Tree, key))

Update(key, old, new) ==
    /\ <<key, new>> \in Absent
    /\ Become(Updated(Tree, key, old, new))

(* Clear, followed by `delete pIndex' in IndexManager::DropIndex. *)
Clear ==
    /\ root # Null
    /\ pages' = DeletePages(pages, Held(pages, root))
    /\ root' = Null

Next ==
    \/ \E rows \in Tables : CreateIndex(rows)
    \/ \E key \in Keys, loc \in Locations : Insert(key, loc) \/ DeletePair(key, loc)
    \/ \E key \in Keys : DeleteKey(key)
    \/ \E key \in Keys, old, new \in Locations : Update(key, old, new)
    \/ Clear

Spec == Init /\ [][Next]_vars

-----------------------------------------------------------------------------
Nodes == IF root = Null THEN {} ELSE NodesUnder(pages, root)

NodeOK(n) ==
    LET kinds == [key : Keys, child : IF n.leaf THEN Locations ELSE DOMAIN pages,
                  over : DOMAIN pages \union {Null}]
    IN  /\ n.entries \in Seq(kinds)
        /\ {n.next, n.parent} \subseteq DOMAIN pages \union {Null}

OverflowOK(o) ==
    /\ o.values \in Seq(Locations) /\ Len(o.values) <= OverflowCap
    /\ o.next \in DOMAIN pages \union {Null}

(* Every page of an index is a node whose entries point to where they      *)
(* should, or an overflow page within its capacity.                        *)
TypeOK ==
    /\ root \in DOMAIN pages \union {Null}
    /\ \A p \in DOMAIN pages : IF p \in Nodes THEN NodeOK(pages[p]) ELSE OverflowOK(pages[p])

Abstract == INSTANCE Multimap

KeysUnder(p) == {e.key : e \in UNION {Range(pages[q].entries) : q \in NodesUnder(pages, p)}}

(* The keys of a node ascend, and the keys in the subtree of a child lie   *)
(* between the node's key for it and the next, through every split, loan   *)
(* and merge and though deletions leave the inner keys as they are.        *)
KeysAreOrdered ==
    \A p \in Nodes :
        LET entries == pages[p].entries
        IN  /\ \A i, j \in DOMAIN entries : i < j => entries[i].key < entries[j].key
            /\ ~pages[p].leaf => \A i \in DOMAIN entries :
                    \A k \in KeysUnder(entries[i].child) :
                        /\ entries[i].key <= k
                        /\ i < Len(entries) => k < entries[i + 1].key

(* The leaves under p, by the number of steps down to them. *)
HeightStep(s) ==
    LET n == pages[s.at]
    IN  IF n.leaf THEN s ELSE [at |-> n.entries[1].child, height |-> s.height + 1]

Height(p) == Loop(HeightStep, [at |-> p, height |-> 0], Bound(pages)).height

(* Every node is within its capacity when an operation ends, every node    *)
(* but the root at least half full, an inner root has two children, and    *)
(* all leaves are equally deep.                                            *)
NodesAreBalanced ==
    \A p \in Nodes :
        LET n == pages[p]
        IN  /\ Size(n) <= Cap(n)
            /\ p # root => Size(n) >= Half(n)
            /\ ~n.leaf => /\ Size(n) >= 2
                          /\ \A e \in Range(n.entries) : Height(e.child) = Height(p) - 1

KeysBefore(p, q) == \A k \in KeysUnder(p), l \in KeysUnder(q) : k < l

(* A child knows its parent, though splits, loans and merges of the parent *)
(* move it about, and the list of leaves has the leaves in the order of    *)
(* their keys.                                                             *)
NodesAreLinked ==
    /\ root # Null => pages[root].parent = Null
    /\ \A p \in Nodes : \A c \in Children(pages[p]) : pages[c].parent = p
    /\ \A p \in Nodes : pages[p].leaf =>
        LET later == {q \in Nodes \ {p} : pages[q].leaf /\ KeysBefore(p, q)}
        IN  IF later = {} THEN pages[p].next = Null
            ELSE /\ pages[p].next \in later
                 /\ \A q \in later \ {pages[p].next} : KeysBefore(pages[p].next, q)

(* The three together make a B+ tree, after every call (index.cc:22-384).  *)
TreeIsWellFormed == KeysAreOrdered /\ NodesAreBalanced /\ NodesAreLinked

(* The pages of an index are those DropIndex gives back: merges and        *)
(* deletions leave none behind, and no overflow page has two owners.       *)
NoPageIsLost ==
    /\ DOMAIN pages = IF root = Null THEN {} ELSE Held(pages, root)
    /\ \A e, f \in LeafEntries(pages, Nodes) :
        /\ IsInjective(OverflowChain(pages, e.over))
        /\ e # f => Owned(pages, e) \intersect Owned(pages, f) = {}

(* From every tree a client can build, each call does to the pairs exactly *)
(* what its comment in index.h says: Insert adds the pair, the deletions   *)
(* take away the pair or every pair of the key, if there, and Update moves *)
(* one to its new location.  A search that misses its leaf breaks this.    *)
CallsAreExact ==
    LET now == content
    IN  root # Null => \A key \in Keys, loc \in Locations :
            /\ <<key, loc>> \in Inserts \ now =>
                ContentOf(Inserted(Tree, key, loc)) = Abstract!Inserted(now, key, loc)
            /\ ContentOf(PairDeleted(Tree, key, loc)) = Abstract!PairDeleted(now, key, loc)
            /\ ContentOf(KeyDeleted(Tree, key)) = Abstract!KeyDeleted(now, key)
            /\ \A new \in Locations :
                <<key, new>> \notin now =>
                    ContentOf(Updated(Tree, key, loc, new)) = Abstract!Updated(now, key, loc, new)

(* Does Range answer every location with a key in [low, high), as often as *)
(* it is there, and no other?                                              *)
IsExact(low, high) ==
    LET answer == RangeOf(Tree, low, high)
        asked  == {pair \in content : low <= pair[1] /\ pair[1] < high}
    IN  \A loc \in Locations :
            Cardinality({i \in DOMAIN answer : answer[i] = loc})
                = Cardinality({pair \in asked : pair[2] = loc})

(* Range answers what is in [low, high) and nothing else, along the list   *)
(* of leaves and through all overflow pages, or nothing at all; and it is  *)
(* right whenever the key it starts from is there.                         *)
RangeIsExactOrEmpty ==
    root # Null => \A low, high \in Keys :
        IsExact(low, high)
        \/ /\ RangeOf(Tree, low, high) = << >>
           /\ \A pair \in content : pair[1] # low

(* What index.h promises of Range: every location with a key in the range. *)
RangeIsExact == root # Null => \A low, high \in Keys : IsExact(low, high)

(* Seen through the pairs in its leaves, an index is a multimap. *)
ImplementsMultimap == Abstract!Spec
=============================================================================
