----------------------------- MODULE BPTreeNode -----------------------------
(***************************************************************************)
(* One node of the B+ tree and what happens between two neighbours under   *)
(* the same father: splitting, borrowing and merging.  The vectors         *)
(* _iKeyVec, _iChildVec and _iOverflowVec of BPTreeNode always move        *)
(* together and are one sequence of entries here.                          *)
(***************************************************************************)
EXTENDS Integers, SequencesExt

CONSTANTS
    LeafCap,        \* _nCap of a leaf, hundreds in the code
    InnerCap,       \* _nCap of an inner node
    Null            \* NULL_PAGE

ASSUME LeafCapAssumption == LeafCap \in Nat /\ LeafCap >= 3
ASSUME InnerCapAssumption == InnerCap \in Nat /\ InnerCap >= 3

(* A child is a page of the tree in an inner node, the location of a row   *)
(* in a leaf; only a leaf has overflow pages.                              *)
Entry(key, child, over) == [key |-> key, child |-> child, over |-> over]

Node(leaf) == [leaf |-> leaf, entries |-> << >>, next |-> Null, parent |-> Null]

Cap(n) == IF n.leaf THEN LeafCap ELSE InnerCap
Size(n) == Len(n.entries)
Half(n) == (Cap(n) + 1) \div 2

needSplit(n) == Size(n) > Cap(n)

needMerge(n) == Size(n) < Half(n)

canBeBorrow(n) == Size(n) > Half(n)

(* Mutant: the position after the last smaller or equal key. *)
LowerBound_Upper(n, key) == 1 + Cardinality({i \in DOMAIN n.entries : n.entries[i].key <= key})

(* The place of the first key that is not smaller, past the end if none.   *)
(* The keys of a node are sorted, so the binary search counts.             *)
LowerBound(n, key) == 1 + Cardinality({i \in DOMAIN n.entries : n.entries[i].key < key})

(* The place of the last key that is not larger, 0 for the code's -1. *)
LessOrEqualBound(n, key) == Cardinality({i \in DOMAIN n.entries : n.entries[i].key <= key})

-----------------------------------------------------------------------------
(* Two neighbours, [left, right]. *)

(* Mutant: the middle entry goes to neither side. *)
Split_DropsMiddle(n) ==
    [left  |-> [n EXCEPT !.entries = SubSeq(@, 1, Cap(n) \div 2)],
     right |-> [n EXCEPT !.entries = SubSeq(@, Cap(n) \div 2 + 2, Len(@))]]

(* SolveOverflow: the left node keeps the entries up to Cap / 2 (from 0). *)
Split(n) ==
    [left  |-> [n EXCEPT !.entries = SubSeq(@, 1, Cap(n) \div 2 + 1)],
     right |-> [n EXCEPT !.entries = SubSeq(@, Cap(n) \div 2 + 2, Len(@))]]

(* Mutant: the overflow pages of the borrowed entry stay behind. *)
BorrowLeft_LosesOver(left, right) ==
    [left  |-> [left EXCEPT !.entries = Front(@)],
     right |-> [right EXCEPT !.entries =
                    <<[Last(left.entries) EXCEPT !.over = Null]>> \o @]]

(* SolveUnderflow, case 1: the right node takes the last entry of the left. *)
BorrowLeft(left, right) ==
    [left  |-> [left EXCEPT !.entries = Front(@)],
     right |-> [right EXCEPT !.entries = <<Last(left.entries)>> \o @]]

(* Case 2: the left node takes the first entry of the right. *)
BorrowRight(left, right) ==
    [left  |-> [left EXCEPT !.entries = Append(@, Head(right.entries))],
     right |-> [right EXCEPT !.entries = Tail(@)]]

(* Mutant: the leaf keeps pointing to the page that is gone. *)
Merge_KeepsNext(left, right) == [left EXCEPT !.entries = @ \o right.entries]

(* Case 3: the left node takes everything, and its place in the leaf list. *)
Merge(left, right) == [left EXCEPT !.entries = @ \o right.entries, !.next = right.next]
=============================================================================
