---------------------------- MODULE BPTreeProofs -----------------------------
(***************************************************************************)
(* The pairs in a B+ tree, for any capacities, keys, locations and rows:   *)
(* every call does to them what it says, Range answers with them or with   *)
(* nothing, the tree stays well formed and none of its pages is lost.      *)
(***************************************************************************)
EXTENDS BPTreeShape

-----------------------------------------------------------------------------
(* Chains of overflow pages. *)

(* The pages s, each once, are the chain that begins at o. *)
IsChain(d, o, s) ==
    /\ s \in Seq(DOMAIN d) /\ IsInjective(s)
    /\ o = IF s = << >> THEN Null ELSE s[1]
    /\ \A i \in 1..Len(s) : d[s[i]].next = IF i = Len(s) THEN Null ELSE s[i+1]

(* A walk along the chain after i steps. *)
Walking(d, o, s, z, i) ==
    \E j \in 0..Len(s) : /\ z = [pages |-> d, first |-> o, seen |-> SubSeq(s, 1, j)]
                         /\ j = i \/ j = Len(s)

(* t are the first j elements of s. *)
HasFirst(s, j, t) ==
    /\ Len(t) = j /\ \A i \in 1..j : t[i] = s[i]
    /\ t = << >> <=> j = 0
    /\ j # 0 => Last(t) = s[j]
    /\ j # Len(s) => SubSeq(s, 1, j + 1) = Append(t, s[j+1])

LEMMA FirstOnes ==
    ASSUME NEW S, NEW s \in Seq(S), NEW j \in 0..Len(s), NEW t, t = SubSeq(s, 1, j)
    PROVE  t \in Seq(S) /\ HasFirst(s, j, t)
<1>1. Len(s) \in Nat /\ j \in Nat /\ j <= Len(s) /\ \A i \in 1..j : s[i] \in S
  OBVIOUS
<1>2. t \in Seq(S) /\ Len(t) = j /\ \A i \in 1..j : t[i] = s[i]
  <2>1. t \in Seq(S) /\ (Len(t) = IF 1 <= j THEN j - 1 + 1 ELSE 0)
        /\ \A i \in 1..j-1+1 : t[i] = s[1+i-1]
    <3>1. 1 \in Int /\ j \in Int
      BY <1>1
    <3> QED
      BY <1>1, <3>1, SubSeqProperties
  <2> QED
    BY <1>1, <2>1
<1>3. t = << >> <=> j = 0
  BY <1>1, <1>2
<1>4. j # 0 => Last(t) = s[j]
  BY <1>1, <1>2 DEF Last
<1>5. j # Len(s) => SubSeq(s, 1, j + 1) = Append(t, s[j+1])
  <2> SUFFICES ASSUME j # Len(s) PROVE SubSeq(s, 1, j + 1) = Append(t, s[j+1])
    OBVIOUS
  <2>1. 1 \in 1..Len(s) /\ j + 1 \in 1..Len(s) /\ (j + 1) - 1 = j /\ s[j+1] \in S
    BY <1>1
  <2>2. SubSeq(s, 1, j + 1) = SubSeq(s, 1, (j + 1) - 1) \o <<s[j+1]>>
    BY <2>1, SubSeqRecursiveSecond, Zenon
  <2>3. Append(t, s[j+1]) = t \o <<s[j+1]>>
    BY <1>2, <2>1, AppendIsConcat, Zenon
  <2> QED
    BY <2>1, <2>2, <2>3
<1> QED
  BY <1>2, <1>3, <1>4, <1>5 DEF HasFirst

LEMMA WalkGoesOn ==
    ASSUME NEW d, Null \notin DOMAIN d, NEW o, NEW s, IsChain(d, o, s),
           NEW i \in Nat, NEW z, Walking(d, o, s, z, i)
    PROVE  Walking(d, o, s, ChainStep(z), i + 1)
<1>1. PICK j \in 0..Len(s) : /\ z = [pages |-> d, first |-> o, seen |-> SubSeq(s, 1, j)]
                             /\ j = i \/ j = Len(s)
  BY DEF Walking
<1>2. s \in Seq(DOMAIN d) /\ Len(s) \in Nat /\ j \in Nat /\ (s = << >> <=> Len(s) = 0)
  BY DEF IsChain
<1> DEFINE t == SubSeq(s, 1, j)
           next == IF z.seen = << >> THEN z.first ELSE z.pages[Last(z.seen)].next
<1>3. /\ t = << >> <=> j = 0
      /\ j # 0 => Last(t) = s[j]
      /\ j # Len(s) => SubSeq(s, 1, j + 1) = Append(t, s[j+1])
  <2>1. t = SubSeq(s, 1, j)
    OBVIOUS
  <2> HIDE DEF t
  <2>2. HasFirst(s, j, t)
    BY <1>2, <2>1, FirstOnes, Zenon
  <2> QED
    BY <2>2 DEF HasFirst
<1>4. next = IF j = Len(s) THEN Null ELSE s[j+1]
  <2>1. z.seen = t /\ z.first = o /\ z.pages = d
    BY <1>1
  <2> HIDE DEF t
  <2>2. CASE j = 0
    BY <1>2, <1>3, <2>1, <2>2 DEF IsChain
  <2>3. CASE j # 0
    <3>1. j \in 1..Len(s) /\ next = d[s[j]].next
      BY <1>2, <1>3, <2>1, <2>3
    <3> QED
      BY <3>1 DEF IsChain
  <2> QED
    BY <2>2, <2>3
<1>5. CASE j = Len(s)
  <2>1. ChainStep(z) = z
    BY <1>4, <1>5 DEF ChainStep
  <2> QED
    BY <1>1, <1>5, <2>1 DEF Walking
<1>6. CASE j # Len(s)
  <2>1. s[j+1] \in DOMAIN d /\ j + 1 \in 0..Len(s)
    <3>1. j + 1 \in 1..Len(s)
      BY <1>2, <1>6
    <3> QED
      BY <1>2, <3>1
  <2>2. ChainStep(z) = [z EXCEPT !.seen = Append(@, s[j+1])]
    BY <1>4, <1>6, <2>1, Zenon DEF ChainStep
  <2>3. ChainStep(z) = [pages |-> d, first |-> o, seen |-> Append(t, s[j+1])]
    <3> HIDE DEF t
    <3> QED
      BY <1>1, <2>2, Zenon DEF t
  <2>4. ChainStep(z) = [pages |-> d, first |-> o, seen |-> SubSeq(s, 1, j + 1)]
    <3> HIDE DEF t
    <3> QED
      BY <1>3, <1>6, <2>3, Zenon
  <2>5. j + 1 = i + 1
    BY <1>1, <1>6
  <2> QED
    BY <2>1, <2>4, <2>5 DEF Walking
<1> QED
  BY <1>5, <1>6

(* No chain is longer than there are pages. *)
LEMMA ChainFits ==
    ASSUME NEW d, IsFiniteSet(DOMAIN d), NEW o, NEW s, IsChain(d, o, s)
    PROVE  Bound(d) \in Nat /\ Len(s) \in Nat /\ Len(s) <= Bound(d)
<1>1. s \in Seq(DOMAIN d) /\ IsInjective(s) /\ Len(s) \in Nat /\ DOMAIN s = 1..Len(s)
  BY DEF IsChain
<1>2. s \in Injection(1..Len(s), DOMAIN d)
  BY <1>1 DEF Injection, IsInjective
<1>3. Cardinality(1..Len(s)) = Len(s)
  <2>1. 1 \in Int /\ Len(s) \in Int /\ Len(s) - 1 + 1 = Len(s)
    BY <1>1
  <2>2. Cardinality(1..Len(s)) = IF 1 > Len(s) THEN 0 ELSE Len(s) - 1 + 1
    BY <2>1, FS_Interval, Zenon
  <2> QED
    BY <1>1, <2>2
<1>4. Cardinality(1..Len(s)) <= Cardinality(DOMAIN d) /\ Cardinality(DOMAIN d) \in Nat
  BY <1>2, FS_Injection, FS_CardinalityType
<1> QED
  BY <1>1, <1>3, <1>4 DEF Bound

Walk == INSTANCE OrderProofs WITH Step <- ChainStep

(* Following the next pages finds the chain. *)
LEMMA ChainIs ==
    ASSUME NEW d, IsFiniteSet(DOMAIN d), DOMAIN d \subseteq Int, NEW o, NEW s, IsChain(d, o, s)
    PROVE  OverflowChain(d, o) = s
<1> DEFINE start == [pages |-> d, first |-> o, seen |-> << >>]
           n == Bound(d)
           At(i) == Walk!After(start, i)
           K == {i \in 0..n : Walking(d, o, s, At(i), i)}
<1>1. n \in Nat /\ Len(s) \in Nat /\ Len(s) <= n /\ s \in Seq(DOMAIN d) /\ Null \notin DOMAIN d
  BY ChainFits, NullAssumption DEF IsChain
<1>2. At(0) = start /\ \A i \in Nat : At(i + 1) = ChainStep(At(i))
  BY Walk!Iterations
<1> HIDE DEF At
<1>3. 0 \in K
  <2>1. 0 \in 0..Len(s) /\ 0 = 0
    BY <1>1
  <2>3. SubSeq(s, 1, 0) = << >>
    OBVIOUS
  <2>2. Walking(d, o, s, start, 0)
    BY <2>1, <2>3 DEF Walking
  <2> HIDE DEF start
  <2> QED
    BY <1>1, <1>2, <2>2
<1> HIDE DEF start
<1>4. ASSUME NEW i \in 0..n-1, i \in K PROVE i + 1 \in K
  <2>1. i \in Nat /\ i + 1 \in 0..n
    BY <1>1
  <2>2. Walking(d, o, s, ChainStep(At(i)), i + 1)
    BY <1>1, <1>4, <2>1, WalkGoesOn
  <2> QED
    BY <1>2, <2>1, <2>2
<1>5. K = 0..n
  <2>1. K \in SUBSET (0..n) /\ \A i \in 0..n-1 : i \in K => i + 1 \in K
    BY <1>4
  <2> HIDE DEF K, n
  <2> QED
    BY <1>1, <1>3, <2>1, InductionUpTo
<1>6. Walking(d, o, s, At(n), n)
  BY <1>1, <1>5
<1>7. At(n).seen = s
  <2>1. PICK j \in 0..Len(s) : /\ At(n) = [pages |-> d, first |-> o, seen |-> SubSeq(s, 1, j)]
                               /\ j = n \/ j = Len(s)
    BY <1>6 DEF Walking
  <2>2. j = Len(s)
    BY <1>1, <2>1
  <2>3. At(n).seen = SubSeq(s, 1, j)
    BY <2>1
  <2> QED
    BY <1>1, <2>2, <2>3, SubSeqFull
<1>8. o # Null => OverflowChain(d, o) = At(n).seen
  BY DEF OverflowChain, Loop, Walk!After, At, start
<1>9. o = Null => s = << >>
  <2>1. s # << >> => s[1] \in DOMAIN d
    BY <1>1
  <2> QED
    BY <1>1, <2>1 DEF IsChain
<1> QED
  BY <1>7, <1>8, <1>9 DEF OverflowChain

-----------------------------------------------------------------------------
(* What the entries of the leaves own. *)

AnyPage == [values : Seq(Locations), next : Int \union {Null}]

FilledPage(page) ==
    /\ page \in AnyPage /\ Len(page.values) <= OverflowCap
    /\ \A i, j \in 1..Len(page.values) : page.values[i] = page.values[j] => i = j

(* The entry e has the chain s, with no location twice. *)
HasChain(d, e, s) ==
    /\ e.child \in Locations /\ IsChain(d, e.over, s)
    /\ \A i \in 1..Len(s) : FilledPage(d[s[i]]) /\ e.child \notin Range(d[s[i]].values)
    /\ \A i, j \in 1..Len(s) : \A l \in Range(d[s[i]].values) :
          l \in Range(d[s[j]].values) => i = j

OneFilled(d, e) == \E s : HasChain(d, e, s)

(* The overflow pages O belong to the entries E, each to one. *)
Filled(d, E, O) ==
    /\ \A e \in E : OneFilled(d, e) /\ \A o \in Owned(d, e) : o \in O
    /\ \A e, f \in E : \A o \in Owned(d, e) : o \in Owned(d, f) => e = f
    /\ \A o \in O : \E e \in E : o \in Owned(d, e)

Paired(d, E, k, l) == \E e \in E : e.key = k /\ l \in LocationsOf(d, e)

Numbered(d) == IsFiniteSet(DOMAIN d) /\ DOMAIN d \subseteq Int

(* What the chain of an entry says of it. *)
LEMMA ChainOwns ==
    ASSUME NEW d, Numbered(d), NEW e, NEW s, HasChain(d, e, s)
    PROVE  /\ OverflowChain(d, e.over) = s /\ s \in Seq(DOMAIN d)
           /\ \A o : o \in Owned(d, e) <=> \E i \in 1..Len(s) : o = s[i]
           /\ \A l : l \in LocationsOf(d, e)
                       <=> l = e.child \/ \E i \in 1..Len(s) : l \in Range(d[s[i]].values)
<1>1. OverflowChain(d, e.over) = s /\ s \in Seq(DOMAIN d)
  BY ChainIs DEF Numbered, HasChain, IsChain
<1>2. \A o : o \in Owned(d, e) <=> \E i \in 1..Len(s) : o = s[i]
  <2>1. DOMAIN s = 1..Len(s)
    BY <1>1
  <2> QED
    BY <1>1, <2>1 DEF Owned, Range
<1>3. \A l : l \in LocationsOf(d, e)
               <=> l = e.child \/ \E i \in 1..Len(s) : l \in Range(d[s[i]].values)
  <2>1. \A l : l \in LocationsOf(d, e)
                 <=> l = e.child \/ \E o \in Owned(d, e) : l \in Range(d[o].values)
    BY DEF LocationsOf
  <2> QED
    BY <1>2, <2>1
<1> QED
  BY <1>1, <1>2, <1>3

(* An entry whose pages stay as they are keeps its locations. *)
LEMMA OwnedStay ==
    ASSUME NEW d, Numbered(d), NEW d2, Numbered(d2), NEW e, OneFilled(d, e),
           \A o \in Owned(d, e) : o \in DOMAIN d2 /\ d2[o] = d[o]
    PROVE  /\ OneFilled(d2, e)
           /\ \A o : o \in Owned(d2, e) <=> o \in Owned(d, e)
           /\ \A l : l \in LocationsOf(d2, e) <=> l \in LocationsOf(d, e)
<1>1. PICK s : HasChain(d, e, s)
  BY DEF OneFilled
<1>2. /\ s \in Seq(DOMAIN d) /\ Len(s) \in Nat
      /\ \A o : o \in Owned(d, e) <=> \E i \in 1..Len(s) : o = s[i]
      /\ \A l : l \in LocationsOf(d, e)
                  <=> l = e.child \/ \E i \in 1..Len(s) : l \in Range(d[s[i]].values)
  BY <1>1, ChainOwns
<1>3. \A i \in 1..Len(s) : s[i] \in DOMAIN d2 /\ d2[s[i]] = d[s[i]]
  BY <1>2
<1>4. IsChain(d2, e.over, s)
  <2>1. s \in Seq(DOMAIN d2)
    BY <1>2, <1>3
  <2> QED
    BY <1>1, <1>3, <2>1 DEF HasChain, IsChain
<1>5. HasChain(d2, e, s)
  BY <1>1, <1>3, <1>4, Zenon DEF HasChain
<1>6. /\ \A o : o \in Owned(d2, e) <=> \E i \in 1..Len(s) : o = s[i]
      /\ \A l : l \in LocationsOf(d2, e)
                  <=> l = e.child \/ \E i \in 1..Len(s) : l \in Range(d2[s[i]].values)
  BY <1>5, ChainOwns
<1> QED
  BY <1>2, <1>3, <1>5, <1>6 DEF OneFilled

(* So do all of them. *)
LEMMA FilledStays ==
    ASSUME NEW d, Numbered(d), NEW d2, Numbered(d2), NEW E, NEW O, Filled(d, E, O),
           \A o \in O : o \in DOMAIN d2 /\ d2[o] = d[o]
    PROVE  /\ Filled(d2, E, O)
           /\ \A k, l : Paired(d2, E, k, l) <=> Paired(d, E, k, l)
<1>1. ASSUME NEW e \in E
      PROVE  /\ OneFilled(d2, e)
             /\ \A o : o \in Owned(d2, e) <=> o \in Owned(d, e)
             /\ \A l : l \in LocationsOf(d2, e) <=> l \in LocationsOf(d, e)
  <2>1. OneFilled(d, e) /\ \A o \in Owned(d, e) : o \in DOMAIN d2 /\ d2[o] = d[o]
    BY DEF Filled
  <2> QED
    BY <2>1, OwnedStay
<1>2. Filled(d2, E, O)
  BY <1>1 DEF Filled
<1> QED
  BY <1>1, <1>2 DEF Paired

-----------------------------------------------------------------------------
(* The nodes under a node. *)

(* A node under p is one of the nodes N, its keys are from lo on and below *)
(* the limit of p.                                                         *)
Within(d, N, level, hi, p, lo, q) ==
    /\ q \in N /\ (q = p \/ level[q] < level[p]) /\ hi[q] <= hi[p]
    /\ \A h \in Ent(d, q) : lo <= h.key

(* The search for the nodes under p after i levels. *)
Spreading(d, r, N, level, hi, p, lo, s, i) ==
    \E edge, found :
        /\ s = [pages |-> d, edge |-> edge, found |-> found]
        /\ p \in found /\ edge \subseteq found
        /\ \A q \in found : Within(d, N, level, hi, p, lo, q)
        /\ p = r => \A q \in N : /\ level[q] + i = level[r] => q \in edge
                                 /\ level[q] + i >= level[r] => q \in found

LEMMA ChildrenAre ==
    ASSUME NEW d, NEW r, NEW N, NEW level, NEW hi, Shape(d, r, N, level, hi), NEW q \in N
    PROVE  \A c : c \in Children(d[q]) <=> level[q] # 0 /\ \E e \in Ent(d, q) : e.child = c
<1>1. d[q].leaf <=> level[q] = 0
  BY DEF Shape, Ranked
<1> QED
  BY <1>1 DEF Children, Ent

LEMMA ChildWithin ==
    ASSUME NEW d, NEW r, NEW N, NEW level, NEW hi, Shape(d, r, N, level, hi), NEW p \in N, NEW lo \in Int,
           NEW q, Within(d, N, level, hi, p, lo, q), NEW c \in Children(d[q])
    PROVE  Within(d, N, level, hi, p, lo, c)
<1>1. q \in N /\ (q = p \/ level[q] < level[p]) /\ hi[q] <= hi[p] /\ \A h \in Ent(d, q) : lo <= h.key
  BY DEF Within
<1>2. PICK e \in Ent(d, q) : level[q] # 0 /\ e.child = c
  BY <1>1, ChildrenAre
<1>3. /\ c \in N /\ level[c] + 1 = level[q] /\ \A h \in Ent(d, c) : e.key <= h.key
  BY <1>1, <1>2 DEF Shape, Kids
<1>4. hi[c] <= hi[q] /\ hi[c] \in Int /\ hi[q] \in Int /\ hi[p] \in Int
  BY <1>1, <1>2, <1>3 DEF Shape, Limited
<1>5. level[c] \in Nat /\ level[q] \in Nat /\ level[p] \in Nat
  BY <1>1, <1>3 DEF Shape, Ranked
<1>6. e.key \in Int /\ \A h \in Ent(d, c) : h.key \in Int
  BY <1>1, <1>2, <1>3 DEF Shape, Keyed
<1>7. lo <= e.key
  BY <1>1, <1>2
<1>8. \A h \in Ent(d, c) : lo <= h.key
  BY <1>3, <1>6, <1>7
<1>9. (c = p \/ level[c] < level[p]) /\ hi[c] <= hi[p]
  BY <1>1, <1>3, <1>4, <1>5
<1> QED
  BY <1>3, <1>8, <1>9 DEF Within

LEMMA SpreadGoesOn ==
    ASSUME NEW d, NEW r, NEW N, NEW level, NEW hi, Shape(d, r, N, level, hi), NEW p \in N, NEW lo \in Int,
           NEW i \in Nat, NEW s, Spreading(d, r, N, level, hi, p, lo, s, i)
    PROVE  Spreading(d, r, N, level, hi, p, lo, LevelStep(s), i + 1)
<1>1. PICK edge, found :
        /\ s = [pages |-> d, edge |-> edge, found |-> found]
        /\ p \in found /\ edge \subseteq found
        /\ \A q \in found : Within(d, N, level, hi, p, lo, q)
        /\ p = r => \A q \in N : /\ level[q] + i = level[r] => q \in edge
                                 /\ level[q] + i >= level[r] => q \in found
  BY DEF Spreading
<1> DEFINE below == UNION {Children(s.pages[q]) : q \in s.edge}
<1>2. s.pages = d /\ s.edge = edge /\ s.found = found
  BY <1>1
<1>3. \A c : c \in below <=> \E q \in edge : c \in Children(d[q])
  BY <1>2
<1>4. LevelStep(s) = [s EXCEPT !.edge = below, !.found = @ \union below]
  BY DEF LevelStep
<1> HIDE DEF below
<1>5. LevelStep(s) = [pages |-> d, edge |-> below, found |-> found \union below]
  BY <1>1, <1>4, Zenon
<1>6. \A c \in below : Within(d, N, level, hi, p, lo, c)
  <2> TAKE c \in below
  <2>1. PICK q \in edge : c \in Children(d[q])
    BY <1>3
  <2>2. Within(d, N, level, hi, p, lo, q)
    BY <1>1
  <2> QED
    BY <2>1, <2>2, ChildWithin
<1>7. ASSUME p = r, NEW q \in N
      PROVE  /\ level[q] + (i + 1) = level[r] => q \in below
             /\ level[q] + (i + 1) >= level[r] => q \in found \union below
  <2>1. level[q] \in Nat /\ level[r] \in Nat
    BY DEF Shape, Ranked
  <2>2. ASSUME level[q] + (i + 1) = level[r] PROVE q \in below
    <3>1. q # r
      BY <2>1, <2>2
    <3>2. PICK f \in N : level[f] # 0 /\ \E e \in Ent(d, f) : e.child = q
      BY <3>1 DEF Shape, Fathered
    <3>3. level[q] + 1 = level[f] /\ level[f] \in Nat
      BY <3>2 DEF Shape, Kids, Ranked
    <3>4. level[f] + i = level[r]
      BY <2>1, <2>2, <3>3
    <3>5. f \in edge
      BY <1>1, <1>7, <3>4
    <3>6. q \in Children(d[f])
      BY <3>2, ChildrenAre
    <3> QED
      BY <1>3, <3>5, <3>6
  <2>3. ASSUME level[q] + (i + 1) >= level[r], level[q] + (i + 1) # level[r] PROVE q \in found
    <3>1. level[q] + i >= level[r]
      BY <2>1, <2>3
    <3> QED
      BY <1>1, <1>7, <3>1
  <2> QED
    BY <2>2, <2>3
<1>8. /\ p \in found \union below /\ below \subseteq found \union below
      /\ \A q \in found \union below : Within(d, N, level, hi, p, lo, q)
      /\ p = r => \A q \in N : /\ level[q] + (i + 1) = level[r] => q \in below
                               /\ level[q] + (i + 1) >= level[r] => q \in found \union below
  BY <1>1, <1>6, <1>7
<1> HIDE DEF Within
<1> QED
  BY <1>5, <1>8, Zenon DEF Spreading

Spread == INSTANCE OrderProofs WITH Step <- LevelStep

LEMMA SpreadEnds ==
    ASSUME NEW d, NEW r, NEW N, NEW level, NEW hi, Built(d, r, N, level, hi), Full(d, r, N),
           NEW p \in N, NEW lo \in Int, \A h \in Ent(d, p) : lo <= h.key
    PROVE  /\ p \in NodesUnder(d, p)
           /\ \A q \in NodesUnder(d, p) : Within(d, N, level, hi, p, lo, q)
           /\ p = r => N \subseteq NodesUnder(d, p)
<1> DEFINE start == [pages |-> d, edge |-> {p}, found |-> {p}]
           n == Bound(d)
           At(i) == Spread!After(start, i)
           K == {i \in 0..n : Spreading(d, r, N, level, hi, p, lo, At(i), i)}
<1>1. n \in Nat /\ Shape(d, r, N, level, hi) /\ level[r] \in Nat /\ level[r] < n
      /\ \A q \in N : level[q] \in Nat /\ level[q] <= level[r]
  BY Inhabited DEF Built
<1>2. At(0) = start /\ \A i \in Nat : At(i + 1) = LevelStep(At(i))
  BY Spread!Iterations
<1> HIDE DEF At
<1>3. 0 \in K
  <2>1. Within(d, N, level, hi, p, lo, p)
    <3>1. hi[p] \in Int
      BY <1>1 DEF Shape, Limited
    <3> QED
      BY <3>1 DEF Within
  <2>2. p = r => \A q \in N : /\ level[q] + 0 = level[r] => q \in {p}
                              /\ level[q] + 0 >= level[r] => q \in {p}
    <3>1. \A q \in N \ {r} : level[q] < level[r]
      BY <1>1 DEF Shape, Ranked
    <3> QED
      BY <1>1, <3>1
  <2>3. Spreading(d, r, N, level, hi, p, lo, start, 0)
    <3>1. p \in {p} /\ {p} \subseteq {p} /\ \A q \in {p} : Within(d, N, level, hi, p, lo, q)
      BY <2>1
    <3> QED
      BY <2>2, <3>1, Zenon DEF Spreading
  <2> HIDE DEF start
  <2> QED
    BY <1>1, <1>2, <2>3
<1> HIDE DEF start
<1>4. ASSUME NEW i \in 0..n-1, i \in K PROVE i + 1 \in K
  <2>1. i \in Nat /\ i + 1 \in 0..n
    BY <1>1
  <2>2. Spreading(d, r, N, level, hi, p, lo, LevelStep(At(i)), i + 1)
    BY <1>1, <1>4, <2>1, SpreadGoesOn
  <2> QED
    BY <1>2, <2>1, <2>2
<1>5. K = 0..n
  <2>1. K \in SUBSET (0..n) /\ \A i \in 0..n-1 : i \in K => i + 1 \in K
    BY <1>4
  <2> HIDE DEF K, n
  <2> QED
    BY <1>1, <1>3, <2>1, InductionUpTo
<1>6. Spreading(d, r, N, level, hi, p, lo, At(n), n)
  BY <1>1, <1>5
<1>7. NodesUnder(d, p) = At(n).found
  BY DEF NodesUnder, Loop, Spread!After, At, start
<1>8. PICK edge, found :
        /\ At(n) = [pages |-> d, edge |-> edge, found |-> found]
        /\ p \in found /\ edge \subseteq found
        /\ \A q \in found : Within(d, N, level, hi, p, lo, q)
        /\ p = r => \A q \in N : /\ level[q] + n = level[r] => q \in edge
                                 /\ level[q] + n >= level[r] => q \in found
  BY <1>6 DEF Spreading
<1>9. NodesUnder(d, p) = found
  BY <1>7, <1>8
<1>10. \A q \in N : level[q] + n >= level[r]
  <2> HIDE DEF n
  <2> QED
    BY <1>1
<1> QED
  BY <1>8, <1>9, <1>10

LEMMA LowestKey ==
    ASSUME NEW d, NEW r, NEW N, NEW level, NEW hi, Built(d, r, N, level, hi), NEW p \in N
    PROVE  \E lo \in Int : \A h \in Ent(d, p) : lo <= h.key
<1> DEFINE s == d[p].entries
<1>1. /\ s \in Seq(AnyEntry) /\ Ascending(s) /\ Len(s) \in Nat
      /\ (Ent(d, p) = {} <=> Len(s) = 0)
  BY NodeEntries
<1>2. CASE Len(s) = 0
  BY <1>1, <1>2
<1>3. CASE Len(s) # 0
  <2>1. s[1] \in AnyEntry
    BY <1>1, <1>3
  <2>2. s[1].key \in Int
    BY <2>1, KeysAssumption, Zenon DEF AnyEntry
  <2>3. \A h \in Range(s) : h = s[1] \/ (h \in AnyEntry /\ s[1].key < h.key)
    <3>1. Range(s) = {s[1]} \union Range(Tail(s)) /\ Below({s[1]}, Range(Tail(s)))
          /\ Tail(s) \in Seq(AnyEntry)
      BY <1>1, <1>3, EntriesKeyed, Ends, Zenon
    <3>2. \A h \in Range(Tail(s)) : h \in AnyEntry
      BY <3>1, RangeHas
    <3> QED
      BY <3>1, <3>2 DEF Below
  <2>4. \A h \in AnyEntry : h.key \in Int
    BY KeysAssumption, Zenon DEF AnyEntry
  <2>5. \A h \in Ent(d, p) : s[1].key <= h.key
    <3> TAKE h \in Ent(d, p)
    <3>1. h \in Range(s)
      BY DEF Ent
    <3> QED
      BY <2>2, <2>3, <2>4, <3>1
  <2> QED
    BY <2>2, <2>5
<1> QED
  BY <1>2, <1>3

(* The nodes under the root are all nodes, a leaf has only itself. *)
LEMMA NodesAre ==
    ASSUME NEW d, NEW r, NEW N, NEW level, NEW hi, Built(d, r, N, level, hi), Full(d, r, N)
    PROVE  /\ NodesUnder(d, r) = N
           /\ \A p \in N : level[p] = 0 => NodesUnder(d, p) = {p}
<1>1. r \in N /\ \A q \in N : level[q] \in Nat
  BY Inhabited
<1>2. NodesUnder(d, r) = N
  <2>1. PICK lo \in Int : \A h \in Ent(d, r) : lo <= h.key
    BY <1>1, LowestKey
  <2>2. (\A q \in NodesUnder(d, r) : Within(d, N, level, hi, r, lo, q)) /\ N \subseteq NodesUnder(d, r)
    BY <1>1, <2>1, SpreadEnds
  <2> QED
    BY <2>2, Zenon DEF Within
<1>3. ASSUME NEW p \in N, level[p] = 0 PROVE NodesUnder(d, p) = {p}
  <2>1. PICK lo \in Int : \A h \in Ent(d, p) : lo <= h.key
    BY LowestKey
  <2>2. (\A q \in NodesUnder(d, p) : Within(d, N, level, hi, p, lo, q)) /\ p \in NodesUnder(d, p)
    BY <2>1, SpreadEnds
  <2>3. \A q \in NodesUnder(d, p) : q = p
    BY <1>1, <1>3, <2>2 DEF Within
  <2> QED
    BY <2>2, <2>3
<1> QED
  BY <1>2, <1>3

(* The keys under the child of an entry are between its key and the next.  *)
LEMMA KeysBetween ==
    ASSUME NEW d, NEW r, NEW N, NEW level, NEW hi, Built(d, r, N, level, hi), Full(d, r, N),
           NEW p \in N, level[p] # 0, NEW e \in Ent(d, p),
           NEW q \in NodesUnder(d, e.child), NEW h \in Ent(d, q)
    PROVE  e.key <= h.key /\ \A f \in Ent(d, p) : e.key < f.key => h.key < f.key
<1>1. Shape(d, r, N, level, hi)
  BY DEF Built
<1>2. e.child \in N /\ e.key \in Int /\ \A g \in Ent(d, e.child) : e.key <= g.key
  BY <1>1 DEF Shape, Kids, Keyed
<1>3. Within(d, N, level, hi, e.child, e.key, q)
  BY <1>2, SpreadEnds
<1>4. q \in N /\ hi[q] <= hi[e.child] /\ e.key <= h.key
  BY <1>3 DEF Within
<1>5. h.key < hi[q] /\ hi[q] \in Int /\ hi[e.child] \in Int /\ h.key \in Int
  BY <1>1, <1>2, <1>4 DEF Shape, Limited, Keyed
<1>6. \A f \in Ent(d, p) : e.key < f.key => hi[e.child] <= f.key /\ f.key \in Int
  BY <1>1 DEF Shape, Limited, Keyed
<1> QED
  BY <1>4, <1>5, <1>6

-----------------------------------------------------------------------------
(* Whole trees between two calls, and their pairs. *)

Sound(d, r, N, level, hi) ==
    Built(d, r, N, level, hi) /\ Full(d, r, N) /\ Filled(d, LeafEntries(d, N), DOMAIN d \ N)

IsTree(t) ==
    /\ t = [pages |-> t.pages, root |-> t.root]
    /\ \E N, level, hi : Sound(t.pages, t.root, N, level, hi)

LEMMA SoundIs ==
    ASSUME NEW d, NEW r, NEW N, NEW level, NEW hi, Sound(d, r, N, level, hi)
    PROVE  /\ Built(d, r, N, level, hi) /\ Shape(d, r, N, level, hi) /\ Full(d, r, N) /\ Numbered(d)
           /\ Filled(d, LeafEntries(d, N), DOMAIN d \ N) /\ NodesUnder(d, r) = N
           /\ r \in N /\ N \subseteq DOMAIN d /\ r \in Int
<1>1. Built(d, r, N, level, hi) /\ Full(d, r, N) /\ Filled(d, LeafEntries(d, N), DOMAIN d \ N)
  BY DEF Sound
<1>2. Shape(d, r, N, level, hi) /\ Numbered(d) /\ N \subseteq DOMAIN d /\ DOMAIN d \subseteq Int
  BY <1>1 DEF Built, Paged, Numbered
<1>3. NodesUnder(d, r) = N /\ r \in N
  BY <1>1, NodesAre, Inhabited
<1> QED
  BY <1>1, <1>2, <1>3

LEMMA ContentIs ==
    ASSUME NEW t, NEW N, NEW level, NEW hi, Sound(t.pages, t.root, N, level, hi)
    PROVE  /\ ContentOf(t) \subseteq Keys \X Locations
           /\ \A k, l : <<k, l>> \in ContentOf(t) <=> Paired(t.pages, LeafEntries(t.pages, N), k, l)
<1> DEFINE d == t.pages
           r == t.root
           E == LeafEntries(d, N)
<1>1. /\ Built(d, r, N, level, hi) /\ Shape(d, r, N, level, hi) /\ Numbered(d)
      /\ Filled(d, E, DOMAIN d \ N) /\ NodesUnder(d, r) = N
  BY SoundIs, Zenon
<1>2. ContentOf(t) = UNION {{e.key} \X LocationsOf(d, e) : e \in E}
  BY <1>1 DEF ContentOf
<1>3. \A pair : pair \in ContentOf(t) <=> \E e \in E : pair \in {e.key} \X LocationsOf(d, e)
  <2> HIDE DEF E, d
  <2> QED
    BY <1>2
<1>4. ASSUME NEW e \in E PROVE e.key \in Keys /\ \A l \in LocationsOf(d, e) : l \in Locations
  <2>1. e \in AnyEntry
    <3>1. PICK q \in N : e \in Ent(d, q)
      BY <1>1, InLeaves
    <3> QED
      BY <1>1, <3>1, NodeEntries
  <2>2. PICK s : HasChain(d, e, s)
    BY <1>1 DEF Filled, OneFilled
  <2>3. \A l : l \in LocationsOf(d, e)
                 <=> l = e.child \/ \E i \in 1..Len(s) : l \in Range(d[s[i]].values)
    BY <1>1, <2>2, ChainOwns
  <2>4. e.child \in Locations
    BY <2>2 DEF HasChain
  <2>5. \A i \in 1..Len(s) : \A l \in Range(d[s[i]].values) : l \in Locations
    <3>1. \A i \in 1..Len(s) : d[s[i]].values \in Seq(Locations)
      BY <2>2 DEF HasChain, FilledPage, AnyPage
    <3> QED
      BY <3>1, RangeHas
  <2>6. e.key \in Keys
    BY <2>1 DEF AnyEntry
  <2> QED
    BY <2>3, <2>4, <2>5, <2>6
<1>5. ContentOf(t) \subseteq Keys \X Locations
  <2> SUFFICES ASSUME NEW pair \in ContentOf(t) PROVE pair \in Keys \X Locations
    OBVIOUS
  <2>1. PICK e \in E : pair \in {e.key} \X LocationsOf(d, e)
    BY <1>3
  <2> HIDE DEF E, d
  <2>2. LocationsOf(d, e) \subseteq Locations /\ {e.key} \subseteq Keys
    BY <1>4
  <2> QED
    BY <2>1, <2>2
<1>6. ASSUME NEW k, NEW l PROVE <<k, l>> \in ContentOf(t) <=> Paired(d, E, k, l)
  <2>1. <<k, l>> \in ContentOf(t) <=> \E e \in E : <<k, l>> \in {e.key} \X LocationsOf(d, e)
    BY <1>3
  <2> HIDE DEF E, d
  <2>2. \A e \in E : <<k, l>> \in {e.key} \X LocationsOf(d, e) <=> e.key = k /\ l \in LocationsOf(d, e)
    OBVIOUS
  <2> QED
    BY <2>1, <2>2 DEF Paired
<1> QED
  BY <1>5, <1>6

(* Solving an overflow or an underflow leaves the pairs as they are. *)
LEMMA SolvedStays ==
    ASSUME NEW d, NEW N, Numbered(d), Filled(d, LeafEntries(d, N), DOMAIN d \ N),
           NEW u, Solved(d, N, u)
    PROVE  /\ IsTree(u)
           /\ \A k, l : <<k, l>> \in ContentOf(u) <=> Paired(d, LeafEntries(d, N), k, l)
<1> DEFINE c == u.pages
           r == u.root
<1>1. PICK M, level, hi :
        /\ Built(c, r, M, level, hi) /\ Kept(d, N, c, M) /\ \A q \in M : Fits(c, r, q)
  BY DEF Solved
<1>2. /\ LeafEntries(c, M) = LeafEntries(d, N) /\ DOMAIN c \ M = DOMAIN d \ N
      /\ \A o \in DOMAIN d \ N : c[o] = d[o]
  BY <1>1 DEF Kept
<1>3. Numbered(c)
  BY <1>1 DEF Built, Paged, Numbered
<1> DEFINE E == LeafEntries(d, N)
           O == DOMAIN d \ N
<1>4. Filled(c, E, O) /\ \A k, l : Paired(c, E, k, l) <=> Paired(d, E, k, l)
  <2>1. \A o \in O : o \in DOMAIN c /\ c[o] = d[o]
    BY <1>2
  <2> HIDE DEF E, O, c
  <2>2. Filled(d, E, O)
    BY DEF E, O
  <2> QED
    BY <1>3, <2>1, <2>2, FilledStays
<1>5. Sound(c, r, M, level, hi)
  BY <1>1, <1>2, <1>4 DEF Sound, Full
<1>6. \A k, l : <<k, l>> \in ContentOf(u) <=> Paired(c, LeafEntries(c, M), k, l)
  BY <1>5, ContentIs, Zenon
<1>7. u = [pages |-> u.pages, root |-> u.root]
  BY DEF Solved
<1> QED
  BY <1>2, <1>4, <1>5, <1>6, <1>7 DEF IsTree

-----------------------------------------------------------------------------
(* A call that concerns the key x: its leaf p gets the entries s, and the  *)
(* entry y of x, the only one in Y, takes the place of the old one.        *)

OwnedBy(d, N, x, o) == \E e \in LeafEntries(d, N) : e.key = x /\ o \in Owned(d, e)

IsEdit(d, d2, r, N, level, hi, p, s, x, Y) ==
    /\ IsLeafFor(d, r, N, level, hi, x, p) /\ IsLeafChange(d, d2, r, N, level, hi, p, s)
    /\ \A e : e \in Range(s) <=> e \in Y \/ (e \in Ent(d, p) /\ e.key # x)
    /\ \A y \in Y : y.key = x /\ OneFilled(d2, y)
    /\ \A y, z \in Y : y = z
    /\ \A o \in DOMAIN d \ N : ~OwnedBy(d, N, x, o) => o \in DOMAIN d2 /\ d2[o] = d[o]
    /\ \A o \in DOMAIN d2 \ N : \/ \E y \in Y : o \in Owned(d2, y)
                                \/ o \in DOMAIN d /\ ~OwnedBy(d, N, x, o)
    /\ \A y \in Y : \A o \in Owned(d2, y) :
          o \in DOMAIN d2 \ N /\ (o \in DOMAIN d => OwnedBy(d, N, x, o))

HasEdited(d, d2, r, N, level, hi, p, n, x, Y) ==
    /\ Built(d2, r, N, level, hi) /\ Numbered(d2)
    /\ Filled(d2, LeafEntries(d2, N), DOMAIN d2 \ N)
    /\ \A k, l : Paired(d2, LeafEntries(d2, N), k, l)
                   <=> IF k = x THEN \E y \in Y : l \in LocationsOf(d2, y)
                       ELSE Paired(d, LeafEntries(d, N), k, l)
    /\ \A q \in N : /\ d2[q].leaf = d[q].leaf
                    /\ Size(d2[q]) = IF q = p THEN n ELSE Size(d[q])

LEMMA Editing ==
    ASSUME NEW d, NEW r, NEW N, NEW level, NEW hi, Sound(d, r, N, level, hi), NEW x \in Int,
           NEW d2, NEW p, NEW s, NEW Y, IsEdit(d, d2, r, N, level, hi, p, s, x, Y)
    PROVE  HasEdited(d, d2, r, N, level, hi, p, Len(s), x, Y)
<1> DEFINE E == LeafEntries(d, N)
           E2 == LeafEntries(d2, N)
<1>1. /\ Built(d, r, N, level, hi) /\ Shape(d, r, N, level, hi) /\ Numbered(d)
      /\ Filled(d, E, DOMAIN d \ N)
  BY SoundIs, Zenon
<1>2. HasLeafChanged(d, d2, r, N, level, hi, p, s) /\ p \in N /\ level[p] = 0
  <2>1. IsLeafChange(d, d2, r, N, level, hi, p, s)
    BY DEF IsEdit
  <2>2. p \in N /\ level[p] = 0
    BY <2>1 DEF IsLeafChange
  <2> QED
    BY <1>1, <2>1, <2>2, LeafChanges
<1>3. Built(d2, r, N, level, hi) /\ Numbered(d2)
  <2>1. Built(d2, r, N, level, hi)
    BY <1>2 DEF HasLeafChanged
  <2> QED
    BY <2>1 DEF Built, Paged, Numbered
<1>4. \A e : e \in E2 <=> e \in Y \/ (e \in E /\ e.key # x)
  <2>1. \A e : e \in E2 <=> e \in Range(s) \/ (e \in E /\ e \notin Ent(d, p))
    BY <1>2 DEF HasLeafChanged
  <2>2. \A e : e \in Range(s) <=> e \in Y \/ (e \in Ent(d, p) /\ e.key # x)
    BY DEF IsEdit
  <2>3. \A e \in E : e.key = x => e \in Ent(d, p)
    <3>1. IsLeafFor(d, r, N, level, hi, x, p)
      BY DEF IsEdit
    <3> QED
      BY <1>1, <3>1, KeyIsFound
  <2>4. \A e \in Ent(d, p) : e \in E
    BY <1>1, <1>2, InLeaves
  <2> HIDE DEF E, E2
  <2> QED
    BY <2>1, <2>2, <2>3, <2>4
<1>5. ASSUME NEW e \in E, e.key # x
      PROVE  /\ OneFilled(d2, e)
             /\ \A o : o \in Owned(d2, e) <=> o \in Owned(d, e)
             /\ \A l : l \in LocationsOf(d2, e) <=> l \in LocationsOf(d, e)
             /\ \A o \in Owned(d, e) : o \in DOMAIN d \ N /\ o \in DOMAIN d2 /\ ~OwnedBy(d, N, x, o)
  <2>1. OneFilled(d, e) /\ \A o \in Owned(d, e) : o \in DOMAIN d \ N
    BY <1>1 DEF Filled
  <2>2. \A o \in Owned(d, e) : ~OwnedBy(d, N, x, o)
    BY <1>1, <1>5 DEF Filled, OwnedBy
  <2>3. \A o \in Owned(d, e) : o \in DOMAIN d2 /\ d2[o] = d[o]
    BY <2>1, <2>2 DEF IsEdit
  <2>4. /\ OneFilled(d2, e)
        /\ \A o : o \in Owned(d2, e) <=> o \in Owned(d, e)
        /\ \A l : l \in LocationsOf(d2, e) <=> l \in LocationsOf(d, e)
    BY <1>1, <1>3, <2>1, <2>3, OwnedStay
  <2> QED
    BY <2>1, <2>2, <2>3, <2>4
<1>6. ASSUME NEW y \in Y
      PROVE  /\ y.key = x /\ OneFilled(d2, y) /\ \A z \in Y : y = z
             /\ \A o \in Owned(d2, y) : o \in DOMAIN d2 \ N /\ (o \in DOMAIN d => OwnedBy(d, N, x, o))
  BY DEF IsEdit
<1>7. Filled(d2, E2, DOMAIN d2 \ N)
  <2>1. ASSUME NEW e \in E2 PROVE OneFilled(d2, e) /\ \A o \in Owned(d2, e) : o \in DOMAIN d2 \ N
    <3> HIDE DEF E, E2
    <3> QED
      BY <1>4, <1>5, <1>6
  <2>2. ASSUME NEW e \in E2, NEW f \in E2, NEW o \in Owned(d2, e), o \in Owned(d2, f) PROVE e = f
    <3>1. ASSUME e \in E, e.key # x, f \in E, f.key # x PROVE e = f
      <4>1. o \in Owned(d, e) /\ o \in Owned(d, f)
        BY <1>5, <2>2, <3>1
      <4> QED
        BY <1>1, <3>1, <4>1 DEF Filled
    <3>2. ASSUME NEW a \in E, a.key # x, o \in Owned(d2, a), NEW y \in Y, o \in Owned(d2, y) PROVE FALSE
      <4>1. o \in Owned(d, a)
        BY <1>5, <3>2
      <4>2. o \in DOMAIN d /\ ~OwnedBy(d, N, x, o)
        BY <1>5, <3>2, <4>1
      <4> QED
        BY <1>6, <3>2, <4>2
    <3> HIDE DEF E, E2
    <3> QED
      BY <1>4, <1>6, <2>2, <3>1, <3>2
  <2>3. ASSUME NEW o \in DOMAIN d2 \ N PROVE \E e \in E2 : o \in Owned(d2, e)
    <3>1. CASE \E y \in Y : o \in Owned(d2, y)
      <4> HIDE DEF E, E2
      <4> QED
        BY <1>4, <3>1
    <3>2. CASE o \in DOMAIN d /\ ~OwnedBy(d, N, x, o)
      <4>1. PICK e \in E : o \in Owned(d, e)
        BY <1>1, <3>2 DEF Filled
      <4>2. e.key # x
        BY <3>2, <4>1 DEF OwnedBy
      <4>3. o \in Owned(d2, e) /\ e \in E2
        BY <1>4, <1>5, <4>1, <4>2
      <4> QED
        BY <4>3
    <3> QED
      BY <3>1, <3>2 DEF IsEdit
  <2> HIDE DEF E, E2
  <2> QED
    BY <2>1, <2>2, <2>3 DEF Filled
<1>8. ASSUME NEW k, NEW l
      PROVE  Paired(d2, E2, k, l) <=> IF k = x THEN \E y \in Y : l \in LocationsOf(d2, y)
                                      ELSE Paired(d, E, k, l)
  <2> HIDE DEF E, E2
  <2> QED
    BY <1>4, <1>5, <1>6 DEF Paired
<1>9. \A q \in N : d2[q].leaf = d[q].leaf /\ Size(d2[q]) = IF q = p THEN Len(s) ELSE Size(d[q])
  BY <1>2 DEF HasLeafChanged
<1> QED
  BY <1>3, <1>7, <1>8, <1>9 DEF HasEdited

(* The entry e of x, at its place in the leaf p, and its chain c. *)
IsHolder(d, N, p, x, rank, e, c) ==
    /\ rank \in 1..Len(d[p].entries) /\ e = d[p].entries[rank] /\ e.key = x
    /\ e \in AnyEntry /\ e \in Ent(d, p) /\ e \in LeafEntries(d, N)
    /\ \A f \in LeafEntries(d, N) : f.key = x => f = e
    /\ HasChain(d, e, c) /\ OverflowChain(d, e.over) = c /\ c \in Seq(DOMAIN d)
    /\ \A i \in 1..Len(c) : c[i] \in DOMAIN d \ N

LEMMA HolderIs ==
    ASSUME NEW d, NEW r, NEW N, NEW level, NEW hi, Sound(d, r, N, level, hi), NEW x \in Int,
           NEW p \in N, IsLeafFor(d, r, N, level, hi, x, p),
           NEW rank \in {LessOrEqualBound(d[p], x), LowerBound(d[p], x)}
    PROVE  \/ /\ IsKeyOf(d[p], rank, x)
              /\ \E c : IsHolder(d, N, p, x, rank, d[p].entries[rank], c)
           \/ ~IsKeyOf(d[p], rank, x) /\ \A e \in LeafEntries(d, N) : e.key # x
<1>1. /\ Built(d, r, N, level, hi) /\ Shape(d, r, N, level, hi) /\ Numbered(d)
      /\ Filled(d, LeafEntries(d, N), DOMAIN d \ N)
  BY SoundIs, Zenon
<1>2. \/ /\ IsKeyOf(d[p], rank, x) /\ rank \in 1..Len(d[p].entries)
         /\ d[p].entries[rank] \in LeafEntries(d, N) /\ d[p].entries[rank].key = x
      \/ ~IsKeyOf(d[p], rank, x) /\ \A e \in LeafEntries(d, N) : e.key # x
  BY <1>1, KeyIsFound
<1>3. \A e \in LeafEntries(d, N) : e.key = x => e \in Ent(d, p)
  BY <1>1, KeyIsFound
<1>4. ASSUME IsKeyOf(d[p], rank, x), rank \in 1..Len(d[p].entries),
             d[p].entries[rank] \in LeafEntries(d, N), d[p].entries[rank].key = x
      PROVE  \E c : IsHolder(d, N, p, x, rank, d[p].entries[rank], c)
  <2> DEFINE e == d[p].entries[rank]
  <2>1. e \in Ent(d, p) /\ e \in AnyEntry
    BY <1>1, <1>4, NodeEntries
  <2>2. \A f \in Ent(d, p) : f.key = e.key => f = e
    BY <1>1, <2>1 DEF Shape, Keyed
  <2>3. \A f \in LeafEntries(d, N) : f.key = x => f = e
    BY <1>3, <1>4, <2>2
  <2>4. OneFilled(d, e) /\ \A o \in Owned(d, e) : o \in DOMAIN d \ N
    BY <1>1, <1>4 DEF Filled
  <2>5. PICK c : HasChain(d, e, c)
    BY <2>4 DEF OneFilled
  <2>6. /\ OverflowChain(d, e.over) = c /\ c \in Seq(DOMAIN d)
        /\ \A o : o \in Owned(d, e) <=> \E i \in 1..Len(c) : o = c[i]
    BY <1>1, <2>5, ChainOwns
  <2>7. \A i \in 1..Len(c) : c[i] \in DOMAIN d \ N
    BY <2>4, <2>6
  <2> QED
    BY <1>4, <2>1, <2>3, <2>5, <2>6, <2>7 DEF IsHolder
<1> QED
  BY <1>2, <1>4

(* What the entry owns is what the key owns. *)
LEMMA HolderOwns ==
    ASSUME NEW d, Numbered(d), NEW N, NEW p, NEW x, NEW rank, NEW e, NEW c,
           IsHolder(d, N, p, x, rank, e, c)
    PROVE  /\ \A o : OwnedBy(d, N, x, o) <=> \E i \in 1..Len(c) : o = c[i]
           /\ \A l : Paired(d, LeafEntries(d, N), x, l)
                       <=> l = e.child \/ \E i \in 1..Len(c) : l \in Range(d[c[i]].values)
<1>1. HasChain(d, e, c) /\ e \in LeafEntries(d, N) /\ e.key = x
      /\ \A f \in LeafEntries(d, N) : f.key = x => f = e
  BY DEF IsHolder
<1>2. /\ \A o : o \in Owned(d, e) <=> \E i \in 1..Len(c) : o = c[i]
      /\ \A l : l \in LocationsOf(d, e)
                  <=> l = e.child \/ \E i \in 1..Len(c) : l \in Range(d[c[i]].values)
  BY <1>1, ChainOwns
<1>3. \A o : OwnedBy(d, N, x, o) <=> o \in Owned(d, e)
  BY <1>1 DEF OwnedBy
<1>4. \A l : Paired(d, LeafEntries(d, N), x, l) <=> l \in LocationsOf(d, e)
  BY <1>1 DEF Paired
<1> QED
  BY <1>2, <1>3, <1>4

(* The entry of x becomes e2, its chain c2. *)
IsRechained(d, d2, N, p, rank, c, e2, c2) ==
    /\ Numbered(d2) /\ N \subseteq DOMAIN d2 /\ \A q \in N \ {p} : d2[q] = d[q]
    /\ \E t : IsReplaced(d[p].entries, rank, e2, t) /\ d2[p] = [d[p] EXCEPT !.entries = t]
    /\ e2 \in AnyEntry /\ HasChain(d2, e2, c2)
    /\ \A o \in DOMAIN d \ N : (\A i \in 1..Len(c) : o # c[i]) => o \in DOMAIN d2 /\ d2[o] = d[o]
    /\ \A o \in DOMAIN d2 \ N : \/ \E i \in 1..Len(c2) : o = c2[i]
                                \/ o \in DOMAIN d /\ \A i \in 1..Len(c) : o # c[i]
    /\ \A i \in 1..Len(c2) :
          c2[i] \in DOMAIN d2 \ N /\ (c2[i] \in DOMAIN d => \E j \in 1..Len(c) : c2[i] = c[j])

LEMMA Rechaining ==
    ASSUME NEW d, NEW r, NEW N, NEW level, NEW hi, Sound(d, r, N, level, hi), NEW x \in Int,
           NEW p \in N, level[p] = 0, IsLeafFor(d, r, N, level, hi, x, p),
           NEW rank, NEW e, NEW c, IsHolder(d, N, p, x, rank, e, c),
           NEW d2, NEW e2, NEW c2, e2.key = x, IsRechained(d, d2, N, p, rank, c, e2, c2)
    PROVE  HasEdited(d, d2, r, N, level, hi, p, Size(d[p]), x, {e2})
<1> DEFINE s == d[p].entries
<1>1. /\ Built(d, r, N, level, hi) /\ Shape(d, r, N, level, hi) /\ Numbered(d)
      /\ Filled(d, LeafEntries(d, N), DOMAIN d \ N)
  BY SoundIs, Zenon
<1>2. PICK t : IsReplaced(s, rank, e2, t) /\ d2[p] = [d[p] EXCEPT !.entries = t]
  BY DEF IsRechained
<1>3. /\ rank \in 1..Len(s) /\ e = s[rank] /\ e.key = x /\ e \in Ent(d, p)
      /\ s \in Seq(AnyEntry) /\ Ascending(s) /\ e2 \in AnyEntry
  BY <1>1, NodeEntries DEF IsHolder, IsRechained
<1>4. t \in Seq(AnyEntry) /\ Len(t) = Len(s) /\ Ascending(t) /\ Range(t) = (Range(s) \ {s[rank]}) \union {e2}
  <2>1. s[rank].key = e2.key
    BY <1>3
  <2> HIDE DEF s
  <2> QED
    BY <1>2, <1>3, <2>1, EntriesKeyed, Replacing
<1>5. \A f : f \in Range(t) <=> f \in {e2} \/ (f \in Ent(d, p) /\ f.key # x)
  <2>1. \A f \in Ent(d, p) : f.key = e.key => f = e
    BY <1>1, <1>3 DEF Shape, Keyed
  <2>2. \A f : f \in Range(t) <=> f = e2 \/ (f \in Ent(d, p) /\ f # e)
    BY <1>3, <1>4 DEF Ent
  <2> HIDE DEF s
  <2> QED
    BY <1>3, <2>1, <2>2
<1>6. \A f \in Range(t) : Covers(d, r, hi, p, f.key)
  <2>1. \A f \in Ent(d, p) : Covers(d, r, hi, p, f.key)
    BY <1>1, KeysAreCovered
  <2>2. Covers(d, r, hi, p, e2.key)
    BY <1>3, <2>1
  <2> QED
    BY <1>5, <2>1, <2>2
<1>7. IsLeafChange(d, d2, r, N, level, hi, p, t)
  <2>1. \E f \in Ent(d, p), g \in Range(t) : f.key = g.key
    BY <1>3, <1>5
  <2> QED
    BY <1>2, <1>4, <1>6, <2>1 DEF IsLeafChange, IsRechained, Numbered
<1>8. \A o : OwnedBy(d, N, x, o) <=> \E i \in 1..Len(c) : o = c[i]
  BY <1>1, HolderOwns
<1>9. HasChain(d2, e2, c2) /\ Numbered(d2)
  BY DEF IsRechained
<1>10. \A o : o \in Owned(d2, e2) <=> \E i \in 1..Len(c2) : o = c2[i]
  BY <1>9, ChainOwns
<1>11. IsEdit(d, d2, r, N, level, hi, p, t, x, {e2})
  <2>1. \A y \in {e2} : y.key = x /\ OneFilled(d2, y)
    BY <1>9 DEF OneFilled
  <2>2. \A o \in DOMAIN d \ N : ~OwnedBy(d, N, x, o) => o \in DOMAIN d2 /\ d2[o] = d[o]
    BY <1>8 DEF IsRechained
  <2>3. \A o \in DOMAIN d2 \ N : \/ \E y \in {e2} : o \in Owned(d2, y)
                                 \/ o \in DOMAIN d /\ ~OwnedBy(d, N, x, o)
    BY <1>8, <1>10 DEF IsRechained
  <2>4. \A y \in {e2} : \A o \in Owned(d2, y) :
           o \in DOMAIN d2 \ N /\ (o \in DOMAIN d => OwnedBy(d, N, x, o))
    BY <1>8, <1>10 DEF IsRechained
  <2> QED
    BY <1>5, <1>7, <2>1, <2>2, <2>3, <2>4 DEF IsEdit
<1>12. HasEdited(d, d2, r, N, level, hi, p, Len(t), x, {e2})
  BY <1>11, Editing
<1> QED
  BY <1>4, <1>12 DEF Size

-----------------------------------------------------------------------------
(* Insertion into a leaf. *)

(* The pages d with other entries in p. *)
IsPut(d, d2, p, t) ==
    /\ DOMAIN d2 = DOMAIN d /\ d2[p] = [d[p] EXCEPT !.entries = t]
    /\ \A q \in DOMAIN d \ {p} : d2[q] = d[q]

LEMMA PutIs ==
    ASSUME NEW d, NEW p \in DOMAIN d, NEW t, NEW d2, d2 = [d EXCEPT ![p].entries = t]
    PROVE  IsPut(d, d2, p, t)
  BY DEF IsPut

(* The place i of a sequence s is between the smaller keys and the larger. *)
GoesBetween(s, i, e) ==
    \A j \in 1..Len(s) : IF j < i THEN s[j].key < e.key ELSE e.key < s[j].key

HasNew(s, e, t) ==
    t \in Seq(AnyEntry) /\ Len(t) = Len(s) + 1 /\ Ascending(t) /\ Range(t) = Range(s) \union {e}

LEMMA EntryInserted ==
    ASSUME NEW s \in Seq(AnyEntry), Ascending(s), NEW e \in AnyEntry, NEW i \in 1..Len(s)+1,
           GoesBetween(s, i, e), NEW t, t = InsertAt(s, i, e)
    PROVE  HasNew(s, e, t)
<1>1. \A j \in 1..Len(s) : IF j < i THEN s[j].key < e.key ELSE e.key < s[j].key
  BY DEF GoesBetween
<1> QED
  BY <1>1, EntriesKeyed, Inserting DEF HasNew

(* The entries Y have the locations L. *)
Holding(d, Y, L) == \A l : (\E y \in Y : l \in LocationsOf(d, y)) <=> l \in L

(* A new key x: its entry y comes before the first larger key. *)
IsNewIn(d, N, p, x, loc, y, t, d2) ==
    /\ \A e \in LeafEntries(d, N) : e.key # x
    /\ y = Entry(x, loc, Null) /\ t = InsertAt(d[p].entries, LowerBound(d[p], x), y)
    /\ IsPut(d, d2, p, t)

LEMMA NewEntry ==
    ASSUME NEW d, NEW r, NEW N, NEW level, NEW hi, Sound(d, r, N, level, hi),
           NEW x \in Keys, NEW loc \in Locations,
           NEW p \in N, level[p] = 0, Covers(d, r, hi, p, x),
           NEW y, NEW t, NEW d2, IsNewIn(d, N, p, x, loc, y, t, d2), NEW n, n = Size(d[p]) + 1
    PROVE  HasEdited(d, d2, r, N, level, hi, p, n, x, {y}) /\ Holding(d2, {y}, {loc})
<1> DEFINE s == d[p].entries
           rank == LowerBound(d[p], x)
<1>0. /\ \A e \in LeafEntries(d, N) : e.key # x
      /\ y = Entry(x, loc, Null) /\ t = InsertAt(s, rank, y) /\ IsPut(d, d2, p, t)
  BY DEF IsNewIn
<1>1. /\ Built(d, r, N, level, hi) /\ Shape(d, r, N, level, hi) /\ Numbered(d)
      /\ Filled(d, LeafEntries(d, N), DOMAIN d \ N) /\ N \subseteq DOMAIN d
  BY SoundIs, Zenon
<1>2. /\ s \in Seq(AnyEntry) /\ Ascending(s) /\ Len(s) \in Nat
      /\ \A e \in Ent(d, p) : e \in AnyEntry /\ e.key \in Int
      /\ \A i \in 1..Len(s) : s[i] \in Ent(d, p)
  BY <1>1, NodeEntries, EntriesKeyed DEF KeyedBy
<1>3. x \in Int /\ y \in AnyEntry /\ y.key = x /\ y.child = loc /\ y.over = Null
  BY <1>0, KeysAssumption DEF AnyEntry, Entry
<1>4. \A e \in Ent(d, p) : e \in LeafEntries(d, N)
  BY <1>1, InLeaves
<1>5. rank \in 1..Len(s)+1 /\ \A i \in 1..Len(s) : s[i].key < x <=> i < rank
  BY <1>2, <1>3, EntriesKeyed, Bounds, Zenon
<1>6. \A i \in 1..Len(s) : IF i < rank THEN s[i].key < y.key ELSE y.key < s[i].key
  <2> TAKE i \in 1..Len(s)
  <2>1. s[i].key \in Int /\ s[i].key # x
    BY <1>0, <1>2, <1>4
  <2>2. s[i].key < x <=> i < rank
    BY <1>5
  <2> HIDE DEF s, rank
  <2> QED
    BY <1>3, <2>1, <2>2
<1>7. t \in Seq(AnyEntry) /\ Len(t) = Len(s) + 1 /\ Ascending(t) /\ Range(t) = Range(s) \union {y}
  <2>1. t = InsertAt(s, rank, y)
    BY <1>0
  <2> HIDE DEF s, rank
  <2>2. s \in Seq(AnyEntry) /\ Ascending(s) /\ y \in AnyEntry /\ rank \in 1..Len(s)+1
    BY <1>2, <1>3, <1>5
  <2>3. GoesBetween(s, rank, y)
    BY <1>6 DEF GoesBetween
  <2>4. HasNew(s, y, t)
    BY <2>1, <2>2, <2>3, EntryInserted
  <2> QED
    BY <2>4 DEF HasNew
<1>8. \A f : f \in Range(t) <=> f \in {y} \/ (f \in Ent(d, p) /\ f.key # x)
  <2>1. \A f : f \in Range(t) <=> f = y \/ f \in Ent(d, p)
    BY <1>7 DEF Ent
  <2> QED
    BY <1>0, <1>4, <2>1
<1>9. IsLeafChange(d, d2, r, N, level, hi, p, t)
  <2>1. \A f \in Range(t) : Covers(d, r, hi, p, f.key)
    <3>1. \A f \in Ent(d, p) : Covers(d, r, hi, p, f.key)
      BY <1>1, KeysAreCovered
    <3> QED
      BY <1>3, <1>8, <3>1
  <2>2. p # r => \E f \in Ent(d, p), g \in Range(t) : f.key = g.key
    <3>1. p # r => Ent(d, p) # {}
      BY <1>1 DEF Shape, Fathered
    <3>2. \A f \in Ent(d, p) : f \in Range(t)
      BY <1>0, <1>4, <1>8
    <3> QED
      BY <3>1, <3>2
  <2>3. /\ IsFiniteSet(DOMAIN d2) /\ DOMAIN d2 \subseteq Int /\ N \subseteq DOMAIN d2
        /\ d2[p] = [d[p] EXCEPT !.entries = t] /\ \A q \in N \ {p} : d2[q] = d[q]
    BY <1>0, <1>1 DEF IsPut, Numbered
  <2> QED
    BY <1>7, <2>1, <2>2, <2>3 DEF IsLeafChange
<1>10. Numbered(d2) /\ DOMAIN d2 = DOMAIN d
  BY <1>0, <1>1 DEF IsPut, Numbered
<1>11. HasChain(d2, y, << >>)
  <2>1. Len(<< >>) = 0 /\ << >> \in Seq(DOMAIN d2) /\ IsInjective(<< >>)
    BY DEF IsInjective
  <2>2. IsChain(d2, y.over, << >>)
    BY <1>3, <2>1 DEF IsChain
  <2> QED
    BY <1>3, <2>1, <2>2 DEF HasChain
<1>12. /\ \A o : o \notin Owned(d2, y)
       /\ \A l : l \in LocationsOf(d2, y) <=> l = loc
  <2>1. Len(<< >>) = 0
    OBVIOUS
  <2>2. /\ \A o : o \in Owned(d2, y) <=> \E i \in 1..Len(<< >>) : o = << >>[i]
        /\ \A l : l \in LocationsOf(d2, y)
                    <=> l = y.child \/ \E i \in 1..Len(<< >>) : l \in Range(d2[<< >>[i]].values)
    BY <1>10, <1>11, ChainOwns
  <2> QED
    BY <1>3, <2>1, <2>2
<1>13. \A o : ~OwnedBy(d, N, x, o)
  BY <1>0 DEF OwnedBy
<1>14. IsLeafFor(d, r, N, level, hi, x, p)
  BY <1>1, <1>3, PlaceIsOnly
<1>15. IsEdit(d, d2, r, N, level, hi, p, t, x, {y})
  <2>1. \A z \in {y} : z.key = x /\ OneFilled(d2, z)
    BY <1>3, <1>11 DEF OneFilled
  <2>2. \A o \in DOMAIN d \ N : o \in DOMAIN d2 /\ d2[o] = d[o]
    BY <1>0, <1>10 DEF IsPut
  <2> QED
    BY <1>8, <1>9, <1>10, <1>12, <1>13, <1>14, <2>1, <2>2 DEF IsEdit
<1>16. HasEdited(d, d2, r, N, level, hi, p, Len(t), x, {y})
  BY <1>3, <1>15, Editing
<1> QED
  BY <1>7, <1>12, <1>16 DEF Size, Holding

(* The same entry again, in its place. *)
HasReplaced(n, i, e, m) == \E t : IsReplaced(n.entries, i, e, t) /\ m = [n EXCEPT !.entries = t]

LEMMA SameEntry ==
    ASSUME NEW n \in AnyNode, NEW i \in 1..Len(n.entries), NEW e, e = n.entries[i]
    PROVE  HasReplaced(n, i, e, n)
<1> DEFINE s == n.entries
<1>1. s \in Seq(AnyEntry) /\ n = [n EXCEPT !.entries = s]
  BY DEF AnyNode
<1>2. s = [s EXCEPT ![i] = s[i]]
  <2>1. DOMAIN s = 1..Len(s) /\ s = [j \in 1..Len(s) |-> s[j]]
    BY <1>1
  <2> HIDE DEF s
  <2> QED
    BY <2>1
<1> QED
  BY <1>1, <1>2 DEF HasReplaced, IsReplaced

(* The pages of the chain have other locations, and the entry perhaps      *)
(* another one of its own.                                                 *)
IsRefilled(d, d2, p, rank, e, c, e2) ==
    /\ DOMAIN d2 = DOMAIN d
    /\ \A q \in DOMAIN d : q = p \/ (\E i \in 1..Len(c) : q = c[i]) \/ d2[q] = d[q]
    /\ \E t : IsReplaced(d[p].entries, rank, e2, t) /\ d2[p] = [d[p] EXCEPT !.entries = t]
    /\ e2 \in AnyEntry /\ e2.key = e.key /\ e2.over = e.over /\ e2.child \in Locations
    /\ \A i \in 1..Len(c) : /\ d2[c[i]].next = d[c[i]].next /\ FilledPage(d2[c[i]])
                            /\ e2.child \notin Range(d2[c[i]].values)
    /\ \A i, j \in 1..Len(c) : \A l \in Range(d2[c[i]].values) :
          l \in Range(d2[c[j]].values) => i = j

LocationsAre(d, e, c) ==
    \A l : l \in LocationsOf(d, e) <=> l = e.child \/ \E i \in 1..Len(c) : l \in Range(d[c[i]].values)

LEMMA ChainRefilled ==
    ASSUME NEW d, NEW r, NEW N, NEW level, NEW hi, Sound(d, r, N, level, hi), NEW x \in Int,
           NEW p \in N, level[p] = 0, IsLeafFor(d, r, N, level, hi, x, p),
           NEW rank, NEW e, NEW c, IsHolder(d, N, p, x, rank, e, c),
           NEW d2, NEW e2, IsRefilled(d, d2, p, rank, e, c, e2)
    PROVE  /\ HasEdited(d, d2, r, N, level, hi, p, Size(d[p]), x, {e2})
           /\ LocationsAre(d2, e2, c)
<1>1. Numbered(d) /\ N \subseteq DOMAIN d
  BY SoundIs, Zenon
<1>2. /\ e.key = x /\ HasChain(d, e, c) /\ c \in Seq(DOMAIN d)
      /\ \A i \in 1..Len(c) : c[i] \in DOMAIN d \ N
  BY DEF IsHolder
<1>3. Numbered(d2)
  BY <1>1 DEF IsRefilled, Numbered
<1>4. IsChain(d2, e2.over, c)
  BY <1>2 DEF HasChain, IsChain, IsRefilled
<1>5. HasChain(d2, e2, c)
  BY <1>4 DEF HasChain, IsRefilled
<1>6. IsRechained(d, d2, N, p, rank, c, e2, c)
  <2>1. N \subseteq DOMAIN d2 /\ \A q \in N \ {p} : d2[q] = d[q]
    BY <1>1, <1>2 DEF IsRefilled
  <2>2. \A o \in DOMAIN d \ N : (\A i \in 1..Len(c) : o # c[i]) => o \in DOMAIN d2 /\ d2[o] = d[o]
    BY DEF IsRefilled
  <2>3. \A o \in DOMAIN d2 \ N : \/ \E i \in 1..Len(c) : o = c[i]
                                 \/ o \in DOMAIN d /\ \A i \in 1..Len(c) : o # c[i]
    BY DEF IsRefilled
  <2>4. \A i \in 1..Len(c) :
           c[i] \in DOMAIN d2 \ N /\ (c[i] \in DOMAIN d => \E j \in 1..Len(c) : c[i] = c[j])
    BY <1>2 DEF IsRefilled
  <2>5. (\E t : IsReplaced(d[p].entries, rank, e2, t) /\ d2[p] = [d[p] EXCEPT !.entries = t])
        /\ e2 \in AnyEntry
    BY DEF IsRefilled
  <2> QED
    BY <1>3, <1>5, <2>1, <2>2, <2>3, <2>4, <2>5 DEF IsRechained
<1>7. e2.key = x
  BY <1>2 DEF IsRefilled
<1>8. HasEdited(d, d2, r, N, level, hi, p, Size(d[p]), x, {e2})
  BY <1>6, <1>7, Rechaining, Zenon
<1> QED
  BY <1>3, <1>5, <1>8, ChainOwns DEF LocationsAre

(* One page of the chain has other locations. *)
IsPageChange(d, d2, p, rank, e, c, k, v, e2) ==
    /\ DOMAIN d2 = DOMAIN d /\ k \in 1..Len(c) /\ d2[c[k]] = [d[c[k]] EXCEPT !.values = v]
    /\ \A q \in DOMAIN d : q = p \/ q = c[k] \/ d2[q] = d[q]
    /\ \E t : IsReplaced(d[p].entries, rank, e2, t) /\ d2[p] = [d[p] EXCEPT !.entries = t]
    /\ e2 \in AnyEntry /\ e2.key = e.key /\ e2.over = e.over /\ e2.child \in Locations
    /\ v \in Seq(Locations) /\ Len(v) <= OverflowCap
    /\ \A i, j \in 1..Len(v) : v[i] = v[j] => i = j
    /\ e2.child \notin Range(v)
    /\ \A j \in 1..Len(c) \ {k} : /\ e2.child \notin Range(d[c[j]].values)
                                  /\ \A l \in Range(v) : l \notin Range(d[c[j]].values)

PageLocations(d, d2, e2, c, k, v) ==
    \A l : l \in LocationsOf(d2, e2)
             <=> \/ l = e2.child \/ l \in Range(v)
                 \/ \E j \in 1..Len(c) \ {k} : l \in Range(d[c[j]].values)

LEMMA PageChanges ==
    ASSUME NEW d, NEW r, NEW N, NEW level, NEW hi, Sound(d, r, N, level, hi), NEW x \in Int,
           NEW p \in N, level[p] = 0, IsLeafFor(d, r, N, level, hi, x, p),
           NEW rank, NEW e, NEW c, IsHolder(d, N, p, x, rank, e, c),
           NEW d2, NEW k, NEW v, NEW e2, IsPageChange(d, d2, p, rank, e, c, k, v, e2)
    PROVE  /\ HasEdited(d, d2, r, N, level, hi, p, Size(d[p]), x, {e2})
           /\ PageLocations(d, d2, e2, c, k, v)
<1>1. /\ HasChain(d, e, c) /\ c \in Seq(DOMAIN d) /\ IsInjective(c) /\ Len(c) \in Nat
      /\ \A i \in 1..Len(c) : c[i] \in DOMAIN d \ N /\ FilledPage(d[c[i]])
      /\ k \in 1..Len(c)
  BY DEF IsHolder, HasChain, IsChain, IsPageChange
<1>2. \A i \in 1..Len(c) \ {k} : d2[c[i]] = d[c[i]]
  <2> TAKE i \in 1..Len(c) \ {k}
  <2>1. DOMAIN c = 1..Len(c)
    BY <1>1
  <2>2. c[i] # c[k]
    BY <1>1, <2>1 DEF IsInjective
  <2>3. c[i] # p /\ c[i] \in DOMAIN d
    BY <1>1
  <2> QED
    BY <2>2, <2>3 DEF IsPageChange
<1>3. /\ d2[c[k]].next = d[c[k]].next /\ d2[c[k]].values = v /\ d2[c[k]] \in AnyPage
  <2>1. d[c[k]] \in AnyPage
    BY <1>1 DEF FilledPage
  <2> QED
    BY <2>1, Zenon DEF IsPageChange, AnyPage
<1>4. FilledPage(d2[c[k]])
  BY <1>3 DEF FilledPage, IsPageChange
<1>5. \A i \in 1..Len(c) : /\ d2[c[i]].next = d[c[i]].next /\ FilledPage(d2[c[i]])
                           /\ e2.child \notin Range(d2[c[i]].values)
  <2> TAKE i \in 1..Len(c)
  <2>1. CASE i = k
    <3>1. e2.child \notin Range(v)
      BY DEF IsPageChange
    <3> QED
      BY <1>3, <1>4, <2>1, <3>1
  <2>2. CASE i # k
    <3>1. d2[c[i]] = d[c[i]] /\ e2.child \notin Range(d[c[i]].values)
      BY <1>2, <2>2 DEF IsPageChange
    <3> QED
      BY <1>1, <3>1
  <2> QED
    BY <2>1, <2>2
<1>6. \A i, j \in 1..Len(c) : \A l \in Range(d2[c[i]].values) :
         l \in Range(d2[c[j]].values) => i = j
  <2> TAKE i, j \in 1..Len(c)
  <2>1. CASE i # k /\ j # k
    <3>1. d2[c[i]] = d[c[i]] /\ d2[c[j]] = d[c[j]]
      BY <1>2, <2>1
    <3> QED
      BY <1>1, <3>1, Zenon DEF HasChain
  <2>2. \A a \in 1..Len(c) \ {k} : \A l \in Range(d2[c[k]].values) : l \notin Range(d2[c[a]].values)
    BY <1>2, <1>3 DEF IsPageChange
  <2> QED
    BY <2>1, <2>2, Zenon
<1>7. IsRefilled(d, d2, p, rank, e, c, e2)
  <2>1. \A q \in DOMAIN d : q = p \/ (\E i \in 1..Len(c) : q = c[i]) \/ d2[q] = d[q]
    BY <1>1 DEF IsPageChange
  <2> QED
    BY <1>5, <1>6, <2>1 DEF IsPageChange, IsRefilled
<1>8. HasEdited(d, d2, r, N, level, hi, p, Size(d[p]), x, {e2}) /\ LocationsAre(d2, e2, c)
  BY <1>7, ChainRefilled, Zenon
<1>9. ASSUME NEW l
      PROVE  (\E i \in 1..Len(c) : l \in Range(d2[c[i]].values))
               <=> l \in Range(v) \/ \E j \in 1..Len(c) \ {k} : l \in Range(d[c[j]].values)
  BY <1>1, <1>2, <1>3
<1> QED
  BY <1>8, <1>9 DEF LocationsAre, PageLocations

LEMMA RangeWithin ==
    ASSUME NEW S, NEW s \in Seq(S)
    PROVE  Range(s) \subseteq S
  BY RangeHas

(* The locations of a key. *)
Known(d, N, x) == {l \in Locations : Paired(d, LeafEntries(d, N), x, l)}

(* After a call the leaf p has n entries and the key x the locations L.    *)
HasBecome(d, d2, r, N, level, hi, p, n, x, L) ==
    /\ Built(d2, r, N, level, hi) /\ Numbered(d2)
    /\ Filled(d2, LeafEntries(d2, N), DOMAIN d2 \ N)
    /\ \A k, l : Paired(d2, LeafEntries(d2, N), k, l)
                   <=> IF k = x THEN l \in L ELSE Paired(d, LeafEntries(d, N), k, l)
    /\ \A q \in N : /\ d2[q].leaf = d[q].leaf
                    /\ Size(d2[q]) = IF q = p THEN n ELSE Size(d[q])

LEMMA Becoming ==
    ASSUME NEW d, NEW d2, NEW r, NEW N, NEW level, NEW hi, NEW p, NEW n, NEW x, NEW Y, NEW L,
           HasEdited(d, d2, r, N, level, hi, p, n, x, Y),
           Holding(d2, Y, L)
    PROVE  HasBecome(d, d2, r, N, level, hi, p, n, x, L)
  BY DEF HasEdited, HasBecome, Holding

(* The locations of a key that is there. *)
LEMMA HolderKnows ==
    ASSUME NEW d, Numbered(d), NEW N, NEW p, NEW x, NEW rank, NEW e, NEW c,
           IsHolder(d, N, p, x, rank, e, c), NEW l
    PROVE  l \in Known(d, N, x) <=> l = e.child \/ \E i \in 1..Len(c) : l \in Range(d[c[i]].values)
<1>1. Paired(d, LeafEntries(d, N), x, l)
        <=> l = e.child \/ \E i \in 1..Len(c) : l \in Range(d[c[i]].values)
  BY HolderOwns
<1>2. HasChain(d, e, c)
  BY DEF IsHolder
<1>3. \A i \in 1..Len(c) : Range(d[c[i]].values) \subseteq Locations
  BY <1>2, RangeWithin DEF HasChain, FilledPage, AnyPage
<1> QED
  BY <1>1, <1>2, <1>3 DEF Known, HasChain

(* A location appended to a page of the chain. *)
IsPageAppended(d, d2, c, k, loc) ==
    /\ k \in 1..Len(c) /\ Len(d[c[k]].values) < OverflowCap
    /\ d2 = [d EXCEPT ![c[k]].values = Append(@, loc)]

LEMMA PageAppended ==
    ASSUME NEW d, NEW r, NEW N, NEW level, NEW hi, Sound(d, r, N, level, hi), NEW x \in Int,
           NEW p \in N, level[p] = 0, IsLeafFor(d, r, N, level, hi, x, p),
           NEW rank, NEW e, NEW c, IsHolder(d, N, p, x, rank, e, c),
           NEW loc \in Locations, loc \notin Known(d, N, x),
           NEW k, NEW d2, IsPageAppended(d, d2, c, k, loc), NEW L, L = Known(d, N, x) \union {loc}
    PROVE  HasBecome(d, d2, r, N, level, hi, p, Size(d[p]), x, L)
<1>0. /\ k \in 1..Len(c) /\ Len(d[c[k]].values) < OverflowCap
      /\ d2 = [d EXCEPT ![c[k]].values = Append(@, loc)]
  BY DEF IsPageAppended
<1> DEFINE v == d[c[k]].values
           w == Append(v, loc)
<1>1. Built(d, r, N, level, hi) /\ Numbered(d) /\ N \subseteq DOMAIN d
  BY SoundIs, Zenon
<1>2. /\ HasChain(d, e, c) /\ c \in Seq(DOMAIN d) /\ IsInjective(c) /\ Len(c) \in Nat
      /\ \A i \in 1..Len(c) : c[i] \in DOMAIN d \ N /\ FilledPage(d[c[i]])
      /\ rank \in 1..Len(d[p].entries) /\ e = d[p].entries[rank] /\ e \in AnyEntry
  <2>1. /\ HasChain(d, e, c) /\ c \in Seq(DOMAIN d) /\ \A i \in 1..Len(c) : c[i] \in DOMAIN d \ N
        /\ rank \in 1..Len(d[p].entries) /\ e = d[p].entries[rank] /\ e \in AnyEntry
    BY DEF IsHolder
  <2>2. IsChain(d, e.over, c) /\ \A i \in 1..Len(c) : FilledPage(d[c[i]])
    BY <2>1 DEF HasChain
  <2>3. IsInjective(c) /\ Len(c) \in Nat
    BY <2>1, <2>2 DEF IsChain
  <2> QED
    BY <2>1, <2>2, <2>3
<1>3. \A l : l \in Known(d, N, x) <=> l = e.child \/ \E i \in 1..Len(c) : l \in Range(d[c[i]].values)
  BY <1>1, HolderKnows
<1>4. v \in Seq(Locations) /\ Len(v) \in Nat /\ OverflowCap \in Nat /\ Len(v) < OverflowCap
      /\ \A i, j \in 1..Len(v) : v[i] = v[j] => i = j
  BY <1>0, <1>2, OverflowCapAssumption DEF FilledPage, AnyPage
<1>5. w \in Seq(Locations) /\ Len(w) = Len(v) + 1 /\ (\A i \in 1..Len(v) : w[i] = v[i])
      /\ w[Len(v) + 1] = loc /\ (\A l : l \in Range(w) <=> l \in Range(v) \/ l = loc)
  <2> HIDE DEF v
  <2>1. w \in Seq(Locations) /\ Len(w) = Len(v) + 1 /\ (\A i \in 1..Len(v) : w[i] = v[i])
        /\ w[Len(v) + 1] = loc /\ DOMAIN w = 1..Len(v)+1 /\ DOMAIN v = 1..Len(v)
    BY <1>4
  <2> HIDE DEF w
  <2>2. \A l : l \in Range(w) <=> \E i \in 1..Len(v)+1 : w[i] = l
    BY <2>1 DEF Range
  <2>3. \A l : l \in Range(v) <=> \E i \in 1..Len(v) : v[i] = l
    BY <2>1 DEF Range
  <2>4. \A i \in 1..Len(v)+1 : i \in 1..Len(v) \/ i = Len(v) + 1
    BY <1>4
  <2>5. Len(v) + 1 \in 1..Len(v)+1 /\ \A i \in 1..Len(v) : i \in 1..Len(v)+1
    BY <1>4
  <2> QED
    BY <2>1, <2>2, <2>3, <2>4, <2>5
<1>6. loc # e.child /\ loc \notin Range(v) /\ \A j \in 1..Len(c) : loc \notin Range(d[c[j]].values)
  BY <1>0, <1>3
<1>7. IsPageChange(d, d2, p, rank, e, c, k, w, e)
  <2>1. DOMAIN d2 = DOMAIN d /\ d2[c[k]] = [d[c[k]] EXCEPT !.values = w]
        /\ \A q \in DOMAIN d : q = p \/ q = c[k] \/ d2[q] = d[q]
    BY <1>0, <1>2, Zenon
  <2>2. d2[p] = d[p] /\ d[p] \in AnyNode
    BY <1>0, <1>1, <1>2 DEF Built, Plain
  <2>3. HasReplaced(d[p], rank, e, d2[p])
    <3>1. HasReplaced(d[p], rank, e, d[p])
      BY <1>2, <2>2, SameEntry
    <3> QED
      BY <2>2, <3>1
  <2>4. \A i, j \in 1..Len(w) : w[i] = w[j] => i = j
    <3>1. \A i \in 1..Len(v) : v[i] # loc
      BY <1>4, <1>6 DEF Range
    <3>2. \A i \in 1..Len(v)+1 : i \in 1..Len(v) \/ i = Len(v) + 1
      BY <1>4
    <3> HIDE DEF v, w
    <3> QED
      BY <1>4, <1>5, <3>1, <3>2
  <2>5. e.child \in Locations /\ e.child \notin Range(w) /\ Len(w) <= OverflowCap
    <3>1. e.child \in Locations /\ e.child \notin Range(v)
      BY <1>0, <1>2 DEF HasChain
    <3> HIDE DEF v, w
    <3> QED
      BY <1>4, <1>5, <1>6, <3>1
  <2>6. \A j \in 1..Len(c) \ {k} : /\ e.child \notin Range(d[c[j]].values)
                                   /\ \A l \in Range(w) : l \notin Range(d[c[j]].values)
    <3>1. \A j \in 1..Len(c) \ {k} : /\ e.child \notin Range(d[c[j]].values)
                                     /\ \A l \in Range(v) : l \notin Range(d[c[j]].values)
      BY <1>0, <1>2, Zenon DEF HasChain
    <3> HIDE DEF w
    <3> QED
      BY <1>5, <1>6, <3>1
  <2> HIDE DEF w
  <2> QED
    BY <1>0, <1>2, <1>5, <2>1, <2>3, <2>4, <2>5, <2>6, Zenon DEF IsPageChange, HasReplaced
<1> HIDE DEF w
<1>8. HasEdited(d, d2, r, N, level, hi, p, Size(d[p]), x, {e}) /\ PageLocations(d, d2, e, c, k, w)
  BY <1>7, PageChanges, Zenon
<1>9. Holding(d2, {e}, L)
  <2> SUFFICES ASSUME NEW l PROVE l \in LocationsOf(d2, e) <=> l \in L
    BY DEF Holding
  <2>1. (\E i \in 1..Len(c) : l \in Range(d[c[i]].values))
          <=> l \in Range(v) \/ \E j \in 1..Len(c) \ {k} : l \in Range(d[c[j]].values)
    BY <1>0
  <2> HIDE DEF v
  <2> QED
    BY <1>3, <1>5, <1>8, <2>1 DEF PageLocations
<1> QED
  BY <1>8, <1>9, Becoming

(* A new page with the location behind the chain, or behind the entry      *)
(* where there is none.                                                    *)
IsExtended(d, d2, p, rank, e, c, new, loc, e2) ==
    /\ DOMAIN d2 = DOMAIN d \union {new} /\ d2[new] = OverflowPage(<<loc>>, Null)
    /\ \A q \in DOMAIN d : q = p \/ (Len(c) # 0 /\ q = c[Len(c)]) \/ d2[q] = d[q]
    /\ Len(c) # 0 => d2[c[Len(c)]] = [d[c[Len(c)]] EXCEPT !.next = new]
    /\ HasReplaced(d[p], rank, e2, d2[p])
    /\ e2 \in AnyEntry /\ e2.key = e.key /\ e2.child = e.child
    /\ e2.over = IF Len(c) = 0 THEN new ELSE e.over

(* The sequence s with x behind it. *)
IsAppended(s, x, t) ==
    /\ Len(t) = Len(s) + 1 /\ DOMAIN t = 1..Len(s)+1
    /\ \A i \in 1..Len(s) : t[i] = s[i]
    /\ t[Len(s) + 1] = x
    /\ \A i \in 1..Len(s)+1 : i \in 1..Len(s) \/ i = Len(s) + 1

LEMMA AppendedIs ==
    ASSUME NEW S, NEW s \in Seq(S), NEW T, S \subseteq T, NEW x \in T, NEW t, t = Append(s, x)
    PROVE  t \in Seq(T) /\ IsAppended(s, x, t)
<1>1. s \in Seq(T) /\ Len(s) \in Nat
  OBVIOUS
<1>2. t \in Seq(T) /\ Len(t) = Len(s) + 1 /\ (\A i \in 1..Len(s) : t[i] = s[i]) /\ t[Len(s) + 1] = x
  BY <1>1
<1> QED
  BY <1>1, <1>2 DEF IsAppended

LEMMA ChainExtended ==
    ASSUME NEW d, NEW r, NEW N, NEW level, NEW hi, Sound(d, r, N, level, hi), NEW x \in Int,
           NEW p \in N, level[p] = 0, IsLeafFor(d, r, N, level, hi, x, p),
           NEW rank, NEW e, NEW c, IsHolder(d, N, p, x, rank, e, c),
           NEW loc \in Locations, loc \notin Known(d, N, x),
           NEW new \in Int, new \notin DOMAIN d,
           NEW d2, NEW e2, IsExtended(d, d2, p, rank, e, c, new, loc, e2),
           NEW L, L = Known(d, N, x) \union {loc}
    PROVE  HasBecome(d, d2, r, N, level, hi, p, Size(d[p]), x, L)
<1> DEFINE n == Len(c)
           t == Append(c, new)
<1>1. Built(d, r, N, level, hi) /\ Numbered(d) /\ N \subseteq DOMAIN d
  BY SoundIs, Zenon
<1>2. /\ HasChain(d, e, c) /\ IsChain(d, e.over, c) /\ c \in Seq(DOMAIN d) /\ IsInjective(c) /\ n \in Nat
      /\ \A i \in 1..n : c[i] \in DOMAIN d \ N /\ FilledPage(d[c[i]])
      /\ rank \in 1..Len(d[p].entries) /\ e = d[p].entries[rank] /\ e \in AnyEntry /\ e.key = x
      /\ (c = << >> <=> n = 0)
  <2>1. /\ HasChain(d, e, c) /\ c \in Seq(DOMAIN d) /\ \A i \in 1..n : c[i] \in DOMAIN d \ N
        /\ rank \in 1..Len(d[p].entries) /\ e = d[p].entries[rank] /\ e \in AnyEntry /\ e.key = x
    BY DEF IsHolder
  <2>2. IsChain(d, e.over, c) /\ \A i \in 1..n : FilledPage(d[c[i]])
    BY <2>1 DEF HasChain
  <2>3. IsInjective(c)
    BY <2>2 DEF IsChain
  <2>4. n \in Nat /\ (c = << >> <=> n = 0)
    BY <2>1
  <2> QED
    BY <2>1, <2>2, <2>3, <2>4
<1>3. \A l : l \in Known(d, N, x) <=> l = e.child \/ \E i \in 1..n : l \in Range(d[c[i]].values)
  BY <1>1, HolderKnows
<1>4. loc # e.child /\ \A i \in 1..n : loc \notin Range(d[c[i]].values)
  BY <1>3
<1>5. /\ t \in Seq(DOMAIN d2) /\ Len(t) = n + 1 /\ DOMAIN t = 1..n+1
      /\ (\A i \in 1..n : t[i] = c[i]) /\ t[n + 1] = new
      /\ \A i \in 1..n+1 : i \in 1..n \/ i = n + 1
  <2>1. DOMAIN d \subseteq DOMAIN d2 /\ new \in DOMAIN d2
    BY DEF IsExtended
  <2>2. t \in Seq(DOMAIN d2) /\ IsAppended(c, new, t)
    BY <1>2, <2>1, AppendedIs, Zenon
  <2> QED
    BY <2>2 DEF IsAppended
<1> HIDE DEF t
<1>6. Numbered(d2) /\ N \subseteq DOMAIN d2 /\ \A q \in N \ {p} : d2[q] = d[q]
  <2>1. IsFiniteSet(DOMAIN d2)
    BY <1>1, FS_AddElement DEF Numbered, IsExtended
  <2>2. n # 0 => c[n] \notin N
    BY <1>2
  <2> QED
    BY <1>1, <2>1, <2>2 DEF Numbered, IsExtended
<1>7. \A i \in 1..n : /\ d2[c[i]].values = d[c[i]].values
                      /\ d2[c[i]].next = IF i = n THEN new ELSE c[i+1]
                      /\ FilledPage(d2[c[i]])
  <2> TAKE i \in 1..n
  <2>1. c[i] \in DOMAIN d /\ c[i] # p /\ FilledPage(d[c[i]])
    BY <1>2
  <2>2. d[c[i]].next = IF i = n THEN Null ELSE c[i+1]
    BY <1>2 DEF IsChain
  <2>3. CASE i = n
    <3>1. n # 0
      BY <2>3
    <3>2. d2[c[i]] = [d[c[i]] EXCEPT !.next = new]
      BY <2>3, <3>1 DEF IsExtended
    <3>3. d[c[i]] \in AnyPage
      BY <2>1 DEF FilledPage
    <3>4. d2[c[i]] \in AnyPage /\ d2[c[i]].values = d[c[i]].values /\ d2[c[i]].next = new
      BY <3>2, <3>3 DEF AnyPage
    <3> QED
      BY <2>1, <2>3, <3>4 DEF FilledPage
  <2>4. CASE i # n
    <3>1. n # 0 /\ n \in 1..n /\ DOMAIN c = 1..n
      BY <1>2
    <3>2. c[i] # c[n]
      BY <1>2, <2>4, <3>1, Zenon DEF IsInjective
    <3>3. d2[c[i]] = d[c[i]]
      BY <2>1, <3>2 DEF IsExtended
    <3> QED
      BY <2>1, <2>2, <2>4, <3>3
  <2> QED
    BY <2>3, <2>4
<1>8. d2[new].values = <<loc>> /\ d2[new].next = Null /\ FilledPage(d2[new])
      /\ \A l : l \in Range(d2[new].values) <=> l = loc
  <2>1. d2[new] = [values |-> <<loc>>, next |-> Null]
    BY DEF IsExtended, OverflowPage
  <2>2. <<loc>> \in Seq(Locations) /\ Len(<<loc>>) = 1 /\ \A i, j \in 1..1 : i = j
    OBVIOUS
  <2>3. d2[new] \in AnyPage
    BY <2>1, <2>2 DEF AnyPage
  <2>4. \A l : l \in Range(<<loc>>) <=> l = loc
    BY DEF Range
  <2> QED
    BY <2>1, <2>2, <2>3, <2>4, OverflowCapAssumption DEF FilledPage
<1>9. IsInjective(t)
  <2>1. \A i \in 1..n : c[i] # new
    BY <1>2
  <2>2. DOMAIN c = 1..n
    BY <1>2
  <2> SUFFICES ASSUME NEW i \in 1..n+1, NEW j \in 1..n+1, t[i] = t[j] PROVE i = j
    BY <1>5 DEF IsInjective
  <2>3. CASE i \in 1..n /\ j \in 1..n
    <3>1. c[i] = c[j]
      BY <1>5, <2>3
    <3> QED
      BY <1>2, <2>2, <2>3, <3>1 DEF IsInjective
  <2>4. i = n + 1 => j \notin 1..n
    BY <1>5, <2>1
  <2>5. j = n + 1 => i \notin 1..n
    BY <1>5, <2>1
  <2> QED
    BY <1>5, <2>3, <2>4, <2>5
<1>10. \A i \in 1..n+1 : d2[t[i]].next = IF i = n + 1 THEN Null ELSE t[i+1]
  <2> TAKE i \in 1..n+1
  <2>1. CASE i = n + 1
    BY <1>5, <1>8, <2>1
  <2>2. CASE i \in 1..n
    <3>1. i # n + 1 /\ t[i] = c[i]
      BY <1>2, <1>5, <2>2
    <3>2. d2[c[i]].next = IF i = n THEN new ELSE c[i+1]
      BY <1>7, <2>2
    <3>3. IF i = n THEN t[i+1] = new ELSE t[i+1] = c[i+1]
      <4>1. CASE i = n
        BY <1>5, <4>1
      <4>2. CASE i # n
        <5>1. i + 1 \in 1..n
          BY <1>2, <2>2, <4>2
        <5> QED
          BY <1>5, <4>2, <5>1
      <4> QED
        BY <4>1, <4>2
    <3> QED
      BY <3>1, <3>2, <3>3
  <2> QED
    BY <1>5, <2>1, <2>2
<1>11. IsChain(d2, e2.over, t)
  <2>1. t # << >>
    BY <1>2, <1>5
  <2>2. e2.over = t[1]
    <3>1. CASE n = 0
      BY <1>5, <3>1 DEF IsExtended
    <3>2. CASE n # 0
      <4>1. 1 \in 1..n /\ e.over = c[1]
        BY <1>2, <3>2 DEF IsChain
      <4> QED
        BY <1>5, <3>2, <4>1 DEF IsExtended
    <3> QED
      BY <3>1, <3>2
  <2> QED
    BY <1>5, <1>9, <1>10, <2>1, <2>2 DEF IsChain
<1>12. HasChain(d2, e2, t)
  <2>1. e2.child = e.child /\ e.child \in Locations
    BY <1>2 DEF IsExtended, HasChain
  <2>2. \A i \in 1..n+1 : FilledPage(d2[t[i]]) /\ e2.child \notin Range(d2[t[i]].values)
    <3> TAKE i \in 1..n+1
    <3>1. CASE i = n + 1
      BY <1>4, <1>5, <1>8, <2>1, <3>1, Zenon
    <3>2. CASE i \in 1..n
      <4>1. e.child \notin Range(d[c[i]].values)
        BY <1>2, <3>2 DEF HasChain
      <4> QED
        BY <1>5, <1>7, <2>1, <3>2, <4>1
    <3> QED
      BY <1>5, <3>1, <3>2
  <2>3. \A i, j \in 1..n+1 : \A l \in Range(d2[t[i]].values) : l \in Range(d2[t[j]].values) => i = j
    <3>1. \A i, j \in 1..n : \A l \in Range(d[c[i]].values) : l \in Range(d[c[j]].values) => i = j
      BY <1>2, Zenon DEF HasChain
    <3>2. \A i \in 1..n : d2[t[i]].values = d[c[i]].values /\ loc \notin Range(d2[t[i]].values)
      BY <1>4, <1>5, <1>7
    <3>3. \A l \in Range(d2[t[n+1]].values) : l = loc
      BY <1>5, <1>8
    <3> TAKE i, j \in 1..n+1
    <3> TAKE l \in Range(d2[t[i]].values)
    <3> HAVE l \in Range(d2[t[j]].values)
    <3>4. CASE i \in 1..n /\ j \in 1..n
      BY <3>1, <3>2, <3>4, Zenon
    <3>5. CASE i = n + 1 /\ j \in 1..n
      BY <3>2, <3>3, <3>5
    <3>6. CASE j = n + 1 /\ i \in 1..n
      BY <3>2, <3>3, <3>6
    <3> QED
      BY <1>5, <3>4, <3>5, <3>6
  <2> QED
    BY <1>5, <1>11, <2>1, <2>2, <2>3 DEF HasChain
<1>13. IsRechained(d, d2, N, p, rank, c, e2, t)
  <2>1. \A o \in DOMAIN d \ N : (\A i \in 1..Len(c) : o # c[i]) => o \in DOMAIN d2 /\ d2[o] = d[o]
    <3>1. n # 0 => n \in 1..n
      BY <1>2
    <3> QED
      BY <3>1 DEF IsExtended
  <2>2. \A o \in DOMAIN d2 \ N : \/ \E i \in 1..Len(t) : o = t[i]
                                 \/ o \in DOMAIN d /\ \A i \in 1..Len(c) : o # c[i]
    <3>1. n + 1 \in 1..n+1 /\ \A i \in 1..n : i \in 1..n+1
      BY <1>2
    <3> QED
      BY <1>5, <3>1 DEF IsExtended
  <2>3. \A i \in 1..Len(t) :
           t[i] \in DOMAIN d2 \ N /\ (t[i] \in DOMAIN d => \E j \in 1..Len(c) : t[i] = c[j])
    <3> SUFFICES ASSUME NEW i \in 1..n+1
                 PROVE  t[i] \in DOMAIN d2 \ N /\ (t[i] \in DOMAIN d => \E j \in 1..n : t[i] = c[j])
      BY <1>5
    <3>1. CASE i = n + 1
      BY <1>1, <1>5, <3>1 DEF IsExtended
    <3>2. CASE i \in 1..n
      BY <1>2, <1>5, <3>2 DEF IsExtended
    <3> QED
      BY <1>5, <3>1, <3>2
  <2>4. (\E z : IsReplaced(d[p].entries, rank, e2, z) /\ d2[p] = [d[p] EXCEPT !.entries = z])
        /\ e2 \in AnyEntry
    BY DEF IsExtended, HasReplaced
  <2> QED
    BY <1>6, <1>12, <2>1, <2>2, <2>3, <2>4 DEF IsRechained
<1>14. HasEdited(d, d2, r, N, level, hi, p, Size(d[p]), x, {e2})
  <2>1. e2.key = x
    BY <1>2 DEF IsExtended
  <2> QED
    BY <1>13, <2>1, Rechaining, Zenon
<1>15. Holding(d2, {e2}, L)
  <2> SUFFICES ASSUME NEW l PROVE l \in LocationsOf(d2, e2) <=> l \in L
    BY DEF Holding
  <2>1. LocationsAre(d2, e2, t)
    BY <1>6, <1>12, ChainOwns DEF LocationsAre
  <2>2. (\E i \in 1..Len(t) : l \in Range(d2[t[i]].values))
          <=> l = loc \/ \E i \in 1..n : l \in Range(d[c[i]].values)
    <3>1. n + 1 \in 1..n+1 /\ \A i \in 1..n : i \in 1..n+1
      BY <1>2
    <3>2. \A i \in 1..n : d2[t[i]].values = d[c[i]].values
      BY <1>5, <1>7
    <3>3. l \in Range(d2[t[n+1]].values) <=> l = loc
      BY <1>5, <1>8
    <3> QED
      BY <1>5, <3>1, <3>2, <3>3
  <2>3. e2.child = e.child
    BY DEF IsExtended
  <2> QED
    BY <1>3, <2>1, <2>2, <2>3 DEF LocationsAre
<1> QED
  BY <1>14, <1>15, Becoming

(* BPTreeNode::InsertInLeaf adds the location. *)
LEMMA LeafInserts ==
    ASSUME NEW d, NEW r, NEW N, NEW level, NEW hi, Sound(d, r, N, level, hi),
           NEW x \in Keys, NEW loc \in Locations, loc \notin Known(d, N, x),
           NEW p \in N, level[p] = 0, Covers(d, r, hi, p, x),
           NEW d2, d2 = InsertInLeaf(d, p, x, loc), NEW L, L = Known(d, N, x) \union {loc}
    PROVE  \E n \in {Size(d[p]), Size(d[p]) + 1} : HasBecome(d, d2, r, N, level, hi, p, n, x, L)
<1> DEFINE s     == d[p].entries
           rank  == LowerBound(d[p], x)
           chain == OverflowChain(d, s[rank].over)
           roomy == {i \in DOMAIN chain : Len(d[chain[i]].values) < OverflowCap}
           new   == NewOverflowPage(d)
           more  == [q \in DOMAIN d \union {new} |->
                        IF q = new THEN OverflowPage(<<loc>>, Null) ELSE d[q]]
<1>1. Built(d, r, N, level, hi) /\ Numbered(d) /\ N \subseteq DOMAIN d /\ x \in Int /\ p \in DOMAIN d
  BY SoundIs, KeysAssumption, Zenon
<1>2. IsLeafFor(d, r, N, level, hi, x, p)
  BY <1>1, PlaceIsOnly
<1>3. \/ IsKeyOf(d[p], rank, x) /\ \E c : IsHolder(d, N, p, x, rank, s[rank], c)
      \/ ~IsKeyOf(d[p], rank, x) /\ \A e \in LeafEntries(d, N) : e.key # x
  BY <1>1, <1>2, HolderIs
<1>4. CASE ~IsKeyOf(d[p], rank, x) /\ \A e \in LeafEntries(d, N) : e.key # x
  <2> DEFINE y == Entry(x, loc, Null)
             t == InsertAt(s, rank, y)
  <2>1. d2 = [d EXCEPT ![p].entries = t]
    BY <1>4, Zenon DEF InsertInLeaf
  <2> HIDE DEF t, y
  <2>2. IsPut(d, d2, p, t)
    BY <1>1, <2>1, PutIs, Zenon
  <2>3. IsNewIn(d, N, p, x, loc, y, t, d2)
    BY <1>4, <2>2 DEF y, t, IsNewIn
  <2> DEFINE n == Size(d[p]) + 1
  <2>4. n = Size(d[p]) + 1
    OBVIOUS
  <2> HIDE DEF n
  <2>5. HasEdited(d, d2, r, N, level, hi, p, n, x, {y}) /\ Holding(d2, {y}, {loc})
    BY <2>3, <2>4, NewEntry
  <2>6. \A l : l \in L <=> l = loc
    <3>1. \A l : l \notin Known(d, N, x)
      BY <1>4 DEF Known, Paired
    <3> QED
      BY <3>1
  <2>7. Holding(d2, {y}, L)
    BY <2>5, <2>6 DEF Holding
  <2>8. HasBecome(d, d2, r, N, level, hi, p, n, x, L)
    BY <2>5, <2>7, Becoming
  <2> QED
    BY <2>8 DEF n
<1>5. ASSUME IsKeyOf(d[p], rank, x), NEW c, IsHolder(d, N, p, x, rank, s[rank], c)
      PROVE  HasBecome(d, d2, r, N, level, hi, p, Size(d[p]), x, L)
  <2> DEFINE e == s[rank]
  <2>1. /\ chain = c /\ c \in Seq(DOMAIN d) /\ rank \in 1..Len(s) /\ e \in AnyEntry
        /\ \A i \in 1..Len(c) : c[i] \in DOMAIN d \ N
    BY <1>5 DEF IsHolder
  <2>2. DOMAIN c = 1..Len(c) /\ Len(c) \in Nat /\ (c = << >> <=> Len(c) = 0) /\ Last(c) = c[Len(c)]
    BY <2>1 DEF Last
  <2>3. new \in Int /\ new \notin DOMAIN d
    BY <1>1, NewPageIsNew DEF Numbered
  <2>4. s \in Seq(AnyEntry) /\ d[p] \in AnyNode
    BY <1>1 DEF Built, Plain, AnyNode
  <2>5. CASE roomy # {}
    <3> DEFINE k == Min(roomy)
    <3>1. roomy \in SUBSET Nat
      BY <2>1, <2>2
    <3>2. k \in roomy
      <4> HIDE DEF roomy
      <4> QED
        BY <2>5, <3>1, LeastChosen DEF Min
    <3>3. k \in 1..Len(c) /\ Len(d[c[k]].values) < OverflowCap
      <4> HIDE DEF k
      <4> QED
        BY <2>1, <2>2, <3>2
    <3>4. d2 = [d EXCEPT ![c[k]].values = Append(@, loc)]
      BY <1>5, <2>1, <2>5, Zenon DEF InsertInLeaf
    <3> HIDE DEF k, rank, chain, roomy, new, more, s, e
    <3>5. IsHolder(d, N, p, x, rank, e, c)
      BY <1>5 DEF e
    <3>6. IsPageAppended(d, d2, c, k, loc)
      BY <3>3, <3>4 DEF IsPageAppended
    <3> QED
      BY <1>1, <1>2, <3>5, <3>6, PageAppended, Zenon
  <2>6. CASE roomy = {} /\ Len(c) # 0
    <3>1. d2 = [more EXCEPT ![c[Len(c)]].next = new]
      BY <1>5, <2>1, <2>2, <2>6, Zenon DEF InsertInLeaf
    <3>2. c[Len(c)] \in DOMAIN d \ N
      BY <2>1, <2>2, <2>6
    <3>3. /\ DOMAIN d2 = DOMAIN d \union {new} /\ d2[new] = OverflowPage(<<loc>>, Null)
          /\ \A q \in DOMAIN d : q = c[Len(c)] \/ d2[q] = d[q]
          /\ d2[c[Len(c)]] = [d[c[Len(c)]] EXCEPT !.next = new]
      <4> HIDE DEF new
      <4> QED
        BY <2>3, <3>1, <3>2, Zenon
    <3>4. d2[p] = d[p]
      BY <1>1, <3>2, <3>3
    <3>5. HasReplaced(d[p], rank, e, d2[p])
      <4>1. HasReplaced(d[p], rank, e, d[p])
        BY <2>1, <2>4, SameEntry
      <4> QED
        BY <3>4, <4>1
    <3> HIDE DEF rank, chain, roomy, new, more, s, e
    <3>6. e.over = IF Len(c) = 0 THEN new ELSE e.over
      BY <2>6
    <3>7. IsExtended(d, d2, p, rank, e, c, new, loc, e)
      BY <2>1, <2>6, <3>3, <3>5, <3>6 DEF IsExtended
    <3>8. IsHolder(d, N, p, x, rank, e, c)
      BY <1>5 DEF e
    <3> QED
      BY <1>1, <1>2, <2>3, <3>7, <3>8, ChainExtended, Zenon
  <2>7. CASE roomy = {} /\ Len(c) = 0
    <3> DEFINE e2 == [e EXCEPT !.over = new]
               t  == [s EXCEPT ![rank] = e2]
    <3>1. d2 = [more EXCEPT ![p].entries[rank].over = new]
      BY <1>5, <2>1, <2>2, <2>7 DEF InsertInLeaf
    <3>2. more[p] = d[p] /\ p \in DOMAIN more
      <4> HIDE DEF new
      <4> QED
        BY <1>1, <2>3
    <3>3. d2[p] = [d[p] EXCEPT !.entries = t]
      <4> HIDE DEF more
      <4> QED
        BY <3>1, <3>2
    <3>4. /\ DOMAIN d2 = DOMAIN d \union {new} /\ d2[new] = OverflowPage(<<loc>>, Null)
          /\ \A q \in DOMAIN d : q = p \/ d2[q] = d[q]
      <4> HIDE DEF new
      <4> QED
        BY <1>1, <2>3, <3>1
    <3>5. HasReplaced(d[p], rank, e2, d2[p])
      BY <3>3, Zenon DEF HasReplaced, IsReplaced
    <3>6. e2 \in AnyEntry /\ e2.key = e.key /\ e2.child = e.child /\ e2.over = new
      <4> HIDE DEF e, new
      <4> QED
        BY <2>1, <2>3 DEF AnyEntry
    <3> HIDE DEF rank, chain, roomy, new, more, s, e, e2, t
    <3>7. IsExtended(d, d2, p, rank, e, c, new, loc, e2)
      BY <2>7, <3>4, <3>5, <3>6 DEF IsExtended
    <3>8. IsHolder(d, N, p, x, rank, e, c)
      BY <1>5 DEF e
    <3> QED
      BY <1>1, <1>2, <2>3, <3>7, <3>8, ChainExtended, Zenon
  <2> QED
    BY <2>5, <2>6, <2>7
<1> QED
  BY <1>3, <1>4, <1>5

-----------------------------------------------------------------------------
(* Insertion into a tree. *)

(* The pairs of the tree t are those of d, but for the locations L of x. *)
HasPairs(d, N, x, L, t) ==
    \A k, l : <<k, l>> \in ContentOf(t)
                <=> IF k = x THEN l \in L ELSE Paired(d, LeafEntries(d, N), k, l)

(* The tree is solved when its leaf p has one entry more. *)
LEMMA SolvedInserts ==
    ASSUME NEW d, NEW r, NEW N, NEW level, NEW hi, Sound(d, r, N, level, hi),
           NEW p \in N, level[p] = 0, NEW x, NEW L, NEW n \in {Size(d[p]), Size(d[p]) + 1},
           NEW d2, HasBecome(d, d2, r, N, level, hi, p, n, x, L),
           NEW t, t = [pages |-> d2, root |-> r]
    PROVE  IsTree(SolveOverflow(t, p)) /\ HasPairs(d, N, x, L, SolveOverflow(t, p))
<1>1. Built(d, r, N, level, hi) /\ Full(d, r, N)
  BY SoundIs, Zenon
<1>2. /\ Built(d2, r, N, level, hi) /\ Numbered(d2)
      /\ Filled(d2, LeafEntries(d2, N), DOMAIN d2 \ N)
      /\ \A k, l : Paired(d2, LeafEntries(d2, N), k, l)
                     <=> IF k = x THEN l \in L ELSE Paired(d, LeafEntries(d, N), k, l)
      /\ \A q \in N : /\ d2[q].leaf = d[q].leaf
                      /\ Size(d2[q]) = IF q = p THEN n ELSE Size(d[q])
  BY DEF HasBecome
<1>3. \A q \in N : Cap(d2[q]) = Cap(d[q]) /\ Half(d2[q]) = Half(d[q])
  BY <1>2 DEF Cap, Half
<1>4. \A q \in N \ {p} : Fits(d2, r, q)
  BY <1>1, <1>2, <1>3 DEF Full, Fits
<1>5. Swollen(d2, r, p)
  <2>1. Fits(d, r, p) /\ Size(d[p]) \in Nat /\ Cap(d[p]) \in Nat /\ Half(d[p]) \in Nat
    BY <1>1, Sizes DEF Full
  <2>2. d[p].leaf
    BY <1>1 DEF Built, Shape, Ranked
  <2> QED
    BY <1>2, <1>3, <2>1, <2>2 DEF Fits, Swollen
<1>6. Solved(d2, N, SolveOverflow(t, p))
  BY <1>2, <1>4, <1>5, OverflowSolved
<1>7. IsTree(SolveOverflow(t, p))
      /\ \A k, l : <<k, l>> \in ContentOf(SolveOverflow(t, p)) <=> Paired(d2, LeafEntries(d2, N), k, l)
  <2> DEFINE u == SolveOverflow(t, p)
  <2>1. Solved(d2, N, u)
    BY <1>6
  <2> HIDE DEF u
  <2>2. IsTree(u) /\ \A k, l : <<k, l>> \in ContentOf(u) <=> Paired(d2, LeafEntries(d2, N), k, l)
    BY <1>2, <2>1, SolvedStays
  <2> QED
    BY <2>2 DEF u
<1> QED
  BY <1>2, <1>7 DEF HasPairs

(* On the way to the leaf of a new key only inner keys change. *)
IsReady(d, r, N, level, x, t) ==
    \E h : /\ Sound(t.pages, r, N, level, h) /\ Covers(t.pages, r, h, t.at, x)
           /\ t.at \in N /\ level[t.at] = 0
           /\ \A k, l : Paired(t.pages, LeafEntries(t.pages, N), k, l)
                          <=> Paired(d, LeafEntries(d, N), k, l)

LEMMA PlaceIsReady ==
    ASSUME NEW d, NEW r, NEW N, NEW level, NEW hi, Sound(d, r, N, level, hi), NEW x \in Keys
    PROVE  IsReady(d, r, N, level, x, LeafForInsert(d, r, x))
<1> DEFINE t == LeafForInsert(d, r, x)
<1>1. /\ Built(d, r, N, level, hi) /\ Full(d, r, N) /\ Numbered(d)
      /\ Filled(d, LeafEntries(d, N), DOMAIN d \ N)
  BY SoundIs, Zenon
<1>2. IsPlaceFor(d, r, N, level, x, t)
  BY <1>1, PlaceIsFound
<1> HIDE DEF t
<1>3. PICK h : /\ t.at \in N /\ level[t.at] = 0
               /\ Built(t.pages, r, N, level, h) /\ Covers(t.pages, r, h, t.at, x)
               /\ Kept(d, N, t.pages, N)
               /\ \A q \in N : t.pages[q].leaf = d[q].leaf /\ Size(t.pages[q]) = Size(d[q])
  BY <1>2 DEF IsPlaceFor
<1>4. Full(t.pages, r, N)
  <2>1. \A q \in N : Cap(t.pages[q]) = Cap(d[q]) /\ Half(t.pages[q]) = Half(d[q])
    BY <1>3 DEF Cap, Half
  <2> QED
    BY <1>1, <1>3, <2>1 DEF Full, Fits
<1>5. Numbered(t.pages)
  BY <1>3 DEF Built, Paged, Numbered
<1> DEFINE E == LeafEntries(d, N)
           O == DOMAIN d \ N
<1>6. LeafEntries(t.pages, N) = E /\ DOMAIN t.pages \ N = O
      /\ \A o \in O : o \in DOMAIN t.pages /\ t.pages[o] = d[o]
  BY <1>3 DEF Kept
<1>7. Filled(d, E, O)
  BY <1>1
<1> HIDE DEF E, O
<1>8. Filled(t.pages, E, O) /\ \A k, l : Paired(t.pages, E, k, l) <=> Paired(d, E, k, l)
  <2> DEFINE d2 == t.pages
  <2>1. Numbered(d2) /\ \A o \in O : o \in DOMAIN d2 /\ d2[o] = d[o]
    BY <1>5, <1>6
  <2> HIDE DEF d2
  <2>2. Filled(d2, E, O) /\ \A k, l : Paired(d2, E, k, l) <=> Paired(d, E, k, l)
    BY <1>1, <1>7, <2>1, FilledStays
  <2> QED
    BY <2>2 DEF d2
<1>9. Sound(t.pages, r, N, level, h)
  BY <1>3, <1>4, <1>6, <1>8, Zenon DEF Sound
<1>10. \A k, l : Paired(t.pages, LeafEntries(t.pages, N), k, l)
                   <=> Paired(d, LeafEntries(d, N), k, l)
  BY <1>6, <1>8 DEF E
<1> QED
  BY <1>3, <1>9, <1>10 DEF IsReady, t

LEMMA TreeHas ==
    ASSUME NEW t, IsTree(t)
    PROVE  /\ t = [pages |-> t.pages, root |-> t.root]
           /\ ContentOf(t) \subseteq Keys \X Locations
           /\ t.root \in DOMAIN t.pages /\ t.root \in Int /\ Numbered(t.pages)
<1>1. PICK N, level, hi : Sound(t.pages, t.root, N, level, hi)
  BY DEF IsTree
<1>2. ContentOf(t) \subseteq Keys \X Locations
  BY <1>1, ContentIs, Zenon
<1>3. t.root \in N /\ N \subseteq DOMAIN t.pages /\ t.root \in Int /\ Numbered(t.pages)
  BY <1>1, SoundIs, Zenon
<1> QED
  BY <1>2, <1>3 DEF IsTree

(* The pairs after a call. *)
HasSwapped(t, N, x, L, u) ==
    /\ ContentOf(u) = {pair \in ContentOf(t) : pair[1] # x} \union ({x} \X L)
    /\ Known(t.pages, N, x) = {l \in Locations : <<x, l>> \in ContentOf(t)}

LEMMA PairsAre ==
    ASSUME NEW t, NEW N, NEW level, NEW hi, Sound(t.pages, t.root, N, level, hi),
           NEW x \in Keys, NEW L \in SUBSET Locations, NEW u, IsTree(u), HasPairs(t.pages, N, x, L, u)
    PROVE  HasSwapped(t, N, x, L, u)
<1>1. /\ ContentOf(t) \subseteq Keys \X Locations
      /\ \A k, l : <<k, l>> \in ContentOf(t) <=> Paired(t.pages, LeafEntries(t.pages, N), k, l)
  BY ContentIs, Zenon
<1>2. ContentOf(u) \subseteq Keys \X Locations
  BY TreeHas
<1>3. \A k, l : <<k, l>> \in ContentOf(u) <=> IF k = x THEN l \in L ELSE <<k, l>> \in ContentOf(t)
  BY <1>1, Zenon DEF HasPairs
<1>4. Known(t.pages, N, x) = {l \in Locations : <<x, l>> \in ContentOf(t)}
  BY <1>1 DEF Known
<1> DEFINE C == ContentOf(t)
           D == ContentOf(u)
<1>5. D = {pair \in C : pair[1] # x} \union ({x} \X L)
  <2>1. C \subseteq Keys \X Locations /\ D \subseteq Keys \X Locations
        /\ \A k, l : <<k, l>> \in D <=> IF k = x THEN l \in L ELSE <<k, l>> \in C
    BY <1>1, <1>2, <1>3
  <2> HIDE DEF C, D
  <2>2. ASSUME NEW pair \in D PROVE pair \in {q \in C : q[1] # x} \union ({x} \X L)
    <3>1. PICK k \in Keys, l \in Locations : pair = <<k, l>>
      BY <2>1
    <3> QED
      BY <2>1, <2>2, <3>1
  <2>3. ASSUME NEW pair \in C, pair[1] # x PROVE pair \in D
    <3>1. PICK k \in Keys, l \in Locations : pair = <<k, l>>
      BY <2>1
    <3> QED
      BY <2>1, <2>3, <3>1
  <2>4. ASSUME NEW l \in L PROVE <<x, l>> \in D
    BY <2>1
  <2> QED
    BY <2>2, <2>3, <2>4
<1> QED
  BY <1>4, <1>5 DEF HasSwapped

(* Index::Insert *)
LEMMA TreeInserts ==
    ASSUME NEW t, IsTree(t), NEW x \in Keys, NEW loc \in Locations, <<x, loc>> \notin ContentOf(t)
    PROVE  /\ IsTree(Inserted(t, x, loc))
           /\ ContentOf(Inserted(t, x, loc)) = Abstract!Inserted(ContentOf(t), x, loc)
<1> DEFINE d == t.pages
           r == t.root
           f == LeafForInsert(d, r, x)
           d2 == InsertInLeaf(f.pages, f.at, x, loc)
           v == [pages |-> d2, root |-> r]
           u == SolveOverflow(v, f.at)
<1>1. t = [pages |-> d, root |-> r]
  BY TreeHas
<1>2. PICK N, level, hi : Sound(d, r, N, level, hi)
  BY DEF IsTree
<1>3. [t EXCEPT !.pages = d2] = v
  <2> HIDE DEF d, r, d2
  <2> QED
    BY <1>1
<1>4. Inserted(t, x, loc) = u
  BY <1>3 DEF Inserted
<1>5. IsReady(d, r, N, level, x, f)
  BY <1>2, PlaceIsReady
<1> HIDE DEF f
<1>6. PICK h : /\ Sound(f.pages, r, N, level, h) /\ Covers(f.pages, r, h, f.at, x)
               /\ f.at \in N /\ level[f.at] = 0
               /\ \A k, l : Paired(f.pages, LeafEntries(f.pages, N), k, l)
                              <=> Paired(d, LeafEntries(d, N), k, l)
  BY <1>5 DEF IsReady
<1> DEFINE d1 == f.pages
           p == f.at
           L == Known(d1, N, x) \union {loc}
<1>7. Sound(d1, r, N, level, h) /\ Covers(d1, r, h, p, x) /\ p \in N /\ level[p] = 0
      /\ \A k, l : Paired(d1, LeafEntries(d1, N), k, l) <=> Paired(d, LeafEntries(d, N), k, l)
  BY <1>6
<1>8. Known(d1, N, x) = Known(d, N, x)
  BY <1>7 DEF Known
<1>9. loc \notin Known(d1, N, x)
  <2>1. Paired(d, LeafEntries(d, N), x, loc) => <<x, loc>> \in ContentOf(t)
    BY <1>2, ContentIs, Zenon
  <2> QED
    BY <1>8, <2>1 DEF Known
<1>10. d2 = InsertInLeaf(d1, p, x, loc) /\ v = [pages |-> d2, root |-> r]
       /\ u = SolveOverflow(v, p) /\ L = Known(d1, N, x) \union {loc}
  OBVIOUS
<1> HIDE DEF d1, p, L, d2, v, u
<1>11. PICK n \in {Size(d1[p]), Size(d1[p]) + 1} : HasBecome(d1, d2, r, N, level, h, p, n, x, L)
  BY <1>7, <1>9, <1>10, LeafInserts
<1>12. IsTree(u) /\ HasPairs(d1, N, x, L, u)
  BY <1>7, <1>10, <1>11, SolvedInserts, Zenon
<1>13. HasPairs(d, N, x, L, u)
  BY <1>7, <1>12, Zenon DEF HasPairs
<1>14. L \in SUBSET Locations /\ L = Known(d, N, x) \union {loc}
  BY <1>8, <1>10 DEF Known
<1>15. /\ ContentOf(u) = {pair \in ContentOf(t) : pair[1] # x} \union ({x} \X L)
       /\ Known(d, N, x) = {l \in Locations : <<x, l>> \in ContentOf(t)}
  <2>1. HasSwapped(t, N, x, L, u)
    BY <1>2, <1>12, <1>13, <1>14, PairsAre, Zenon
  <2> QED
    BY <2>1 DEF HasSwapped
<1>16. ContentOf(u) = ContentOf(t) \union {<<x, loc>>}
  <2>1. ContentOf(t) \subseteq Keys \X Locations
    BY TreeHas
  <2> DEFINE C == ContentOf(t)
  <2> HIDE DEF C
  <2>2. C \subseteq Keys \X Locations
    BY <2>1 DEF C
  <2>3. ({pair \in C : pair[1] # x} \union ({x} \X L)) = C \union {<<x, loc>>}
    <3>1. L = {l \in Locations : <<x, l>> \in C} \union {loc}
      BY <1>14, <1>15 DEF C
    <3>2. \A pair \in C : \E k \in Keys, l \in Locations : pair = <<k, l>>
      BY <2>2
    <3> HIDE DEF L
    <3> QED
      BY <3>1, <3>2
  <2> QED
    BY <1>15, <2>3 DEF C
<1> QED
  BY <1>4, <1>12, <1>16 DEF Abstract!Inserted

-----------------------------------------------------------------------------
(* Deletion from a leaf. *)

Distinct(s) == \A i, j \in 1..Len(s) : s[i] = s[j] => i = j

(* The sequence s without its element x at place i. *)
HasLost(S, s, x, t) ==
    /\ t \in Seq(S) /\ Len(t) + 1 = Len(s) /\ Distinct(t)
    /\ \A y : y \in Range(t) <=> y \in Range(s) /\ y # x

LEMMA OneLost ==
    ASSUME NEW S, NEW s \in Seq(S), Distinct(s), NEW i \in 1..Len(s),
           NEW t \in Seq(S), Len(t) + 1 = Len(s),
           \A j \in 1..Len(t) : t[j] = IF j < i THEN s[j] ELSE s[j+1]
    PROVE  HasLost(S, s, s[i], t)
<1>1. Len(s) \in Nat /\ Len(t) \in Nat /\ DOMAIN s = 1..Len(s) /\ DOMAIN t = 1..Len(t) /\ i \in Int
  OBVIOUS
<1>2. Distinct(t)
  <2> SUFFICES ASSUME NEW j \in 1..Len(t), NEW k \in 1..Len(t), t[j] = t[k] PROVE j = k
    BY DEF Distinct
  <2> DEFINE a == IF j < i THEN j ELSE j + 1
             b == IF k < i THEN k ELSE k + 1
  <2>1. a \in 1..Len(s) /\ b \in 1..Len(s)
    BY <1>1
  <2>2. t[j] = s[a] /\ t[k] = s[b]
    OBVIOUS
  <2>3. a = b
    <3> HIDE DEF a, b
    <3> QED
      BY <2>1, <2>2, Zenon DEF Distinct
  <2> QED
    BY <1>1, <2>3
<1>3. ASSUME NEW y \in Range(t) PROVE y \in Range(s) /\ y # s[i]
  <2>1. PICK j \in 1..Len(t) : t[j] = y
    BY <1>1 DEF Range
  <2> DEFINE a == IF j < i THEN j ELSE j + 1
  <2>2. a \in 1..Len(s) /\ a # i
    BY <1>1
  <2>3. y = s[a]
    BY <2>1
  <2> HIDE DEF a
  <2> QED
    BY <1>1, <2>2, <2>3, Zenon DEF Range, Distinct
<1>4. ASSUME NEW y \in Range(s), y # s[i] PROVE y \in Range(t)
  <2>1. PICK j \in 1..Len(s) : s[j] = y
    BY <1>1 DEF Range
  <2>2. j # i
    BY <1>4, <2>1
  <2>3. CASE j < i
    <3>1. j \in 1..Len(t) /\ t[j] = s[j]
      BY <1>1, <2>3
    <3> QED
      BY <1>1, <2>1, <3>1 DEF Range
  <2>4. CASE i < j
    <3>1. j - 1 \in 1..Len(t) /\ ~(j - 1 < i) /\ (j - 1) + 1 = j
      BY <1>1, <2>4
    <3>2. t[j-1] = s[j]
      BY <3>1
    <3> QED
      BY <1>1, <2>1, <3>1, <3>2, Zenon DEF Range
  <2> QED
    BY <1>1, <2>2, <2>3, <2>4
<1> QED
  BY <1>2, <1>3, <1>4 DEF HasLost

LEMMA LastLost ==
    ASSUME NEW S, NEW s \in Seq(S), Distinct(s), s # << >>, NEW t, t = Front(s), NEW x, x = Last(s)
    PROVE  HasLost(S, s, x, t) /\ x \in Range(s)
<1>1. Len(s) \in Nat \ {0} /\ Len(s) \in 1..Len(s) /\ DOMAIN s = 1..Len(s)
  OBVIOUS
<1>2. t \in Seq(S) /\ Len(t) + 1 = Len(s) /\ \A j \in 1..Len(t) : t[j] = s[j] /\ j < Len(s)
  BY <1>1 DEF Front
<1>3. HasLost(S, s, s[Len(s)], t)
  BY <1>1, <1>2, OneLost
<1> QED
  BY <1>1, <1>3 DEF Last, Range

LEMMA FirstLost ==
    ASSUME NEW S, NEW s \in Seq(S), Distinct(s), NEW x \in Range(s), NEW t, t = RemoveFirst(s, x)
    PROVE  HasLost(S, s, x, t)
<1> DEFINE I == {i \in 1..Len(s) : s[i] = x}
           i == Min(I)
<1>1. Len(s) \in Nat /\ DOMAIN s = 1..Len(s)
  OBVIOUS
<1>2. I # {} /\ I \in SUBSET Nat
  BY <1>1 DEF Range
<1>3. i \in I
  <2> HIDE DEF I
  <2> QED
    BY <1>2, LeastChosen DEF Min
<1>4. t = RemoveAt(s, i)
  BY <1>2 DEF RemoveFirst, SelectInSeq
<1> HIDE DEF i
<1>5. i \in 1..Len(s) /\ s[i] = x
  BY <1>3
<1> DEFINE a == SubSeq(s, 1, i - 1)
           b == SubSeq(s, i + 1, Len(s))
<1>6. a \in Seq(S) /\ Len(a) = i - 1 /\ \A j \in 1..i-1 : a[j] = s[j]
  BY <1>1, <1>5
<1>7. b \in Seq(S) /\ Len(b) = Len(s) - i /\ \A j \in 1..Len(s)-i : b[j] = s[i+j]
  <2>1. b \in Seq(S)
    BY <1>1, <1>5
  <2>2. Len(b) = Len(s) - i
    <3>1. /\ i + 1 \in Int /\ Len(s) \in Int /\ \A j \in i+1..Len(s) : s[j] \in S
          /\ i + 1 <= Len(s) => Len(s) - (i + 1) + 1 = Len(s) - i
          /\ ~(i + 1 <= Len(s)) => Len(s) - i = 0
      <4>1. \A j \in i+1..Len(s) : j \in 1..Len(s)
        BY <1>1, <1>5
      <4>2. \A j \in 1..Len(s) : s[j] \in S
        OBVIOUS
      <4>3. i \in Int /\ i <= Len(s) /\ Len(s) \in Int
        BY <1>1, <1>5
      <4> QED
        BY <4>1, <4>2, <4>3
    <3>2. Len(b) = IF i + 1 <= Len(s) THEN Len(s) - (i + 1) + 1 ELSE 0
      BY <3>1, SubSeqProperties
    <3> QED
      BY <3>1, <3>2
  <2>3. ASSUME NEW j \in 1..Len(s)-i PROVE b[j] = s[i+j]
    BY <1>1, <1>5
  <2> QED
    BY <2>1, <2>2, <2>3
<1>8. t = a \o b
  BY <1>4 DEF RemoveAt
<1> HIDE DEF a, b
<1>9. t \in Seq(S) /\ Len(t) = Len(a) + Len(b)
      /\ \A j \in 1..Len(t) : t[j] = IF j <= Len(a) THEN a[j] ELSE b[j - Len(a)]
  <2>1. Len(a) \in Nat /\ Len(b) \in Nat
    BY <1>6, <1>7
  <2>2. t \in Seq(S) /\ Len(t) = Len(a) + Len(b)
    <3>1. a \in Seq(S) /\ b \in Seq(S)
      BY <1>6, <1>7
    <3>2. a \o b \in Seq(S) /\ Len(a \o b) = Len(a) + Len(b)
      BY <3>1, ConcatProperties
    <3> QED
      BY <1>8, <3>2
  <2>3. ASSUME NEW j \in 1..Len(a) + Len(b)
        PROVE  t[j] = IF j <= Len(a) THEN a[j] ELSE b[j - Len(a)]
    BY <1>6, <1>7, <1>8, <2>1
  <2> QED
    BY <2>2, <2>3
<1>10. \A j \in 1..Len(t) : t[j] = IF j < i THEN s[j] ELSE s[j+1]
  <2> TAKE j \in 1..Len(t)
  <2>1. CASE j < i
    BY <1>1, <1>5, <1>6, <1>9, <2>1
  <2>2. CASE ~(j < i)
    <3>1. j - (i - 1) \in 1..Len(s)-i /\ i + (j - (i - 1)) = j + 1 /\ ~(j <= Len(a)) /\ j - Len(a) = j - (i - 1)
      BY <1>1, <1>5, <1>6, <1>7, <1>9, <2>2
    <3> QED
      BY <1>7, <1>9, <2>2, <3>1
  <2> QED
    BY <2>1, <2>2
<1>11. Len(t) + 1 = Len(s)
  BY <1>1, <1>5, <1>6, <1>7, <1>9
<1> QED
  BY <1>5, <1>9, <1>10, <1>11, OneLost, Zenon

(* BPTreeNode::DeleteAllInLeaf *)
LEMMA LeafDeletesAll ==
    ASSUME NEW d, NEW r, NEW N, NEW level, NEW hi, Sound(d, r, N, level, hi), NEW x \in Int,
           NEW p \in N, level[p] = 0, IsLeafFor(d, r, N, level, hi, x, p),
           NEW rank, NEW e, NEW c, IsHolder(d, N, p, x, rank, e, c),
           NEW d2, d2 = DeleteAllInLeaf(d, p, rank), NEW n, n = Size(d[p]) - 1, NEW L, L = {}
    PROVE  HasBecome(d, d2, r, N, level, hi, p, n, x, L)
<1> DEFINE s == d[p].entries
           t == RemoveAt(s, rank)
<1>1. /\ Built(d, r, N, level, hi) /\ Shape(d, r, N, level, hi) /\ Numbered(d)
      /\ Full(d, r, N) /\ N \subseteq DOMAIN d
  BY SoundIs, Zenon
<1>2. /\ rank \in 1..Len(s) /\ e = s[rank] /\ e.key = x /\ e \in Ent(d, p)
      /\ OverflowChain(d, e.over) = c /\ c \in Seq(DOMAIN d)
      /\ \A i \in 1..Len(c) : c[i] \in DOMAIN d \ N
  BY DEF IsHolder
<1>3. s \in Seq(AnyEntry) /\ Ascending(s)
  BY <1>1, NodeEntries
<1>4. t \in Seq(AnyEntry) /\ Len(t) = Len(s) - 1 /\ Ascending(t) /\ Range(t) = Range(s) \ {e}
  <2> HIDE DEF s
  <2> QED
    BY <1>2, <1>3, EntriesKeyed, Removing
<1>5. \A f : f \in Range(t) <=> f \in Ent(d, p) /\ f.key # x
  <2>1. \A f \in Ent(d, p) : f.key = e.key => f = e
    BY <1>1, <1>2 DEF Shape, Keyed
  <2>2. \A f : f \in Range(t) <=> f \in Ent(d, p) /\ f # e
    BY <1>4 DEF Ent
  <2> HIDE DEF s, t
  <2> QED
    BY <1>2, <2>1, <2>2
<1> HIDE DEF t
<1>6. \A o : o \in Range(c) <=> \E i \in 1..Len(c) : o = c[i]
  <2>1. DOMAIN c = 1..Len(c)
    BY <1>2
  <2> QED
    BY <2>1 DEF Range
<1>7. /\ DOMAIN d2 = DOMAIN d \ Range(c) /\ d2[p] = [d[p] EXCEPT !.entries = t]
      /\ \A q \in DOMAIN d2 : q = p \/ d2[q] = d[q]
  <2>1. d2 = Restrict([d EXCEPT ![p].entries = t], DOMAIN d \ Range(c))
    BY <1>2 DEF DeleteAllInLeaf, DeletePages, t
  <2>2. p \in DOMAIN d \ Range(c)
    BY <1>1, <1>2, <1>6
  <2> QED
    BY <2>1, <2>2 DEF Restrict
<1>8. Numbered(d2)
  BY <1>1, <1>7, FS_Subset DEF Numbered
<1>9. N \subseteq DOMAIN d2
  BY <1>1, <1>2, <1>6, <1>7
<1>10. IsLeafChange(d, d2, r, N, level, hi, p, t)
  <2>1. \A f \in Range(t) : Covers(d, r, hi, p, f.key)
    <3>1. \A f \in Ent(d, p) : Covers(d, r, hi, p, f.key)
      BY <1>1, KeysAreCovered
    <3> QED
      BY <1>5, <3>1
  <2>2. p # r => \E f \in Ent(d, p), g \in Range(t) : f.key = g.key
    <3> SUFFICES ASSUME p # r PROVE Range(t) # {}
      BY <1>5
    <3>1. Size(d[p]) >= Half(d[p]) /\ Half(d[p]) \in Nat /\ Half(d[p]) >= 2 /\ Size(d[p]) \in Nat
      BY <1>1, Sizes DEF Full, Fits
    <3>2. Len(t) >= 1 /\ Len(t) \in Nat
      BY <1>4, <3>1 DEF Size
    <3>3. 1 \in DOMAIN t
      BY <1>4, <3>2
    <3> QED
      BY <3>3 DEF Range
  <2>3. IsFiniteSet(DOMAIN d2) /\ DOMAIN d2 \subseteq Int
    BY <1>8 DEF Numbered
  <2> QED
    BY <1>4, <1>7, <1>9, <2>1, <2>2, <2>3 DEF IsLeafChange
<1>11. \A o : OwnedBy(d, N, x, o) <=> o \in Range(c)
  BY <1>1, <1>6, HolderOwns
<1>12. IsEdit(d, d2, r, N, level, hi, p, t, x, {})
  <2>1. \A o \in DOMAIN d \ N : ~OwnedBy(d, N, x, o) => o \in DOMAIN d2 /\ d2[o] = d[o]
    BY <1>7, <1>11
  <2>2. \A o \in DOMAIN d2 \ N : o \in DOMAIN d /\ ~OwnedBy(d, N, x, o)
    BY <1>7, <1>11
  <2> QED
    BY <1>5, <1>10, <2>1, <2>2 DEF IsEdit
<1>13. HasEdited(d, d2, r, N, level, hi, p, n, x, {})
  <2>1. HasEdited(d, d2, r, N, level, hi, p, Len(t), x, {})
    BY <1>12, Editing
  <2>2. Len(t) = n
    BY <1>4 DEF Size
  <2> QED
    BY <2>1, <2>2
<1>14. Holding(d2, {}, L)
  BY DEF Holding
<1> QED
  BY <1>13, <1>14, Becoming

(* A page of the chain loses a location, and the entry has perhaps got it. *)
IsPageLoss(d, d2, p, rank, e, c, k, l, e2) ==
    /\ DOMAIN d2 = DOMAIN d /\ k \in 1..Len(c)
    /\ \E v : /\ HasLost(Locations, d[c[k]].values, l, v)
              /\ d2[c[k]] = [d[c[k]] EXCEPT !.values = v]
    /\ \A q \in DOMAIN d : q = p \/ q = c[k] \/ d2[q] = d[q]
    /\ HasReplaced(d[p], rank, e2, d2[p])
    /\ e2 \in AnyEntry /\ e2.key = e.key /\ e2.over = e.over /\ e2.child \in {e.child, l}
    /\ l \in Range(d[c[k]].values)

(* What the key has lost by that. *)
IsLost(e, e2, l, lost) == lost = IF e2.child = l THEN e.child ELSE l

LEMMA PageLoses ==
    ASSUME NEW d, NEW r, NEW N, NEW level, NEW hi, Sound(d, r, N, level, hi), NEW x \in Int,
           NEW p \in N, level[p] = 0, IsLeafFor(d, r, N, level, hi, x, p),
           NEW rank, NEW e, NEW c, IsHolder(d, N, p, x, rank, e, c),
           NEW d2, NEW k, NEW l, NEW e2, IsPageLoss(d, d2, p, rank, e, c, k, l, e2),
           NEW lost, IsLost(e, e2, l, lost), NEW L, L = Known(d, N, x) \ {lost}
    PROVE  HasBecome(d, d2, r, N, level, hi, p, Size(d[p]), x, L)
<1>1. Numbered(d)
  BY SoundIs, Zenon
<1>2. /\ k \in 1..Len(c) /\ l \in Range(d[c[k]].values) /\ e2.child \in {e.child, l}
      /\ DOMAIN d2 = DOMAIN d
  BY DEF IsPageLoss
<1>3. PICK v : /\ HasLost(Locations, d[c[k]].values, l, v)
               /\ d2[c[k]] = [d[c[k]] EXCEPT !.values = v]
  BY DEF IsPageLoss
<1>4. HasChain(d, e, c) /\ e.child \in Locations
      /\ \A i \in 1..Len(c) : FilledPage(d[c[i]]) /\ e.child \notin Range(d[c[i]].values)
  <2>1. HasChain(d, e, c)
    BY DEF IsHolder
  <2> QED
    BY <2>1, Zenon DEF HasChain
<1>5. \A i, j \in 1..Len(c) : \A m \in Range(d[c[i]].values) : m \in Range(d[c[j]].values) => i = j
  BY <1>4, Zenon DEF HasChain
<1>6. /\ d[c[k]].values \in Seq(Locations) /\ Range(d[c[k]].values) \subseteq Locations
      /\ Len(d[c[k]].values) <= OverflowCap /\ Len(d[c[k]].values) \in Nat
  BY <1>2, <1>4, RangeWithin DEF FilledPage, AnyPage
<1>7. /\ v \in Seq(Locations) /\ Len(v) + 1 = Len(d[c[k]].values) /\ Distinct(v)
      /\ \A m : m \in Range(v) <=> m \in Range(d[c[k]].values) /\ m # l
  BY <1>3 DEF HasLost
<1>8. l # e.child /\ l \in Locations /\ \A j \in 1..Len(c) \ {k} : l \notin Range(d[c[j]].values)
  BY <1>2, <1>4, <1>5, <1>6, Zenon
<1>9. IsPageChange(d, d2, p, rank, e, c, k, v, e2)
  <2>1. e2.child \in Locations /\ e2.child \notin Range(v)
    BY <1>2, <1>4, <1>7, <1>8
  <2>2. Len(v) <= OverflowCap
    <3>1. Len(v) \in Nat /\ OverflowCap \in Nat
      BY <1>7, OverflowCapAssumption
    <3> QED
      BY <1>6, <1>7, <3>1
  <2>3. \A j \in 1..Len(c) \ {k} : /\ e2.child \notin Range(d[c[j]].values)
                                   /\ \A m \in Range(v) : m \notin Range(d[c[j]].values)
    BY <1>2, <1>4, <1>5, <1>7, <1>8, Zenon
  <2>4. /\ DOMAIN d2 = DOMAIN d /\ k \in 1..Len(c) /\ d2[c[k]] = [d[c[k]] EXCEPT !.values = v]
        /\ \A q \in DOMAIN d : q = p \/ q = c[k] \/ d2[q] = d[q]
        /\ HasReplaced(d[p], rank, e2, d2[p])
        /\ e2 \in AnyEntry /\ e2.key = e.key /\ e2.over = e.over
    BY <1>3 DEF IsPageLoss
  <2>5. /\ v \in Seq(Locations) /\ \A i, j \in 1..Len(v) : v[i] = v[j] => i = j
    BY <1>7 DEF Distinct
  <2> QED
    BY <2>1, <2>2, <2>3, <2>4, <2>5 DEF IsPageChange, HasReplaced
<1>10. HasEdited(d, d2, r, N, level, hi, p, Size(d[p]), x, {e2}) /\ PageLocations(d, d2, e2, c, k, v)
  BY <1>9, PageChanges, Zenon
<1>11. Holding(d2, {e2}, L)
  <2> SUFFICES ASSUME NEW m PROVE m \in LocationsOf(d2, e2) <=> m \in L
    BY DEF Holding
  <2>1. m \in Known(d, N, x) <=> m = e.child \/ \E i \in 1..Len(c) : m \in Range(d[c[i]].values)
    BY <1>1, HolderKnows
  <2>2. m \in LocationsOf(d2, e2)
          <=> \/ m = e2.child \/ m \in Range(v)
              \/ \E j \in 1..Len(c) \ {k} : m \in Range(d[c[j]].values)
    BY <1>10 DEF PageLocations
  <2>3. CASE e2.child = l
    <3>1. lost = e.child /\ \A i \in 1..Len(c) : e.child \notin Range(d[c[i]].values)
      BY <1>4, <2>3 DEF IsLost
    <3>2. m \in L <=> \E i \in 1..Len(c) : m \in Range(d[c[i]].values)
      BY <2>1, <3>1
    <3> QED
      BY <1>2, <1>7, <2>2, <2>3, <3>2
  <2>4. CASE e2.child # l
    <3>1. lost = l /\ e2.child = e.child
      BY <1>2, <2>4 DEF IsLost
    <3>2. m \in L <=> m # l /\ (m = e.child \/ \E i \in 1..Len(c) : m \in Range(d[c[i]].values))
      BY <2>1, <3>1
    <3> QED
      BY <1>2, <1>7, <1>8, <2>2, <3>1, <3>2
  <2> QED
    BY <2>3, <2>4
<1> QED
  BY <1>10, <1>11, Becoming

(* Nothing has changed. *)
LEMMA NothingLost ==
    ASSUME NEW d, NEW r, NEW N, NEW level, NEW hi, Sound(d, r, N, level, hi), NEW x,
           NEW p, NEW rank, NEW e, NEW c, IsHolder(d, N, p, x, rank, e, c),
           NEW L, L = Known(d, N, x)
    PROVE  HasBecome(d, d, r, N, level, hi, p, Size(d[p]), x, L)
<1>1. /\ Built(d, r, N, level, hi) /\ Numbered(d)
      /\ Filled(d, LeafEntries(d, N), DOMAIN d \ N)
  BY SoundIs, Zenon
<1>2. ASSUME NEW l PROVE Paired(d, LeafEntries(d, N), x, l) <=> l \in L
  <2>1. Paired(d, LeafEntries(d, N), x, l)
          <=> l = e.child \/ \E i \in 1..Len(c) : l \in Range(d[c[i]].values)
    BY <1>1, HolderOwns
  <2>2. l \in Known(d, N, x) <=> l = e.child \/ \E i \in 1..Len(c) : l \in Range(d[c[i]].values)
    BY <1>1, HolderKnows
  <2> QED
    BY <2>1, <2>2
<1> QED
  BY <1>1, <1>2 DEF HasBecome

(* BPTreeNode::DeleteInLeaf takes the location away. *)
HasDeleted(d, d2, r, N, level, hi, p, x, L) ==
    \E n \in {Size(d[p]) - 1, Size(d[p])} : HasBecome(d, d2, r, N, level, hi, p, n, x, L)

LEMMA LeafDeletes ==
    ASSUME NEW d, NEW r, NEW N, NEW level, NEW hi, Sound(d, r, N, level, hi), NEW x \in Int,
           NEW p \in N, level[p] = 0, IsLeafFor(d, r, N, level, hi, x, p),
           NEW rank, NEW e, NEW c, IsHolder(d, N, p, x, rank, e, c), NEW loc,
           NEW d2, d2 = DeleteInLeaf(d, p, rank, loc), NEW L, L = Known(d, N, x) \ {loc}
    PROVE  HasDeleted(d, d2, r, N, level, hi, p, x, L)
<1> DEFINE filled == {i \in DOMAIN c : d[c[i]].values # << >>}
           having == {i \in DOMAIN c : loc \in Range(d[c[i]].values)}
<1>1. Built(d, r, N, level, hi) /\ Numbered(d) /\ N \subseteq DOMAIN d
  BY SoundIs, Zenon
<1>2. /\ rank \in 1..Len(d[p].entries) /\ e = d[p].entries[rank] /\ e \in AnyEntry
      /\ OverflowChain(d, e.over) = c /\ c \in Seq(DOMAIN d) /\ HasChain(d, e, c)
      /\ \A i \in 1..Len(c) : c[i] \in DOMAIN d \ N
  BY DEF IsHolder
<1>3. e.child \in Locations /\ \A i \in 1..Len(c) : FilledPage(d[c[i]]) /\ e.child \notin Range(d[c[i]].values)
  BY <1>2 DEF HasChain
<1>4. DOMAIN c = 1..Len(c) /\ Len(c) \in Nat
  BY <1>2
<1>5. \A i \in 1..Len(c) : d[c[i]].values \in Seq(Locations) /\ Distinct(d[c[i]].values)
  BY <1>3 DEF FilledPage, AnyPage, Distinct
<1>6. d[p] \in AnyNode /\ p \in DOMAIN d
  BY <1>1 DEF Built, Plain
<1>7. \A l : l \in Known(d, N, x) <=> l = e.child \/ \E i \in 1..Len(c) : l \in Range(d[c[i]].values)
  BY <1>1, HolderKnows
<1>8. HasReplaced(d[p], rank, e, d[p])
  BY <1>2, <1>6, SameEntry
<1>9. d2 = IF e.child # loc
           THEN IF having = {} THEN d
                ELSE [d EXCEPT ![c[Min(having)]].values = RemoveFirst(@, loc)]
           ELSE IF filled = {}
           THEN DeleteAllInLeaf(d, p, rank)
           ELSE [d EXCEPT ![p].entries[rank].child = Last(d[c[Min(filled)]].values),
                          ![c[Min(filled)]].values = Front(@)]
  BY <1>2, Zenon DEF DeleteInLeaf
<1>10. CASE e.child # loc /\ having = {}
  <2>1. L = Known(d, N, x)
    BY <1>4, <1>7, <1>10
  <2>2. HasBecome(d, d, r, N, level, hi, p, Size(d[p]), x, L)
    BY <2>1, NothingLost
  <2> QED
    BY <1>9, <1>10, <2>2 DEF HasDeleted
<1>11. CASE e.child # loc /\ having # {}
  <2> DEFINE k == Min(having)
  <2>1. k \in having
    <3>1. having \in SUBSET Nat
      BY <1>4
    <3> HIDE DEF having
    <3> QED
      BY <1>11, <3>1, LeastChosen DEF Min
  <2>2. d2 = [d EXCEPT ![c[k]].values = RemoveFirst(@, loc)]
    BY <1>9, <1>11, Zenon
  <2> HIDE DEF k
  <2>3. k \in 1..Len(c) /\ loc \in Range(d[c[k]].values)
    BY <1>4, <2>1
  <2> DEFINE w == d[c[k]].values
             v == RemoveFirst(w, loc)
  <2>4. HasLost(Locations, w, loc, v)
    <3>1. w \in Seq(Locations) /\ Distinct(w) /\ loc \in Range(w)
      BY <1>5, <2>3
    <3> HIDE DEF w
    <3> QED
      BY <3>1, FirstLost
  <2>5. /\ DOMAIN d2 = DOMAIN d /\ d2[c[k]] = [d[c[k]] EXCEPT !.values = v]
        /\ \A q \in DOMAIN d : q = c[k] \/ d2[q] = d[q]
    BY <1>2, <2>2, <2>3
  <2>6. HasReplaced(d[p], rank, e, d2[p])
    <3>1. c[k] # p
      BY <1>2, <2>3
    <3> QED
      BY <1>6, <1>8, <2>5, <3>1
  <2>7. IsPageLoss(d, d2, p, rank, e, c, k, loc, e)
    <3> HIDE DEF v
    <3> QED
      BY <1>2, <2>3, <2>4, <2>5, <2>6, Zenon DEF IsPageLoss
  <2>8. IsLost(e, e, loc, loc)
    BY DEF IsLost
  <2>9. HasBecome(d, d2, r, N, level, hi, p, Size(d[p]), x, L)
    <3> HIDE DEF w, v
    <3> QED
      BY <2>7, <2>8, PageLoses, Zenon
  <2> QED
    BY <2>9 DEF HasDeleted
<1>12. CASE e.child = loc /\ filled = {}
  <2>1. d2 = DeleteAllInLeaf(d, p, rank)
    BY <1>9, <1>12
  <2>2. L = {}
    <3>1. \A i \in 1..Len(c) : Range(d[c[i]].values) = {}
      <4>1. \A i \in 1..Len(c) : d[c[i]].values = << >>
        BY <1>4, <1>12
      <4> QED
        BY <4>1 DEF Range
    <3> QED
      BY <1>7, <1>12, <3>1
  <2> DEFINE n == Size(d[p]) - 1
  <2>3. n = Size(d[p]) - 1
    OBVIOUS
  <2> HIDE DEF n
  <2>4. HasBecome(d, d2, r, N, level, hi, p, n, x, L)
    BY <2>1, <2>2, <2>3, LeafDeletesAll, Zenon
  <2> QED
    BY <2>3, <2>4 DEF HasDeleted
<1>13. CASE e.child = loc /\ filled # {}
  <2> DEFINE k == Min(filled)
  <2>1. k \in filled
    <3>1. filled \in SUBSET Nat
      BY <1>4
    <3> HIDE DEF filled
    <3> QED
      BY <1>13, <3>1, LeastChosen DEF Min
  <2> DEFINE w  == d[c[k]].values
             v  == Front(w)
             l  == Last(w)
             e2 == [e EXCEPT !.child = l]
  <2>2. d2 = [d EXCEPT ![p].entries[rank].child = l, ![c[k]].values = Front(@)]
    BY <1>9, <1>13, Zenon
  <2> HIDE DEF k
  <2>3. k \in 1..Len(c) /\ w # << >>
    BY <1>4, <2>1
  <2>4. HasLost(Locations, w, l, v) /\ l \in Range(w)
    <3>1. w \in Seq(Locations) /\ Distinct(w) /\ w # << >>
      BY <1>5, <2>3
    <3> HIDE DEF w
    <3> QED
      BY <3>1, LastLost
  <2>5. c[k] # p /\ c[k] \in DOMAIN d /\ e.child \notin Range(w)
    BY <1>2, <1>3, <2>3
  <2> DEFINE t == [d[p].entries EXCEPT ![rank] = e2]
  <2>6. /\ DOMAIN d2 = DOMAIN d /\ d2[c[k]] = [d[c[k]] EXCEPT !.values = v]
        /\ \A q \in DOMAIN d : q = p \/ q = c[k] \/ d2[q] = d[q]
        /\ d2[p] = [d[p] EXCEPT !.entries = t]
    <3> HIDE DEF l
    <3> QED
      BY <1>2, <1>6, <2>2, <2>5, Zenon
  <2>7. HasReplaced(d[p], rank, e2, d2[p])
    BY <2>6, Zenon DEF HasReplaced, IsReplaced
  <2>8. l \in Locations
    BY <1>5, <2>3, <2>4, RangeWithin
  <2>9. e2 \in AnyEntry /\ e2.key = e.key /\ e2.child = l /\ e2.over = e.over
    <3> HIDE DEF l
    <3> QED
      BY <1>2, <2>8 DEF AnyEntry
  <2> HIDE DEF v, l, e2, t
  <2>10. IsPageLoss(d, d2, p, rank, e, c, k, l, e2)
    BY <2>3, <2>4, <2>6, <2>7, <2>9 DEF IsPageLoss
  <2>11. IsLost(e, e2, l, loc)
    BY <1>13, <2>9 DEF IsLost
  <2>12. HasBecome(d, d2, r, N, level, hi, p, Size(d[p]), x, L)
    <3> HIDE DEF w
    <3> QED
      BY <2>10, <2>11, PageLoses, Zenon
  <2> QED
    BY <2>12 DEF HasDeleted
<1> QED
  BY <1>10, <1>11, <1>12, <1>13

-----------------------------------------------------------------------------
(* Deletion from a tree. *)

LEMMA SolvedDeletes ==
    ASSUME NEW d, NEW r, NEW N, NEW level, NEW hi, Sound(d, r, N, level, hi),
           NEW p \in N, level[p] = 0, NEW x, NEW L, NEW n \in {Size(d[p]) - 1, Size(d[p])},
           NEW d2, HasBecome(d, d2, r, N, level, hi, p, n, x, L),
           NEW t, t = [pages |-> d2, root |-> r]
    PROVE  IsTree(SolveUnderflow(t, p)) /\ HasPairs(d, N, x, L, SolveUnderflow(t, p))
<1>1. Built(d, r, N, level, hi) /\ Full(d, r, N)
  BY SoundIs, Zenon
<1>2. /\ Built(d2, r, N, level, hi) /\ Numbered(d2)
      /\ Filled(d2, LeafEntries(d2, N), DOMAIN d2 \ N)
      /\ \A k, l : Paired(d2, LeafEntries(d2, N), k, l)
                     <=> IF k = x THEN l \in L ELSE Paired(d, LeafEntries(d, N), k, l)
      /\ \A q \in N : /\ d2[q].leaf = d[q].leaf
                      /\ Size(d2[q]) = IF q = p THEN n ELSE Size(d[q])
  BY DEF HasBecome
<1>3. \A q \in N : Cap(d2[q]) = Cap(d[q]) /\ Half(d2[q]) = Half(d[q])
  BY <1>2 DEF Cap, Half
<1>4. \A q \in N \ {p} : Fits(d2, r, q)
  BY <1>1, <1>2, <1>3 DEF Full, Fits
<1>5. Shrunk(d2, r, p)
  <2>1. Fits(d, r, p) /\ Size(d[p]) \in Nat /\ Cap(d[p]) \in Nat /\ Half(d[p]) \in Nat
    BY <1>1, Sizes DEF Full
  <2>2. d[p].leaf
    BY <1>1 DEF Built, Shape, Ranked
  <2> QED
    BY <1>2, <1>3, <2>1, <2>2 DEF Fits, Shrunk
<1> DEFINE u == SolveUnderflow(t, p)
<1>6. Solved(d2, N, u)
  BY <1>2, <1>4, <1>5, UnderflowSolved
<1> HIDE DEF u
<1>7. IsTree(u) /\ \A k, l : <<k, l>> \in ContentOf(u) <=> Paired(d2, LeafEntries(d2, N), k, l)
  BY <1>2, <1>6, SolvedStays
<1> QED
  BY <1>2, <1>7 DEF HasPairs, u

(* A key that is in no leaf is in no pair. *)
LEMMA KeyMissing ==
    ASSUME NEW t, NEW N, NEW level, NEW hi, Sound(t.pages, t.root, N, level, hi), NEW x,
           \A e \in LeafEntries(t.pages, N) : e.key # x
    PROVE  \A pair \in ContentOf(t) : pair[1] # x
<1>1. /\ ContentOf(t) \subseteq Keys \X Locations
      /\ \A k, l : <<k, l>> \in ContentOf(t) <=> Paired(t.pages, LeafEntries(t.pages, N), k, l)
  BY ContentIs, Zenon
<1>2. \A l : <<x, l>> \notin ContentOf(t)
  BY <1>1 DEF Paired
<1> TAKE pair \in ContentOf(t)
<1>3. PICK k \in Keys, l \in Locations : pair = <<k, l>>
  BY <1>1
<1> QED
  BY <1>2, <1>3

(* The leaf found for a key of the tree t, and the key's place in it.      *)
HasLeaf(t, N, level, hi, x, p) ==
    /\ Sound(t.pages, t.root, N, level, hi)
    /\ p \in N /\ level[p] = 0 /\ IsLeafFor(t.pages, t.root, N, level, hi, x, p)

LEMMA LeafIsThere ==
    ASSUME NEW t, IsTree(t), NEW x \in Int
    PROVE  \E N, level, hi : HasLeaf(t, N, level, hi, x, LeafOf(t.pages, t.root, x))
<1> DEFINE p == LeafOf(t.pages, t.root, x)
<1>1. PICK N, level, hi : Sound(t.pages, t.root, N, level, hi)
  BY DEF IsTree
<1>2. Built(t.pages, t.root, N, level, hi) /\ Full(t.pages, t.root, N)
  BY <1>1, SoundIs, Zenon
<1>3. p \in N /\ IsLeafFor(t.pages, t.root, N, level, hi, x, p)
  BY <1>2, LeafIsFound
<1> QED
  BY <1>1, <1>3 DEF HasLeaf, IsLeafFor

(* Index::Delete of a pair *)
LEMMA TreeDeletesPair ==
    ASSUME NEW t, IsTree(t), NEW x \in Keys, NEW loc \in Locations
    PROVE  /\ IsTree(PairDeleted(t, x, loc))
           /\ ContentOf(PairDeleted(t, x, loc)) = Abstract!PairDeleted(ContentOf(t), x, loc)
<1> DEFINE d == t.pages
           r == t.root
           p == LeafOf(d, r, x)
           rank == LessOrEqualBound(d[p], x)
           d2 == DeleteInLeaf(d, p, rank, loc)
           v == [pages |-> d2, root |-> r]
           C == ContentOf(t)
<1>1. t = [pages |-> d, root |-> r] /\ C \subseteq Keys \X Locations /\ x \in Int
  BY TreeHas, KeysAssumption
<1>2. PICK N, level, hi : HasLeaf(t, N, level, hi, x, p)
  BY <1>1, LeafIsThere
<1> HIDE DEF p
<1>3. Sound(d, r, N, level, hi) /\ p \in N /\ level[p] = 0 /\ IsLeafFor(d, r, N, level, hi, x, p)
  BY <1>2 DEF HasLeaf
<1>4. \/ IsKeyOf(d[p], rank, x) /\ \E c : IsHolder(d, N, p, x, rank, d[p].entries[rank], c)
      \/ ~IsKeyOf(d[p], rank, x) /\ \A e \in LeafEntries(d, N) : e.key # x
  BY <1>1, <1>3, HolderIs
<1>5. CASE ~IsKeyOf(d[p], rank, x) /\ \A e \in LeafEntries(d, N) : e.key # x
  <2>1. PairDeleted(t, x, loc) = t
    BY <1>5 DEF PairDeleted, p
  <2>2. \A pair \in C : pair[1] # x
    BY <1>3, <1>5, KeyMissing, Zenon
  <2>3. C \ {<<x, loc>>} = C
    <3> HIDE DEF C
    <3> QED
      BY <2>2
  <2> QED
    BY <2>1, <2>3 DEF Abstract!PairDeleted
<1>6. ASSUME IsKeyOf(d[p], rank, x), NEW c, IsHolder(d, N, p, x, rank, d[p].entries[rank], c)
      PROVE  /\ IsTree(PairDeleted(t, x, loc))
             /\ ContentOf(PairDeleted(t, x, loc)) = Abstract!PairDeleted(C, x, loc)
  <2> DEFINE u == SolveUnderflow(v, p)
             e == d[p].entries[rank]
             L == Known(d, N, x) \ {loc}
  <2>1. [t EXCEPT !.pages = d2] = v
    <3> HIDE DEF d, r, d2
    <3> QED
      BY <1>1
  <2>2. PairDeleted(t, x, loc) = u
    <3>1. [t EXCEPT !.pages = DeleteInLeaf(@, p, rank, loc)] = [t EXCEPT !.pages = d2]
      OBVIOUS
    <3> QED
      BY <1>6, <2>1, <3>1 DEF PairDeleted, p
  <2>3. d2 = DeleteInLeaf(d, p, rank, loc) /\ v = [pages |-> d2, root |-> r]
        /\ L = Known(d, N, x) \ {loc} /\ IsHolder(d, N, p, x, rank, e, c)
    BY <1>6
  <2> HIDE DEF L, d2, v, u, e, rank
  <2>4. PICK n \in {Size(d[p]) - 1, Size(d[p])} : HasBecome(d, d2, r, N, level, hi, p, n, x, L)
    <3>1. HasDeleted(d, d2, r, N, level, hi, p, x, L)
      BY <1>1, <1>3, <2>3, LeafDeletes
    <3> QED
      BY <3>1 DEF HasDeleted
  <2>5. IsTree(u) /\ HasPairs(d, N, x, L, u)
    BY <1>3, <2>3, <2>4, SolvedDeletes, Zenon DEF u
  <2>6. L \in SUBSET Locations
    BY <2>3 DEF Known
  <2>7. HasSwapped(t, N, x, L, u)
    BY <1>3, <2>5, <2>6, PairsAre, Zenon
  <2>8. /\ ContentOf(u) = {pair \in C : pair[1] # x} \union ({x} \X L)
        /\ L = {l \in Locations : <<x, l>> \in C} \ {loc}
    BY <2>3, <2>7 DEF HasSwapped
  <2>9. ContentOf(u) = C \ {<<x, loc>>}
    <3> HIDE DEF C
    <3>1. \A pair \in C : \E k \in Keys, l \in Locations : pair = <<k, l>>
      BY <1>1
    <3> QED
      BY <2>8, <3>1
  <2> QED
    BY <2>2, <2>5, <2>9 DEF Abstract!PairDeleted
<1> QED
  BY <1>4, <1>5, <1>6

(* Index::Delete of a key *)
LEMMA TreeDeletesKey ==
    ASSUME NEW t, IsTree(t), NEW x \in Keys
    PROVE  /\ IsTree(KeyDeleted(t, x))
           /\ ContentOf(KeyDeleted(t, x)) = Abstract!KeyDeleted(ContentOf(t), x)
<1> DEFINE d == t.pages
           r == t.root
           p == LeafOf(d, r, x)
           rank == LessOrEqualBound(d[p], x)
           d2 == DeleteAllInLeaf(d, p, rank)
           v == [pages |-> d2, root |-> r]
           C == ContentOf(t)
<1>1. t = [pages |-> d, root |-> r] /\ C \subseteq Keys \X Locations /\ x \in Int
  BY TreeHas, KeysAssumption
<1>2. PICK N, level, hi : HasLeaf(t, N, level, hi, x, p)
  BY <1>1, LeafIsThere
<1> HIDE DEF p
<1>3. Sound(d, r, N, level, hi) /\ p \in N /\ level[p] = 0 /\ IsLeafFor(d, r, N, level, hi, x, p)
  BY <1>2 DEF HasLeaf
<1>4. \/ IsKeyOf(d[p], rank, x) /\ \E c : IsHolder(d, N, p, x, rank, d[p].entries[rank], c)
      \/ ~IsKeyOf(d[p], rank, x) /\ \A e \in LeafEntries(d, N) : e.key # x
  BY <1>1, <1>3, HolderIs
<1>5. CASE ~IsKeyOf(d[p], rank, x) /\ \A e \in LeafEntries(d, N) : e.key # x
  <2>1. KeyDeleted(t, x) = t
    BY <1>5 DEF KeyDeleted, p
  <2>2. \A pair \in C : pair[1] # x
    BY <1>3, <1>5, KeyMissing, Zenon
  <2>3. {pair \in C : pair[1] # x} = C
    <3> HIDE DEF C
    <3> QED
      BY <2>2
  <2> QED
    BY <2>1, <2>3 DEF Abstract!KeyDeleted
<1>6. ASSUME IsKeyOf(d[p], rank, x), NEW c, IsHolder(d, N, p, x, rank, d[p].entries[rank], c)
      PROVE  /\ IsTree(KeyDeleted(t, x))
             /\ ContentOf(KeyDeleted(t, x)) = Abstract!KeyDeleted(C, x)
  <2> DEFINE u == SolveUnderflow(v, p)
             e == d[p].entries[rank]
             L == {}
             n == Size(d[p]) - 1
  <2>1. [t EXCEPT !.pages = d2] = v
    <3> HIDE DEF d, r, d2
    <3> QED
      BY <1>1
  <2>2. KeyDeleted(t, x) = u
    <3>1. [t EXCEPT !.pages = DeleteAllInLeaf(@, p, rank)] = [t EXCEPT !.pages = d2]
      OBVIOUS
    <3> QED
      BY <1>6, <2>1, <3>1 DEF KeyDeleted, p
  <2>3. d2 = DeleteAllInLeaf(d, p, rank) /\ v = [pages |-> d2, root |-> r]
        /\ L = {} /\ n = Size(d[p]) - 1 /\ IsHolder(d, N, p, x, rank, e, c)
    BY <1>6
  <2> HIDE DEF L, n, d2, v, u, e, rank
  <2>4. HasBecome(d, d2, r, N, level, hi, p, n, x, L)
    BY <1>1, <1>3, <2>3, LeafDeletesAll, Zenon
  <2>5. n \in {Size(d[p]) - 1, Size(d[p])}
    BY <2>3
  <2>6. IsTree(u) /\ HasPairs(d, N, x, L, u)
    BY <1>3, <2>3, <2>4, <2>5, SolvedDeletes, Zenon DEF u
  <2>7. L \in SUBSET Locations
    BY <2>3
  <2>8. HasSwapped(t, N, x, L, u)
    BY <1>3, <2>6, <2>7, PairsAre, Zenon
  <2>9. ContentOf(u) = {pair \in C : pair[1] # x} \union ({x} \X L)
    BY <2>8 DEF HasSwapped
  <2>10. ContentOf(u) = {pair \in C : pair[1] # x}
    <3> HIDE DEF C
    <3> QED
      BY <2>3, <2>9
  <2> QED
    BY <2>2, <2>6, <2>10 DEF Abstract!KeyDeleted
<1> QED
  BY <1>4, <1>5, <1>6

-----------------------------------------------------------------------------
(* Updates. *)

(* A location takes the place of another one in a sequence. *)
HasRenamed(S, s, x, y, t) ==
    /\ t \in Seq(S) /\ Len(t) = Len(s) /\ Distinct(t)
    /\ \A z : z \in Range(t) <=> z = y \/ (z \in Range(s) /\ z # x)

LEMMA Renaming ==
    ASSUME NEW S, NEW s \in Seq(S), Distinct(s), NEW i \in 1..Len(s), NEW y \in S, y \notin Range(s),
           NEW t, t = [s EXCEPT ![i] = y], NEW x, x = s[i]
    PROVE  HasRenamed(S, s, x, y, t)
<1>1. t \in Seq(S) /\ Len(t) = Len(s) /\ DOMAIN t = 1..Len(s) /\ DOMAIN s = 1..Len(s)
  OBVIOUS
<1>2. \A j \in 1..Len(s) : t[j] = IF j = i THEN y ELSE s[j]
  BY <1>1
<1>3. \A j \in 1..Len(s) : s[j] # y
  BY <1>1 DEF Range
<1>4. Distinct(t)
  BY <1>1, <1>2, <1>3 DEF Distinct
<1>5. ASSUME NEW z \in Range(t) PROVE z = y \/ (z \in Range(s) /\ z # x)
  <2>1. PICK j \in 1..Len(s) : t[j] = z
    BY <1>1 DEF Range
  <2>2. CASE j # i
    <3>1. z = s[j] /\ s[j] # s[i]
      BY <1>2, <2>1, <2>2 DEF Distinct
    <3> QED
      BY <1>1, <3>1 DEF Range
  <2> QED
    BY <1>2, <2>1, <2>2
<1>6. ASSUME NEW z \in Range(s), z # x PROVE z \in Range(t)
  <2>1. PICK j \in 1..Len(s) : s[j] = z
    BY <1>1 DEF Range
  <2>2. t[j] = z
    BY <1>2, <1>6, <2>1
  <2> QED
    BY <1>1, <2>2 DEF Range
<1>7. y \in Range(t)
  BY <1>1, <1>2 DEF Range
<1> QED
  BY <1>1, <1>4, <1>5, <1>6, <1>7, Zenon DEF HasRenamed

(* The locations K with `new' in the place of `old'. *)
Moved(K, old, new) == IF old \in K THEN (K \ {old}) \union {new} ELSE K

(* BPTreeNode::UpdateInLeaf, in a leaf that has the key. *)
LEMMA LeafUpdates ==
    ASSUME NEW d, NEW r, NEW N, NEW level, NEW hi, Sound(d, r, N, level, hi), NEW x \in Int,
           NEW p \in N, level[p] = 0, IsLeafFor(d, r, N, level, hi, x, p),
           NEW rank, rank = LowerBound(d[p], x), IsKeyOf(d[p], rank, x),
           NEW e, NEW c, IsHolder(d, N, p, x, rank, e, c),
           NEW old, NEW new \in Locations, new \notin Known(d, N, x),
           NEW d2, d2 = UpdateInLeaf(d, p, x, old, new),
           NEW L, L = Moved(Known(d, N, x), old, new)
    PROVE  HasBecome(d, d2, r, N, level, hi, p, Size(d[p]), x, L)
<1> DEFINE having == {i \in DOMAIN c : old \in Range(d[c[i]].values)}
<1>1. Built(d, r, N, level, hi) /\ Numbered(d) /\ N \subseteq DOMAIN d
  BY SoundIs, Zenon
<1>2. /\ rank \in 1..Len(d[p].entries) /\ e = d[p].entries[rank] /\ e \in AnyEntry /\ e.key = x
      /\ OverflowChain(d, e.over) = c /\ c \in Seq(DOMAIN d) /\ HasChain(d, e, c)
      /\ \A i \in 1..Len(c) : c[i] \in DOMAIN d \ N
  BY DEF IsHolder
<1>3. /\ e.child \in Locations
      /\ \A i \in 1..Len(c) : FilledPage(d[c[i]]) /\ e.child \notin Range(d[c[i]].values)
      /\ \A i, j \in 1..Len(c) : \A m \in Range(d[c[i]].values) : m \in Range(d[c[j]].values) => i = j
  BY <1>2, Zenon DEF HasChain
<1>4. DOMAIN c = 1..Len(c) /\ Len(c) \in Nat
  BY <1>2
<1>5. \A i \in 1..Len(c) : /\ d[c[i]].values \in Seq(Locations) /\ Distinct(d[c[i]].values)
                           /\ Len(d[c[i]].values) <= OverflowCap
  BY <1>3 DEF FilledPage, AnyPage, Distinct
<1>6. d[p] \in AnyNode /\ p \in DOMAIN d
  BY <1>1 DEF Built, Plain
<1>7. \A l : l \in Known(d, N, x) <=> l = e.child \/ \E i \in 1..Len(c) : l \in Range(d[c[i]].values)
  BY <1>1, HolderKnows
<1>8. HasReplaced(d[p], rank, e, d[p])
  BY <1>2, <1>6, SameEntry
<1>9. new # e.child /\ \A i \in 1..Len(c) : new \notin Range(d[c[i]].values)
  BY <1>7
<1> DEFINE page == c[Min(having)]
           w == d[page].values
           place == SelectInSeq(w, LAMBDA v : v = old)
<1>10. d2 = IF e.child = old THEN [d EXCEPT ![p].entries[rank].child = new]
            ELSE IF having = {} THEN d
            ELSE [d EXCEPT ![page].values[place] = new]
  BY <1>2, Zenon DEF UpdateInLeaf
<1>11. CASE e.child = old
  <2> DEFINE e2 == [e EXCEPT !.child = new]
             t  == [d[p].entries EXCEPT ![rank] = e2]
  <2>1. d2 = [d EXCEPT ![p].entries[rank].child = new]
    BY <1>10, <1>11
  <2>2. DOMAIN d2 = DOMAIN d /\ d2[p] = [d[p] EXCEPT !.entries = t] /\ \A q \in DOMAIN d \ {p} : d2[q] = d[q]
    BY <1>2, <1>6, <2>1
  <2>3. e2 \in AnyEntry /\ e2.key = e.key /\ e2.over = e.over /\ e2.child = new
    BY <1>2 DEF AnyEntry
  <2> HIDE DEF e2
  <2>4. \A i \in 1..Len(c) : d2[c[i]] = d[c[i]]
    BY <1>2, <2>2
  <2>5. IsRefilled(d, d2, p, rank, e, c, e2)
    <3>1. \E z : IsReplaced(d[p].entries, rank, e2, z) /\ d2[p] = [d[p] EXCEPT !.entries = z]
      BY <2>2, Zenon DEF IsReplaced
    <3>2. \A i \in 1..Len(c) : /\ d2[c[i]].next = d[c[i]].next /\ FilledPage(d2[c[i]])
                               /\ e2.child \notin Range(d2[c[i]].values)
      BY <1>3, <1>9, <2>3, <2>4
    <3>3. \A i, j \in 1..Len(c) : \A l \in Range(d2[c[i]].values) :
             l \in Range(d2[c[j]].values) => i = j
      BY <1>3, <2>4, Zenon
    <3>4. \A q \in DOMAIN d : q = p \/ (\E i \in 1..Len(c) : q = c[i]) \/ d2[q] = d[q]
      BY <2>2
    <3> HIDE DEF t
    <3> QED
      BY <2>2, <2>3, <3>1, <3>2, <3>3, <3>4 DEF IsRefilled
  <2>6. HasEdited(d, d2, r, N, level, hi, p, Size(d[p]), x, {e2}) /\ LocationsAre(d2, e2, c)
    BY <2>5, ChainRefilled, Zenon
  <2>7. Holding(d2, {e2}, L)
    <3> SUFFICES ASSUME NEW l PROVE l \in LocationsOf(d2, e2) <=> l \in L
      BY DEF Holding
    <3>1. old \in Known(d, N, x) /\ (\A i \in 1..Len(c) : old \notin Range(d[c[i]].values))
      BY <1>3, <1>7, <1>11
    <3>2. L = (Known(d, N, x) \ {old}) \union {new}
      BY <3>1 DEF Moved
    <3>3. l \in LocationsOf(d2, e2) <=> l = new \/ \E i \in 1..Len(c) : l \in Range(d[c[i]].values)
      BY <2>3, <2>4, <2>6 DEF LocationsAre
    <3> QED
      BY <1>7, <1>11, <3>1, <3>2, <3>3
  <2> QED
    BY <2>6, <2>7, Becoming
<1>12. CASE e.child # old /\ having = {}
  <2>1. d2 = d
    BY <1>10, <1>12
  <2>2. old \notin Known(d, N, x)
    BY <1>4, <1>7, <1>12
  <2>3. L = Known(d, N, x)
    BY <2>2 DEF Moved
  <2>4. HasBecome(d, d, r, N, level, hi, p, Size(d[p]), x, L)
    BY <2>3, NothingLost
  <2> QED
    BY <2>1, <2>4
<1>13. CASE e.child # old /\ having # {}
  <2> DEFINE k == Min(having)
  <2>1. k \in having
    <3>1. having \in SUBSET Nat
      BY <1>4
    <3> HIDE DEF having
    <3> QED
      BY <1>13, <3>1, LeastChosen DEF Min
  <2>2. d2 = [d EXCEPT ![c[k]].values[place] = new]
    BY <1>10, <1>13, Zenon
  <2>3. k \in 1..Len(c) /\ old \in Range(w)
    BY <1>4, <2>1
  <2> HIDE DEF k
  <2>4. w \in Seq(Locations) /\ Distinct(w) /\ Len(w) <= OverflowCap /\ w = d[c[k]].values
    BY <1>5, <2>3, Zenon DEF k
  <2>5. place \in 1..Len(w) /\ w[place] = old
    <3> DEFINE I == {i \in 1..Len(w) : w[i] = old}
    <3>1. place = IF I # {} THEN Min(I) ELSE 0
      BY DEF SelectInSeq
    <3> HIDE DEF w, place
    <3>2. I # {} /\ I \in SUBSET Nat
      BY <2>3, <2>4 DEF Range
    <3>3. Min(I) \in I
      <4> HIDE DEF I
      <4> QED
        BY <3>2, LeastChosen DEF Min
    <3> QED
      BY <3>1, <3>2, <3>3
  <2> DEFINE v == [w EXCEPT ![place] = new]
  <2> HIDE DEF place, page, w
  <2>6. HasRenamed(Locations, w, old, new, v)
    <3>1. new \notin Range(w)
      BY <1>9, <2>3, <2>4
    <3> QED
      BY <2>4, <2>5, <3>1, Renaming
  <2>7. c[k] \in DOMAIN d /\ c[k] # p
    BY <1>2, <2>3
  <2>8. /\ DOMAIN d2 = DOMAIN d /\ d2[c[k]] = [d[c[k]] EXCEPT !.values = v]
        /\ \A q \in DOMAIN d : q = c[k] \/ d2[q] = d[q]
    BY <2>2, <2>4, <2>7
  <2>9. HasReplaced(d[p], rank, e, d2[p])
    BY <1>6, <1>8, <2>7, <2>8
  <2>10. /\ v \in Seq(Locations) /\ Len(v) = Len(w) /\ Distinct(v)
         /\ \A z : z \in Range(v) <=> z = new \/ (z \in Range(w) /\ z # old)
    BY <2>6, Zenon DEF HasRenamed
  <2> HIDE DEF v
  <2>11. IsPageChange(d, d2, p, rank, e, c, k, v, e)
    <3>1. e.child \notin Range(v)
      BY <1>3, <1>9, <2>3, <2>4, <2>10
    <3>2. \A j \in 1..Len(c) \ {k} : /\ e.child \notin Range(d[c[j]].values)
                                     /\ \A m \in Range(v) : m \notin Range(d[c[j]].values)
      BY <1>3, <1>9, <2>3, <2>4, <2>10, Zenon
    <3>3. \A i, j \in 1..Len(v) : v[i] = v[j] => i = j
      BY <2>10 DEF Distinct
    <3> QED
      BY <1>2, <1>3, <2>3, <2>4, <2>8, <2>9, <2>10, <3>1, <3>2, <3>3, Zenon DEF IsPageChange, HasReplaced
  <2>12. HasEdited(d, d2, r, N, level, hi, p, Size(d[p]), x, {e}) /\ PageLocations(d, d2, e, c, k, v)
    BY <2>11, PageChanges, Zenon
  <2>13. Holding(d2, {e}, L)
    <3> SUFFICES ASSUME NEW l PROVE l \in LocationsOf(d2, e) <=> l \in L
      BY DEF Holding
    <3>1. old \in Known(d, N, x)
      BY <1>7, <2>3, <2>4
    <3>2. L = (Known(d, N, x) \ {old}) \union {new}
      BY <3>1 DEF Moved
    <3>3. l \in LocationsOf(d2, e)
            <=> \/ l = e.child \/ l = new \/ (l \in Range(d[c[k]].values) /\ l # old)
                \/ \E j \in 1..Len(c) \ {k} : l \in Range(d[c[j]].values)
      BY <2>4, <2>10, <2>12 DEF PageLocations
    <3>4. \A j \in 1..Len(c) \ {k} : old \notin Range(d[c[j]].values)
      BY <1>3, <2>3, <2>4, Zenon
    <3> QED
      BY <1>7, <1>13, <2>3, <3>2, <3>3, <3>4
  <2> QED
    BY <2>12, <2>13, Becoming
<1> QED
  BY <1>11, <1>12, <1>13

(* The tree stays as it is when its leaf p has as many entries as before. *)
LEMMA SameSizeStays ==
    ASSUME NEW d, NEW r, NEW N, NEW level, NEW hi, Sound(d, r, N, level, hi), NEW p, NEW x, NEW L,
           NEW d2, HasBecome(d, d2, r, N, level, hi, p, Size(d[p]), x, L),
           NEW u, u = [pages |-> d2, root |-> r]
    PROVE  IsTree(u) /\ HasPairs(d, N, x, L, u)
<1>1. Built(d, r, N, level, hi) /\ Full(d, r, N)
  BY SoundIs, Zenon
<1>2. /\ Built(d2, r, N, level, hi) /\ Numbered(d2)
      /\ Filled(d2, LeafEntries(d2, N), DOMAIN d2 \ N)
      /\ \A k, l : Paired(d2, LeafEntries(d2, N), k, l)
                     <=> IF k = x THEN l \in L ELSE Paired(d, LeafEntries(d, N), k, l)
      /\ \A q \in N : d2[q].leaf = d[q].leaf /\ Size(d2[q]) = Size(d[q])
  BY DEF HasBecome
<1>3. \A q \in N : Cap(d2[q]) = Cap(d[q]) /\ Half(d2[q]) = Half(d[q])
  BY <1>2 DEF Cap, Half
<1>4. Full(d2, r, N)
  BY <1>1, <1>2, <1>3 DEF Full, Fits
<1>5. u.pages = d2 /\ u.root = r
  OBVIOUS
<1>6. Sound(u.pages, u.root, N, level, hi)
  BY <1>2, <1>4, <1>5 DEF Sound
<1>7. \A k, l : <<k, l>> \in ContentOf(u) <=> Paired(u.pages, LeafEntries(u.pages, N), k, l)
  BY <1>6, ContentIs, Zenon
<1>8. IsTree(u)
  BY <1>5, <1>6 DEF IsTree
<1> QED
  BY <1>2, <1>5, <1>7, <1>8 DEF HasPairs

(* The leaf of Index::Update, if there is the key. *)
LEMMA EqualLeafIsThere ==
    ASSUME NEW t, IsTree(t), NEW x \in Int, NEW p, p = EqualLeafOf(t.pages, t.root, x)
    PROVE  \/ p = Null /\ \A pair \in ContentOf(t) : pair[1] # x
           \/ p # Null /\ \E N, level, hi : HasLeaf(t, N, level, hi, x, p)
<1> DEFINE d == t.pages
           r == t.root
           q == Loop(EqualStep, Search(d, r, x), Bound(d)).at
           rank == LessOrEqualBound(d[q], x)
<1>1. PICK N, level, hi : Sound(d, r, N, level, hi)
  BY DEF IsTree
<1>2. Built(d, r, N, level, hi) /\ Full(d, r, N) /\ Null \notin N
  BY <1>1, SoundIs, Zenon DEF Shape, Ranked
<1>3. IsLeafFor(d, r, N, level, hi, x, q)
  BY <1>2, EqualSearchEnds
<1>4. p = IF q = Null \/ ~IsKeyOf(d[q], rank, x) THEN Null ELSE q
  BY DEF EqualLeafOf
<1> HIDE DEF q
<1>5. q \in N \union {Null} /\ (q \in N => level[q] = 0)
  BY <1>3 DEF IsLeafFor
<1>6. CASE q = Null \/ ~IsKeyOf(d[q], rank, x)
  <2>1. \A e \in LeafEntries(d, N) : e.key # x
    <3>1. CASE q = Null
      BY <1>2, <1>3, <3>1, KeyIsFound
    <3>2. CASE q # Null
      <4>1. q \in N /\ ~IsKeyOf(d[q], rank, x)
        BY <1>5, <1>6, <3>2
      <4> QED
        BY <1>1, <1>3, <4>1, HolderIs
    <3> QED
      BY <3>1, <3>2
  <2>2. \A pair \in ContentOf(t) : pair[1] # x
    BY <1>1, <2>1, KeyMissing, Zenon
  <2> QED
    BY <1>4, <1>6, <2>2
<1>7. CASE q # Null /\ IsKeyOf(d[q], rank, x)
  <2>1. HasLeaf(t, N, level, hi, x, q)
    BY <1>1, <1>3, <1>5, <1>7 DEF HasLeaf
  <2> QED
    BY <1>4, <1>7, <2>1
<1> QED
  BY <1>6, <1>7

(* Index::Update *)
LEMMA TreeUpdates ==
    ASSUME NEW t, IsTree(t), NEW x \in Keys, NEW old \in Locations, NEW new \in Locations,
           <<x, new>> \notin ContentOf(t)
    PROVE  /\ IsTree(Updated(t, x, old, new))
           /\ ContentOf(Updated(t, x, old, new)) = Abstract!Updated(ContentOf(t), x, old, new)
<1> DEFINE d == t.pages
           r == t.root
           p == EqualLeafOf(d, r, x)
           rank == LowerBound(d[p], x)
           d2 == UpdateInLeaf(d, p, x, old, new)
           u == [pages |-> d2, root |-> r]
           C == ContentOf(t)
<1>1. t = [pages |-> d, root |-> r] /\ C \subseteq Keys \X Locations /\ x \in Int
  BY TreeHas, KeysAssumption
<1>2. \/ p = Null /\ \A pair \in C : pair[1] # x
      \/ p # Null /\ \E N, level, hi : HasLeaf(t, N, level, hi, x, p)
  BY <1>1, EqualLeafIsThere
<1>3. [t EXCEPT !.pages = d2] = u
  <2> HIDE DEF d, r, d2
  <2> QED
    BY <1>1
<1>4. Updated(t, x, old, new) = IF p = Null THEN t ELSE u
  BY <1>3 DEF Updated
<1>5. (\A pair \in C : pair[1] # x) => Abstract!Updated(C, x, old, new) = C
  <2> HIDE DEF C
  <2> QED
    BY DEF Abstract!Updated
<1>6. CASE p = Null /\ \A pair \in C : pair[1] # x
  BY <1>4, <1>5, <1>6
<1>7. ASSUME p # Null, NEW N, NEW level, NEW hi, HasLeaf(t, N, level, hi, x, p)
      PROVE  IsTree(u) /\ ContentOf(u) = Abstract!Updated(C, x, old, new)
  <2> HIDE DEF p
  <2>1. Sound(d, r, N, level, hi) /\ p \in N /\ level[p] = 0 /\ IsLeafFor(d, r, N, level, hi, x, p)
    BY <1>7 DEF HasLeaf
  <2>2. \/ IsKeyOf(d[p], rank, x) /\ \E c : IsHolder(d, N, p, x, rank, d[p].entries[rank], c)
        \/ ~IsKeyOf(d[p], rank, x) /\ \A e \in LeafEntries(d, N) : e.key # x
    BY <1>1, <2>1, HolderIs
  <2>3. CASE ~IsKeyOf(d[p], rank, x) /\ \A e \in LeafEntries(d, N) : e.key # x
    <3>1. d2 = d
      BY <2>3, Zenon DEF UpdateInLeaf
    <3>2. u = t
      BY <1>1, <3>1
    <3>3. \A pair \in C : pair[1] # x
      BY <2>1, <2>3, KeyMissing, Zenon
    <3> QED
      BY <1>5, <3>2, <3>3
  <2>4. ASSUME IsKeyOf(d[p], rank, x), NEW c, IsHolder(d, N, p, x, rank, d[p].entries[rank], c)
        PROVE  IsTree(u) /\ ContentOf(u) = Abstract!Updated(C, x, old, new)
    <3> DEFINE e == d[p].entries[rank]
               L == Moved(Known(d, N, x), old, new)
    <3>1. \A l : <<x, l>> \in C <=> Paired(d, LeafEntries(d, N), x, l)
      BY <2>1, ContentIs, Zenon
    <3>2. new \notin Known(d, N, x)
      BY <3>1 DEF Known
    <3>3. d2 = UpdateInLeaf(d, p, x, old, new) /\ u = [pages |-> d2, root |-> r]
          /\ L = Moved(Known(d, N, x), old, new) /\ rank = LowerBound(d[p], x)
          /\ IsHolder(d, N, p, x, rank, e, c) /\ IsKeyOf(d[p], rank, x)
      BY <2>4
    <3> HIDE DEF L, d2, u, e, rank
    <3>4. HasBecome(d, d2, r, N, level, hi, p, Size(d[p]), x, L)
      BY <1>1, <2>1, <3>2, <3>3, LeafUpdates, Zenon
    <3>5. IsTree(u) /\ HasPairs(d, N, x, L, u)
      BY <2>1, <3>3, <3>4, SameSizeStays, Zenon
    <3>6. L \in SUBSET Locations
      BY <3>3 DEF Known, Moved
    <3>7. HasSwapped(t, N, x, L, u)
      BY <2>1, <3>5, <3>6, PairsAre, Zenon
    <3>8. /\ ContentOf(u) = {pair \in C : pair[1] # x} \union ({x} \X L)
          /\ L = Moved({l \in Locations : <<x, l>> \in C}, old, new)
      BY <3>3, <3>7 DEF HasSwapped
    <3>9. ContentOf(u) = Abstract!Updated(C, x, old, new)
      <4> HIDE DEF C
      <4>1. \A pair \in C : \E k \in Keys, l \in Locations : pair = <<k, l>>
        BY <1>1
      <4>2. CASE <<x, old>> \in C
        <5>1. L = ({l \in Locations : <<x, l>> \in C} \ {old}) \union {new}
          BY <3>8, <4>2 DEF Moved
        <5>2. ({pair \in C : pair[1] # x} \union ({x} \X L)) = (C \ {<<x, old>>}) \union {<<x, new>>}
          BY <4>1, <5>1
        <5> QED
          BY <3>8, <4>2, <5>2 DEF Abstract!Updated
      <4>3. CASE <<x, old>> \notin C
        <5>1. L = {l \in Locations : <<x, l>> \in C}
          BY <3>8, <4>3 DEF Moved
        <5>2. ({pair \in C : pair[1] # x} \union ({x} \X L)) = C
          BY <4>1, <5>1
        <5> QED
          BY <3>8, <4>3, <5>2 DEF Abstract!Updated
      <4> QED
        BY <4>2, <4>3
    <3> QED
      BY <3>5, <3>9
  <2> QED
    BY <2>2, <2>3, <2>4
<1>8. CASE p # Null /\ \E N, level, hi : HasLeaf(t, N, level, hi, x, p)
  BY <1>4, <1>7, <1>8
<1> QED
  BY <1>2, <1>6, <1>8

-----------------------------------------------------------------------------
(* Instance::CreateIndex *)

LEMMA EmptyIsTree == IsTree(Empty) /\ ContentOf(Empty) = {}
<1> DEFINE d == [q \in {0} |-> Node(TRUE)]
           level == [q \in {0} |-> 0]
<1>1. Empty = [pages |-> d, root |-> 0] /\ DOMAIN d = {0} /\ d[0] = Node(TRUE)
  BY DEF Empty
<1>2. /\ d[0].leaf = TRUE /\ d[0].entries = << >> /\ d[0].next = Null /\ d[0].parent = Null
      /\ d[0] \in AnyNode
  <2>1. d[0] = [leaf |-> TRUE, entries |-> << >>, next |-> Null, parent |-> Null]
    BY <1>1 DEF Node
  <2>2. << >> \in Seq(AnyEntry)
    OBVIOUS
  <2> HIDE DEF d
  <2> QED
    BY <2>1, <2>2 DEF AnyNode
<1> HIDE DEF d
<1>3. \A e : e \notin Ent(d, 0)
  BY <1>2 DEF Ent, Range
<1>4. IsFiniteSet(DOMAIN d) /\ DOMAIN d \subseteq Int
  <2>1. IsFiniteSet({0})
    BY FS_Singleton
  <2> QED
    BY <1>1, <2>1
<1>5. level \in [{0} -> Nat] /\ level \in [{0} -> Int] /\ level[0] = 0
  OBVIOUS
<1> HIDE DEF level
<1>6. Shape(d, 0, {0}, level, level)
  <2>1. Keyed(d, {0})
    BY <1>3 DEF Keyed
  <2>2. Ranked(d, 0, {0}, level)
    BY <1>2, <1>5, NullAssumption DEF Ranked
  <2>3. Fathered(d, 0, {0}, level)
    BY DEF Fathered
  <2>4. Kids(d, {0}, level)
    BY <1>5 DEF Kids
  <2>5. Limited(d, {0}, level, level)
    BY <1>3, <1>5 DEF Limited
  <2> QED
    BY <2>1, <2>2, <2>3, <2>4, <2>5 DEF Shape
<1>7. Plain(d, {0})
  BY <1>2 DEF Plain, Ascending
<1>8. Paged(d, {0})
  BY <1>1, <1>4 DEF Paged
<1>9. Listed(d, Leaves({0}, level))
  <2>1. Leaves({0}, level) = {0}
    BY <1>5 DEF Leaves
  <2>2. \A q \in {0} \ {0} : Below(Ent(d, q), Ent(d, 0))
    OBVIOUS
  <2> QED
    BY <1>2, <2>1, <2>2 DEF Listed, IsNext
<1>10. Full(d, 0, {0})
  <2>1. Size(d[0]) = 0 /\ Cap(d[0]) \in Nat
    BY <1>2, LeafCapAssumption DEF Size, Cap
  <2> QED
    BY <1>2, <2>1 DEF Full, Fits
<1>11. \A e : e \notin LeafEntries(d, {0})
  BY <1>3 DEF LeafEntries, Ent
<1>12. Filled(d, LeafEntries(d, {0}), DOMAIN d \ {0})
  BY <1>1, <1>11 DEF Filled
<1>13. Sound(d, 0, {0}, level, level)
  BY <1>6, <1>7, <1>8, <1>9, <1>10, <1>12 DEF Sound, Built
<1>14. Empty.pages = d /\ Empty.root = 0
  BY <1>1
<1>15. Sound(Empty.pages, Empty.root, {0}, level, level)
  BY <1>13, <1>14
<1>16. IsTree(Empty)
  BY <1>1, <1>14, <1>15 DEF IsTree
<1>17. ContentOf(Empty) = {}
  <2> DEFINE t == Empty
  <2>1. /\ ContentOf(t) \subseteq Keys \X Locations
        /\ \A k, l : <<k, l>> \in ContentOf(t) <=> Paired(t.pages, LeafEntries(t.pages, {0}), k, l)
    BY <1>15, ContentIs, Zenon
  <2>2. \A k, l : <<k, l>> \notin ContentOf(t)
    BY <1>11, <1>14, <2>1, Zenon DEF Paired
  <2> QED
    BY <2>1, <2>2
<1> QED
  BY <1>16, <1>17

(* The tree after the first i rows. *)
Indexed(rows, s, i) ==
    \E t : /\ s = [rows |-> rows, tree |-> t, done |-> i]
           /\ IsTree(t) /\ ContentOf(t) = {rows[j] : j \in 1..i}

LEMMA RowIsIndexed ==
    ASSUME NEW rows \in Seq(Keys \X Locations), IsInjective(rows), NEW i \in 0..Len(rows)-1,
           NEW s, Indexed(rows, s, i)
    PROVE  Indexed(rows, RowStep(s), i + 1)
<1>1. PICK t : /\ s = [rows |-> rows, tree |-> t, done |-> i]
               /\ IsTree(t) /\ ContentOf(t) = {rows[j] : j \in 1..i}
  BY DEF Indexed
<1>2. Len(rows) \in Nat /\ i + 1 \in 1..Len(rows) /\ DOMAIN rows = 1..Len(rows) /\ i \in Int
  OBVIOUS
<1>3. PICK k \in Keys, l \in Locations : rows[i+1] = <<k, l>>
  <2>1. rows[i+1] \in Keys \X Locations
    BY <1>2
  <2> QED
    BY <2>1
<1>4. <<k, l>> \notin ContentOf(t)
  <2>1. \A j \in 1..i : j \in 1..Len(rows) /\ j # i + 1
    BY <1>2
  <2>2. \A j \in 1..i : rows[j] # rows[i+1]
    BY <1>2, <2>1, Zenon DEF IsInjective
  <2> QED
    BY <1>1, <1>3, <2>2
<1> DEFINE u == Inserted(t, k, l)
<1>5. IsTree(u) /\ ContentOf(u) = ContentOf(t) \union {<<k, l>>}
  BY <1>1, <1>4, TreeInserts, Zenon DEF Abstract!Inserted
<1>6. RowStep(s) = [rows |-> rows, tree |-> u, done |-> i + 1]
  <2>1. s.rows = rows /\ s.tree = t /\ s.done = i
    BY <1>1
  <2>2. s.rows[s.done + 1][1] = k /\ s.rows[s.done + 1][2] = l
    BY <1>3, <2>1
  <2>3. Inserted(s.tree, s.rows[s.done + 1][1], s.rows[s.done + 1][2]) = u
    BY <2>1, <2>2
  <2> HIDE DEF u
  <2>4. RowStep(s) = [s EXCEPT !.tree = u, !.done = i + 1]
    BY <2>1, <2>3 DEF RowStep
  <2> QED
    BY <1>1, <2>4, Zenon
<1> HIDE DEF u
<1>7. ContentOf(u) = {rows[j] : j \in 1..i+1}
  <2>1. \A j \in 1..i+1 : j \in 1..i \/ j = i + 1
    BY <1>2
  <2>2. \A j \in 1..i : j \in 1..i+1
    BY <1>2
  <2>3. i + 1 \in 1..i+1
    BY <1>2
  <2> QED
    BY <1>1, <1>3, <1>5, <2>1, <2>2, <2>3
<1> QED
  BY <1>5, <1>6, <1>7 DEF Indexed

Indexing == INSTANCE OrderProofs WITH Step <- RowStep

LEMMA RowsAreIndexed ==
    ASSUME NEW rows \in Seq(Keys \X Locations), IsInjective(rows), NEW u,
           u = Loop(RowStep, [rows |-> rows, tree |-> Empty, done |-> 0], Len(rows)).tree
    PROVE  IsTree(u) /\ ContentOf(u) = {rows[j] : j \in 1..Len(rows)}
<1> DEFINE start == [rows |-> rows, tree |-> Empty, done |-> 0]
           n == Len(rows)
           At(i) == Indexing!After(start, i)
           K == {i \in 0..n : Indexed(rows, At(i), i)}
<1>1. n \in Nat
  OBVIOUS
<1>2. At(0) = start /\ \A i \in Nat : At(i + 1) = RowStep(At(i))
  BY Indexing!Iterations
<1> HIDE DEF At
<1>3. 0 \in K
  <2>1. {rows[j] : j \in 1..0} = {}
    OBVIOUS
  <2>2. Indexed(rows, start, 0)
    BY <2>1, EmptyIsTree DEF Indexed
  <2> HIDE DEF start
  <2> QED
    BY <1>1, <1>2, <2>2
<1> HIDE DEF start
<1>4. ASSUME NEW i \in 0..n-1, i \in K PROVE i + 1 \in K
  <2>1. i \in Nat /\ i + 1 \in 0..n
    BY <1>1
  <2>2. Indexed(rows, RowStep(At(i)), i + 1)
    BY <1>4, RowIsIndexed
  <2> QED
    BY <1>2, <2>1, <2>2
<1>5. K = 0..n
  <2>1. K \in SUBSET (0..n) /\ \A i \in 0..n-1 : i \in K => i + 1 \in K
    BY <1>4
  <2> HIDE DEF K, n
  <2> QED
    BY <1>1, <1>3, <2>1, InductionUpTo
<1>6. Indexed(rows, At(n), n)
  BY <1>1, <1>5
<1>7. u = At(n).tree
  BY DEF Loop, Indexing!After, At, start
<1> HIDE DEF n
<1>8. IsTree(u) /\ ContentOf(u) = {rows[j] : j \in 1..n}
  BY <1>6, <1>7 DEF Indexed
<1> QED
  BY <1>8, Zenon DEF n

-----------------------------------------------------------------------------
(* What a whole tree is like, seen from its pages. *)

(* The way down the first children of p, to the node q after i steps. *)
Sinking(N, level, p, s, i) ==
    \E q \in N, h \in Nat : /\ s = [at |-> q, height |-> h] /\ h + level[q] = level[p]
                            /\ h = i \/ level[q] = 0

LEMMA SinksOn ==
    ASSUME NEW N, NEW level, NEW hi, Sound(pages, root, N, level, hi),
           NEW p \in N, NEW i \in Nat, NEW s, Sinking(N, level, p, s, i)
    PROVE  Sinking(N, level, p, HeightStep(s), i + 1)
<1>1. PICK q \in N, h \in Nat : /\ s = [at |-> q, height |-> h] /\ h + level[q] = level[p]
                                /\ h = i \/ level[q] = 0
  BY DEF Sinking
<1>2. s.at = q /\ s.height = h
  BY <1>1
<1>3. Shape(pages, root, N, level, hi) /\ Built(pages, root, N, level, hi) /\ Full(pages, root, N)
  BY SoundIs, Zenon
<1>4. level[q] \in Nat /\ level[p] \in Nat /\ (pages[q].leaf <=> level[q] = 0)
  BY <1>3 DEF Shape, Ranked
<1>5. CASE level[q] = 0
  <2>1. HeightStep(s) = s
    BY <1>2, <1>4, <1>5 DEF HeightStep
  <2> QED
    BY <1>1, <1>5, <2>1 DEF Sinking
<1>6. CASE level[q] # 0
  <2> DEFINE e == pages[q].entries[1]
  <2>1. e \in Ent(pages, q)
    <3>1. pages[q].entries # << >> /\ pages[q].entries \in Seq(AnyEntry)
      BY <1>3, <1>6, Inhabited DEF Built, Plain, AnyNode
    <3>2. Len(pages[q].entries) \in Nat /\ Len(pages[q].entries) # 0
      BY <3>1, RangeHas
    <3>3. 1 \in 1..Len(pages[q].entries)
      BY <3>2
    <3> QED
      BY <3>1, <3>3, RangeHas DEF Ent
  <2>2. e.child \in N /\ level[e.child] + 1 = level[q] /\ level[e.child] \in Nat
    BY <1>3, <1>6, <2>1 DEF Shape, Kids, Ranked
  <2>3. HeightStep(s) = [at |-> e.child, height |-> h + 1]
    BY <1>2, <1>4, <1>6 DEF HeightStep
  <2> HIDE DEF e
  <2>4. h + 1 \in Nat /\ (h + 1) + level[e.child] = level[p] /\ h + 1 = i + 1
    BY <1>1, <1>4, <1>6, <2>2
  <2> QED
    BY <2>2, <2>3, <2>4 DEF Sinking
<1> QED
  BY <1>5, <1>6

Heights == INSTANCE OrderProofs WITH Step <- HeightStep

LEMMA HeightIs ==
    ASSUME NEW N, NEW level, NEW hi, Sound(pages, root, N, level, hi), NEW p \in N
    PROVE  Height(p) = level[p]
<1> DEFINE start == [at |-> p, height |-> 0]
           n == Bound(pages)
           At(i) == Heights!After(start, i)
           K == {i \in 0..n : Sinking(N, level, p, At(i), i)}
<1>1. Built(pages, root, N, level, hi) /\ Full(pages, root, N)
  BY SoundIs, Zenon
<1>2. n \in Nat /\ level[p] \in Nat /\ level[p] < n
  <2>1. n \in Nat /\ level[root] \in Nat /\ level[root] < n
        /\ level[p] \in Nat /\ level[p] <= level[root]
    BY <1>1, Inhabited
  <2> QED
    BY <2>1
<1>3. At(0) = start /\ \A i \in Nat : At(i + 1) = HeightStep(At(i))
  BY Heights!Iterations
<1> HIDE DEF At
<1>4. 0 \in K
  <2>1. Sinking(N, level, p, start, 0)
    <3>1. 0 + level[p] = level[p] /\ 0 \in Nat
      BY <1>2
    <3> QED
      BY <3>1 DEF Sinking
  <2> HIDE DEF start
  <2> QED
    BY <1>2, <1>3, <2>1
<1> HIDE DEF start
<1>5. ASSUME NEW i \in 0..n-1, i \in K PROVE i + 1 \in K
  <2>1. i \in Nat /\ i + 1 \in 0..n
    BY <1>2
  <2>2. Sinking(N, level, p, HeightStep(At(i)), i + 1)
    BY <1>5, <2>1, SinksOn
  <2> QED
    BY <1>3, <2>1, <2>2
<1>6. K = 0..n
  <2>1. K \in SUBSET (0..n) /\ \A i \in 0..n-1 : i \in K => i + 1 \in K
    BY <1>5
  <2> HIDE DEF K, n
  <2> QED
    BY <1>2, <1>4, <2>1, InductionUpTo
<1>7. Sinking(N, level, p, At(n), n)
  BY <1>2, <1>6
<1>8. Height(p) = At(n).height
  BY DEF Height, Loop, Heights!After, At, start
<1> HIDE DEF n
<1>9. PICK q \in N, h \in Nat : /\ At(n) = [at |-> q, height |-> h] /\ h + level[q] = level[p]
                                /\ h = n \/ level[q] = 0
  BY <1>7 DEF Sinking
<1>10. level[q] \in Nat
  BY <1>1, Inhabited
<1>11. At(n).height = h /\ h = level[p]
  BY <1>2, <1>9, <1>10
<1> QED
  BY <1>8, <1>11

(* Clear gives back every page. *)
LEMMA HeldIs ==
    ASSUME NEW d, NEW r, NEW N, NEW level, NEW hi, Sound(d, r, N, level, hi)
    PROVE  Held(d, r) = DOMAIN d
<1>1. /\ Filled(d, LeafEntries(d, N), DOMAIN d \ N) /\ NodesUnder(d, r) = N /\ N \subseteq DOMAIN d
  BY SoundIs, Zenon
<1>2. Held(d, r) = N \union UNION {Owned(d, e) : e \in LeafEntries(d, N)}
  BY <1>1 DEF Held
<1>3. \A e \in LeafEntries(d, N) : Owned(d, e) \subseteq DOMAIN d \ N
  BY <1>1 DEF Filled
<1>4. \A o \in DOMAIN d \ N : \E e \in LeafEntries(d, N) : o \in Owned(d, e)
  BY <1>1 DEF Filled
<1> QED
  BY <1>1, <1>2, <1>3, <1>4, Zenon

(* The nodes of the index there is. *)
LEMMA NodesNow ==
    ASSUME root # Null, NEW N, NEW level, NEW hi, Sound(pages, root, N, level, hi)
    PROVE  Nodes = N
BY SoundIs, Zenon DEF Nodes

LEMMA SoundIsOrdered ==
    ASSUME root # Null, NEW N, NEW level, NEW hi, Sound(pages, root, N, level, hi)
    PROVE  KeysAreOrdered
<1>1. /\ Built(pages, root, N, level, hi) /\ Shape(pages, root, N, level, hi)
      /\ Full(pages, root, N) /\ Nodes = N
  BY SoundIs, NodesNow, Zenon
<1> SUFFICES ASSUME NEW p \in N
             PROVE  LET entries == pages[p].entries
                    IN  /\ \A i, j \in DOMAIN entries : i < j => entries[i].key < entries[j].key
                        /\ ~pages[p].leaf => \A i \in DOMAIN entries :
                                \A k \in KeysUnder(entries[i].child) :
                                    /\ entries[i].key <= k
                                    /\ i < Len(entries) => k < entries[i + 1].key
  BY <1>1 DEF KeysAreOrdered
<1> DEFINE entries == pages[p].entries
<1>2. Ascending(entries) /\ entries \in Seq(AnyEntry)
  BY <1>1 DEF Built, Plain, AnyNode
<1>3. DOMAIN entries = 1..Len(entries) /\ Len(entries) \in Nat
  BY <1>2, RangeHas
<1>4. \A i \in DOMAIN entries : entries[i] \in Ent(pages, p)
  BY <1>2, <1>3, RangeHas DEF Ent
<1>5. ~pages[p].leaf => level[p] # 0
  BY <1>1 DEF Shape, Ranked
<1>6. \A i, j \in DOMAIN entries : i < j => entries[i].key < entries[j].key
  BY <1>2 DEF Ascending
<1> HIDE DEF entries
<1>7. ASSUME ~pages[p].leaf, NEW i \in DOMAIN entries, NEW k \in KeysUnder(entries[i].child)
      PROVE  entries[i].key <= k /\ (i < Len(entries) => k < entries[i + 1].key)
  <2>1. PICK q \in NodesUnder(pages, entries[i].child) : \E h \in Ent(pages, q) : k = h.key
    BY <1>7 DEF KeysUnder, Ent
  <2>2. PICK h \in Ent(pages, q) : k = h.key
    BY <2>1
  <2>3. /\ entries[i].key <= h.key
        /\ \A f \in Ent(pages, p) : entries[i].key < f.key => h.key < f.key
    BY <1>1, <1>4, <1>5, <1>7, KeysBetween
  <2>4. ASSUME i < Len(entries) PROVE h.key < entries[i+1].key
    <3>1. i + 1 \in DOMAIN entries /\ i < i + 1
      BY <1>3, <2>4
    <3>2. entries[i+1] \in Ent(pages, p) /\ entries[i].key < entries[i+1].key
      BY <1>4, <1>6, <3>1
    <3> QED
      BY <2>3, <3>2
  <2> QED
    BY <2>2, <2>3, <2>4
<1> QED
  BY <1>6, <1>7 DEF entries

LEMMA SoundIsBalanced ==
    ASSUME root # Null, NEW N, NEW level, NEW hi, Sound(pages, root, N, level, hi)
    PROVE  NodesAreBalanced
<1>1. /\ Built(pages, root, N, level, hi) /\ Shape(pages, root, N, level, hi)
      /\ Full(pages, root, N) /\ Nodes = N
  BY SoundIs, NodesNow, Zenon
<1>2. ASSUME NEW p \in N, ~pages[p].leaf, NEW e \in Ent(pages, p)
      PROVE  Height(e.child) = Height(p) - 1
  <2>1. level[p] # 0
    BY <1>1, <1>2 DEF Shape, Ranked
  <2>2. e.child \in N /\ level[e.child] + 1 = level[p] /\ level[e.child] \in Nat /\ level[p] \in Nat
    BY <1>1, <1>2, <2>1 DEF Shape, Kids, Ranked
  <2>3. Height(e.child) = level[e.child] /\ Height(p) = level[p]
    BY <2>2, HeightIs
  <2> QED
    BY <2>2, <2>3
<1>3. ASSUME NEW p \in N
      PROVE  /\ Size(pages[p]) <= Cap(pages[p])
             /\ p # root => Size(pages[p]) >= Half(pages[p])
             /\ ~pages[p].leaf => Size(pages[p]) >= 2
  <2>1. Fits(pages, root, p)
    BY <1>1 DEF Full
  <2>2. ~pages[p].leaf => level[p] # 0
    BY <1>1 DEF Shape, Ranked
  <2> QED
    BY <1>1, <2>1, <2>2, Inhabited DEF Fits
<1> QED
  BY <1>1, <1>2, <1>3 DEF NodesAreBalanced, Ent

LEMMA SoundIsLinked ==
    ASSUME root # Null, NEW N, NEW level, NEW hi, Sound(pages, root, N, level, hi)
    PROVE  NodesAreLinked
<1>1. /\ Built(pages, root, N, level, hi) /\ Shape(pages, root, N, level, hi)
      /\ Full(pages, root, N) /\ Nodes = N
  BY SoundIs, NodesNow, Zenon
<1>2. pages[root].parent = Null
  BY <1>1 DEF Shape, Ranked
<1>3. ASSUME NEW p \in N, NEW c \in Children(pages[p]) PROVE pages[c].parent = p
  <2>1. level[p] # 0 /\ \E e \in Ent(pages, p) : e.child = c
    BY <1>1, <1>3, ChildrenAre
  <2> QED
    BY <1>1, <2>1 DEF Shape, Kids
<1> DEFINE L == {q \in N : level[q] = 0}
<1>4. Separated(pages, L) /\ Listed(pages, L)
  <2>1. Listed(pages, Leaves(N, level))
    BY <1>1 DEF Built
  <2> QED
    BY <1>1, <2>1, LeavesSeparated DEF Leaves
<1>5. \A q \in N : pages[q].leaf <=> q \in L
  BY <1>1 DEF Shape, Ranked
<1>6. ASSUME NEW p \in L, NEW q \in L
      PROVE  KeysBefore(p, q) <=> Below(Ent(pages, p), Ent(pages, q))
  <2>1. NodesUnder(pages, p) = {p} /\ NodesUnder(pages, q) = {q}
    BY <1>1, NodesAre
  <2>2. /\ KeysUnder(p) = {e.key : e \in Ent(pages, p)}
        /\ KeysUnder(q) = {e.key : e \in Ent(pages, q)}
    BY <2>1 DEF KeysUnder, Ent
  <2> QED
    BY <2>2 DEF KeysBefore, Below
<1>7. \A p, q \in L : p # q => /\ Below(Ent(pages, p), Ent(pages, q)) \/ Below(Ent(pages, q), Ent(pages, p))
                               /\ ~(/\ Below(Ent(pages, p), Ent(pages, q))
                                    /\ Below(Ent(pages, q), Ent(pages, p)))
  <2>1. ASSUME NEW p \in L, NEW q \in L, p # q
        PROVE  ~(Below(Ent(pages, p), Ent(pages, q)) /\ Below(Ent(pages, q), Ent(pages, p)))
    <3>1. /\ Ent(pages, p) # {} /\ Ent(pages, q) # {}
          /\ KeyedBy(Ent(pages, p)) /\ KeyedBy(Ent(pages, q))
      BY <1>4, <2>1 DEF Separated
    <3> QED
      BY <3>1, BelowOrder
  <2> QED
    BY <1>4, <2>1 DEF Separated
<1>8. ASSUME NEW p \in N, pages[p].leaf, NEW later,
             later = {q \in N \ {p} : pages[q].leaf /\ KeysBefore(p, q)}
      PROVE  IF later = {} THEN pages[p].next = Null
             ELSE /\ pages[p].next \in later
                  /\ \A q \in later \ {pages[p].next} : KeysBefore(pages[p].next, q)
  <2>1. p \in L /\ IsNext(pages, L, p, pages[p].next)
    BY <1>4, <1>5, <1>8 DEF Listed
  <2>2. \A q : q \in later <=> q \in L /\ q # p /\ Below(Ent(pages, p), Ent(pages, q))
    <3>1. \A q \in N : q \in L => (KeysBefore(p, q) <=> Below(Ent(pages, p), Ent(pages, q)))
      BY <1>6, <2>1
    <3>2. \A q : q \in L => q \in N
      OBVIOUS
    <3> HIDE DEF L
    <3> QED
      BY <1>5, <1>8, <3>1, <3>2
  <2> HIDE DEF L
  <2>3. CASE /\ pages[p].next = Null
             /\ \A q \in L \ {p} : Below(Ent(pages, q), Ent(pages, p))
    <3>1. \A q : q \notin later
      BY <1>7, <2>1, <2>2, <2>3
    <3>2. later = {}
      BY <3>1
    <3> QED
      BY <2>3, <3>2
  <2>4. ASSUME NEW n, n = pages[p].next, n \in L \ {p}, Below(Ent(pages, p), Ent(pages, n)),
               \A q \in L \ {p, n} :
                  Below(Ent(pages, q), Ent(pages, p)) \/ Below(Ent(pages, n), Ent(pages, q))
        PROVE  n \in later /\ \A q \in later \ {n} : KeysBefore(n, q)
    <3>1. n \in later
      BY <2>2, <2>4
    <3>2. ASSUME NEW q \in later \ {n} PROVE KeysBefore(n, q)
      <4>1. q \in L /\ q # p /\ q # n /\ Below(Ent(pages, p), Ent(pages, q))
        BY <2>2, <3>2
      <4>2. Below(Ent(pages, n), Ent(pages, q))
        BY <1>7, <2>1, <2>4, <4>1
      <4> QED
        BY <1>6, <2>4, <4>1, <4>2
    <3> QED
      BY <3>1, <3>2
  <2>5. \/ /\ pages[p].next = Null
           /\ \A q \in L \ {p} : Below(Ent(pages, q), Ent(pages, p))
        \/ /\ pages[p].next \in L \ {p} /\ Below(Ent(pages, p), Ent(pages, pages[p].next))
           /\ \A q \in L \ {p, pages[p].next} :
                 \/ Below(Ent(pages, q), Ent(pages, p))
                 \/ Below(Ent(pages, pages[p].next), Ent(pages, q))
    BY <2>1 DEF IsNext
  <2> QED
    BY <2>3, <2>4, <2>5
<1> QED
  BY <1>1, <1>2, <1>3, <1>8, Zenon DEF NodesAreLinked

(* Every overflow page has one owner. *)
LEMMA SoundLosesNothing ==
    ASSUME root # Null, NEW N, NEW level, NEW hi, Sound(pages, root, N, level, hi)
    PROVE  NoPageIsLost
<1>1. /\ Filled(pages, LeafEntries(pages, N), DOMAIN pages \ N) /\ Numbered(pages) /\ Nodes = N
      /\ Held(pages, root) = DOMAIN pages
  BY SoundIs, NodesNow, HeldIs, Zenon
<1>2. ASSUME NEW e \in LeafEntries(pages, N) PROVE IsInjective(OverflowChain(pages, e.over))
  <2>1. PICK s : HasChain(pages, e, s)
    BY <1>1 DEF Filled, OneFilled
  <2>2. OverflowChain(pages, e.over) = s
    BY <1>1, <2>1, ChainOwns
  <2>3. IsInjective(s)
    BY <2>1 DEF HasChain, IsChain
  <2> QED
    BY <2>2, <2>3
<1>3. ASSUME NEW e \in LeafEntries(pages, N), NEW f \in LeafEntries(pages, N), e # f
      PROVE  Owned(pages, e) \intersect Owned(pages, f) = {}
  BY <1>1, <1>3 DEF Filled
<1> QED
  BY <1>1, <1>2, <1>3 DEF NoPageIsLost

(* An entry of a leaf is in its place, and so are the pages of its chain. *)
LEMMA OwnedPagesAreTyped ==
    ASSUME NEW d, Numbered(d), NEW e, OneFilled(d, e)
    PROVE  /\ e.child \in Locations /\ e.over \in DOMAIN d \union {Null}
           /\ \A o \in Owned(d, e) : /\ d[o].values \in Seq(Locations)
                                     /\ Len(d[o].values) <= OverflowCap
                                     /\ d[o].next \in DOMAIN d \union {Null}
<1>1. PICK s : HasChain(d, e, s)
  BY DEF OneFilled
<1>2. /\ e.child \in Locations /\ s \in Seq(DOMAIN d)
      /\ e.over = IF s = << >> THEN Null ELSE s[1]
      /\ \A i \in 1..Len(s) : d[s[i]].next = IF i = Len(s) THEN Null ELSE s[i+1]
      /\ \A i \in 1..Len(s) : FilledPage(d[s[i]])
  BY <1>1 DEF HasChain, IsChain
<1>3. Len(s) \in Nat /\ (s # << >> => Len(s) # 0) /\ \A i \in 1..Len(s) : s[i] \in DOMAIN d
  BY <1>2, RangeHas
<1>4. e.over \in DOMAIN d \union {Null}
  <2>1. s # << >> => 1 \in 1..Len(s)
    BY <1>3
  <2> QED
    BY <1>2, <1>3, <2>1
<1>5. ASSUME NEW o \in Owned(d, e)
      PROVE  /\ d[o].values \in Seq(Locations) /\ Len(d[o].values) <= OverflowCap
             /\ d[o].next \in DOMAIN d \union {Null}
  <2>1. PICK i \in 1..Len(s) : o = s[i]
    BY <1>1, ChainOwns
  <2>2. d[o].values \in Seq(Locations) /\ Len(d[o].values) <= OverflowCap
    BY <1>2, <2>1 DEF FilledPage, AnyPage
  <2>3. i # Len(s) => i + 1 \in 1..Len(s)
    BY <1>3
  <2>4. d[o].next \in DOMAIN d \union {Null}
    BY <1>2, <1>3, <2>1, <2>3
  <2> QED
    BY <2>2, <2>4
<1> QED
  BY <1>2, <1>4, <1>5

LEMMA SoundIsTyped ==
    ASSUME root # Null, NEW N, NEW level, NEW hi, Sound(pages, root, N, level, hi)
    PROVE  TypeOK
<1>1. /\ Built(pages, root, N, level, hi) /\ Shape(pages, root, N, level, hi) /\ Numbered(pages)
      /\ Filled(pages, LeafEntries(pages, N), DOMAIN pages \ N) /\ Nodes = N
      /\ root \in N /\ N \subseteq DOMAIN pages
  BY SoundIs, NodesNow, Zenon
<1>2. ASSUME NEW p \in N
      PROVE  NodeOK(pages[p])
  <2> DEFINE n == pages[p]
             kinds == [key : Keys, child : IF n.leaf THEN Locations ELSE DOMAIN pages,
                       over : DOMAIN pages \union {Null}]
  <2>1. n \in AnyNode /\ n.entries \in Seq(AnyEntry) /\ (n.leaf \/ n.next = Null)
    BY <1>1 DEF Built, Plain, AnyNode
  <2>2. n.leaf <=> level[p] = 0
    BY <1>1 DEF Shape, Ranked
  <2> HIDE DEF n
  <2>3. ASSUME NEW e \in Range(n.entries) PROVE e \in kinds
    <3>1. e \in AnyEntry /\ e \in Ent(pages, p)
      BY <2>1, <2>3, RangeHas DEF Ent, n
    <3>2. e = [key |-> e.key, child |-> e.child, over |-> e.over] /\ e.key \in Keys
      BY <3>1 DEF AnyEntry
    <3>3. CASE n.leaf
      <4>1. e \in LeafEntries(pages, N)
        BY <3>1, <3>3 DEF LeafEntries, Ent, n
      <4>2. OneFilled(pages, e)
        BY <1>1, <4>1 DEF Filled
      <4>3. e.child \in Locations /\ e.over \in DOMAIN pages \union {Null}
        BY <1>1, <4>2, OwnedPagesAreTyped
      <4> QED
        BY <3>2, <3>3, <4>3
    <3>4. CASE ~n.leaf
      <4>1. e.child \in N /\ e.over = Null
        BY <1>1, <2>2, <3>1, <3>4 DEF Shape, Kids
      <4>2. e.child \in DOMAIN pages
        BY <1>1, <4>1
      <4> QED
        BY <3>2, <3>4, <4>1, <4>2
    <3> QED
      BY <3>3, <3>4
  <2>4. n.entries \in Seq(kinds)
    <3> HIDE DEF kinds
    <3>1. Len(n.entries) \in Nat /\ n.entries = [i \in 1..Len(n.entries) |-> n.entries[i]]
      BY <2>1
    <3>2. \A i \in 1..Len(n.entries) : n.entries[i] \in kinds
      BY <2>1, <2>3, RangeHas
    <3> QED
      BY <3>1, <3>2, SeqDef
  <2>5. n.next \in DOMAIN pages \union {Null}
    <3>1. CASE n.leaf
      <4>1. p \in Leaves(N, level)
        BY <2>2, <3>1 DEF Leaves
      <4>2. IsNext(pages, Leaves(N, level), p, n.next)
        BY <1>1, <4>1 DEF Built, Listed, n
      <4>3. n.next = Null \/ n.next \in Leaves(N, level)
        BY <4>2 DEF IsNext
      <4> QED
        BY <1>1, <4>3 DEF Leaves
    <3> QED
      BY <2>1, <3>1
  <2>6. n.parent \in DOMAIN pages \union {Null}
    BY <1>1 DEF Shape, Ranked, Fathered, n
  <2> QED
    BY <2>4, <2>5, <2>6 DEF NodeOK, n
<1>3. ASSUME NEW o \in DOMAIN pages \ N PROVE OverflowOK(pages[o])
  <2>1. PICK e \in LeafEntries(pages, N) : o \in Owned(pages, e)
    BY <1>1 DEF Filled
  <2>2. OneFilled(pages, e)
    BY <1>1 DEF Filled
  <2> QED
    BY <1>1, <2>1, <2>2, OwnedPagesAreTyped DEF OverflowOK
<1> QED
  BY <1>1, <1>2, <1>3 DEF TypeOK

-----------------------------------------------------------------------------
(* How often something is in a sequence. *)

Occurs(s, x) == {i \in DOMAIN s : s[i] = x}

Count(s, x) == Cardinality(Occurs(s, x))

IsOneToOne(f, S, T) ==
    /\ f = [x \in S |-> f[x]]
    /\ \A x \in S : f[x] \in T
    /\ \A x, y \in S : f[x] = f[y] => x = y
    /\ \A y \in T : \E x \in S : f[x] = y

LEMMA SameCardinality ==
    ASSUME NEW S, IsFiniteSet(S), NEW T, NEW f, IsOneToOne(f, S, T)
    PROVE  IsFiniteSet(T) /\ Cardinality(T) = Cardinality(S)
<1>1. f \in [S -> T]
  BY DEF IsOneToOne
<1>2. DOMAIN f = S /\ IsInjective(f)
  BY <1>1 DEF IsOneToOne, IsInjective
<1>3. \A y \in T : \E x \in S : f[x] = y
  BY DEF IsOneToOne
<1>4. f \in Bijection(S, T)
  BY <1>1, <1>2, <1>3 DEF Bijection, Injection, Surjection
<1>5. ExistsBijection(S, T)
  BY <1>4 DEF ExistsBijection
<1> QED
  BY <1>5, FS_Bijection

LEMMA CountIs ==
    ASSUME NEW X, NEW s \in Seq(X), NEW x
    PROVE  /\ IsFiniteSet(Occurs(s, x)) /\ Count(s, x) \in Nat
           /\ Count(s, x) = 0 <=> x \notin Range(s)
<1>1. DOMAIN s = 1..Len(s) /\ Len(s) \in Nat
  BY RangeHas
<1>2. IsFiniteSet(1..Len(s))
  BY <1>1, FS_Interval
<1>3. IsFiniteSet(Occurs(s, x))
  <2>1. Occurs(s, x) \in SUBSET (1..Len(s))
    BY <1>1 DEF Occurs
  <2> QED
    BY <1>2, <2>1, FS_Subset
<1>4. Count(s, x) \in Nat /\ (Count(s, x) = 0 <=> Occurs(s, x) = {})
  BY <1>3, FS_CardinalityType, FS_EmptySet DEF Count
<1>5. Occurs(s, x) = {} <=> x \notin Range(s)
  BY DEF Occurs, Range
<1> QED
  BY <1>3, <1>4, <1>5

HasJoined(X, s, t, x, u) == u \in Seq(X) /\ Count(u, x) = Count(s, x) + Count(t, x)

LEMMA CountOfJoined ==
    ASSUME NEW X, NEW s \in Seq(X), NEW t \in Seq(X), NEW u, u = s \o t, NEW x
    PROVE  HasJoined(X, s, t, x, u)
<1> DEFINE m == Len(s)
           A == Occurs(s, x)
           B == Occurs(t, x)
           C == {m + i : i \in B}
<1>1. /\ m \in Nat /\ Len(t) \in Nat /\ DOMAIN s = 1..m /\ DOMAIN t = 1..Len(t)
      /\ IsFiniteSet(A) /\ IsFiniteSet(B)
  BY CountIs, RangeHas
<1>2. /\ u \in Seq(X) /\ DOMAIN u = 1..m+Len(t)
      /\ \A i \in 1..m+Len(t) : u[i] = IF i <= m THEN s[i] ELSE t[i-m]
  BY <1>1
<1>3. Occurs(u, x) = A \union C
  <2>1. ASSUME NEW i \in Occurs(u, x) PROVE i \in A \union C
    <3>1. i \in 1..m+Len(t) /\ u[i] = x /\ i \in Int
      BY <1>2, <2>1 DEF Occurs
    <3>2. CASE i <= m
      BY <1>1, <1>2, <3>1, <3>2 DEF Occurs
    <3>3. CASE ~(i <= m)
      <4>1. i - m \in 1..Len(t) /\ m + (i - m) = i /\ t[i-m] = x
        BY <1>1, <1>2, <3>1, <3>3
      <4>2. i - m \in B
        BY <1>1, <4>1 DEF Occurs
      <4> QED
        BY <4>1, <4>2
    <3> QED
      BY <3>2, <3>3
  <2>2. ASSUME NEW i \in A PROVE i \in Occurs(u, x)
    BY <1>1, <1>2 DEF Occurs
  <2>3. ASSUME NEW i \in B PROVE m + i \in Occurs(u, x)
    <3>1. i \in 1..Len(t) /\ t[i] = x
      BY <1>1 DEF Occurs
    <3>2. m + i \in 1..m+Len(t) /\ ~(m + i <= m) /\ (m + i) - m = i
      BY <1>1, <3>1
    <3> QED
      BY <1>2, <3>1, <3>2 DEF Occurs
  <2> QED
    BY <2>1, <2>2, <2>3
<1>4. IsFiniteSet(C) /\ Cardinality(C) = Cardinality(B)
  <2> DEFINE f == [i \in B |-> m + i]
  <2>1. B \subseteq Int
    BY <1>1 DEF Occurs
  <2> HIDE DEF B
  <2>2. IsOneToOne(f, B, C)
    BY <1>1, <2>1 DEF IsOneToOne
  <2> QED
    BY <1>1, <2>2, SameCardinality
<1>5. A \intersect C = {}
  <2>1. \A i \in A : i \in Int /\ i <= m
    BY <1>1 DEF Occurs
  <2>2. \A i \in B : i \in Int /\ i >= 1
    BY <1>1 DEF Occurs
  <2>3. \A i \in C : ~(i <= m)
    BY <1>1, <2>2
  <2> QED
    BY <2>1, <2>3
<1>6. Cardinality(A \union C) = Cardinality(A) + Cardinality(C)
  <2>1. /\ Cardinality(A \union C) = Cardinality(A) + Cardinality(C) - Cardinality(A \intersect C)
        /\ Cardinality(A) \in Nat /\ Cardinality(C) \in Nat
    BY <1>1, <1>4, FS_Union, FS_CardinalityType, Zenon
  <2>2. Cardinality(A \intersect C) = 0
    BY <1>5, FS_EmptySet, Zenon
  <2> HIDE DEF A, C
  <2> QED
    BY <2>1, <2>2
<1> QED
  BY <1>2, <1>3, <1>4, <1>6 DEF Count, HasJoined

(* Without repetition it is there once or not at all. *)
LEMMA CountOfDistinct ==
    ASSUME NEW X, NEW s \in Seq(X), Distinct(s), NEW x
    PROVE  Count(s, x) = IF x \in Range(s) THEN 1 ELSE 0
<1>1. Count(s, x) = 0 <=> x \notin Range(s)
  BY CountIs
<1>2. ASSUME x \in Range(s) PROVE Count(s, x) = 1
  <2>1. PICK i \in 1..Len(s) : s[i] = x
    BY <1>2, RangeHas
  <2>2. Occurs(s, x) = {i}
    BY <2>1, RangeHas DEF Occurs, Distinct
  <2> QED
    BY <2>2, FS_Singleton, Zenon DEF Count
<1> QED
  BY <1>1, <1>2

-----------------------------------------------------------------------------
(* Sequences of sequences. *)

(* FlattenSeq joins the sequences one by one. *)
LEMMA FlattenIs ==
    ASSUME NEW ss, Len(ss) \in Nat, Len(ss) # 0
    PROVE  \E f : IsJoining(f, ss, Len(ss)) /\ FlattenSeq(ss) = f[Len(ss)]
<1> DEFINE f == CHOOSE f : IsJoining(f, ss, Len(ss))
<1>1. IsJoining(f, ss, Len(ss))
  BY JoiningExists
<1>2. FlattenSeq(ss) = f[Len(ss)]
  BY DEF FlattenSeq, IsJoining
<1> QED
  BY <1>1, <1>2, Zenon

(* What is in each of the sequences at most once is in all of them together *)
(* as often as there are sequences with it.                                *)
HasCounted(X, ss, x, u) ==
    /\ u \in Seq(X)
    /\ Count(u, x) = Cardinality({i \in 1..Len(ss) : Count(ss[i], x) = 1})

LEMMA FlattenCounts ==
    ASSUME NEW X, NEW ss \in Seq(Seq(X)), NEW x, \A i \in 1..Len(ss) : Count(ss[i], x) \in {0, 1},
           NEW u, u = FlattenSeq(ss)
    PROVE  HasCounted(X, ss, x, u)
<1> DEFINE n == Len(ss)
           With(k) == {i \in 1..k : Count(ss[i], x) = 1}
<1>1. n \in Nat /\ \A i \in 1..n : ss[i] \in Seq(X)
  BY RangeHas
<1>2. CASE n = 0
  <2>1. ss = << >> /\ u = << >>
    BY <1>2 DEF FlattenSeq
  <2>2. u \in Seq(X) /\ Range(u) = {}
    <3>1. << >> \in Seq(X) /\ DOMAIN << >> = {}
      OBVIOUS
    <3> QED
      BY <2>1, <3>1, Zenon DEF Range
  <2>3. Count(u, x) = 0
    BY <2>2, CountIs
  <2>4. {i \in 1..Len(ss) : Count(ss[i], x) = 1} = {}
    BY <1>2
  <2> QED
    BY <2>2, <2>3, <2>4, FS_EmptySet, Zenon DEF HasCounted
<1>3. CASE n # 0
  <2>1. PICK f : IsJoining(f, ss, n) /\ FlattenSeq(ss) = f[n]
    BY <1>1, <1>3, FlattenIs
  <2> DEFINE m == n - 1
             P(k) == f[k+1] \in Seq(X) /\ IsFiniteSet(With(k+1)) /\ Count(f[k+1], x) = Cardinality(With(k+1))
             K == {k \in 0..m : P(k)}
  <2>2. m \in Nat /\ m + 1 = n
    BY <1>1, <1>3
  <2>3. 0 \in K
    <3>1. 1 \in 1..n /\ f[1] = ss[1] /\ 0 + 1 = 1
      BY <1>1, <1>3, <2>1 DEF IsJoining
    <3>2. With(1) = IF Count(ss[1], x) = 1 THEN {1} ELSE {}
      OBVIOUS
    <3>3. IsFiniteSet(With(1)) /\ Count(ss[1], x) = Cardinality(With(1))
      <4>1. Count(ss[1], x) \in {0, 1}
        BY <3>1
      <4> HIDE DEF With
      <4>2. CASE Count(ss[1], x) = 1
        BY <3>2, <4>2, FS_Singleton, Zenon
      <4>3. CASE Count(ss[1], x) = 0
        <5>1. With(1) = {}
          BY <3>2, <4>3
        <5>2. IsFiniteSet(With(1)) /\ Cardinality(With(1)) = 0
          BY <5>1, FS_EmptySet, Zenon
        <5> QED
          BY <4>3, <5>2
      <4> QED
        BY <4>1, <4>2, <4>3
    <3>4. ss[1] \in Seq(X)
      BY <1>1, <3>1
    <3> HIDE DEF With
    <3>5. P(0)
      BY <3>1, <3>3, <3>4
    <3> HIDE DEF P
    <3> QED
      BY <2>2, <3>5
  <2>4. ASSUME NEW k \in 0..m-1, k \in K PROVE k + 1 \in K
    <3> DEFINE j == (k + 1) + 1
    <3>1. /\ k + 1 \in 0..m /\ j \in 1..n /\ j # 1 /\ j - 1 = k + 1 /\ k + 1 \in Nat
          /\ \A i \in Int : i \in 1..j <=> i \in 1..k+1 \/ i = j
      BY <2>2
    <3>2. P(k)
      BY <2>4
    <3> HIDE DEF j
    <3>3. f[j] = f[k+1] \o ss[j]
      BY <2>1, <3>1, Zenon DEF IsJoining
    <3>4. ss[j] \in Seq(X) /\ Count(ss[j], x) \in {0, 1}
      BY <1>1, <3>1
    <3>5. f[j] \in Seq(X) /\ Count(f[j], x) = Count(f[k+1], x) + Count(ss[j], x)
      <4> DEFINE s == f[k+1]
                 t == ss[j]
                 v == f[j]
      <4>1. s \in Seq(X) /\ t \in Seq(X) /\ v = s \o t
        BY <3>2, <3>3, <3>4
      <4> HIDE DEF s, t, v
      <4>2. v \in Seq(X) /\ Count(v, x) = Count(s, x) + Count(t, x)
        <5>1. HasJoined(X, s, t, x, v)
          BY <4>1, CountOfJoined, Zenon
        <5> QED
          BY <5>1 DEF HasJoined
      <4> QED
        BY <4>2 DEF s, t, v
    <3>6. With(j) = IF Count(ss[j], x) = 1 THEN With(k+1) \union {j} ELSE With(k+1)
      <4>1. \A i \in 1..j : i \in Int
        BY <3>1
      <4>2. \A i \in 1..k+1 : i \in Int
        OBVIOUS
      <4> QED
        BY <3>1, <4>1, <4>2
    <3>7. j \notin With(k+1)
      BY <3>1
    <3> HIDE DEF With
    <3>8. IsFiniteSet(With(k+1)) /\ Cardinality(With(k+1)) \in Nat
      BY <3>2, FS_CardinalityType
    <3>9. IsFiniteSet(With(j)) /\ Count(f[j], x) = Cardinality(With(j))
      <4>1. CASE Count(ss[j], x) = 1
        <5>1. IsFiniteSet(With(j)) /\ Cardinality(With(j)) = Cardinality(With(k+1)) + 1
          <6> DEFINE W == With(k+1)
          <6>1. IsFiniteSet(W) /\ j \notin W /\ With(j) = W \union {j}
            BY <3>6, <3>7, <3>8, <4>1
          <6> HIDE DEF W
          <6>2. IsFiniteSet(W \union {j}) /\ Cardinality(W \union {j}) = Cardinality(W) + 1
            BY <6>1, FS_AddElement, Zenon
          <6> QED
            BY <6>1, <6>2 DEF W
        <5> QED
          BY <3>2, <3>5, <4>1, <5>1
      <4>2. CASE Count(ss[j], x) = 0
        <5>1. With(j) = With(k+1)
          BY <3>6, <4>2
        <5> QED
          BY <3>2, <3>5, <3>8, <4>2, <5>1
      <4> QED
        BY <3>4, <4>1, <4>2
    <3>10. P(k+1)
      BY <3>5, <3>9 DEF j
    <3> HIDE DEF P
    <3> QED
      BY <3>1, <3>10
  <2>5. K = 0..m
    <3>1. K \in SUBSET (0..m) /\ \A k \in 0..m-1 : k \in K => k + 1 \in K
      BY <2>4, Zenon
    <3> HIDE DEF K, m
    <3> QED
      BY <2>2, <2>3, <3>1, InductionUpTo, Zenon
  <2>6. P(m)
    <3>1. m \in K
      <4>1. m \in 0..m
        BY <2>2
      <4> HIDE DEF K, m
      <4> QED
        BY <2>5, <4>1
    <3> HIDE DEF P
    <3> QED
      BY <3>1
  <2>7. u \in Seq(X) /\ Count(u, x) = Cardinality(With(n))
    BY <2>1, <2>2, <2>6
  <2> QED
    BY <2>7 DEF HasCounted
<1> QED
  BY <1>2, <1>3

-----------------------------------------------------------------------------
(* What the entries of a leaf add to a range. *)

HasLocations(d, e, vs) ==
    vs \in Seq(Locations) /\ \A l : Count(vs, l) = IF l \in LocationsOf(d, e) THEN 1 ELSE 0

LEMMA ValuesAre ==
    ASSUME NEW d, Numbered(d), NEW e, OneFilled(d, e), NEW vs, vs = Values(d, e)
    PROVE  HasLocations(d, e, vs)
<1>1. PICK s : HasChain(d, e, s)
  BY DEF OneFilled
<1> DEFINE ss == [i \in DOMAIN s |-> d[s[i]].values]
           u == FlattenSeq(ss)
           one == <<e.child>>
<1>2. /\ OverflowChain(d, e.over) = s /\ s \in Seq(DOMAIN d)
      /\ \A l : l \in LocationsOf(d, e)
                  <=> l = e.child \/ \E i \in 1..Len(s) : l \in Range(d[s[i]].values)
  BY <1>1, ChainOwns
<1>3. vs = one \o u
  BY <1>2 DEF Values
<1>4. /\ e.child \in Locations
      /\ \A i \in 1..Len(s) : FilledPage(d[s[i]]) /\ e.child \notin Range(d[s[i]].values)
      /\ \A i, j \in 1..Len(s) : \A l \in Range(d[s[i]].values) :
            l \in Range(d[s[j]].values) => i = j
  BY <1>1 DEF HasChain
<1>5. DOMAIN s = 1..Len(s) /\ Len(s) \in Nat
  BY <1>2, RangeHas
<1>6. /\ ss \in Seq(Seq(Locations)) /\ Len(ss) = Len(s)
      /\ \A i \in 1..Len(s) : /\ ss[i] = d[s[i]].values /\ ss[i] \in Seq(Locations)
                              /\ Distinct(ss[i])
  <2>1. \A i \in 1..Len(s) : d[s[i]].values \in Seq(Locations) /\ Distinct(d[s[i]].values)
    BY <1>4 DEF FilledPage, AnyPage, Distinct
  <2> QED
    BY <1>5, <2>1
<1> HIDE DEF ss
<1>7. one \in Seq(Locations) /\ Distinct(one) /\ \A l : l \in Range(one) <=> l = e.child
  <2>1. one \in Seq(Locations) /\ Len(one) = 1 /\ one[1] = e.child /\ DOMAIN one = {1}
    BY <1>4
  <2> HIDE DEF one
  <2> QED
    BY <2>1 DEF Distinct, Range
<1> HIDE DEF one, u
<1>8. ASSUME NEW l PROVE vs \in Seq(Locations) /\ Count(vs, l) = IF l \in LocationsOf(d, e) THEN 1 ELSE 0
  <2>1. Count(one, l) = IF l = e.child THEN 1 ELSE 0
    <3>1. Count(one, l) = IF l \in Range(one) THEN 1 ELSE 0
      BY <1>7, CountOfDistinct
    <3> QED
      BY <1>7, <3>1
  <2>2. \A i \in 1..Len(s) : Count(ss[i], l) = IF l \in Range(ss[i]) THEN 1 ELSE 0
    <3> TAKE i \in 1..Len(s)
    <3> DEFINE t == ss[i]
    <3>1. t \in Seq(Locations) /\ Distinct(t)
      BY <1>6
    <3> HIDE DEF t
    <3>2. Count(t, l) = IF l \in Range(t) THEN 1 ELSE 0
      BY <3>1, CountOfDistinct
    <3> QED
      BY <3>2 DEF t
  <2>3. HasCounted(Locations, ss, l, u)
    <3>1. \A i \in 1..Len(ss) : Count(ss[i], l) \in {0, 1}
      BY <1>6, <2>2
    <3> QED
      BY <1>6, <3>1, FlattenCounts DEF u
  <2>4. u \in Seq(Locations) /\ Count(u, l) = Cardinality({i \in 1..Len(s) : Count(ss[i], l) = 1})
    BY <1>6, <2>3 DEF HasCounted
  <2> DEFINE I == {i \in 1..Len(s) : Count(ss[i], l) = 1}
  <2>5. \A i : i \in I <=> i \in 1..Len(s) /\ l \in Range(d[s[i]].values)
    BY <1>6, <2>2
  <2> HIDE DEF I
  <2>6. Count(u, l) = Cardinality(I)
    BY <2>4 DEF I
  <2>7. Count(u, l) = IF \E i \in 1..Len(s) : l \in Range(d[s[i]].values) THEN 1 ELSE 0
    <3>1. CASE I = {}
      <4>1. Count(u, l) = 0
        BY <2>6, <3>1, FS_EmptySet
      <4> QED
        BY <2>5, <3>1, <4>1
    <3>2. CASE I # {}
      <4>1. PICK i : i \in I
        BY <3>2
      <4>2. I = {i}
        BY <1>4, <2>5, <4>1, Zenon
      <4>3. Count(u, l) = 1
        BY <2>6, <4>2, FS_Singleton
      <4> QED
        BY <2>5, <4>1, <4>3
    <3> QED
      BY <3>1, <3>2
  <2>8. HasJoined(Locations, one, u, l, vs)
    BY <1>3, <1>7, <2>4, CountOfJoined, Zenon
  <2>9. vs \in Seq(Locations) /\ Count(vs, l) = Count(one, l) + Count(u, l)
    BY <2>8 DEF HasJoined
  <2>10. ~(l = e.child /\ \E i \in 1..Len(s) : l \in Range(d[s[i]].values))
    BY <1>4
  <2> QED
    BY <1>2, <2>1, <2>7, <2>9, <2>10
<1> QED
  BY <1>8 DEF HasLocations

(* The sequence u has l as often as S has elements. *)
IsCounted(u, l, S) == u \in Seq(Locations) /\ IsFiniteSet(S) /\ Count(u, l) = Cardinality(S)

LEMMA CountsAdd ==
    ASSUME NEW l, NEW u, NEW A, IsCounted(u, l, A), NEW v, NEW B, IsCounted(v, l, B),
           A \intersect B = {}, NEW w, w = u \o v
    PROVE  IsCounted(w, l, A \union B)
<1>1. HasJoined(Locations, u, v, l, w)
  BY CountOfJoined, Zenon DEF IsCounted
<1>2. w \in Seq(Locations) /\ Count(w, l) = Cardinality(A) + Cardinality(B)
  BY <1>1 DEF HasJoined, IsCounted
<1>3. /\ IsFiniteSet(A) /\ IsFiniteSet(B) /\ Cardinality(A) \in Nat /\ Cardinality(B) \in Nat
  BY FS_CardinalityType DEF IsCounted
<1>4. /\ IsFiniteSet(A \union B)
      /\ Cardinality(A \union B) = Cardinality(A) + Cardinality(B) - Cardinality(A \intersect B)
  BY <1>3, FS_Union
<1>5. Cardinality(A \intersect B) = 0
  BY FS_EmptySet
<1> QED
  BY <1>2, <1>3, <1>4, <1>5 DEF IsCounted

LEMMA HitsCount ==
    ASSUME NEW d, Numbered(d), NEW hits \in Seq(AnyEntry), Distinct(hits),
           \A i \in 1..Len(hits) : OneFilled(d, hits[i]), NEW l,
           NEW u, u = FlattenSeq([i \in DOMAIN hits |-> Values(d, hits[i])]),
           NEW S, S = {e \in Range(hits) : l \in LocationsOf(d, e)}
    PROVE  IsCounted(u, l, S)
<1> DEFINE ss == [i \in DOMAIN hits |-> Values(d, hits[i])]
           I == {i \in 1..Len(hits) : Count(ss[i], l) = 1}
<1>1. DOMAIN hits = 1..Len(hits) /\ Len(hits) \in Nat
  BY RangeHas
<1>2. ASSUME NEW i \in 1..Len(hits)
      PROVE  /\ ss[i] \in Seq(Locations)
             /\ Count(ss[i], l) = IF l \in LocationsOf(d, hits[i]) THEN 1 ELSE 0
  <2> DEFINE e == hits[i]
             vs == Values(d, e)
  <2>1. OneFilled(d, e) /\ ss[i] = vs
    BY <1>1
  <2> HIDE DEF e, vs, ss
  <2>2. HasLocations(d, e, vs)
    BY <2>1, ValuesAre DEF vs
  <2> QED
    BY <2>1, <2>2 DEF HasLocations, e
<1>3. ss \in Seq(Seq(Locations)) /\ Len(ss) = Len(hits)
  BY <1>1, <1>2
<1> HIDE DEF ss
<1>4. HasCounted(Locations, ss, l, u)
  <2>1. \A i \in 1..Len(ss) : Count(ss[i], l) \in {0, 1}
    BY <1>2, <1>3
  <2> QED
    BY <1>3, <2>1, FlattenCounts, Zenon DEF ss
<1>5. u \in Seq(Locations) /\ Count(u, l) = Cardinality(I)
  BY <1>3, <1>4 DEF HasCounted
<1>6. IsFiniteSet(I)
  <2>1. IsFiniteSet(1..Len(hits))
    BY <1>1, FS_Interval
  <2>2. I \in SUBSET (1..Len(hits))
    OBVIOUS
  <2> HIDE DEF I
  <2> QED
    BY <2>1, <2>2, FS_Subset, Zenon
<1>7. \A i : i \in I <=> i \in 1..Len(hits) /\ l \in LocationsOf(d, hits[i])
  BY <1>2
<1> DEFINE f == [i \in I |-> hits[i]]
<1> HIDE DEF I
<1>8. IsOneToOne(f, I, S)
  <2>1. f = [i \in I |-> f[i]] /\ \A i \in I : f[i] = hits[i]
    OBVIOUS
  <2> HIDE DEF f
  <2>2. \A i \in I : f[i] \in S
    BY <1>1, <1>7, <2>1 DEF Range
  <2>3. \A i, j \in I : f[i] = f[j] => i = j
    BY <1>7, <2>1 DEF Distinct
  <2>4. \A e \in S : \E i \in I : f[i] = e
    BY <1>1, <1>7, <2>1 DEF Range
  <2> QED
    BY <2>1, <2>2, <2>3, <2>4 DEF IsOneToOne
<1>9. IsFiniteSet(S) /\ Cardinality(S) = Cardinality(I)
  BY <1>6, <1>8, SameCardinality
<1> QED
  BY <1>5, <1>9 DEF IsCounted

-----------------------------------------------------------------------------
(* Where a range begins. *)

(* Whatever is before p on its level ends at x. *)
EndsBelow(d, r, N, level, hi, p, x) ==
    \A q \in N : level[q] = level[p] /\ q # p /\ Before(d, r, hi, q, p) => hi[q] <= x

LEMMA StaysBelow ==
    ASSUME NEW d, NEW r, NEW N, NEW level, NEW hi, Shape(d, r, N, level, hi), NEW x \in Int,
           NEW p \in N, level[p] # 0, EndsBelow(d, r, N, level, hi, p, x),
           NEW e, IsFollowed(Ent(d, p), e, x)
    PROVE  EndsBelow(d, r, N, level, hi, e.child, x)
<1> DEFINE c == e.child
<1>1. e \in Ent(d, p) /\ c \in N \ {r} /\ level[c] + 1 = level[p] /\ d[c].parent = p /\ level[c] \in Nat
  BY OneEntry DEF IsFollowed, Shape, Kids, Ranked
<1> SUFFICES ASSUME NEW q \in N, level[q] = level[c], q # c, Before(d, r, hi, q, c)
             PROVE  hi[q] <= x
  BY DEF EndsBelow
<1>2. q # r /\ hi[q] <= e.key
  BY <1>1 DEF Before
<1>3. d[q].parent \in N /\ level[d[q].parent] # 0 /\ \E g \in Ent(d, d[q].parent) : g.child = q
  BY <1>2 DEF Shape, Fathered
<1> DEFINE f == d[q].parent
<1>4. PICK g \in Ent(d, f) : g.child = q
  BY <1>3
<1>5. level[f] = level[p] /\ g.key \in Int /\ e.key \in Int /\ hi[q] \in Int
      /\ (f = p => (g.key = e.key => g = e)) /\ hi[q] <= hi[f] /\ hi[f] \in Int
  <2>1. level[q] + 1 = level[f]
    BY <1>3, <1>4 DEF Shape, Kids
  <2>2. g.key \in Int /\ e.key \in Int /\ (f = p => (g.key = e.key => g = e))
    BY <1>1, <1>3, <1>4 DEF Shape, Keyed
  <2>3. hi[q] <= hi[f] /\ hi[f] \in Int /\ hi[q] \in Int
    BY <1>3, <1>4 DEF Shape, Limited
  <2> QED
    BY <1>1, <2>1, <2>2, <2>3
<1>6. g.key < hi[q]
  <2>1. PICK h \in Ent(d, q) : TRUE
    BY <1>2 DEF Shape, Fathered
  <2>2. g.key <= h.key /\ h.key < hi[q] /\ h.key \in Int
    BY <1>3, <1>4, <2>1 DEF Shape, Kids, Limited, Keyed
  <2> QED
    BY <1>5, <2>2
<1> HIDE DEF c, f
<1>7. CASE f = p
  <2>1. g.key < e.key
    BY <1>2, <1>5, <1>6
  <2>2. ~(x < e.key)
    BY <1>4, <1>5, <1>7, <2>1 DEF IsFollowed
  <2> QED
    BY <1>2, <1>5, <2>2
<1>8. CASE f # p /\ Before(d, r, hi, f, p)
  <2>1. hi[f] <= x
    BY <1>3, <1>5, <1>8 DEF EndsBelow, f
  <2> QED
    BY <1>5, <2>1
<1>9. CASE f # p /\ Before(d, r, hi, p, f)
  <2>1. f # r /\ f \in N
    BY <1>3, <1>9 DEF Before, f
  <2>2. d[f].parent \in N /\ level[d[f].parent] # 0 /\ \E a \in Ent(d, d[f].parent) : a.child = f
    BY <2>1 DEF Shape, Fathered
  <2>3. PICK a \in Ent(d, d[f].parent) : a.child = f
    BY <2>2
  <2>4. hi[p] <= a.key /\ a.key <= g.key /\ a.key \in Int
    BY <1>4, <1>9, <2>2, <2>3 DEF Before, Shape, Kids, Keyed
  <2>5. e.key < hi[p] /\ hi[p] \in Int
    BY <1>1 DEF Shape, Limited
  <2> QED
    BY <1>2, <1>5, <1>6, <2>4, <2>5
<1> QED
  BY <1>3, <1>5, <1>7, <1>8, <1>9, Apart DEF f

(* The way down, at a node with nothing before it from x on. *)
Leading(d, r, N, level, hi, x, s) ==
    \E p \in N : s = [pages |-> d, at |-> p, key |-> x] /\ EndsBelow(d, r, N, level, hi, p, x)

LEMMA LeadsOn ==
    ASSUME NEW d, NEW r, NEW N, NEW level, NEW hi, Built(d, r, N, level, hi), Full(d, r, N),
           NEW x \in Int, NEW s, Leading(d, r, N, level, hi, x, s)
    PROVE  Leading(d, r, N, level, hi, x, DownStep(s))
<1>1. PICK p \in N : s = [pages |-> d, at |-> p, key |-> x] /\ EndsBelow(d, r, N, level, hi, p, x)
  BY DEF Leading
<1>2. s.pages = d /\ s.at = p /\ s.key = x
  BY <1>1
<1>3. CASE level[p] = 0
  <2>1. d[p].leaf
    BY <1>3, NodeEntries
  <2>2. DownStep(s) = s
    BY <1>2, <2>1 DEF DownStep
  <2> QED
    BY <2>2
<1>4. CASE level[p] # 0
  <2> DEFINE n == d[p]
             e == n.entries[Followed(n, x)]
  <2>1. ~n.leaf /\ n.entries \in Seq(AnyEntry) /\ Ascending(n.entries) /\ n.entries # << >>
        /\ Ent(d, p) = Range(n.entries)
    BY <1>4, NodeEntries, Inhabited DEF Ent
  <2>2. IsFollowed(Ent(d, p), e, x)
    BY <2>1, FollowedIs
  <2>3. DownStep(s) = [pages |-> d, at |-> e.child, key |-> x]
    BY <1>1, <1>2, <2>1 DEF DownStep
  <2> HIDE DEF e, n
  <2>4. EndsBelow(d, r, N, level, hi, e.child, x) /\ e.child \in N
    <3>1. Shape(d, r, N, level, hi)
      BY DEF Built
    <3>2. e.child \in N
      BY <1>4, <2>2, <3>1 DEF IsFollowed, Shape, Kids
    <3> QED
      BY <1>1, <1>4, <2>2, <3>1, <3>2, StaysBelow
  <2> QED
    BY <2>3, <2>4 DEF Leading
<1> QED
  BY <1>3, <1>4

LEMMA LeafLeads ==
    ASSUME NEW d, NEW r, NEW N, NEW level, NEW hi, Built(d, r, N, level, hi), Full(d, r, N), NEW x \in Int
    PROVE  EndsBelow(d, r, N, level, hi, LeafOf(d, r, x), x)
<1> DEFINE start == Search(d, r, x)
           n == Bound(d)
           At(i) == Descent!After(start, i)
           K == {i \in 0..n : Leading(d, r, N, level, hi, x, At(i))}
<1>1. n \in Nat /\ r \in N
  BY Inhabited
<1>2. At(0) = start /\ \A i \in Nat : At(i + 1) = DownStep(At(i))
  BY Descent!Iterations, Zenon
<1>3. Leading(d, r, N, level, hi, x, start)
  <2>1. EndsBelow(d, r, N, level, hi, r, x)
    BY DEF EndsBelow, Before
  <2> QED
    BY <1>1, <2>1 DEF Leading, Search
<1> HIDE DEF At, start
<1>4. 0 \in K
  BY <1>1, <1>2, <1>3
<1>5. ASSUME NEW i \in 0..n-1, i \in K PROVE i + 1 \in K
  <2>1. i \in Nat /\ i + 1 \in 0..n
    BY <1>1
  <2>2. Leading(d, r, N, level, hi, x, DownStep(At(i)))
    BY <1>5, LeadsOn
  <2> QED
    BY <1>2, <2>1, <2>2
<1>6. K = 0..n
  <2>1. K \in SUBSET (0..n) /\ \A i \in 0..n-1 : i \in K => i + 1 \in K
    BY <1>5
  <2> HIDE DEF K, n
  <2> QED
    BY <1>1, <1>4, <2>1, InductionUpTo
<1>7. Leading(d, r, N, level, hi, x, At(n))
  BY <1>1, <1>6
<1>8. LeafOf(d, r, x) = At(n).at
  BY DEF LeafOf, Loop, Descent!After, At, start
<1> HIDE DEF n
<1> QED
  BY <1>7, <1>8 DEF Leading

(* The leaf p is where a range from x on begins: the keys of the leaves    *)
(* before it are smaller, and no other leaf has x.                         *)
IsStart(d, L, x, p) ==
    /\ p \in L
    /\ \A q \in L \ {p} : \/ Below(Ent(d, p), Ent(d, q))
                          \/ \A e \in Ent(d, q) : e.key < x
    /\ \A q \in L \ {p} : \A e \in Ent(d, q) : e.key # x

LEMMA RangeStarts ==
    ASSUME NEW d, NEW r, NEW N, NEW level, NEW hi, Built(d, r, N, level, hi), Full(d, r, N), NEW x \in Int
    PROVE  IsStart(d, Leaves(N, level), x, LeafOf(d, r, x))
<1> DEFINE p == LeafOf(d, r, x)
<1>1. p \in N /\ level[p] = 0 /\ OnlyAt(d, r, N, level, hi, 0, p, x) /\ Shape(d, r, N, level, hi)
  BY LeafIsFound DEF IsLeafFor, Built
<1>2. EndsBelow(d, r, N, level, hi, p, x)
  BY LeafLeads
<1> HIDE DEF p
<1>3. ASSUME NEW q \in N, level[q] = 0, q # p
      PROVE  \/ Below(Ent(d, p), Ent(d, q))
             \/ \A e \in Ent(d, q) : e.key < x
  <2>1. CASE Before(d, r, hi, p, q)
    <3>1. q # r /\ \A g \in Ent(d, d[q].parent) : g.child = q => hi[p] <= g.key
      BY <2>1 DEF Before
    <3>2. d[q].parent \in N /\ level[d[q].parent] # 0 /\ \E g \in Ent(d, d[q].parent) : g.child = q
      BY <1>1, <3>1 DEF Shape, Fathered
    <3>3. PICK g \in Ent(d, d[q].parent) : g.child = q
      BY <3>2
    <3>4. g.key \in Int /\ hi[p] <= g.key /\ hi[p] \in Int
          /\ (\A e \in Ent(d, q) : g.key <= e.key /\ e.key \in Int)
          /\ \A e \in Ent(d, p) : e.key < hi[p] /\ e.key \in Int
      BY <1>1, <3>1, <3>2, <3>3 DEF Shape, Kids, Limited, Keyed
    <3> QED
      BY <3>4 DEF Below
  <2>2. CASE Before(d, r, hi, q, p)
    <3>1. hi[q] <= x
      BY <1>1, <1>2, <1>3, <2>2 DEF EndsBelow
    <3>2. hi[q] \in Int /\ \A e \in Ent(d, q) : e.key < hi[q] /\ e.key \in Int
      BY <1>1 DEF Shape, Limited, Keyed
    <3> QED
      BY <3>1, <3>2
  <2> QED
    BY <1>1, <1>3, <2>1, <2>2, Apart
<1>4. ASSUME NEW q \in N, level[q] = 0, q # p, NEW e \in Ent(d, q), e.key = x
      PROVE  FALSE
  <2>1. Covers(d, r, hi, q, x)
    BY <1>1, <1>4, KeysAreCovered
  <2> QED
    BY <1>1, <1>4, <2>1 DEF OnlyAt
<1> QED
  BY <1>1, <1>3, <1>4 DEF IsStart, Leaves, p

-----------------------------------------------------------------------------
(* What a leaf adds to a range. *)

LEMMA HitsAre ==
    ASSUME NEW n, n.entries \in Seq(AnyEntry), Ascending(n.entries), NEW low \in Int, NEW high \in Int,
           NEW hits, hits = Hits(n, low, high)
    PROVE  /\ hits \in Seq(AnyEntry) /\ Distinct(hits)
           /\ Range(hits) = {e \in Range(n.entries) : low <= e.key /\ e.key < high}
<1> DEFINE s == n.entries
           a == LowerBound(n, low)
           b == LowerBound(n, high)
<1>1. Len(s) \in Nat /\ DOMAIN s = 1..Len(s) /\ \A i \in 1..Len(s) : s[i] \in AnyEntry /\ s[i].key \in Int
  BY RangeHas, EntriesKeyed DEF KeyedBy
<1>2. /\ a \in 1..Len(s)+1 /\ \A i \in 1..Len(s) : s[i].key < low <=> i < a
      /\ b \in 1..Len(s)+1 /\ \A i \in 1..Len(s) : s[i].key < high <=> i < b
  BY EntriesKeyed, Bounds
<1>3. hits = SubSeq(s, a, b - 1)
  BY DEF Hits
<1>4. \A i, j \in 1..Len(s) : s[i] = s[j] => i = j
  <2>1. \A i, j \in 1..Len(s) : s[i].key = s[j].key <=> i = j
    BY EntriesKeyed, KeyOrder
  <2> QED
    BY <2>1
<1>5. s \in Seq(AnyEntry)
  OBVIOUS
<1> HIDE DEF s, a, b
<1>6. a \in Int /\ b - 1 \in Int /\ \A i \in a..b-1 : i \in 1..Len(s)
  BY <1>1, <1>2
<1>7. /\ hits \in Seq(AnyEntry) /\ Len(hits) = (IF a <= b - 1 THEN b - 1 - a + 1 ELSE 0)
      /\ \A i \in 1..b-1-a+1 : hits[i] = s[a+i-1]
  <2>1. \A i \in a..b-1 : s[i] \in AnyEntry
    BY <1>1, <1>6
  <2> QED
    BY <1>3, <1>6, <2>1, SubSeqProperties
<1> DEFINE m == Len(hits)
<1>8. ASSUME NEW i \in 1..m
      PROVE  \E j \in a..b-1 : j \in 1..Len(s) /\ j = a+i-1 /\ hits[i] = s[j]
  <2>1. m \in Nat /\ m = (IF a <= b - 1 THEN b - 1 - a + 1 ELSE 0)
    BY <1>7
  <2> HIDE DEF m
  <2>2. a+i-1 \in a..b-1 /\ i \in 1..b-1-a+1
    BY <1>2, <1>6, <2>1
  <2> QED
    BY <1>6, <1>7, <2>2, Zenon
<1>9. ASSUME NEW j \in a..b-1
      PROVE  \E i \in 1..m : hits[i] = s[j]
  <2>1. m \in Nat /\ m = (IF a <= b - 1 THEN b - 1 - a + 1 ELSE 0)
    BY <1>7
  <2> HIDE DEF m
  <2>2. j-a+1 \in 1..b-1-a+1 /\ j-a+1 \in 1..m /\ a+(j-a+1)-1 = j
    BY <1>2, <1>6, <2>1
  <2>3. hits[j-a+1] = s[a+(j-a+1)-1]
    BY <1>7, <2>2
  <2> QED
    BY <2>2, <2>3
<1>10. Distinct(hits)
  <2> SUFFICES ASSUME NEW i \in 1..Len(hits), NEW j \in 1..Len(hits), hits[i] = hits[j] PROVE i = j
    BY DEF Distinct
  <2>1. a+i-1 = a+j-1
    <3>1. PICK k1 \in a..b-1 : k1 \in 1..Len(s) /\ k1 = a+i-1 /\ hits[i] = s[k1]
      BY <1>8
    <3>2. PICK k2 \in a..b-1 : k2 \in 1..Len(s) /\ k2 = a+j-1 /\ hits[j] = s[k2]
      BY <1>8
    <3>3. k1 = k2
      BY <1>4, <3>1, <3>2, Zenon
    <3> QED
      BY <3>1, <3>2, <3>3
  <2>2. i \in Int /\ j \in Int /\ a \in Int
    BY <1>6, <1>7
  <2> QED
    BY <2>1, <2>2
<1>11. ASSUME NEW e \in Range(hits)
       PROVE  e \in Range(s) /\ low <= e.key /\ e.key < high
  <2>1. PICK i \in 1..Len(hits) : hits[i] = e
    BY <1>7, RangeHas
  <2>2. PICK j \in a..b-1 : j \in 1..Len(s) /\ e = s[j]
    BY <1>8, <2>1, Zenon
  <2>3. ~(j < a) /\ j < b
    BY <1>2, <1>6, <2>2
  <2>4. ~(e.key < low) /\ e.key < high /\ e.key \in Int /\ e \in Range(s)
    BY <1>1, <1>2, <1>5, <2>2, <2>3, RangeHas, Zenon
  <2> QED
    BY <2>4
<1>12. ASSUME NEW e \in Range(s), low <= e.key, e.key < high
       PROVE  e \in Range(hits)
  <2>1. PICK j \in 1..Len(s) : s[j] = e
    BY <1>5, RangeHas
  <2>2. ~(j < a) /\ j < b
    BY <1>1, <1>2, <1>12, <2>1
  <2>3. j \in a..b-1
    BY <1>1, <1>2, <2>2
  <2> QED
    BY <1>7, <1>9, <2>1, <2>3, RangeHas
<1> QED
  BY <1>7, <1>10, <1>11, <1>12 DEF s

(* The entries among E that a range asks for and that have the location l. *)
Sought(d, E, low, high, l) == {e \in E : low <= e.key /\ e.key < high /\ l \in LocationsOf(d, e)}

(* The sequence u is the range over the entries E. *)
IsRangeOf(d, E, low, high, u) == \A l : IsCounted(u, l, Sought(d, E, low, high, l))

LEMMA LeafRange ==
    ASSUME NEW d, NEW r, NEW N, NEW level, NEW hi, Sound(d, r, N, level, hi), NEW p \in N, level[p] = 0,
           NEW low \in Int, NEW high \in Int, NEW hits, hits = Hits(d[p], low, high),
           NEW u, u = FlattenSeq([i \in DOMAIN hits |-> Values(d, hits[i])])
    PROVE  IsRangeOf(d, Ent(d, p), low, high, u)
<1>1. Built(d, r, N, level, hi) /\ Shape(d, r, N, level, hi) /\ Numbered(d)
      /\ Filled(d, LeafEntries(d, N), DOMAIN d \ N)
  BY SoundIs, Zenon
<1>2. /\ hits \in Seq(AnyEntry) /\ Distinct(hits)
      /\ Range(hits) = {e \in Ent(d, p) : low <= e.key /\ e.key < high}
  <2>1. d[p].entries \in Seq(AnyEntry) /\ Ascending(d[p].entries)
    BY <1>1, NodeEntries
  <2> QED
    BY <2>1, HitsAre DEF Ent
<1>3. \A i \in 1..Len(hits) : OneFilled(d, hits[i])
  <2>1. \A i \in 1..Len(hits) : hits[i] \in Ent(d, p)
    BY <1>2, RangeHas
  <2>2. \A e \in Ent(d, p) : e \in LeafEntries(d, N)
    BY <1>1, InLeaves
  <2> QED
    BY <1>1, <2>1, <2>2 DEF Filled
<1>4. ASSUME NEW l PROVE IsCounted(u, l, Sought(d, Ent(d, p), low, high, l))
  <2>1. Sought(d, Ent(d, p), low, high, l) = {e \in Range(hits) : l \in LocationsOf(d, e)}
    BY <1>2 DEF Sought
  <2> QED
    BY <1>1, <1>2, <1>3, <2>1, HitsCount
<1> QED
  BY <1>4 DEF IsRangeOf

LEMMA RangesJoin ==
    ASSUME NEW d, NEW low, NEW high, NEW A, NEW u, IsRangeOf(d, A, low, high, u),
           NEW B, NEW v, IsRangeOf(d, B, low, high, v), A \intersect B = {}, NEW w, w = u \o v,
           NEW E, \A e : low <= e.key /\ e.key < high => (e \in E <=> e \in A \/ e \in B)
    PROVE  IsRangeOf(d, E, low, high, w)
<1> SUFFICES ASSUME NEW l PROVE IsCounted(w, l, Sought(d, E, low, high, l))
  BY DEF IsRangeOf
<1> DEFINE S(X) == Sought(d, X, low, high, l)
<1>1. IsCounted(u, l, S(A)) /\ IsCounted(v, l, S(B))
  BY DEF IsRangeOf
<1>2. S(A) \intersect S(B) = {} /\ S(A) \union S(B) = S(E)
  BY DEF Sought
<1> HIDE DEF S
<1>3. IsCounted(w, l, S(A) \union S(B))
  BY <1>1, <1>2, CountsAdd, Zenon
<1> QED
  BY <1>2, <1>3, Zenon DEF S

NoneWithin(E, low, high) == \A e \in E : ~(low <= e.key /\ e.key < high)

IsNone(u) == u = << >>

LEMMA NothingSought ==
    ASSUME NEW d, NEW E, NEW low, NEW high, NoneWithin(E, low, high), NEW u
    PROVE  IsRangeOf(d, E, low, high, u) <=> IsNone(u)
<1>1. \A l : Sought(d, E, low, high, l) = {}
  BY DEF Sought, NoneWithin
<1>2. ASSUME u = << >> PROVE IsRangeOf(d, E, low, high, u)
  <2>1. u \in Seq(Locations) /\ Range(u) = {}
    BY <1>2 DEF Range
  <2>2. IsFiniteSet({}) /\ Cardinality({}) = 0
    BY FS_EmptySet
  <2>3. \A l : Count(u, l) = 0
    BY <2>1, CountIs
  <2> QED
    BY <1>1, <2>1, <2>2, <2>3, Zenon DEF IsRangeOf, IsCounted
<1>3. ASSUME IsRangeOf(d, E, low, high, u) PROVE u = << >>
  <2>1. u \in Seq(Locations) /\ \A l : Count(u, l) = Cardinality({})
    BY <1>1, <1>3, Zenon DEF IsRangeOf, IsCounted
  <2>2. Cardinality({}) = 0
    BY FS_EmptySet
  <2>3. \A l : l \notin Range(u)
    BY <2>1, <2>2, CountIs
  <2> QED
    BY <2>1, <2>3, RangeHas
<1> QED
  BY <1>2, <1>3 DEF IsNone

-----------------------------------------------------------------------------
(* The loop of Range along the leaves. *)

(* The entries of the leaves before p. *)
Earlier(d, N, p) == {e \in LeafEntries(d, N) : \A h \in Ent(d, p) : e.key < h.key}

(* A leaf where the range begins, or one that goes on with it. *)
Begins(d, N, low, p, found) ==
    found = << >> /\ \A e \in LeafEntries(d, N) : e.key = low => e \in Ent(d, p)

Continues(d, low, p) == Ent(d, p) # {} /\ \A e \in Ent(d, p) : low <= e.key

(* The range is complete, or it is empty as its first key is missing. *)
IsAnswer(d, N, low, high, found) ==
    \/ IsRangeOf(d, LeafEntries(d, N), low, high, found)
    \/ found = << >> /\ \A e \in LeafEntries(d, N) : e.key # low

(* The leaves before p. *)
Passed(d, L, p) == {q \in L \ {p} : Below(Ent(d, q), Ent(d, p))}

IsAt(d, N, L, low, high, p, found, i) ==
    /\ p \in L /\ i <= Cardinality(Passed(d, L, p))
    /\ IsRangeOf(d, Earlier(d, N, p), low, high, found)
    /\ Begins(d, N, low, p, found) \/ Continues(d, low, p)

(* The loop after i leaves. *)
Ranging(d, N, L, low, high, s, i) ==
    \E p, found :
        /\ s = [pages |-> d, low |-> low, high |-> high, found |-> found, at |-> p]
        /\ \/ p = Null /\ IsAnswer(d, N, low, high, found)
           \/ IsAt(d, N, L, low, high, p, found, i)

(* The leaves are L, their order that of their keys. *)
HasLeaves(d, N, L) ==
    /\ IsFiniteSet(L) /\ L \subseteq N /\ Separated(d, L) /\ Listed(d, L) /\ Null \notin L
    /\ \A p \in L : d[p].entries \in Seq(AnyEntry) /\ Ascending(d[p].entries)
    /\ \A e : e \in LeafEntries(d, N) <=> \E q \in L : e \in Ent(d, q)

LEMMA LeavesAre ==
    ASSUME NEW d, NEW r, NEW N, NEW level, NEW hi, Sound(d, r, N, level, hi)
    PROVE  HasLeaves(d, N, Leaves(N, level))
<1> DEFINE L == Leaves(N, level)
<1>1. Built(d, r, N, level, hi) /\ Shape(d, r, N, level, hi) /\ Numbered(d)
  BY SoundIs, Zenon
<1>2. L \in SUBSET (DOMAIN d) /\ IsFiniteSet(DOMAIN d) /\ L \subseteq N
  BY <1>1 DEF Built, Paged, Leaves
<1>3. IsFiniteSet(L)
  BY <1>2, FS_Subset
<1>4. Separated(d, L) /\ Listed(d, L) /\ Null \notin L
  BY <1>1, LeavesSeparated DEF Built, Leaves, Shape, Ranked
<1>5. \A p \in L : d[p].entries \in Seq(AnyEntry) /\ Ascending(d[p].entries)
  BY <1>1, <1>2, NodeEntries
<1>6. \A e : e \in LeafEntries(d, N) <=> \E q \in L : e \in Ent(d, q)
  BY <1>1, InLeaves DEF Leaves
<1> QED
  BY <1>2, <1>3, <1>4, <1>5, <1>6 DEF HasLeaves

(* Where the range goes on from the leaf p. *)
LEMMA NextLeaf ==
    ASSUME NEW d, NEW N, NEW L, HasLeaves(d, N, L), NEW p \in L, Ent(d, p) # {},
           NEW q, q = d[p].next, q # Null
    PROVE  /\ q \in L /\ Ent(d, q) # {} /\ Below(Ent(d, p), Ent(d, q))
           /\ Earlier(d, N, q) = Earlier(d, N, p) \union Ent(d, p)
           /\ Cardinality(Passed(d, L, p)) + 1 <= Cardinality(Passed(d, L, q))
<1>1. /\ q \in L \ {p} /\ Below(Ent(d, p), Ent(d, q))
      /\ \A a \in L \ {p, q} : Below(Ent(d, a), Ent(d, p)) \/ Below(Ent(d, q), Ent(d, a))
  BY DEF HasLeaves, Listed, IsNext
<1>2. Separated(d, L) /\ Ent(d, q) # {} /\ \A a \in L : \A e \in Ent(d, a) : e.key \in Int
  BY <1>1 DEF HasLeaves, Separated, KeyedBy
<1>3. ASSUME NEW e \in Earlier(d, N, q) PROVE e \in Earlier(d, N, p) \/ e \in Ent(d, p)
  <2>1. e \in LeafEntries(d, N) /\ \A h \in Ent(d, q) : e.key < h.key
    BY DEF Earlier
  <2>2. PICK a \in L : e \in Ent(d, a)
    BY <2>1 DEF HasLeaves
  <2>3. a # q
    BY <1>2, <2>1, <2>2
  <2>4. ~Below(Ent(d, q), Ent(d, a))
    BY <1>1, <1>2, <2>1, <2>2 DEF Below
  <2>5. a = p \/ \A h \in Ent(d, p) : e.key < h.key
    BY <1>1, <2>2, <2>3, <2>4 DEF Below
  <2> QED
    BY <2>1, <2>2, <2>5 DEF Earlier
<1>4. ASSUME NEW e, e \in Earlier(d, N, p) \/ e \in Ent(d, p) PROVE e \in Earlier(d, N, q)
  <2>1. e \in LeafEntries(d, N)
    BY <1>4 DEF Earlier, HasLeaves
  <2>2. e.key \in Int
    BY <1>2, <2>1 DEF HasLeaves
  <2>3. \A h \in Ent(d, q) : e.key < h.key
    <3>1. CASE e \in Ent(d, p)
      BY <1>1, <3>1 DEF Below
    <3>2. CASE e \in Earlier(d, N, p)
      <4>1. PICK g \in Ent(d, p) : TRUE
        OBVIOUS
      <4>2. e.key < g.key /\ g.key \in Int
        BY <1>2, <3>2, <4>1 DEF Earlier
      <4>3. \A h \in Ent(d, q) : g.key < h.key /\ h.key \in Int
        BY <1>1, <1>2, <4>1 DEF Below
      <4> QED
        BY <2>2, <4>2, <4>3
    <3> QED
      BY <1>4, <3>1, <3>2
  <2> QED
    BY <2>1, <2>3 DEF Earlier
<1>5. Cardinality(Passed(d, L, p)) + 1 <= Cardinality(Passed(d, L, q))
  <2> DEFINE A == Passed(d, L, p)
             B == Passed(d, L, q)
             C == A \union {p}
  <2>1. p \notin A /\ A \in SUBSET L /\ B \in SUBSET L
    BY DEF Passed
  <2>2. C \in SUBSET B
    <3>1. p \in B
      BY <1>1 DEF Passed
    <3>2. ASSUME NEW a \in A PROVE a \in B
      <4>1. a \in L \ {p} /\ Below(Ent(d, a), Ent(d, p))
        BY DEF Passed
      <4>2. KeyedBy(Ent(d, a)) /\ KeyedBy(Ent(d, p)) /\ KeyedBy(Ent(d, q))
        BY <1>1, <4>1 DEF HasLeaves, Separated
      <4>3. Below(Ent(d, a), Ent(d, q))
        BY <1>1, <4>1, <4>2, BelowOrder
      <4>4. a # q
        BY <1>1, <1>2, <4>1, <4>2, BelowOrder
      <4> QED
        BY <4>1, <4>3, <4>4 DEF Passed
    <3> QED
      BY <3>1, <3>2
  <2>3. IsFiniteSet(L)
    BY DEF HasLeaves
  <2> HIDE DEF A, B
  <2>4. IsFiniteSet(A) /\ IsFiniteSet(B)
    BY <2>1, <2>3, FS_Subset
  <2>5. IsFiniteSet(C) /\ Cardinality(C) = Cardinality(A) + 1
    BY <2>1, <2>4, FS_AddElement
  <2> HIDE DEF C
  <2>6. Cardinality(C) <= Cardinality(B)
    BY <2>2, <2>4, FS_Subset
  <2> QED
    BY <2>5, <2>6 DEF A, B
<1> QED
  BY <1>1, <1>2, <1>3, <1>4, <1>5

(* One iteration, seen from the leaf p. *)
StopsAt(d, low, high, p) ==
    LowerBound(d[p], low) > Size(d[p]) \/ LowerBound(d[p], high) <= Size(d[p])

IsCollecting(d, low, high, found, p, s, hits, w) ==
    /\ p # Null /\ s = [pages |-> d, low |-> low, high |-> high, found |-> found, at |-> p]
    /\ hits = Hits(d[p], low, high)
    /\ w = found \o FlattenSeq([j \in DOMAIN hits |-> Values(d, hits[j])])

HasStepped(d, low, high, p, s, w) ==
    LET then(q) == [pages |-> d, low |-> low, high |-> high, found |-> w, at |-> q]
    IN  /\ StopsAt(d, low, high, p) => RangeStep(s) = then(Null)
        /\ ~StopsAt(d, low, high, p) => RangeStep(s) = then(d[p].next)

LEMMA RangeStepIs ==
    ASSUME NEW d, NEW low, NEW high, NEW found, NEW p, NEW s, NEW hits, NEW w,
           IsCollecting(d, low, high, found, p, s, hits, w)
    PROVE  HasStepped(d, low, high, p, s, w)
<1>1. /\ p # Null /\ s = [pages |-> d, low |-> low, high |-> high, found |-> found, at |-> p]
      /\ s.pages = d /\ s.low = low /\ s.high = high /\ s.found = found /\ s.at = p
      /\ hits = Hits(d[p], low, high)
      /\ w = found \o FlattenSeq([j \in DOMAIN hits |-> Values(d, hits[j])])
  BY DEF IsCollecting
<1>2. ASSUME NEW q
      PROVE  Collected(s, q) = [pages |-> d, low |-> low, high |-> high, found |-> w, at |-> q]
  <2>1. Collected(s, q) = [[s EXCEPT !.at = q] EXCEPT !.found = w]
    BY <1>1 DEF Collected
  <2> QED
    BY <1>1, <2>1, Zenon
<1>3. RangeStep(s) = Collected(s, IF StopsAt(d, low, high, p) THEN Null ELSE d[p].next)
  BY <1>1 DEF RangeStep, StopsAt
<1> QED
  BY <1>2, <1>3 DEF HasStepped

LEMMA RangeGoesOn ==
    ASSUME NEW d, NEW r, NEW N, NEW level, NEW hi, Sound(d, r, N, level, hi), NEW L, L = Leaves(N, level),
           NEW low \in Int, NEW high \in Int, NEW i \in Nat, NEW s, Ranging(d, N, L, low, high, s, i)
    PROVE  Ranging(d, N, L, low, high, RangeStep(s), i + 1)
<1> DEFINE State(found, p) ==
             [pages |-> d, low |-> low, high |-> high, found |-> found, at |-> p]
<1>1. PICK p, found :
        /\ s = State(found, p)
        /\ \/ p = Null /\ IsAnswer(d, N, low, high, found)
           \/ IsAt(d, N, L, low, high, p, found, i)
  BY DEF Ranging
<1>2. HasLeaves(d, N, L) /\ IsFiniteSet(L) /\ L \subseteq N /\ \A q \in L : level[q] = 0
  <2>1. HasLeaves(d, N, L)
    BY LeavesAre
  <2> QED
    BY <2>1 DEF HasLeaves, Leaves
<1>3. CASE p = Null
  <2>1. RangeStep(s) = s
    BY <1>1, <1>3 DEF RangeStep
  <2>2. ~IsAt(d, N, L, low, high, p, found, i)
    BY <1>2, <1>3 DEF IsAt, HasLeaves
  <2> QED
    BY <1>1, <1>3, <2>1, <2>2, Zenon DEF Ranging
<1>4. CASE p # Null
  <2> DEFINE es == d[p].entries
             a == LowerBound(d[p], low)
             b == LowerBound(d[p], high)
             hits == Hits(d[p], low, high)
             u == FlattenSeq([j \in DOMAIN hits |-> Values(d, hits[j])])
             w == found \o u
             ends == a > Size(d[p]) \/ b <= Size(d[p])
  <2>1. /\ p \in L /\ i <= Cardinality(Passed(d, L, p))
        /\ IsRangeOf(d, Earlier(d, N, p), low, high, found)
        /\ Begins(d, N, low, p, found) \/ Continues(d, low, p)
    BY <1>1, <1>4 DEF IsAt
  <2>2. /\ ends => RangeStep(s) = State(w, Null)
        /\ ~ends => RangeStep(s) = State(w, d[p].next)
    <3>1. IsCollecting(d, low, high, found, p, s, hits, w) /\ (ends <=> StopsAt(d, low, high, p))
      BY <1>1, <1>4 DEF IsCollecting, StopsAt
    <3> HIDE DEF hits, u, w, ends, a, b
    <3>2. HasStepped(d, low, high, p, s, w)
      BY <3>1, RangeStepIs
    <3> QED
      BY <3>1, <3>2 DEF HasStepped
  <2>3. es \in Seq(AnyEntry) /\ Ascending(es)
    BY <1>2, <2>1 DEF HasLeaves
  <2>4. /\ Len(es) \in Nat /\ Size(d[p]) = Len(es)
        /\ \A j \in 1..Len(es) : es[j] \in Ent(d, p) /\ es[j].key \in Int
        /\ \A e \in Ent(d, p) : e.key \in Int /\ \E j \in 1..Len(es) : es[j] = e
    BY <2>3, RangeHas, EntriesKeyed DEF Ent, Size, KeyedBy
  <2>5. /\ a \in 1..Len(es)+1 /\ \A j \in 1..Len(es) : es[j].key < low <=> j < a
        /\ b \in 1..Len(es)+1 /\ \A j \in 1..Len(es) : es[j].key < high <=> j < b
    BY <2>3, EntriesKeyed, Bounds, Zenon
  <2>6. IsRangeOf(d, Ent(d, p), low, high, u)
    BY <1>2, <2>1, LeafRange
  <2> HIDE DEF es, a, b, hits, u
  <2>7. Earlier(d, N, p) \intersect Ent(d, p) = {}
    BY <2>4 DEF Earlier
  <2>8. \A E : (\A e : low <= e.key /\ e.key < high => (e \in E <=> e \in Earlier(d, N, p) \/ e \in Ent(d, p)))
                 => IsRangeOf(d, E, low, high, w)
    BY <2>1, <2>6, <2>7, RangesJoin, Zenon
  <2>9. /\ \A e \in LeafEntries(d, N) : e.key \in Int /\ \E q \in L : e \in Ent(d, q)
        /\ \A e : e \in Earlier(d, N, p) \/ e \in Ent(d, p) => e \in LeafEntries(d, N)
    BY <1>2, <2>1 DEF HasLeaves, Separated, KeyedBy, Earlier
  <2>10. ASSUME NEW e \in LeafEntries(d, N), e \notin Earlier(d, N, p), e \notin Ent(d, p)
         PROVE  \E q \in L \ {p} : e \in Ent(d, q) /\ Below(Ent(d, p), Ent(d, q)) /\ ~Below(Ent(d, q), Ent(d, p))
    <3>1. PICK q \in L : e \in Ent(d, q)
      BY <2>9
    <3>2. q # p /\ ~Below(Ent(d, q), Ent(d, p))
      BY <2>10, <3>1 DEF Earlier, Below
    <3> QED
      BY <1>2, <2>1, <3>1, <3>2 DEF HasLeaves, Separated
  <2>11. ASSUME \A e \in LeafEntries(d, N) : low <= e.key /\ e.key < high
                    => e \in Earlier(d, N, p) \/ e \in Ent(d, p)
         PROVE  Ranging(d, N, L, low, high, State(w, Null), i + 1)
    <3>1. IsRangeOf(d, LeafEntries(d, N), low, high, w)
      BY <2>8, <2>9, <2>11
    <3> QED
      BY <3>1, Zenon DEF Ranging, IsAnswer
  <2>12. CASE a > Size(d[p])
    <3>1. \A e \in Ent(d, p) : e.key < low
      BY <2>4, <2>5, <2>12
    <3>2. ~Continues(d, low, p)
      BY <2>4, <3>1 DEF Continues
    <3>3. found = << >> /\ \A e \in LeafEntries(d, N) : e.key = low => e \in Ent(d, p)
      BY <2>1, <3>2 DEF Begins
    <3>4. u = << >>
      <4>1. NoneWithin(Ent(d, p), low, high)
        BY <2>4, <3>1 DEF NoneWithin
      <4>2. IsNone(u)
        BY <2>6, <4>1, NothingSought
      <4> QED
        BY <4>2 DEF IsNone
    <3>5. w = << >> /\ \A e \in LeafEntries(d, N) : e.key # low
      BY <2>4, <3>1, <3>3, <3>4
    <3>6. RangeStep(s) = State(w, Null)
      BY <2>2, <2>12
    <3> HIDE DEF w
    <3> QED
      BY <3>5, <3>6, Zenon DEF Ranging, IsAnswer
  <2>13. CASE a <= Size(d[p]) /\ b <= Size(d[p])
    <3>1. b \in 1..Len(es)
      BY <2>4, <2>5, <2>13
    <3>2. es[b] \in Ent(d, p) /\ es[b].key \in Int /\ ~(es[b].key < high)
      BY <2>4, <2>5, <3>1
    <3>3. ASSUME NEW e \in LeafEntries(d, N), e.key < high, e \notin Earlier(d, N, p), e \notin Ent(d, p)
          PROVE  FALSE
      <4>1. es[b].key < e.key
        BY <2>10, <3>2, <3>3 DEF Below
      <4> QED
        BY <2>9, <3>2, <3>3, <4>1
    <3> HIDE DEF w
    <3>4. RangeStep(s) = State(w, Null)
      BY <2>2, <2>13
    <3> QED
      BY <2>11, <3>3, <3>4
  <2>14. CASE ~ends
    <3>1. a \in 1..Len(es)
      BY <2>4, <2>5, <2>14
    <3>2. es[a] \in Ent(d, p) /\ es[a].key \in Int /\ low <= es[a].key
      BY <2>4, <2>5, <3>1
    <3> DEFINE q == d[p].next
    <3>3. RangeStep(s) = State(w, q)
      BY <2>2, <2>14
    <3> HIDE DEF w, q
    <3>4. CASE q = Null
      <4>1. \A x \in L \ {p} : Below(Ent(d, x), Ent(d, p))
        <5>1. IsNext(d, L, p, q) /\ Null \notin L
          BY <1>2, <2>1 DEF HasLeaves, Listed, q
        <5> QED
          BY <3>4, <5>1 DEF IsNext
      <4>2. \A e \in LeafEntries(d, N) : e \in Earlier(d, N, p) \/ e \in Ent(d, p)
        BY <2>10, <4>1
      <4> QED
        BY <2>11, <3>3, <3>4, <4>2
    <3>5. CASE q # Null
      <4>1. /\ q \in L /\ Ent(d, q) # {} /\ Below(Ent(d, p), Ent(d, q))
            /\ Earlier(d, N, q) = Earlier(d, N, p) \union Ent(d, p)
            /\ Cardinality(Passed(d, L, p)) + 1 <= Cardinality(Passed(d, L, q))
        BY <1>2, <2>1, <3>2, <3>5, NextLeaf DEF q
      <4>2. IsRangeOf(d, Earlier(d, N, q), low, high, w)
        BY <2>8, <4>1
      <4>3. Continues(d, low, q)
        <5>1. \A e \in Ent(d, q) : e.key \in Int /\ es[a].key < e.key
          BY <1>2, <3>2, <4>1 DEF Below, HasLeaves, Separated, KeyedBy
        <5>2. \A e \in Ent(d, q) : low <= e.key
          BY <3>2, <5>1
        <5> QED
          BY <4>1, <5>2 DEF Continues
      <4>4. i + 1 <= Cardinality(Passed(d, L, q))
        <5>1. \A x : Passed(d, L, x) \in SUBSET L
          BY DEF Passed
        <5>2. \A x : Cardinality(Passed(d, L, x)) \in Nat
          BY <1>2, <5>1, FS_Subset, FS_CardinalityType
        <5> QED
          BY <2>1, <4>1, <5>2
      <4>5. IsAt(d, N, L, low, high, q, w, i + 1)
        BY <4>1, <4>2, <4>3, <4>4 DEF IsAt
      <4> QED
        BY <3>3, <4>5 DEF Ranging
    <3> QED
      BY <3>4, <3>5
  <2> QED
    BY <2>4, <2>5, <2>12, <2>13, <2>14
<1> QED
  BY <1>3, <1>4

LEMMA RangingStarts ==
    ASSUME NEW d, NEW r, NEW N, NEW level, NEW hi, Sound(d, r, N, level, hi), NEW L, L = Leaves(N, level),
           NEW low \in Int, NEW high \in Int, NEW s,
           s = [pages |-> d, low |-> low, high |-> high, found |-> << >>, at |-> LeafOf(d, r, low)]
    PROVE  Ranging(d, N, L, low, high, s, 0)
<1> DEFINE p == LeafOf(d, r, low)
<1>1. HasLeaves(d, N, L)
  BY LeavesAre
<1>2. IsStart(d, L, low, p)
  BY SoundIs, RangeStarts, Zenon
<1> HIDE DEF p
<1>3. NoneWithin(Earlier(d, N, p), low, high)
  <2> SUFFICES ASSUME NEW e \in Earlier(d, N, p), low <= e.key PROVE FALSE
    BY DEF NoneWithin
  <2>1. e \in LeafEntries(d, N) /\ \A h \in Ent(d, p) : e.key < h.key
    BY DEF Earlier
  <2>2. PICK q \in L : e \in Ent(d, q)
    BY <1>1, <2>1 DEF HasLeaves
  <2>3. Separated(d, L) /\ p \in L /\ e.key \in Int /\ \A h \in Ent(d, p) : h.key \in Int
    BY <1>1, <1>2, <2>2 DEF HasLeaves, Separated, KeyedBy, IsStart
  <2>4. q # p
    BY <2>1, <2>2, <2>3
  <2>5. ~(e.key < low)
    BY <2>3
  <2>6. PICK h \in Ent(d, p) : TRUE
    BY <2>2, <2>3, <2>4 DEF Separated
  <2>7. h.key < e.key
    BY <1>2, <2>2, <2>4, <2>5, <2>6 DEF IsStart, Below
  <2> QED
    BY <2>1, <2>3, <2>6, <2>7
<1>4. IsRangeOf(d, Earlier(d, N, p), low, high, << >>)
  <2>1. IsNone(<< >>)
    BY DEF IsNone
  <2> QED
    BY <1>3, <2>1, NothingSought
<1>5. Begins(d, N, low, p, << >>)
  BY <1>1, <1>2 DEF Begins, HasLeaves, IsStart
<1>6. 0 <= Cardinality(Passed(d, L, p))
  <2>1. Passed(d, L, p) \in SUBSET L /\ IsFiniteSet(L)
    BY <1>1 DEF Passed, HasLeaves
  <2>2. Cardinality(Passed(d, L, p)) \in Nat
    BY <2>1, FS_Subset, FS_CardinalityType
  <2> QED
    BY <2>2
<1>7. IsAt(d, N, L, low, high, p, << >>, 0)
  BY <1>2, <1>4, <1>5, <1>6 DEF IsAt, IsStart
<1> QED
  BY <1>7 DEF Ranging, p

LEMMA RangingEnds ==
    ASSUME NEW d, NEW r, NEW N, NEW level, NEW hi, Sound(d, r, N, level, hi), NEW L, L = Leaves(N, level),
           NEW low, NEW high, NEW s, Ranging(d, N, L, low, high, s, Bound(d))
    PROVE  IsAnswer(d, N, low, high, s.found)
<1>1. PICK p, found :
        /\ s = [pages |-> d, low |-> low, high |-> high, found |-> found, at |-> p]
        /\ \/ p = Null /\ IsAnswer(d, N, low, high, found)
           \/ IsAt(d, N, L, low, high, p, found, Bound(d))
  BY DEF Ranging
<1>2. ~IsAt(d, N, L, low, high, p, found, Bound(d))
  <2> SUFFICES ASSUME p \in L, Bound(d) <= Cardinality(Passed(d, L, p)) PROVE FALSE
    BY DEF IsAt
  <2> DEFINE A == Passed(d, L, p)
             B == A \union {p}
             D == DOMAIN d
  <2>1. p \notin A /\ A \in SUBSET D /\ B \in SUBSET D /\ IsFiniteSet(D)
    <3>1. L \subseteq N /\ N \subseteq D /\ IsFiniteSet(D)
      BY SoundIs, LeavesAre, Zenon DEF HasLeaves, Numbered
    <3> QED
      BY <3>1 DEF Passed
  <2>2. Bound(d) = Cardinality(D) /\ Cardinality(D) <= Cardinality(A)
    BY DEF Bound
  <2> HIDE DEF A, D
  <2>3. IsFiniteSet(A) /\ Cardinality(A) \in Nat
    BY <2>1, FS_Subset, FS_CardinalityType
  <2>4. IsFiniteSet(B) /\ Cardinality(B) = Cardinality(A) + 1
    BY <2>1, <2>3, FS_AddElement
  <2> HIDE DEF B
  <2>5. Cardinality(B) <= Cardinality(D) /\ Cardinality(D) \in Nat
    BY <2>1, FS_Subset, FS_CardinalityType
  <2> QED
    BY <2>2, <2>3, <2>4, <2>5
<1> QED
  BY <1>1, <1>2

Ranges == INSTANCE OrderProofs WITH Step <- RangeStep

(* Index::Range *)
LEMMA RangeIs ==
    ASSUME NEW t, NEW N, NEW level, NEW hi, Sound(t.pages, t.root, N, level, hi),
           NEW low \in Int, NEW high \in Int
    PROVE  IsAnswer(t.pages, N, low, high, RangeOf(t, low, high))
<1> DEFINE d == t.pages
           L == Leaves(N, level)
           start == [pages |-> d, low |-> low, high |-> high, found |-> << >>, at |-> LeafOf(d, t.root, low)]
           n == Bound(d)
           At(i) == Ranges!After(start, i)
           K == {i \in 0..n : Ranging(d, N, L, low, high, At(i), i)}
<1>1. n \in Nat
  BY SoundIs, Inhabited, Zenon
<1>2. At(0) = start /\ \A i \in Nat : At(i + 1) = RangeStep(At(i))
  BY Ranges!Iterations
<1>3. Ranging(d, N, L, low, high, start, 0)
  BY RangingStarts
<1> HIDE DEF At, start
<1>4. 0 \in K
  BY <1>1, <1>2, <1>3
<1>5. ASSUME NEW i \in 0..n-1, i \in K PROVE i + 1 \in K
  <2>1. i \in Nat /\ i + 1 \in 0..n
    BY <1>1
  <2>2. Ranging(d, N, L, low, high, At(i), i)
    BY <1>5
  <2> HIDE DEF d, L
  <2>3. Ranging(d, N, L, low, high, RangeStep(At(i)), i + 1)
    BY <2>1, <2>2, RangeGoesOn DEF d, L
  <2> QED
    BY <1>2, <2>1, <2>3
<1>6. K = 0..n
  <2>1. K \in SUBSET (0..n) /\ \A i \in 0..n-1 : i \in K => i + 1 \in K
    BY <1>5
  <2> HIDE DEF K, n
  <2> QED
    BY <1>1, <1>4, <2>1, InductionUpTo
<1>7. Ranging(d, N, L, low, high, At(n), n)
  BY <1>1, <1>6
<1>8. RangeOf(t, low, high) = At(n).found
  BY DEF RangeOf, Loop, Ranges!After, At, start
<1>9. IsAnswer(d, N, low, high, At(n).found)
  <2> HIDE DEF d, L
  <2> QED
    BY <1>7, RangingEnds DEF d, L
<1> QED
  BY <1>8, <1>9

(* The pairs of a range and the entries that have them. *)
Asked(t, low, high, loc) ==
    {pair \in ContentOf(t) : low <= pair[1] /\ pair[1] < high /\ pair[2] = loc}

HasAsked(t, low, high, loc, u) == Count(u, loc) = Cardinality(Asked(t, low, high, loc))

LEMMA AskedAre ==
    ASSUME NEW t, NEW N, NEW level, NEW hi, Sound(t.pages, t.root, N, level, hi),
           NEW low, NEW high, NEW l, NEW u, NEW S, S = Sought(t.pages, LeafEntries(t.pages, N), low, high, l),
           IsCounted(u, l, S)
    PROVE  HasAsked(t, low, high, l, u)
<1> DEFINE d == t.pages
           LE == LeafEntries(d, N)
           L == Leaves(N, level)
           T == Asked(t, low, high, l)
           f == [e \in S |-> <<e.key, l>>]
<1>1. \A x, y : <<x, y>> \in ContentOf(t) <=> Paired(d, LE, x, y)
  BY ContentIs, Zenon
<1>2. ContentOf(t) \subseteq Keys \X Locations
  BY ContentIs, Zenon
<1>3. \A e, g \in LE : e.key = g.key => e = g
  <2>1. HasLeaves(d, N, L) /\ Shape(d, t.root, N, level, hi)
    BY SoundIs, LeavesAre, Zenon
  <2> SUFFICES ASSUME NEW e \in LE, NEW g \in LE, e.key = g.key PROVE e = g
    OBVIOUS
  <2>2. PICK p \in L : e \in Ent(d, p)
    BY <2>1 DEF HasLeaves
  <2>3. PICK q \in L : g \in Ent(d, q)
    BY <2>1 DEF HasLeaves
  <2>4. e.key \in Int /\ g.key \in Int
    BY <2>1, <2>2, <2>3 DEF HasLeaves, Separated, KeyedBy
  <2>5. p = q
    BY <2>1, <2>2, <2>3, <2>4 DEF HasLeaves, Separated, Below
  <2>6. p \in N
    BY <2>1 DEF HasLeaves
  <2> QED
    BY <2>1, <2>2, <2>3, <2>5, <2>6 DEF Shape, Keyed
<1> HIDE DEF d, LE
<1>4. \A e : e \in S <=> e \in LE /\ low <= e.key /\ e.key < high /\ l \in LocationsOf(d, e)
  BY DEF Sought, d, LE
<1>5. \A pair \in T : pair = <<pair[1], l>> /\ low <= pair[1] /\ pair[1] < high /\ <<pair[1], l>> \in ContentOf(t)
  BY <1>2 DEF Asked
<1>6. IsOneToOne(f, S, T)
  <2>1. f = [e \in S |-> f[e]] /\ \A e \in S : f[e] = <<e.key, l>>
    OBVIOUS
  <2> HIDE DEF f
  <2>2. \A e \in S : f[e] \in T
    <3> SUFFICES ASSUME NEW e \in S PROVE <<e.key, l>> \in T
      BY <2>1
    <3>1. Paired(d, LE, e.key, l)
      BY <1>4 DEF Paired
    <3> QED
      BY <1>1, <1>4, <3>1 DEF Asked
  <2>3. \A e, g \in S : f[e] = f[g] => e = g
    BY <1>3, <1>4, <2>1
  <2>4. ASSUME NEW pair \in T PROVE \E e \in S : f[e] = pair
    <3>1. Paired(d, LE, pair[1], l)
      BY <1>1, <1>5, Zenon
    <3>2. PICK e \in LE : e.key = pair[1] /\ l \in LocationsOf(d, e)
      BY <3>1 DEF Paired
    <3>3. e \in S
      BY <1>4, <1>5, <3>2, Zenon
    <3> QED
      BY <1>5, <2>1, <3>2, <3>3, Zenon
  <2> QED
    BY <2>1, <2>2, <2>3, <2>4 DEF IsOneToOne
<1> HIDE DEF T, f
<1>7. Cardinality(T) = Cardinality(S)
  BY <1>6, SameCardinality DEF IsCounted
<1> QED
  BY <1>7 DEF IsCounted, HasAsked, T

-----------------------------------------------------------------------------
(* The inductive invariant: there is no index and no page of one, or the   *)
(* pages are a whole tree.                                                 *)
TreeInv == IF root = Null THEN DOMAIN pages = {} ELSE IsTree(Tree)

LEMMA InvInit == Init => TreeInv
<1> SUFFICES ASSUME Init PROVE TreeInv
  OBVIOUS
<1>1. root = Null /\ pages = << >>
  BY DEF Init
<1>2. DOMAIN << >> = {}
  OBVIOUS
<1> QED
  BY <1>1, <1>2 DEF TreeInv

LEMMA TreeNow ==
    ASSUME TreeInv, root # Null
    PROVE  /\ IsTree(Tree) /\ content = ContentOf(Tree) /\ content # NoIndex
           /\ \E N, level, hi : Sound(pages, root, N, level, hi)
<1>1. IsTree(Tree) /\ content = ContentOf(Tree)
  BY DEF TreeInv, content
<1>2. content # NoIndex
  BY <1>1, TreeHas, NoIndexAssumption
<1>3. Tree.pages = pages /\ Tree.root = root
  BY DEF Tree
<1> QED
  BY <1>1, <1>2, <1>3 DEF IsTree

(* A call leaves the tree it computes. *)
LEMMA TreeNext ==
    ASSUME NEW t, IsTree(t), Become(t)
    PROVE  TreeInv' /\ content' = ContentOf(t)
<1>1. pages' = t.pages /\ root' = t.root
  BY DEF Become
<1>2. t = [pages |-> t.pages, root |-> t.root] /\ t.root \in Int
  BY TreeHas
<1>3. root' # Null
  BY <1>1, <1>2, NullAssumption
<1>4. Tree' = t
  BY <1>1, <1>2 DEF Tree
<1> QED
  BY <1>3, <1>4 DEF TreeInv, content

LEMMA CreateIndexSteps ==
    ASSUME TreeInv, NEW rows \in Tables, CreateIndex(rows)
    PROVE  TreeInv' /\ Abstract!Call(content, content')
<1> DEFINE u == Loop(RowStep, [rows |-> rows, tree |-> Empty, done |-> 0], Len(rows)).tree
<1>1. root = Null /\ Become(u)
  BY DEF CreateIndex
<1>2. rows \in Seq(Keys \X Locations) /\ IsInjective(rows)
  BY TablesAssumption
<1>3. IsTree(u) /\ ContentOf(u) = {rows[j] : j \in 1..Len(rows)}
  BY <1>2, RowsAreIndexed, Zenon
<1> HIDE DEF u
<1>4. TreeInv' /\ content' = {rows[j] : j \in 1..Len(rows)}
  BY <1>1, <1>3, TreeNext
<1>5. content = NoIndex
  BY <1>1 DEF content
<1>6. DOMAIN rows = 1..Len(rows)
  BY <1>2
<1> QED
  BY <1>4, <1>5, <1>6 DEF Abstract!Call

LEMMA InsertSteps ==
    ASSUME TreeInv, NEW key \in Keys, NEW loc \in Locations, Insert(key, loc)
    PROVE  TreeInv' /\ Abstract!Call(content, content')
<1>1. root # Null /\ <<key, loc>> \notin content /\ Become(Inserted(Tree, key, loc))
  BY DEF Insert, Absent
<1>2. IsTree(Tree) /\ content = ContentOf(Tree) /\ content # NoIndex
  BY <1>1, TreeNow
<1>3. /\ IsTree(Inserted(Tree, key, loc))
      /\ ContentOf(Inserted(Tree, key, loc)) = Abstract!Inserted(content, key, loc)
  BY <1>1, <1>2, TreeInserts
<1>4. TreeInv' /\ content' = Abstract!Inserted(content, key, loc)
  BY <1>1, <1>3, TreeNext
<1> QED
  BY <1>2, <1>4 DEF Abstract!Call

LEMMA DeletePairSteps ==
    ASSUME TreeInv, NEW key \in Keys, NEW loc \in Locations, DeletePair(key, loc)
    PROVE  TreeInv' /\ Abstract!Call(content, content')
<1>1. root # Null /\ Become(PairDeleted(Tree, key, loc))
  BY DEF DeletePair
<1>2. IsTree(Tree) /\ content = ContentOf(Tree) /\ content # NoIndex
  BY <1>1, TreeNow
<1>3. /\ IsTree(PairDeleted(Tree, key, loc))
      /\ ContentOf(PairDeleted(Tree, key, loc)) = Abstract!PairDeleted(content, key, loc)
  BY <1>2, TreeDeletesPair
<1>4. TreeInv' /\ content' = Abstract!PairDeleted(content, key, loc)
  BY <1>1, <1>3, TreeNext
<1> QED
  BY <1>2, <1>4 DEF Abstract!Call

LEMMA DeleteKeySteps ==
    ASSUME TreeInv, NEW key \in Keys, DeleteKey(key)
    PROVE  TreeInv' /\ Abstract!Call(content, content')
<1>1. root # Null /\ Become(KeyDeleted(Tree, key))
  BY DEF DeleteKey
<1>2. IsTree(Tree) /\ content = ContentOf(Tree) /\ content # NoIndex
  BY <1>1, TreeNow
<1>3. /\ IsTree(KeyDeleted(Tree, key))
      /\ ContentOf(KeyDeleted(Tree, key)) = Abstract!KeyDeleted(content, key)
  BY <1>2, TreeDeletesKey
<1>4. TreeInv' /\ content' = Abstract!KeyDeleted(content, key)
  BY <1>1, <1>3, TreeNext
<1> QED
  BY <1>2, <1>4 DEF Abstract!Call

LEMMA UpdateSteps ==
    ASSUME TreeInv, NEW key \in Keys, NEW old \in Locations, NEW new \in Locations,
           Update(key, old, new)
    PROVE  TreeInv' /\ Abstract!Call(content, content')
<1>1. root # Null /\ <<key, new>> \notin content /\ Become(Updated(Tree, key, old, new))
  BY DEF Update, Absent
<1>2. IsTree(Tree) /\ content = ContentOf(Tree) /\ content # NoIndex
  BY <1>1, TreeNow
<1>3. /\ IsTree(Updated(Tree, key, old, new))
      /\ ContentOf(Updated(Tree, key, old, new)) = Abstract!Updated(content, key, old, new)
  BY <1>1, <1>2, TreeUpdates
<1>4. TreeInv' /\ content' = Abstract!Updated(content, key, old, new)
  BY <1>1, <1>3, TreeNext
<1> QED
  BY <1>2, <1>4 DEF Abstract!Call

LEMMA ClearSteps ==
    ASSUME TreeInv, Clear
    PROVE  TreeInv' /\ Abstract!Call(content, content')
<1>1. /\ root # Null /\ pages' = DeletePages(pages, Held(pages, root)) /\ root' = Null
  BY DEF Clear
<1>2. content # NoIndex /\ \E N, level, hi : Sound(pages, root, N, level, hi)
  BY <1>1, TreeNow
<1>3. Held(pages, root) = DOMAIN pages
  BY <1>2, HeldIs
<1>4. DOMAIN pages' = {}
  BY <1>1, <1>3 DEF DeletePages, Restrict
<1>5. content' = NoIndex
  BY <1>1 DEF content
<1> QED
  BY <1>1, <1>2, <1>4, <1>5 DEF TreeInv, Abstract!Call

LEMMA InvStep ==
    ASSUME TreeInv, [Next]_vars
    PROVE  TreeInv' /\ [Abstract!Next]_content
<1>1. CASE Next
  <2>1. TreeInv' /\ Abstract!Call(content, content')
    BY <1>1, CreateIndexSteps, InsertSteps, DeletePairSteps, DeleteKeySteps, UpdateSteps,
       ClearSteps DEF Next
  <2> QED
    BY <2>1 DEF Abstract!Next
<1>2. CASE UNCHANGED vars
  <2>1. pages' = pages /\ root' = root
    BY <1>2 DEF vars
  <2>2. Tree' = Tree
    BY <2>1 DEF Tree
  <2> QED
    BY <2>1, <2>2 DEF TreeInv, content
<1> QED
  BY <1>1, <1>2

LEMMA InvTypes == TreeInv => TypeOK
<1>1. CASE root = Null
  <2>1. TreeInv => DOMAIN pages = {}
    BY <1>1 DEF TreeInv
  <2> QED
    BY <1>1, <2>1 DEF TypeOK
<1>2. CASE root # Null
  BY <1>2, TreeNow, SoundIsTyped
<1> QED
  BY <1>1, <1>2

LEMMA InvWellFormed == TreeInv => TreeIsWellFormed
<1>1. CASE root = Null
  <2>1. Nodes = {}
    BY <1>1 DEF Nodes
  <2> QED
    BY <1>1, <2>1 DEF TreeIsWellFormed, KeysAreOrdered, NodesAreBalanced, NodesAreLinked
<1>2. CASE root # Null
  BY <1>2, TreeNow, SoundIsOrdered, SoundIsBalanced, SoundIsLinked DEF TreeIsWellFormed
<1> QED
  BY <1>1, <1>2

LEMMA InvWhole == TreeInv => NoPageIsLost
<1>1. CASE root = Null
  <2>1. Nodes = {} /\ (TreeInv => DOMAIN pages = {})
    BY <1>1 DEF Nodes, TreeInv
  <2>2. LeafEntries(pages, Nodes) = {}
    BY <2>1 DEF LeafEntries
  <2> QED
    BY <1>1, <2>1, <2>2 DEF NoPageIsLost
<1>2. CASE root # Null
  BY <1>2, TreeNow, SoundLosesNothing
<1> QED
  BY <1>1, <1>2

LEMMA InvExact == TreeInv => CallsAreExact
<1> SUFFICES ASSUME TreeInv, root # Null, NEW key \in Keys, NEW loc \in Locations
             PROVE  /\ <<key, loc>> \in Inserts \ content =>
                        ContentOf(Inserted(Tree, key, loc)) = Abstract!Inserted(content, key, loc)
                    /\ ContentOf(PairDeleted(Tree, key, loc)) = Abstract!PairDeleted(content, key, loc)
                    /\ ContentOf(KeyDeleted(Tree, key)) = Abstract!KeyDeleted(content, key)
                    /\ \A new \in Locations :
                        <<key, new>> \notin content =>
                            ContentOf(Updated(Tree, key, loc, new))
                                = Abstract!Updated(content, key, loc, new)
  BY Zenon DEF CallsAreExact
<1>1. IsTree(Tree) /\ content = ContentOf(Tree)
  BY TreeNow
<1> QED
  BY <1>1, TreeInserts, TreeDeletesPair, TreeDeletesKey, TreeUpdates

(* From every tree a client can build, Range is exact or finds nothing. *)
LEMMA InvRange ==
    ASSUME TreeInv, root # Null, NEW low \in Keys, NEW high \in Keys
    PROVE  \/ IsExact(low, high)
           \/ /\ RangeOf(Tree, low, high) = << >>
              /\ \A pair \in content : pair[1] # low
<1>1. content = ContentOf(Tree) /\ Tree.pages = pages /\ Tree.root = root /\ low \in Int /\ high \in Int
  BY TreeNow, KeysAssumption DEF Tree
<1>2. PICK N, level, hi : Sound(pages, root, N, level, hi)
  BY TreeNow
<1> DEFINE u == RangeOf(Tree, low, high)
           LE == LeafEntries(pages, N)
<1>3. Sound(Tree.pages, Tree.root, N, level, hi)
  BY <1>1, <1>2
<1>4. IsAnswer(pages, N, low, high, u)
  BY <1>1, <1>3, RangeIs, Zenon
<1> HIDE DEF u, LE
<1>5. CASE IsRangeOf(pages, LE, low, high, u)
  <2>1. ASSUME NEW l \in Locations
        PROVE  Cardinality({i \in DOMAIN u : u[i] = l})
                 = Cardinality({pair \in {a \in content : low <= a[1] /\ a[1] < high} : pair[2] = l})
    <3> DEFINE S == Sought(pages, LE, low, high, l)
    <3>1. IsCounted(u, l, S) /\ S = Sought(Tree.pages, LeafEntries(Tree.pages, N), low, high, l)
      BY <1>1, <1>5 DEF IsRangeOf, LE
    <3> HIDE DEF S
    <3>2. HasAsked(Tree, low, high, l, u)
      BY <1>3, <3>1, AskedAre, Zenon
    <3>3. Asked(Tree, low, high, l) = {pair \in {a \in content : low <= a[1] /\ a[1] < high} : pair[2] = l}
      BY <1>1 DEF Asked
    <3> QED
      BY <3>2, <3>3 DEF HasAsked, Count, Occurs
  <2> QED
    BY <2>1 DEF IsExact, u
<1>6. CASE u = << >> /\ \A e \in LE : e.key # low
  <2>1. \A pair \in content : pair[1] # low
    BY <1>1, <1>3, <1>6, KeyMissing, Zenon DEF LE
  <2> QED
    BY <1>6, <2>1 DEF u
<1> QED
  BY <1>4, <1>5, <1>6 DEF IsAnswer, LE

-----------------------------------------------------------------------------
(* Theorems *)

(* An index is a whole tree of nodes and chains after every call, and has  *)
(* no page at all where there is none (index.cc).                          *)
THEOREM TreeInvariant == Spec => []TreeInv
  BY InvInit, InvStep, PTL DEF Spec

(* Every page is a node whose entries point to where they should or an     *)
(* overflow page within its capacity, whatever the capacities, the rows    *)
(* and the calls (bptree_page.h, bptree_overflow_page.h).                  *)
THEOREM TreesAreTyped == Spec => []TypeOK
  BY TreeInvariant, InvTypes, PTL

(* After every call the index is a B+ tree: its keys are in order, its     *)
(* nodes balanced and linked, through any cascade of splits, loans and     *)
(* merges (index.cc:22-384).                                               *)
THEOREM TreesStayWellFormed == Spec => []TreeIsWellFormed
  BY TreeInvariant, InvWellFormed, PTL

(* Every page of the index is one that Clear gives back, and no overflow   *)
(* page has two owners (index.cc, bptree_node_page.cc).                    *)
THEOREM PagesStayWithTheIndex == Spec => []NoPageIsLost
  BY TreeInvariant, InvWhole, PTL

(* From every tree a client can build, each call does to the pairs what    *)
(* its comment in index.h says.                                            *)
THEOREM EveryCallIsExact == Spec => []CallsAreExact
  BY TreeInvariant, InvExact, PTL

(* Range answers what is in [low, high) and nothing else, each location as *)
(* often as it is there, along the list of leaves and through all overflow *)
(* pages, or nothing at all, and it is right whenever the key it starts    *)
(* from is there (index.cc:310-334).                                       *)
THEOREM RangesAreExactOrEmpty == Spec => []RangeIsExactOrEmpty
<1>1. TreeInv => RangeIsExactOrEmpty
  BY InvRange DEF RangeIsExactOrEmpty
<1> QED
  BY <1>1, TreeInvariant, PTL

(* Seen through the pairs in its leaves, an index is a multimap: it        *)
(* implements the abstract specification (index.h).                        *)
THEOREM IndexImplementsMultimap == Spec => ImplementsMultimap
<1>1. Init => Abstract!Init
  BY DEF Init, Abstract!Init, content
<1>2. TreeInv /\ [Next]_vars => [Abstract!Next]_content
  BY InvStep
<1> QED
  BY <1>1, <1>2, TreeInvariant, PTL DEF Spec, ImplementsMultimap, Abstract!Spec
=============================================================================
