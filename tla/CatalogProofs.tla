---------------------------- MODULE CatalogProofs ----------------------------
(***************************************************************************)
(* The names of the database, for any tables, columns, pages and sizes of  *)
(* the catalog pages.                                                      *)
(***************************************************************************)
EXTENDS Catalog, SequenceTheorems, FunctionTheorems, OrderProofs

-----------------------------------------------------------------------------
(* Sequences and orders *)

(* What has been taken for the first place of a value is its place, when   *)
(* the value is there once; RemoveFirst takes it away, and nothing else.   *)
LEMMA PlaceInSeq ==
    ASSUME NEW S, NEW s \in Seq(S), IsInjective(s), NEW i \in DOMAIN s,
           NEW c, c = s[i]
    PROVE  PlaceOf(c, s) = i
<1> DEFINE I == {j \in 1..Len(s) : s[j] = c}
<1>1. I = {i}
  BY DEF IsInjective
<1>2. Min({i}) = i
  <2>1. i \in Nat
    BY LenProperties
  <2>2. {i} \in SUBSET Nat /\ {i} # {}
    BY <2>1
  <2> QED
    BY <2>2, LeastChosen DEF Min
<1>3. PlaceOf(c, s) = IF I # {} THEN Min(I) ELSE 0
  BY DEF PlaceOf, SelectInSeq
<1> QED
  BY <1>1, <1>2, <1>3

LEMMA RemoveFirstRemoves ==
    ASSUME NEW S, NEW s \in Seq(S), IsInjective(s), NEW c \in Range(s)
    PROVE  /\ RemoveFirst(s, c) \in Seq(S)
           /\ IsInjective(RemoveFirst(s, c))
           /\ Range(RemoveFirst(s, c)) = Range(s) \ {c}
<1>1. PICK k \in DOMAIN s : s[k] = c
  BY DEF Range
<1> DEFINE n == Len(s)
           pre == SubSeq(s, 1, k - 1)
           post == SubSeq(s, k + 1, n)
           r == pre \o post
<1>2. /\ n \in Nat /\ DOMAIN s = 1..n /\ k \in 1..n
      /\ \A i \in 1..n : s[i] \in S
  BY LenProperties, ElementOfSeq
<1>3. RemoveFirst(s, c) = r
  <2>1. PlaceOf(c, s) = k
    BY <1>1, PlaceInSeq
  <2>2. RemoveFirst(s, c) = IF \E i \in 1..n : s[i] = c THEN RemoveAt(s, PlaceOf(c, s)) ELSE s
    BY DEF RemoveFirst, PlaceOf
  <2> QED
    BY <1>1, <1>2, <2>1, <2>2 DEF RemoveAt
<1>4. /\ pre \in Seq(S) /\ Len(pre) = k - 1
      /\ \A i \in 1..k-1 : pre[i] = s[i]
  <2>1. 1 \in Int /\ k - 1 \in Int /\ \A i \in 1..k-1 : s[i] \in S
    BY <1>2
  <2>2. Len(pre) = IF 1 <= k - 1 THEN (k - 1) - 1 + 1 ELSE 0
    BY <2>1, SubSeqProperties
  <2>3. \A i \in 1..(k - 1) - 1 + 1 : pre[i] = s[1 + i - 1]
    BY <2>1, SubSeqProperties
  <2>4. pre \in Seq(S)
    BY <2>1, SubSeqProperties
  <2> HIDE DEF pre, n
  <2> QED
    BY <1>2, <2>2, <2>3, <2>4
<1>5. /\ post \in Seq(S) /\ Len(post) = n - k
      /\ \A i \in 1..n-k : post[i] = s[k + i]
  <2>1. k + 1 \in Int /\ n \in Int /\ \A i \in k+1..n : s[i] \in S
    BY <1>2
  <2>2. Len(post) = IF k + 1 <= n THEN n - (k + 1) + 1 ELSE 0
    BY <2>1, SubSeqProperties
  <2>3. \A i \in 1..n-(k + 1)+1 : post[i] = s[(k + 1) + i - 1]
    BY <2>1, SubSeqProperties
  <2>4. post \in Seq(S)
    BY <2>1, SubSeqProperties
  <2>5. n - (k + 1) + 1 = n - k /\ \A i \in 1..n-k : (k + 1) + i - 1 = k + i
    BY <1>2
  <2> HIDE DEF post, n
  <2>6. Len(post) = n - k
    BY <1>2, <2>2
  <2> QED
    BY <2>3, <2>4, <2>5, <2>6
<1> HIDE DEF pre, post
<1>6. /\ r \in Seq(S) /\ Len(r) = n - 1
      /\ \A i \in 1..n-1 : r[i] = IF i <= k - 1 THEN s[i] ELSE s[i + 1]
  <2>1. /\ r \in Seq(S) /\ Len(r) = (k - 1) + (n - k)
        /\ \A i \in 1..(k - 1)+(n - k) : r[i] = IF i <= k - 1 THEN pre[i] ELSE post[i - (k - 1)]
    <3>1. /\ r \in Seq(S) /\ Len(r) = Len(pre) + Len(post)
          /\ \A i \in 1..Len(pre)+Len(post) :
                r[i] = IF i <= Len(pre) THEN pre[i] ELSE post[i - Len(pre)]
      BY <1>4, <1>5, ConcatProperties
    <3>2. Len(pre) = k - 1 /\ Len(post) = n - k
      BY <1>4, <1>5
    <3> HIDE DEF r, n
    <3> QED
      BY <3>1, <3>2
  <2> HIDE DEF r, n
  <2>2. ASSUME NEW i \in 1..n-1
        PROVE  r[i] = IF i <= k - 1 THEN s[i] ELSE s[i + 1]
    <3>1. CASE i <= k - 1
      <4>1. i \in 1..k-1
        BY <3>1, <1>2
      <4> QED
        BY <1>2, <1>4, <2>1, <3>1, <4>1
    <3>2. CASE ~(i <= k - 1)
      <4>1. i - (k - 1) \in 1..n-k /\ k + (i - (k - 1)) = i + 1 /\ i \in 1..(k - 1)+(n - k)
        BY <3>2, <1>2
      <4>2. r[i] = post[i - (k - 1)]
        BY <2>1, <3>2, <4>1
      <4>3. \A j \in 1..n-k : post[j] = s[k + j]
        BY <1>5 DEF n
      <4>4. post[i - (k - 1)] = s[i + 1]
        BY <4>1, <4>3
      <4> QED
        BY <3>2, <4>2, <4>4
    <3> QED
      BY <3>1, <3>2
  <2> QED
    BY <1>2, <2>1, <2>2
<1> HIDE DEF r
<1>7. DOMAIN r = 1..n-1
  BY <1>6, LenProperties
<1>8. IsInjective(r)
  <2> SUFFICES ASSUME NEW i \in 1..n-1, NEW j \in 1..n-1, r[i] = r[j] PROVE i = j
    BY <1>7 DEF IsInjective
  <2> DEFINE at(x) == IF x <= k - 1 THEN x ELSE x + 1
  <2>1. at(i) \in 1..n /\ at(j) \in 1..n /\ r[i] = s[at(i)] /\ r[j] = s[at(j)]
    BY <1>2, <1>6
  <2>2. at(i) = at(j)
    <3> HIDE DEF at
    <3> QED
      BY <1>2, <2>1 DEF IsInjective
  <2> QED
    BY <1>2, <2>2
<1>9. Range(r) = Range(s) \ {c}
  <2>1. ASSUME NEW i \in 1..n-1 PROVE r[i] \in Range(s) /\ r[i] # c
    <3>1. PICK j \in 1..n : j # k /\ r[i] = s[j]
      <4>1. CASE i <= k - 1
        BY <1>2, <1>6, <4>1, SMTT(30)
      <4>2. CASE ~(i <= k - 1)
        <5>1. i + 1 \in 1..n /\ i + 1 # k
          BY <1>2, <4>2
        <5> QED
          BY <1>2, <1>6, <4>2, <5>1
      <4> QED
        BY <4>1, <4>2
    <3> QED
      BY <1>1, <1>2, <3>1 DEF IsInjective, Range
  <2>2. ASSUME NEW x \in Range(s), x # c PROVE x \in Range(r)
    <3>1. PICK j \in 1..n : x = s[j]
      BY <1>2 DEF Range
    <3>2. j # k
      BY <1>1, <2>2, <3>1
    <3>3. CASE j < k
      <4>1. j \in 1..n-1 /\ r[j] = s[j]
        BY <1>2, <1>6, <3>3
      <4> QED
        BY <1>7, <3>1, <4>1 DEF Range
    <3>4. CASE j > k
      <4>1. j - 1 \in 1..n-1 /\ ~(j - 1 <= k - 1) /\ (j - 1) + 1 = j
        BY <1>2, <3>4
      <4>2. r[j - 1] = s[j]
        BY <1>6, <4>1
      <4> QED
        BY <1>7, <3>1, <4>1, <4>2 DEF Range
    <3> QED
      BY <1>2, <3>2, <3>3, <3>4
  <2>3. Range(r) \subseteq Range(s) \ {c}
    BY <1>7, <2>1 DEF Range
  <2> QED
    BY <2>2, <2>3
<1> QED
  BY <1>3, <1>6, <1>8, <1>9

IsListOf(s, S) == s \in Seq(S) /\ IsInjective(s) /\ Range(s) = S /\ Len(s) = Cardinality(S)

(* Ranks number the keys from 1 on, so a list by rank has each key once.   *)
LEMMA Enumerates ==
    ASSUME NEW below, IsFiniteSet(DOMAIN below), Ordered(below)
    PROVE  /\ IsListOf(Enumerated(below), DOMAIN below)
           /\ \A x \in DOMAIN below : /\ Rank(below, x) \in 1..Len(Enumerated(below))
                                      /\ Enumerated(below)[Rank(below, x)] = x
<1> DEFINE D == DOMAIN below
           n == Cardinality(D)
           e == Enumerated(below)
<1>1. /\ n \in Nat
      /\ \A x \in D : Rank(below, x) \in 1..n /\ Cardinality(below[x]) \in Nat
      /\ \A x, y \in D : Rank(below, x) = Rank(below, y) => x = y
      /\ \A i \in 1..n : \E x \in D : Rank(below, x) = i
  <2>1. \A x \in D : IsFiniteSet(below[x])
    <3>1. \A x \in D : below[x] \in SUBSET D
      BY DEF Ordered
    <3> QED
      BY <3>1, FS_Subset
  <2>2. \A x \in D : Cardinality(below[x]) \in Nat
    BY <2>1, FS_CardinalityType
  <2> QED
    BY <2>2, Ranks
<1>2. e = [i \in 1..n |-> CHOOSE x \in D : Cardinality(below[x]) = i - 1]
  BY DEF Enumerated
<1> HIDE DEF e, n, D
<1>3. \A i \in 1..n : e[i] \in D /\ Rank(below, e[i]) = i
  <2> SUFFICES ASSUME NEW i \in 1..n PROVE e[i] \in D /\ Rank(below, e[i]) = i
    OBVIOUS
  <2>1. PICK x \in D : Rank(below, x) = i
    BY <1>1
  <2>2. Cardinality(below[x]) = i - 1
    BY <1>1, <2>1 DEF Rank
  <2>3. e[i] \in D /\ Cardinality(below[e[i]]) = i - 1
    BY <1>2, <2>2
  <2> QED
    BY <2>3 DEF Rank
<1>4. e \in [1..n -> D] /\ e \in Seq(D) /\ Len(e) = n
  <2>1. e \in [1..n -> D]
    BY <1>2, <1>3
  <2> QED
    BY <1>1, <2>1
<1>5. IsInjective(e)
  BY <1>3, <1>4 DEF IsInjective
<1>6. \A x \in D : e[Rank(below, x)] = x
  BY <1>1, <1>3
<1>7. Range(e) = D
  BY <1>1, <1>3, <1>4, <1>6 DEF Range
<1> QED
  BY <1>1, <1>4, <1>5, <1>6, <1>7 DEF IsListOf, e, n, D

LEMMA AscendingLists ==
    ASSUME NEW S \in SUBSET Nat, IsFiniteSet(S)
    PROVE  /\ IsListOf(Ascending(S), S)
           /\ \A x \in S : LET r == Cardinality({y \in S : y < x}) + 1
                           IN  r \in 1..Len(Ascending(S)) /\ Ascending(S)[r] = x
<1> DEFINE below == [a \in S |-> {b \in S : b < a}]
<1>1. \A x, y \in S : x \in Nat /\ y \in Nat
  OBVIOUS
<1>2. Ordered(below) /\ DOMAIN below = S
  <2>1. /\ \A x \in S : ~(x < x)
        /\ \A x, y \in S : x = y \/ x < y \/ y < x
        /\ \A x, y, z \in S : x < y /\ y < z => x < z
    BY <1>1
  <2> QED
    BY <2>1 DEF Ordered
<1>3. Ascending(S) = Enumerated(below)
  BY DEF Ascending
<1>4. \A x \in S : Rank(below, x) = Cardinality({y \in S : y < x}) + 1
  BY DEF Rank
<1> HIDE DEF below
<1> QED
  BY <1>2, <1>3, <1>4, Enumerates

LEMMA InOrderLists ==
    ASSUME NEW S \in SUBSET (Nat \X Nat), IsFiniteSet(S)
    PROVE  /\ IsListOf(InOrder(S), S)
           /\ \A x \in S : LET r == Cardinality({y \in S : Before(y, x)}) + 1
                           IN  r \in 1..Len(InOrder(S)) /\ InOrder(S)[r] = x
<1> DEFINE below == [a \in S |-> {b \in S : Before(b, a)}]
<1>1. \A x \in S : x[1] \in Nat /\ x[2] \in Nat /\ x = <<x[1], x[2]>>
  OBVIOUS
<1>2. DOMAIN below = S
  OBVIOUS
<1>3. Ordered(below)
  <2>1. \A x \in S : ~Before(x, x)
    BY <1>1 DEF Before
  <2>2. \A x, y \in S : x = y \/ Before(x, y) \/ Before(y, x)
    BY <1>1 DEF Before
  <2>3. \A x, y, z \in S : Before(x, y) /\ Before(y, z) => Before(x, z)
    BY <1>1 DEF Before
  <2> QED
    BY <2>1, <2>2, <2>3 DEF Ordered
<1>4. InOrder(S) = Enumerated(below)
  BY DEF InOrder
<1>5. \A x \in S : Rank(below, x) = Cardinality({y \in S : Before(y, x)}) + 1
  BY DEF Rank
<1> HIDE DEF below
<1> QED
  BY <1>2, <1>3, <1>4, <1>5, Enumerates
-----------------------------------------------------------------------------
(* Columns *)

(* An injective sequence of names, as the positions they get. *)
LEMMA LoadedPositions ==
    ASSUME NEW S, NEW names \in Seq(S), IsInjective(names)
    PROVE  /\ DOMAIN LoadColumnsString(names) = Range(names)
           /\ LoadColumnsString(names) \in [Range(names) -> Nat]
           /\ \A i \in DOMAIN names : LoadColumnsString(names)[names[i]] = i - 1
           /\ IsFiniteSet(Range(names)) /\ Range(names) \subseteq S
<1> DEFINE load == LoadColumnsString(names)
<1>1. Len(names) \in Nat /\ DOMAIN names = 1..Len(names)
  BY LenProperties
<1>2. load = [c \in Range(names) |-> PlaceOf(c, names) - 1]
  BY DEF LoadColumnsString, PlaceOf
<1>3. ASSUME NEW i \in DOMAIN names
      PROVE  names[i] \in Range(names) /\ load[names[i]] = i - 1
  <2>1. PlaceOf(names[i], names) = i
    BY PlaceInSeq
  <2>2. names[i] \in Range(names)
    BY DEF Range
  <2> HIDE DEF load
  <2> QED
    BY <1>2, <2>1, <2>2
<1> HIDE DEF load
<1>4. \A c \in Range(names) : load[c] \in Nat
  <2> SUFFICES ASSUME NEW c \in Range(names) PROVE load[c] \in Nat
    OBVIOUS
  <2>1. PICK i \in DOMAIN names : c = names[i]
    BY DEF Range
  <2> QED
    BY <1>1, <1>3, <2>1
<1>5. IsFiniteSet(Range(names))
  <2>1. IsFiniteSet(DOMAIN names)
    <3>1. 1 \in Int /\ Len(names) \in Int
      BY <1>1
    <3> QED
      BY <1>1, <3>1, FS_Interval
  <2>2. names \in Surjection(DOMAIN names, Range(names))
    <3>1. names \in [DOMAIN names -> Range(names)]
      BY <1>1, LenProperties DEF Range
    <3> QED
      BY <3>1 DEF Surjection, Range
  <2> QED
    BY <2>1, <2>2, FS_Surjection
<1>6. Range(names) \subseteq S
  BY RangeOfSeq
<1> QED
  BY <1>2, <1>3, <1>4, <1>5, <1>6 DEF load

(* What ColumnsKeepTheirOrder says of a table. *)
Fits(columns, declared) ==
    /\ Range(declared) \subseteq DOMAIN columns
    /\ \A i, j \in DOMAIN declared : i < j => columns[declared[i]] < columns[declared[j]]
    /\ DOMAIN columns = Range(declared)
        => \A i \in DOMAIN declared : columns[declared[i]] = i - 1

LEMMA NewColumnsFit ==
    ASSUME NEW S, NEW names \in Seq(S), IsInjective(names)
    PROVE  Fits(LoadColumnsString(names), names)
<1>1. \A i \in DOMAIN names : i \in Int
  BY LenProperties
<1> QED
  BY <1>1, LoadedPositions DEF Fits

(* A map of 1..n to itself that keeps the order changes nothing: the least *)
(* number it moves has no place to go.                                     *)
LEMMA OrderIsRigid ==
    ASSUME NEW n \in Nat, NEW m \in [1..n -> 1..n],
           \A i, j \in 1..n : m[i] < m[j] => i < j,
           \A i, j \in 1..n : m[i] = m[j] => i = j,
           \A k \in 1..n : \E i \in 1..n : m[i] = k
    PROVE  \A i \in 1..n : m[i] = i
<1> DEFINE K == {k \in 1..n : m[k] # k}
<1> SUFFICES ASSUME K # {} PROVE FALSE
  OBVIOUS
<1>1. K \in SUBSET (0..n)
  OBVIOUS
<1>2. PICK k \in K : \A j \in K : k <= j
  <2> HIDE DEF K
  <2> QED
    BY <1>1, LeastExists
<1>3. k \in 1..n /\ m[k] \in 1..n /\ m[k] # k
  OBVIOUS
<1>4. \A j \in 1..n : j < k => m[j] = j
  BY <1>2
<1>5. ~(m[k] < k)
  BY <1>3, <1>4
<1>6. PICK i \in 1..n : m[i] = k
  BY <1>3
<1>7. ~(i < k) /\ i # k
  BY <1>3, <1>4, <1>6
<1>8. i < k
  BY <1>3, <1>5, <1>6
<1> QED
  BY <1>7, <1>8

(* Whatever order BuildColumnsString gives to equal positions, the names   *)
(* that it writes fit the declared columns when the map does.              *)
LEMMA BuiltColumnsFit ==
    ASSUME NEW S, NEW declared \in Seq(S), IsInjective(declared),
           NEW columns, Fits(columns, declared),
           columns \in [DOMAIN columns -> Nat], IsFiniteSet(DOMAIN columns), DOMAIN columns \subseteq S,
           NEW names \in BuildColumnsString(columns)
    PROVE  names \in Seq(S) /\ IsInjective(names) /\ Fits(LoadColumnsString(names), declared)
<1> DEFINE D == DOMAIN columns
           n == Cardinality(D)
           load == LoadColumnsString(names)
<1>1. n \in Nat
  BY FS_CardinalityType
<1>2. /\ names \in [1..n -> D]
      /\ \A i, j \in 1..n : i # j => names[i] # names[j]
      /\ \A i, j \in 1..n : columns[names[i]] < columns[names[j]] => i < j
  BY DEF BuildColumnsString, SetToSeqs
<1>3. names \in Seq(S) /\ IsInjective(names) /\ DOMAIN names = 1..n
  <2> HIDE DEF n
  <2> QED
    BY <1>1, <1>2 DEF IsInjective
<1>4. Range(names) = D
  <2>1. names \in Injection(1..n, D)
    BY <1>2, <1>3 DEF Injection
  <2>2. IsFiniteSet(1..n) /\ Cardinality(1..n) = n
    <3>1. 1 \in Int /\ n \in Int
      BY <1>1
    <3>2. IsFiniteSet(1..n) /\ Cardinality(1..n) = IF 1 > n THEN 0 ELSE n - 1 + 1
      BY <3>1, FS_Interval
    <3> HIDE DEF n
    <3> QED
      BY <1>1, <3>2
  <2>3. names \in Surjection(1..n, D)
    BY <2>1, <2>2, FS_Injection
  <2> HIDE DEF n, D
  <2> QED
    BY <1>2, <1>3, <2>3 DEF Surjection, Range
<1> HIDE DEF n, D
<1>5. DOMAIN load = D /\ \A i \in 1..n : load[names[i]] = i - 1
  BY <1>3, <1>4, LoadedPositions
<1>6. DOMAIN declared = 1..Len(declared) /\ Len(declared) \in Nat
  BY LenProperties
<1>7. \A i \in DOMAIN declared : \E k \in 1..n : names[k] = declared[i]
  <2>1. Range(declared) \subseteq Range(names)
    BY <1>4 DEF Fits, D
  <2> QED
    BY <1>3, <2>1 DEF Range
<1> HIDE DEF load
<1>8. ASSUME NEW i \in DOMAIN declared, NEW j \in DOMAIN declared, i < j
      PROVE  load[declared[i]] < load[declared[j]]
  <2>1. PICK k \in 1..n : names[k] = declared[i]
    BY <1>7
  <2>2. PICK l \in 1..n : names[l] = declared[j]
    BY <1>7
  <2>3. columns[names[k]] < columns[names[l]]
    BY <1>8, <2>1, <2>2 DEF Fits
  <2>4. k < l
    BY <1>2, <2>3
  <2>5. load[declared[i]] = k - 1 /\ load[declared[j]] = l - 1
    BY <1>5, <2>1, <2>2
  <2> QED
    BY <1>1, <2>4, <2>5
<1>9. ASSUME D = Range(declared), NEW i \in DOMAIN declared
      PROVE  load[declared[i]] = i - 1
  <2>1. Len(declared) = n
    <3>1. declared \in Bijection(DOMAIN declared, Range(declared))
      <4>1. declared \in [DOMAIN declared -> Range(declared)]
        BY <1>6, LenProperties DEF Range
      <4> QED
        BY <4>1 DEF Bijection, Injection, Surjection, Range
    <3>2. IsFiniteSet(DOMAIN declared) /\ Cardinality(DOMAIN declared) = Len(declared)
      <4>1. 1 \in Int /\ Len(declared) \in Int
        BY <1>6
      <4>2. /\ IsFiniteSet(1..Len(declared))
            /\ Cardinality(1..Len(declared)) = IF 1 > Len(declared) THEN 0 ELSE Len(declared) - 1 + 1
        BY <4>1, FS_Interval
      <4> QED
        BY <1>6, <4>2
    <3>3. Cardinality(Range(declared)) = Cardinality(DOMAIN declared)
      <4>1. ExistsBijection(DOMAIN declared, Range(declared))
        BY <3>1 DEF ExistsBijection
      <4> QED
        BY <3>2, <4>1, FS_Bijection
    <3> QED
      BY <1>9, <3>2, <3>3 DEF n, D
  <2> DEFINE m == [k \in 1..n |-> CHOOSE j \in 1..n : declared[j] = names[k]]
  <2>2. \A k \in 1..n : m[k] \in 1..n /\ declared[m[k]] = names[k]
    <3> SUFFICES ASSUME NEW k \in 1..n PROVE \E j \in 1..n : declared[j] = names[k]
      OBVIOUS
    <3>1. names[k] \in Range(declared)
      BY <1>2, <1>9
    <3> QED
      BY <1>6, <2>1, <3>1 DEF Range
  <2>3. m \in [1..n -> 1..n]
    BY <2>2
  <2> HIDE DEF m
  <2>4. \A k \in 1..n : columns[names[k]] = m[k] - 1
    BY <1>6, <1>9, <2>1, <2>2 DEF Fits, D
  <2>5. ASSUME NEW k \in 1..n, NEW l \in 1..n, m[k] < m[l] PROVE k < l
    <3>1. columns[names[k]] < columns[names[l]]
      BY <2>3, <2>4, <2>5
    <3> QED
      BY <1>2, <3>1
  <2>6. \A k, l \in 1..n : m[k] = m[l] => k = l
    BY <1>2, <2>2
  <2>7. ASSUME NEW j \in 1..n PROVE \E k \in 1..n : m[k] = j
    <3>1. PICK k \in 1..n : names[k] = declared[j]
      BY <1>6, <1>7, <2>1
    <3> QED
      BY <1>6, <2>1, <2>2, <3>1 DEF IsInjective
  <2>8. \A k \in 1..n : m[k] = k
    BY <1>1, <2>3, <2>5, <2>6, <2>7, OrderIsRigid
  <2>9. i \in 1..n /\ names[i] = declared[i]
    BY <1>6, <2>1, <2>2, <2>8
  <2> QED
    BY <1>5, <2>9
<1>10. Fits(load, declared)
  <2>1. Range(declared) \subseteq DOMAIN load
    BY <1>5 DEF Fits, D
  <2> QED
    BY <1>5, <1>8, <1>9, <2>1 DEF Fits
<1> QED
  BY <1>3, <1>10 DEF load

-----------------------------------------------------------------------------
(* Indexes, as paths of nodes on the pages d *)

LEMMA TreeBegins == \A d, root : root \in Tree(d, root)
  BY DEF Tree

LEMMA TreeGoesOn ==
    ASSUME NEW d, NEW root, NEW p \in Tree(d, root), IsNode(d, p), d[p].below \in DOMAIN d
    PROVE  d[p].below \in Tree(d, root)
  BY DEF Tree, Descends

LEMMA TreeInduction ==
    ASSUME NEW d, NEW root, NEW T, root \in T,
           \A p \in T \intersect Tree(d, root) :
                IsNode(d, p) /\ d[p].below \in DOMAIN d => d[p].below \in T
    PROVE  Tree(d, root) \subseteq T
<1> DEFINE S == T \intersect Tree(d, root)
           used == DOMAIN d \union {root}
<1>1. root \in S /\ Descends(d, S)
  BY TreeBegins, TreeGoesOn DEF Descends
<1>2. S \in SUBSET used
  BY DEF Tree
<1>3. Tree(d, root) \subseteq S
  <2> HIDE DEF S
  <2> QED
    BY <1>1, <1>2 DEF Tree
<1> QED
  BY <1>3

(* Every page of an index but the root is below another one. *)
LEMMA TreeHasParents ==
    ASSUME NEW d, NEW root, NEW p \in Tree(d, root), p # root
    PROVE  \E q \in Tree(d, root) : IsNode(d, q) /\ d[q].below = p
<1> DEFINE T == {root} \union {r \in Tree(d, root) :
                                \E q \in Tree(d, root) : IsNode(d, q) /\ d[q].below = r}
<1>1. root \in T
  OBVIOUS
<1>2. ASSUME NEW q \in T \intersect Tree(d, root), IsNode(d, q), d[q].below \in DOMAIN d
      PROVE  d[q].below \in T
  BY <1>2, TreeGoesOn
<1>3. Tree(d, root) \subseteq T
  <2> HIDE DEF T
  <2> QED
    BY <1>1, <1>2, TreeInduction
<1> QED
  BY <1>3

(* An index depends on the links of its own pages alone. *)
LEMMA TreeKeeps ==
    ASSUME NEW d, NEW e, NEW root,
           \A q \in Tree(d, root) :
                /\ IsNode(e, q) <=> IsNode(d, q)
                /\ IsNode(d, q) => /\ e[q].below = d[q].below
                                   /\ d[q].below \in DOMAIN e <=> d[q].below \in DOMAIN d
    PROVE  Tree(e, root) = Tree(d, root)
<1>1. Tree(e, root) \subseteq Tree(d, root)
  BY TreeBegins, TreeGoesOn, TreeInduction
<1>2. Tree(d, root) \subseteq Tree(e, root)
  BY TreeBegins, TreeGoesOn, TreeInduction
<1> QED
  BY <1>1, <1>2

(* Links lead to nodes, two never to one, and none to a root. *)
NodesLink(d) ==
    /\ \A p : IsNode(d, p) => d[p].below = Null \/ IsNode(d, d[p].below)
    /\ \A p, q : /\ IsNode(d, p) /\ IsNode(d, q)
                 /\ d[p].below = d[q].below /\ d[p].below # Null
                 => p = q

PathsHold(d, I) ==
    /\ DOMAIN d \subseteq PageIDs
    /\ NodesLink(d)
    /\ \A a \in DOMAIN I : IsNode(d, I[a]) /\ \A p : IsNode(d, p) => d[p].below # I[a]
    /\ IsInjective(I)

Owned(d, I) == UNION {Tree(d, I[a]) : a \in DOMAIN I}

LEMMA NullIsNoPage ==
    ASSUME NEW d, DOMAIN d \subseteq PageIDs
    PROVE  Null \notin DOMAIN d /\ ~IsNode(d, Null)
  BY PagesAssumption DEF IsNode

LEMMA TreesAreNodes ==
    ASSUME NEW d, NEW I, PathsHold(d, I), NEW a \in DOMAIN I, NEW p \in Tree(d, I[a])
    PROVE  IsNode(d, p) /\ p \in DOMAIN d
<1> DEFINE T == {q \in DOMAIN d : IsNode(d, q)}
<1>1. I[a] \in T
  BY DEF PathsHold, IsNode
<1>2. ASSUME NEW q \in T, d[q].below \in DOMAIN d PROVE d[q].below \in T
  BY <1>2, NullIsNoPage DEF PathsHold, NodesLink
<1>3. Tree(d, I[a]) \subseteq T
  <2> HIDE DEF T
  <2> QED
    BY <1>1, <1>2, TreeInduction
<1> QED
  BY <1>3

(* No link leads into an index from outside. *)
LEMMA TreesAreClosed ==
    ASSUME NEW d, NEW I, PathsHold(d, I), NEW a \in DOMAIN I,
           NEW p, IsNode(d, p), d[p].below \in Tree(d, I[a])
    PROVE  p \in Tree(d, I[a])
<1>1. d[p].below # I[a] /\ d[p].below # Null
  BY NullIsNoPage, TreesAreNodes DEF PathsHold
<1>2. PICK q \in Tree(d, I[a]) : IsNode(d, q) /\ d[q].below = d[p].below
  BY <1>1, TreeHasParents
<1> QED
  BY <1>1, <1>2 DEF PathsHold, NodesLink

LEMMA TreesAreApart ==
    ASSUME NEW d, NEW I, PathsHold(d, I), NEW a \in DOMAIN I, NEW b \in DOMAIN I, a # b
    PROVE  Tree(d, I[a]) \intersect Tree(d, I[b]) = {}
<1> DEFINE T == Tree(d, I[a]) \ Tree(d, I[b])
<1>1. I[a] \notin Tree(d, I[b])
  <2>1. I[a] # I[b]
    BY DEF PathsHold, IsInjective
  <2> QED
    BY <2>1, TreeHasParents DEF PathsHold
<1>2. I[a] \in T
  BY <1>1, TreeBegins
<1>3. ASSUME NEW q \in T, IsNode(d, q), d[q].below \in DOMAIN d PROVE d[q].below \in T
  BY <1>3, TreesAreClosed, TreeGoesOn
<1>4. Tree(d, I[a]) \subseteq T
  <2> HIDE DEF T
  <2> QED
    BY <1>2, <1>3, TreeInduction
<1> QED
  BY <1>4

(* Pages that are no nodes are no matter. *)
SameNodes(d, e) ==
    \A p : /\ IsNode(e, p) <=> IsNode(d, p)
           /\ IsNode(d, p) => e[p].below = d[p].below

LEMMA SamePaths ==
    ASSUME NEW d, NEW e, NEW I, PathsHold(d, I), SameNodes(d, e), DOMAIN e \subseteq PageIDs
    PROVE  /\ PathsHold(e, I)
           /\ \A a \in DOMAIN I : Tree(e, I[a]) = Tree(d, I[a])
           /\ Owned(e, I) = Owned(d, I)
<1>1. PathsHold(e, I)
  BY DEF PathsHold, NodesLink, SameNodes
<1>2. ASSUME NEW a \in DOMAIN I PROVE Tree(e, I[a]) = Tree(d, I[a])
  <2>1. ASSUME NEW q \in Tree(d, I[a])
        PROVE  /\ IsNode(e, q) <=> IsNode(d, q)
               /\ IsNode(d, q) => /\ e[q].below = d[q].below
                                  /\ d[q].below \in DOMAIN e <=> d[q].below \in DOMAIN d
    <3>1. IsNode(d, q) => d[q].below = Null \/ IsNode(d, d[q].below)
      BY DEF PathsHold, NodesLink
    <3>2. Null \notin DOMAIN d /\ Null \notin DOMAIN e
      BY NullIsNoPage DEF PathsHold
    <3>3. \A p : IsNode(d, p) => p \in DOMAIN d /\ p \in DOMAIN e
      BY DEF SameNodes, IsNode
    <3> QED
      BY <3>1, <3>2, <3>3 DEF SameNodes
  <2> QED
    BY <2>1, TreeKeeps
<1>3. Owned(e, I) = Owned(d, I)
  BY <1>2 DEF Owned
<1> QED
  BY <1>1, <1>2, <1>3

(* A page that nothing leads to changes no index. *)
LEMMA NewPageKeepsTrees ==
    ASSUME NEW d, NEW I, PathsHold(d, I), NEW p \in PageIDs \ DOMAIN d, NEW v,
           NEW e, e = Set(d, p, v), NEW a \in DOMAIN I
    PROVE  Tree(e, I[a]) = Tree(d, I[a]) /\ p \notin Tree(d, I[a])
<1>1. /\ DOMAIN e = DOMAIN d \union {p} /\ e[p] = v
      /\ \A q \in DOMAIN d : e[q] = d[q]
  BY DEF Set
<1>2. \A q \in Tree(d, I[a]) : q \in DOMAIN d /\ IsNode(d, q)
  BY TreesAreNodes
<1>3. ASSUME NEW q \in Tree(d, I[a])
      PROVE  /\ IsNode(e, q) /\ e[q].below = d[q].below
             /\ d[q].below \in DOMAIN e <=> d[q].below \in DOMAIN d
  <2>1. d[q].below = Null \/ d[q].below \in DOMAIN d
    BY <1>2 DEF PathsHold, NodesLink, IsNode
  <2>2. Null # p /\ Null \notin DOMAIN d
    BY PagesAssumption DEF PathsHold
  <2> QED
    BY <1>1, <1>2, <2>1, <2>2 DEF IsNode
<1> QED
  BY <1>2, <1>3, TreeKeeps

LEMMA NewIndex ==
    ASSUME NEW d, NEW I, PathsHold(d, I), NEW p \in PageIDs \ DOMAIN d,
           NEW name, name \notin DOMAIN I,
           NEW e, e = Set(d, p, [below |-> Null]), NEW J, J = Set(I, name, p)
    PROVE  PathsHold(e, J) /\ Owned(e, J) = Owned(d, I) \union {p}
<1>1. /\ DOMAIN e = DOMAIN d \union {p} /\ e[p] = [below |-> Null]
      /\ \A q \in DOMAIN d : e[q] = d[q]
  BY DEF Set
<1>2. /\ DOMAIN J = DOMAIN I \union {name} /\ J[name] = p
      /\ \A a \in DOMAIN I : J[a] = I[a]
  BY DEF Set
<1>3. Null # p /\ Null \notin DOMAIN d /\ Null \notin PageIDs
  BY PagesAssumption DEF PathsHold
<1>4. IsNode(e, p) /\ e[p].below = Null
  BY <1>1 DEF IsNode, Node
<1>5. \A q : q # p => (IsNode(e, q) <=> IsNode(d, q)) /\ (IsNode(d, q) => e[q].below = d[q].below)
  BY <1>1 DEF IsNode
<1>6. \A q : IsNode(d, q) => q # p /\ d[q].below # p
  BY <1>3 DEF IsNode, PathsHold, NodesLink
<1>7. NodesLink(e)
  <2>1. ASSUME NEW q, IsNode(e, q) PROVE e[q].below = Null \/ IsNode(e, e[q].below)
    BY <1>4, <1>5, <1>6, <2>1 DEF PathsHold, NodesLink
  <2>2. ASSUME NEW q, NEW r, IsNode(e, q), IsNode(e, r), e[q].below = e[r].below, e[q].below # Null
        PROVE  q = r
    BY <1>4, <1>5, <2>2 DEF PathsHold, NodesLink
  <2> QED
    BY <2>1, <2>2 DEF NodesLink
<1>8. \A a \in DOMAIN I : IsNode(d, I[a]) /\ I[a] # p /\ I[a] # Null
  BY <1>3, <1>6, NullIsNoPage DEF PathsHold, IsNode
<1>9. PathsHold(e, J)
  <2>1. ASSUME NEW a \in DOMAIN J PROVE IsNode(e, J[a]) /\ \A q : IsNode(e, q) => e[q].below # J[a]
    <3>1. CASE a = name
      BY <1>2, <1>3, <1>4, <1>5, <1>6, <3>1
    <3>2. CASE a \in DOMAIN I
      <4>1. IsNode(e, J[a])
        BY <1>2, <1>5, <1>8, <3>2
      <4>2. ASSUME NEW q, IsNode(e, q) PROVE e[q].below # J[a]
        BY <1>2, <1>4, <1>5, <1>8, <3>2, <4>2 DEF PathsHold
      <4> QED
        BY <4>1, <4>2
    <3> QED
      BY <1>2, <3>1, <3>2
  <2>2. IsInjective(J)
    BY <1>2, <1>8 DEF PathsHold, IsInjective
  <2>3. DOMAIN e \subseteq PageIDs
    BY <1>1 DEF PathsHold
  <2> QED
    BY <1>7, <2>1, <2>2, <2>3 DEF PathsHold
<1>10. \A a \in DOMAIN I : Tree(e, J[a]) = Tree(d, I[a])
  BY <1>2, NewPageKeepsTrees
<1>11. Tree(e, p) = {p}
  <2>1. Tree(e, p) \subseteq {p}
    <3>1. \A q \in {p} : e[q].below \notin DOMAIN e
      BY <1>1, <1>3, <1>4
    <3> QED
      BY <3>1, TreeInduction
  <2> QED
    BY <2>1, TreeBegins
<1> QED
  BY <1>2, <1>9, <1>10, <1>11 DEF Owned

LEMMA RootGrows ==
    ASSUME NEW d, NEW I, PathsHold(d, I), NEW p \in PageIDs \ DOMAIN d,
           NEW name \in DOMAIN I,
           NEW e, e = Set(d, p, [below |-> I[name]]), NEW J, J = Set(I, name, p)
    PROVE  PathsHold(e, J) /\ Owned(e, J) = Owned(d, I) \union {p}
<1> DEFINE root == I[name]
<1>1. /\ DOMAIN e = DOMAIN d \union {p} /\ e[p] = [below |-> root]
      /\ \A q \in DOMAIN d : e[q] = d[q]
  BY DEF Set
<1>2. /\ DOMAIN J = DOMAIN I /\ J[name] = p
      /\ \A a \in DOMAIN I \ {name} : J[a] = I[a]
  BY DEF Set
<1>3. Null # p /\ Null \notin DOMAIN d /\ Null \notin PageIDs
  BY PagesAssumption DEF PathsHold
<1>4. IsNode(d, root) /\ root \in PageIDs /\ root # p /\ root # Null /\ \A q : IsNode(d, q) => d[q].below # root
  BY <1>3 DEF PathsHold, IsNode
<1>5. IsNode(e, p) /\ e[p].below = root
  BY <1>1, <1>4 DEF IsNode, Node
<1> HIDE DEF root
<1>6. \A q : q # p => (IsNode(e, q) <=> IsNode(d, q)) /\ (IsNode(d, q) => e[q].below = d[q].below)
  BY <1>1 DEF IsNode
<1>7. \A q : IsNode(d, q) => q # p /\ d[q].below # p
  BY <1>3 DEF IsNode, PathsHold, NodesLink
<1>8. NodesLink(e)
  <2>1. ASSUME NEW q, IsNode(e, q) PROVE e[q].below = Null \/ IsNode(e, e[q].below)
    BY <1>4, <1>5, <1>6, <1>7, <2>1 DEF PathsHold, NodesLink
  <2>2. ASSUME NEW q, NEW r, IsNode(e, q), IsNode(e, r), e[q].below = e[r].below, e[q].below # Null
        PROVE  q = r
    BY <1>4, <1>5, <1>6, <2>2 DEF PathsHold, NodesLink
  <2> QED
    BY <2>1, <2>2 DEF NodesLink
<1>9. \A a \in DOMAIN I : IsNode(d, I[a]) /\ I[a] # p /\ (a # name => I[a] # root)
  BY <1>7 DEF PathsHold, IsNode, IsInjective, root
<1>10. PathsHold(e, J)
  <2>1. ASSUME NEW a \in DOMAIN J PROVE IsNode(e, J[a]) /\ \A q : IsNode(e, q) => e[q].below # J[a]
    <3>1. CASE a = name
      BY <1>2, <1>4, <1>5, <1>6, <1>7, <3>1
    <3>2. CASE a # name
      <4>1. IsNode(e, J[a])
        BY <1>2, <1>6, <1>9, <3>2
      <4>2. ASSUME NEW q, IsNode(e, q) PROVE e[q].below # J[a]
        BY <1>2, <1>5, <1>6, <1>9, <3>2, <4>2 DEF PathsHold
      <4> QED
        BY <4>1, <4>2
    <3> QED
      BY <3>1, <3>2
  <2>2. IsInjective(J)
    BY <1>2, <1>9 DEF PathsHold, IsInjective
  <2>3. DOMAIN e \subseteq PageIDs
    BY <1>1 DEF PathsHold
  <2> QED
    BY <1>8, <2>1, <2>2, <2>3 DEF PathsHold
<1>11. \A a \in DOMAIN I \ {name} : Tree(e, J[a]) = Tree(d, I[a])
  BY <1>2, NewPageKeepsTrees
<1>12. Tree(e, p) = Tree(d, root) \union {p}
  <2>1. Tree(e, p) \subseteq Tree(d, root) \union {p}
    <3> DEFINE T == Tree(d, root) \union {p}
    <3>1. ASSUME NEW q \in T, e[q].below \in DOMAIN e PROVE e[q].below \in T
      <4>1. CASE q = p
        BY <1>5, <4>1, TreeBegins
      <4>2. CASE q # p
        <5>1. q \in Tree(d, root) /\ IsNode(d, q)
          BY <4>2, TreesAreNodes DEF root
        <5>2. e[q].below = d[q].below /\ d[q].below \in DOMAIN d
          BY <1>1, <1>6, <1>7, <3>1, <4>2, <5>1
        <5> QED
          BY <5>1, <5>2, TreeGoesOn
      <4> QED
        BY <4>1, <4>2
    <3>2. p \in T
      OBVIOUS
    <3> HIDE DEF T
    <3>3. Tree(e, p) \subseteq T
      BY <3>1, <3>2, TreeInduction
    <3> QED
      BY <3>3 DEF T
  <2>2. Tree(d, root) \subseteq Tree(e, p)
    <3>1. root \in Tree(e, p)
      <4>1. e[p].below \in DOMAIN e
        BY <1>1, <1>4, <1>5 DEF IsNode
      <4> QED
        BY <1>5, <4>1, TreeBegins, TreeGoesOn
    <3>2. ASSUME NEW q \in Tree(e, p), IsNode(d, q), d[q].below \in DOMAIN d
          PROVE  d[q].below \in Tree(e, p)
      <4>1. IsNode(e, q) /\ e[q].below = d[q].below /\ e[q].below \in DOMAIN e
        BY <1>1, <1>6, <1>7, <3>2
      <4> QED
        BY <4>1, TreeGoesOn
    <3> QED
      BY <3>1, <3>2, TreeInduction
  <2> QED
    BY <2>1, <2>2, TreeBegins
<1> QED
  BY <1>2, <1>10, <1>11, <1>12 DEF Owned, root

LEMMA RootShrinks ==
    ASSUME NEW d, NEW I, PathsHold(d, I),
           NEW name \in DOMAIN I, d[I[name]].below # Null,
           NEW e, DOMAIN e = DOMAIN d \ {I[name]}, \A q \in DOMAIN e : e[q] = d[q],
           NEW J, J = Set(I, name, d[I[name]].below)
    PROVE  /\ PathsHold(e, J) /\ Owned(e, J) = Owned(d, I) \ {I[name]}
           /\ d[I[name]].below \in PageIDs
<1> DEFINE root == I[name]
           next == d[root].below
<1>1. DOMAIN e = DOMAIN d \ {root} /\ \A q \in DOMAIN e : e[q] = d[q]
  OBVIOUS
<1>2. /\ DOMAIN J = DOMAIN I /\ J[name] = next
      /\ \A a \in DOMAIN I \ {name} : J[a] = I[a]
  BY DEF Set
<1>3. Null \notin DOMAIN d /\ Null \notin PageIDs
  BY PagesAssumption DEF PathsHold
<1>4. /\ IsNode(d, root) /\ \A q : IsNode(d, q) => d[q].below # root
      /\ IsNode(d, next) /\ next # root /\ next # Null /\ next \in PageIDs
  BY <1>3 DEF PathsHold, NodesLink, IsNode
<1>5. \A q : IsNode(d, q) /\ d[q].below = next => q = root
  BY <1>4 DEF PathsHold, NodesLink
<1> HIDE DEF next, root
<1>6. \A q : /\ IsNode(e, q) <=> IsNode(d, q) /\ q # root
             /\ IsNode(e, q) => e[q].below = d[q].below
  BY <1>1 DEF IsNode
<1>7. NodesLink(e)
  <2>1. ASSUME NEW q, IsNode(e, q) PROVE e[q].below = Null \/ IsNode(e, e[q].below)
    BY <1>4, <1>6, <2>1 DEF PathsHold, NodesLink
  <2>2. ASSUME NEW q, NEW r, IsNode(e, q), IsNode(e, r), e[q].below = e[r].below, e[q].below # Null
        PROVE  q = r
    BY <1>6, <2>2 DEF PathsHold, NodesLink
  <2> QED
    BY <2>1, <2>2 DEF NodesLink
<1>8. \A a \in DOMAIN I \ {name} : I[a] # root /\ I[a] # next
  BY <1>4 DEF PathsHold, IsInjective, root, next
<1>9. PathsHold(e, J)
  <2>1. ASSUME NEW a \in DOMAIN J PROVE IsNode(e, J[a]) /\ \A q : IsNode(e, q) => e[q].below # J[a]
    <3>1. CASE a = name
      BY <1>2, <1>4, <1>5, <1>6, <3>1
    <3>2. CASE a # name
      <4>1. J[a] = I[a] /\ IsNode(d, I[a]) /\ \A q : IsNode(d, q) => d[q].below # I[a]
        BY <1>2, <3>2 DEF PathsHold
      <4>2. I[a] # root
        BY <1>2, <1>8, <3>2
      <4> QED
        BY <1>6, <4>1, <4>2
    <3> QED
      BY <3>1, <3>2
  <2>2. IsInjective(J)
    BY <1>2, <1>8 DEF PathsHold, IsInjective
  <2>3. DOMAIN e \subseteq PageIDs
    BY <1>1 DEF PathsHold
  <2> QED
    BY <1>7, <2>1, <2>2, <2>3 DEF PathsHold
<1>10. ASSUME NEW a \in DOMAIN I \ {name}
       PROVE  Tree(e, J[a]) = Tree(d, I[a]) /\ root \notin Tree(d, I[a])
  <2>1. root \notin Tree(d, I[a])
    BY TreesAreApart, TreeBegins DEF root
  <2>2. ASSUME NEW q \in Tree(d, I[a])
        PROVE  /\ IsNode(e, q) /\ IsNode(d, q) /\ e[q].below = d[q].below
               /\ d[q].below \in DOMAIN e <=> d[q].below \in DOMAIN d
    <3>1. IsNode(d, q) /\ q # root /\ d[q].below # root
      BY <1>4, <2>1, <2>2, TreesAreNodes
    <3> QED
      BY <1>1, <1>6, <3>1
  <2>3. Tree(e, I[a]) = Tree(d, I[a])
    BY <2>2, TreeKeeps
  <2> QED
    BY <1>2, <2>1, <2>3
<1>11. Tree(e, next) \subseteq Tree(d, root) \ {root}
  <2> DEFINE T == Tree(d, root) \ {root}
  <2>1. next \in T
    <3>1. d[root].below \in DOMAIN d
      BY <1>4 DEF IsNode, next
    <3>2. d[root].below \in Tree(d, root)
      BY <1>4, <3>1, TreeBegins, TreeGoesOn
    <3> QED
      BY <1>4, <3>2 DEF next
  <2>2. ASSUME NEW q \in T, IsNode(e, q), e[q].below \in DOMAIN e PROVE e[q].below \in T
    <3>1. IsNode(d, q) /\ e[q].below = d[q].below /\ d[q].below \in DOMAIN d /\ d[q].below # root
      BY <1>1, <1>4, <1>6, <2>2
    <3> QED
      BY <3>1, TreeGoesOn
  <2> HIDE DEF T
  <2>3. Tree(e, next) \subseteq T
    BY <2>1, <2>2, TreeInduction
  <2> QED
    BY <2>3 DEF T
<1>12. Tree(d, root) \subseteq Tree(e, next) \union {root}
  <2> DEFINE T == Tree(e, next) \union {root}
  <2>1. ASSUME NEW q \in T, IsNode(d, q), d[q].below \in DOMAIN d PROVE d[q].below \in T
    <3>1. CASE q = root
      BY <3>1, TreeBegins DEF next
    <3>2. CASE q # root
      <4>1. q \in Tree(e, next) /\ IsNode(e, q) /\ e[q].below = d[q].below /\ d[q].below \in DOMAIN e
        BY <1>1, <1>4, <1>6, <2>1, <3>2
      <4> QED
        BY <4>1, TreeGoesOn
    <3> QED
      BY <3>1, <3>2
  <2>2. root \in T
    OBVIOUS
  <2> HIDE DEF T
  <2>3. Tree(d, root) \subseteq T
    BY <2>1, <2>2, TreeInduction
  <2> QED
    BY <2>3 DEF T
<1>13. Tree(e, next) = Tree(d, root) \ {root}
  BY <1>11, <1>12
<1>14. Owned(e, J) = Owned(d, I) \ {root}
  BY <1>2, <1>10, <1>13 DEF Owned, root
<1> QED
  BY <1>4, <1>9, <1>14 DEF root, next

(* Index::Clear of the indexes N, of which X are the pages. *)
Cleared(d, I, N, X, e, J) ==
    /\ N \subseteq DOMAIN I
    /\ \A p : p \in X <=> \E a \in N : p \in Tree(d, I[a])
    /\ DOMAIN e = DOMAIN d \ X /\ \A q \in DOMAIN e : e[q] = d[q]
    /\ DOMAIN J = DOMAIN I \ N /\ \A a \in DOMAIN J : J[a] = I[a]

LEMMA IndexesGo ==
    ASSUME NEW d, NEW I, PathsHold(d, I), NEW N, NEW X, NEW e, NEW J, Cleared(d, I, N, X, e, J)
    PROVE  /\ PathsHold(e, J) /\ Owned(e, J) = Owned(d, I) \ X
           /\ \A p \in X : IsNode(d, p)
<1>0. N \subseteq DOMAIN I /\ \A p : p \in X <=> \E a \in N : p \in Tree(d, I[a])
  BY DEF Cleared
<1>1. DOMAIN e = DOMAIN d \ X /\ \A q \in DOMAIN e : e[q] = d[q]
  BY DEF Cleared
<1>2. DOMAIN J = DOMAIN I \ N /\ \A a \in DOMAIN J : J[a] = I[a]
  BY DEF Cleared
<1>3. \A q : /\ IsNode(e, q) <=> IsNode(d, q) /\ q \notin X
             /\ IsNode(e, q) => e[q].below = d[q].below
  BY <1>1 DEF IsNode
<1>4. \A p \in X : IsNode(d, p)
  BY <1>0, TreesAreNodes
<1>5. \A q : IsNode(d, q) /\ d[q].below \in X => q \in X
  BY <1>0, TreesAreClosed
<1>6. \A a \in DOMAIN J : Tree(d, I[a]) \intersect X = {}
  BY <1>0, <1>2, TreesAreApart
<1>7. NodesLink(e)
  <2>1. ASSUME NEW q, IsNode(e, q) PROVE e[q].below = Null \/ IsNode(e, e[q].below)
    BY <1>3, <1>5, <2>1 DEF PathsHold, NodesLink
  <2>2. ASSUME NEW q, NEW r, IsNode(e, q), IsNode(e, r), e[q].below = e[r].below, e[q].below # Null
        PROVE  q = r
    BY <1>3, <2>2 DEF PathsHold, NodesLink
  <2> QED
    BY <2>1, <2>2 DEF NodesLink
<1>8. PathsHold(e, J)
  <2>1. \A a \in DOMAIN J : IsNode(e, J[a]) /\ \A q : IsNode(e, q) => e[q].below # J[a]
    BY <1>2, <1>3, <1>6, TreeBegins DEF PathsHold
  <2>2. IsInjective(J)
    BY <1>2 DEF PathsHold, IsInjective
  <2>3. DOMAIN e \subseteq PageIDs
    BY <1>1 DEF PathsHold
  <2> QED
    BY <1>7, <2>1, <2>2, <2>3 DEF PathsHold
<1>9. ASSUME NEW a \in DOMAIN J PROVE Tree(e, J[a]) = Tree(d, I[a])
  <2>1. ASSUME NEW q \in Tree(d, I[a])
        PROVE  /\ IsNode(e, q) /\ IsNode(d, q) /\ e[q].below = d[q].below
               /\ d[q].below \in DOMAIN e <=> d[q].below \in DOMAIN d
    <3>1. IsNode(d, q) /\ q \notin X /\ d[q].below \notin X
      BY <1>2, <1>5, <1>6, TreesAreNodes
    <3> QED
      BY <1>1, <1>3, <3>1
  <2> QED
    BY <1>2, <2>1, TreeKeeps
<1>10. Owned(e, J) = Owned(d, I) \ X
  <2>1. DOMAIN I = N \union DOMAIN J
    BY <1>0, <1>2
  <2>2. Owned(d, I) = X \union UNION {Tree(d, I[a]) : a \in DOMAIN J}
    BY <1>0, <2>1 DEF Owned
  <2>3. Owned(e, J) = UNION {Tree(d, I[a]) : a \in DOMAIN J}
    BY <1>2, <1>9 DEF Owned
  <2> QED
    BY <1>6, <2>2, <2>3
<1> QED
  BY <1>4, <1>8, <1>10
-----------------------------------------------------------------------------
(* The catalog pages *)

LastPlace(name, records) == SelectLastInSeq(records, LAMBDA r : r[1] = name)

(* A record that is read back is one that was written; a record whose name *)
(* no other one has is read back.                                          *)
LEMMA LoadedRecords ==
    ASSUME NEW A, NEW B, NEW records \in Seq(A \X B)
    PROVE  /\ DOMAIN Loaded(records) \subseteq A
           /\ Loaded(records) \in [DOMAIN Loaded(records) -> B]
           /\ \A name \in DOMAIN Loaded(records) :
                \E i \in 1..Len(records) : records[i] = <<name, Loaded(records)[name]>>
           /\ \A i \in 1..Len(records) :
                /\ records[i][1] \in DOMAIN Loaded(records)
                /\ (\A j \in 1..Len(records) : records[j][1] = records[i][1] => j = i)
                    => Loaded(records)[records[i][1]] = records[i][2]
<1> DEFINE n == Len(records)
           names == {r[1] : r \in Range(records)}
           load == Loaded(records)
<1>1. /\ n \in Nat /\ DOMAIN records = 1..n
      /\ \A i \in 1..n : /\ records[i] \in A \X B
                         /\ records[i] = <<records[i][1], records[i][2]>>
                         /\ records[i][1] \in A /\ records[i][2] \in B
  <2>1. n \in Nat /\ DOMAIN records = 1..n /\ \A i \in 1..n : records[i] \in A \X B
    BY LenProperties, ElementOfSeq
  <2> QED
    BY <2>1
<1>2. load = [name \in names |-> records[LastPlace(name, records)][2]]
  BY DEF Loaded, LastPlace
<1>3. ASSUME NEW name \in names
      PROVE  LastPlace(name, records) \in {i \in 1..n : records[i][1] = name}
  <2> DEFINE I == {i \in 1..n : records[i][1] = name}
  <2>1. LastPlace(name, records) = IF I # {} THEN Max(I) ELSE 0
    BY DEF LastPlace, SelectLastInSeq
  <2>2. I # {}
    BY <1>1 DEF Range
  <2>3. I \in SUBSET (0..n)
    OBVIOUS
  <2>4. Max(I) \in I
    <3> HIDE DEF I, n
    <3> QED
      BY <1>1, <2>2, <2>3, GreatestChosen DEF Max
  <2> HIDE DEF I
  <2>5. LastPlace(name, records) \in I
    BY <2>1, <2>2, <2>4
  <2> QED
    BY <2>5 DEF I
<1>4. \A i \in 1..n : records[i][1] \in names
  BY <1>1 DEF Range
<1>5. DOMAIN load = names
  BY <1>2
<1>6. \A name \in names : \E i \in 1..n : records[i] = <<name, load[name]>>
  <2> HIDE DEF n, names, load
  <2> QED
    BY <1>1, <1>2, <1>3
<1>7. ASSUME NEW i \in 1..n, \A j \in 1..n : records[j][1] = records[i][1] => j = i
      PROVE  load[records[i][1]] = records[i][2]
  <2> HIDE DEF n, names, load
  <2> QED
    BY <1>2, <1>3, <1>4, <1>7
<1> HIDE DEF n, names, load
<1>8. \A name \in names : name \in A /\ load[name] \in B
  <2> SUFFICES ASSUME NEW name \in names PROVE name \in A /\ load[name] \in B
    OBVIOUS
  <2>1. PICK i \in 1..n : records[i] = <<name, load[name]>>
    BY <1>6
  <2>2. <<name, load[name]>> \in A \X B
    BY <1>1, <2>1
  <2> QED
    BY <2>2
<1>9. load \in [names -> B]
  BY <1>2, <1>8
<1> QED
  BY <1>4, <1>5, <1>6, <1>7, <1>8, <1>9 DEF n, load

LEMMA FilledRecords ==
    ASSUME NEW S, NEW records \in Seq(S), NEW slots \in Nat
    PROVE  /\ Filled(records, slots) \in Seq(S)
           /\ Len(Filled(records, slots)) <= slots
           /\ Len(Filled(records, slots)) <= Len(records)
           /\ \A i \in 1..Len(records) : i <= slots => i <= Len(Filled(records, slots))
           /\ \A i \in 1..Len(Filled(records, slots)) : Filled(records, slots)[i] = records[i]
<1> DEFINE n == Len(records)
           m == Min({slots, n})
           fill == Filled(records, slots)
<1>1. n \in Nat /\ \A i \in 1..n : records[i] \in S
  BY LenProperties, ElementOfSeq
<1>2. m \in {slots, n} /\ m <= slots /\ m <= n
  <2>1. {slots, n} \in SUBSET Nat /\ {slots, n} # {}
    BY <1>1
  <2> QED
    BY <2>1, LeastChosen DEF Min
<1>3. m \in Nat /\ m <= n /\ m <= slots /\ (slots <= n => m = slots) /\ (n <= slots => m = n)
  BY <1>1, <1>2
<1>4. fill = SubSeq(records, 1, m)
  BY DEF Filled
<1> HIDE DEF m, n, fill
<1>5. fill \in Seq(S) /\ Len(fill) = m /\ \A i \in 1..m : fill[i] = records[i]
  <2>1. 1 \in Int /\ m \in Int /\ \A i \in 1..m : records[i] \in S
    BY <1>1, <1>3
  <2>2. Len(fill) = IF 1 <= m THEN m - 1 + 1 ELSE 0
    BY <1>4, <2>1, SubSeqProperties
  <2>3. \A i \in 1..m-1+1 : fill[i] = records[1 + i - 1]
    BY <1>4, <2>1, SubSeqProperties
  <2>4. fill \in Seq(S)
    BY <1>4, <2>1, SubSeqProperties
  <2>5. m - 1 + 1 = m /\ \A i \in 1..m : 1 + i - 1 = i
    BY <1>3
  <2> QED
    BY <1>3, <2>2, <2>3, <2>4, <2>5
<1> QED
  BY <1>1, <1>3, <1>5 DEF fill, n

(* What TableManager::Store writes and the next start reads. *)
StoredTables == Loaded(Filled(TableRecords, TableSlots))

LEMMA TableRecordsList ==
    ASSUME IsFiniteSet(DOMAIN tableIDs), DOMAIN tableIDs \subseteq TableNames,
           tableIDs \in [DOMAIN tableIDs -> PageIDs]
    PROVE  /\ TableRecords \in Seq(TableNames \X PageIDs)
           /\ Len(TableRecords) = Cardinality(DOMAIN tableIDs)
           /\ \A i \in 1..Len(TableRecords) :
                \E t \in DOMAIN tableIDs : TableRecords[i] = <<Truncated[t], tableIDs[t]>>
           /\ \A t \in DOMAIN tableIDs :
                LET r == Cardinality({u \in DOMAIN tableIDs : u < t}) + 1
                IN  r \in 1..Len(TableRecords) /\ TableRecords[r] = <<Truncated[t], tableIDs[t]>>
           /\ \A i, j \in 1..Len(TableRecords), t \in DOMAIN tableIDs :
                /\ TableRecords[i] = <<Truncated[t], tableIDs[t]>>
                /\ TableRecords[j] = <<Truncated[t], tableIDs[t]>>
                /\ \A u \in DOMAIN tableIDs : Truncated[u] = Truncated[t] => u = t
                => i = j
<1> DEFINE D == DOMAIN tableIDs
           byName == Ascending(D)
<1>1. D \in SUBSET Nat
  BY NamesAssumption
<1>2. /\ byName \in Seq(D) /\ IsInjective(byName) /\ Range(byName) = D
      /\ Len(byName) = Cardinality(D)
      /\ \A x \in D : LET r == Cardinality({y \in D : y < x}) + 1
                      IN  r \in 1..Len(byName) /\ byName[r] = x
  BY <1>1, AscendingLists DEF IsListOf
<1> HIDE DEF byName
<1>3. /\ Len(byName) \in Nat /\ DOMAIN byName = 1..Len(byName)
      /\ \A i \in 1..Len(byName) : byName[i] \in D
  BY <1>2, LenProperties, ElementOfSeq
<1>4. TableRecords = [i \in 1..Len(byName) |-> <<Truncated[byName[i]], tableIDs[byName[i]]>>]
  BY <1>3 DEF TableRecords, byName
<1>5. \A t \in D : Truncated[t] \in TableNames /\ tableIDs[t] \in PageIDs
  BY NamesAssumption
<1>6. TableRecords \in Seq(TableNames \X PageIDs) /\ Len(TableRecords) = Len(byName)
  BY <1>3, <1>4, <1>5
<1>7. ASSUME NEW i \in 1..Len(byName), NEW j \in 1..Len(byName), NEW t \in D,
             TableRecords[i] = <<Truncated[t], tableIDs[t]>>,
             TableRecords[j] = <<Truncated[t], tableIDs[t]>>,
             \A u \in D : Truncated[u] = Truncated[t] => u = t
      PROVE  i = j
  <2>1. Truncated[byName[i]] = Truncated[t] /\ Truncated[byName[j]] = Truncated[t]
    BY <1>4, <1>7
  <2>2. byName[i] = t /\ byName[j] = t
    BY <1>3, <1>7, <2>1
  <2> QED
    BY <1>2, <1>3, <2>2 DEF IsInjective
<1>8. \A i \in 1..Len(TableRecords) :
        \E t \in D : TableRecords[i] = <<Truncated[t], tableIDs[t]>>
  <2> TAKE i \in 1..Len(TableRecords)
  <2>1. i \in 1..Len(byName)
    BY <1>6
  <2> QED
    BY <1>3, <1>4, <2>1
<1>9. ASSUME NEW t \in D
      PROVE  LET r == Cardinality({u \in D : u < t}) + 1
             IN  r \in 1..Len(TableRecords) /\ TableRecords[r] = <<Truncated[t], tableIDs[t]>>
  <2> DEFINE r == Cardinality({u \in D : u < t}) + 1
  <2>1. r \in 1..Len(byName) /\ byName[r] = t
    BY <1>2
  <2> HIDE DEF r
  <2>2. r \in 1..Len(TableRecords) /\ TableRecords[r] = <<Truncated[t], tableIDs[t]>>
    BY <1>4, <1>6, <2>1
  <2> QED
    BY <2>2 DEF r
<1>10. 1..Len(TableRecords) = 1..Len(byName) /\ Len(TableRecords) = Cardinality(D)
  BY <1>2, <1>6
<1>11. \A i, j \in 1..Len(TableRecords), t \in D :
         /\ TableRecords[i] = <<Truncated[t], tableIDs[t]>>
         /\ TableRecords[j] = <<Truncated[t], tableIDs[t]>>
         /\ \A u \in D : Truncated[u] = Truncated[t] => u = t
         => i = j
  BY <1>7, <1>10
<1> HIDE DEF D
<1> QED
  BY <1>6, <1>8, <1>9, <1>10, <1>11 DEF D

LEMMA TablesAreStored ==
    ASSUME IsFiniteSet(DOMAIN tableIDs), DOMAIN tableIDs \subseteq TableNames,
           tableIDs \in [DOMAIN tableIDs -> PageIDs]
    PROVE  /\ DOMAIN StoredTables \subseteq TableNames
           /\ StoredTables \in [DOMAIN StoredTables -> PageIDs]
           /\ \A u \in DOMAIN StoredTables :
                \E t \in DOMAIN tableIDs : u = Truncated[t] /\ StoredTables[u] = tableIDs[t]
           /\ \A t \in DOMAIN tableIDs :
                /\ Cardinality({u \in DOMAIN tableIDs : u < t}) + 1 <= TableSlots
                /\ Truncated[t] = t
                /\ \A u \in DOMAIN tableIDs : Truncated[u] = t => u = t
                => t \in DOMAIN StoredTables /\ StoredTables[t] = tableIDs[t]
           /\ Len(TableRecords) <= TableSlots /\ (\A t \in DOMAIN tableIDs : Truncated[t] = t)
                => StoredTables = tableIDs
<1> DEFINE D == DOMAIN tableIDs
           all == TableRecords
           kept == Filled(all, TableSlots)
           load == Loaded(kept)
           r(t) == Cardinality({u \in D : u < t}) + 1
<1>1. /\ all \in Seq(TableNames \X PageIDs)
      /\ \A i \in 1..Len(all) : \E t \in D : all[i] = <<Truncated[t], tableIDs[t]>>
      /\ \A t \in D : r(t) \in 1..Len(all) /\ all[r(t)] = <<Truncated[t], tableIDs[t]>>
  BY TableRecordsList
<1>2. \A i, j \in 1..Len(all), t \in D :
        /\ all[i] = <<Truncated[t], tableIDs[t]>>
        /\ all[j] = <<Truncated[t], tableIDs[t]>>
        /\ \A u \in D : Truncated[u] = Truncated[t] => u = t
        => i = j
  BY TableRecordsList
<1>3. Len(all) \in Nat /\ TableSlots \in Nat
  BY <1>1, LenProperties, PagesAssumption
<1> HIDE DEF all, r
<1>4. /\ kept \in Seq(TableNames \X PageIDs)
      /\ Len(kept) <= Len(all)
      /\ \A i \in 1..Len(all) : i <= TableSlots => i <= Len(kept)
      /\ \A i \in 1..Len(kept) : kept[i] = all[i]
  BY <1>1, <1>3, FilledRecords
<1>5. Len(kept) \in Nat /\ \A i \in 1..Len(kept) : i \in 1..Len(all)
  BY <1>3, <1>4, LenProperties
<1> HIDE DEF kept
<1>6. /\ DOMAIN load \subseteq TableNames
      /\ load \in [DOMAIN load -> PageIDs]
      /\ \A name \in DOMAIN load : \E i \in 1..Len(kept) : kept[i] = <<name, load[name]>>
      /\ \A i \in 1..Len(kept) :
            /\ kept[i][1] \in DOMAIN load
            /\ (\A j \in 1..Len(kept) : kept[j][1] = kept[i][1] => j = i)
                => load[kept[i][1]] = kept[i][2]
  BY <1>4, LoadedRecords
<1> HIDE DEF load
<1>7. ASSUME NEW u \in DOMAIN load PROVE \E t \in D : u = Truncated[t] /\ load[u] = tableIDs[t]
  <2>1. PICK i \in 1..Len(kept) : kept[i] = <<u, load[u]>>
    BY <1>6
  <2>2. PICK t \in D : all[i] = <<Truncated[t], tableIDs[t]>>
    BY <1>1, <1>5
  <2> QED
    BY <1>4, <2>1, <2>2
<1>8. ASSUME NEW t \in D, r(t) <= TableSlots, Truncated[t] = t,
             \A u \in D : Truncated[u] = t => u = t
      PROVE  t \in DOMAIN load /\ load[t] = tableIDs[t]
  <2>1. r(t) \in 1..Len(all) /\ all[r(t)] = <<t, tableIDs[t]>>
    BY <1>1, <1>8
  <2>2. r(t) \in 1..Len(kept) /\ kept[r(t)] = <<t, tableIDs[t]>>
    BY <1>4, <1>5, <1>8, <2>1
  <2>3. t \in DOMAIN load
    BY <1>6, <2>2
  <2>4. PICK i \in 1..Len(kept) : kept[i] = <<t, load[t]>>
    BY <1>6, <2>3
  <2>5. PICK u \in D : all[i] = <<Truncated[u], tableIDs[u]>>
    BY <1>1, <1>5
  <2>6. all[i] = <<t, load[t]>>
    BY <1>4, <2>4
  <2>7. Truncated[u] = t /\ tableIDs[u] = load[t]
    BY <2>5, <2>6
  <2>8. u = t
    BY <1>8, <2>7
  <2> QED
    BY <2>3, <2>7, <2>8
<1>9. ASSUME Len(all) <= TableSlots, \A t \in D : Truncated[t] = t PROVE load = tableIDs
  <2>1. \A t \in D : r(t) <= TableSlots
    BY <1>1, <1>3, <1>9
  <2>2. \A t \in D : t \in DOMAIN load /\ load[t] = tableIDs[t]
    BY <1>8, <1>9, <2>1
  <2>3. DOMAIN load \subseteq D
    BY <1>7, <1>9
  <2>4. DOMAIN load = D
    BY <2>2, <2>3
  <2> QED
    BY <1>6, <2>2, <2>4
<1> QED
  BY <1>6, <1>7, <1>8, <1>9 DEF load, kept, all, r, StoredTables

(* What IndexManager::Store writes and the next start reads. *)
Roots == [name \in DOMAIN indexIDs |-> GetIndex(name)]
StoredIndexes == Loaded(Filled(IndexRecords, IndexSlots))

LEMMA IndexesAreStored ==
    ASSUME IsFiniteSet(DOMAIN indexIDs), DOMAIN indexIDs \subseteq IndexNames,
           Roots \in [DOMAIN indexIDs -> PageIDs]
    PROVE  /\ IndexRecords \in Seq(StoredNames \X PageIDs)
           /\ StoredIndexes \in [DOMAIN StoredIndexes -> PageIDs]
           /\ \A u \in DOMAIN StoredIndexes :
                \E a \in DOMAIN indexIDs : u = TruncatedIndex[a] /\ StoredIndexes[u] = Roots[a]
           /\ \A a \in DOMAIN indexIDs :
                /\ PlaceOf(a, InOrder(DOMAIN indexIDs)) <= IndexSlots
                /\ \A b \in DOMAIN indexIDs : b = a <=> TruncatedIndex[b] = a
                => a \in DOMAIN StoredIndexes /\ StoredIndexes[a] = Roots[a]
           /\ /\ Len(IndexRecords) <= IndexSlots
              /\ \A a \in DOMAIN indexIDs : TruncatedIndex[a] = a
              => StoredIndexes = Roots
<1> DEFINE D == DOMAIN indexIDs
           byName == InOrder(D)
           all == IndexRecords
           kept == Filled(all, IndexSlots)
           load == Loaded(kept)
<1>1. D \in SUBSET (Nat \X Nat)
  BY NamesAssumption DEF IndexNames, Columns
<1>2. /\ byName \in Seq(D) /\ IsInjective(byName) /\ Range(byName) = D
      /\ Len(byName) = Cardinality(D)
  BY <1>1, InOrderLists DEF IsListOf
<1>3. all = [i \in 1..Cardinality(D) |-> <<TruncatedIndex[byName[i]], Roots[byName[i]]>>]
  <2>1. \A i \in 1..Cardinality(D) : byName[i] \in D
    BY <1>2, ElementOfSeq
  <2> QED
    BY <2>1 DEF IndexRecords, Roots
<1> HIDE DEF byName, all
<1>4. /\ Len(byName) \in Nat /\ DOMAIN byName = 1..Len(byName)
      /\ \A i \in 1..Len(byName) : byName[i] \in D
  BY <1>2, LenProperties, ElementOfSeq
<1>5. /\ all \in Seq(StoredNames \X PageIDs) /\ Len(all) = Len(byName)
      /\ \A i \in 1..Len(all) : all[i] = <<TruncatedIndex[byName[i]], Roots[byName[i]]>>
  <2>1. \A i \in 1..Len(byName) :
          <<TruncatedIndex[byName[i]], Roots[byName[i]]>> \in StoredNames \X PageIDs
    BY <1>4, IndexNamesAssumption
  <2> QED
    BY <1>2, <1>3, <1>4, <2>1
<1>6. IndexSlots \in Nat
  BY PagesAssumption
<1>7. /\ kept \in Seq(StoredNames \X PageIDs)
      /\ Len(kept) <= Len(all)
      /\ \A i \in 1..Len(all) : i <= IndexSlots => i <= Len(kept)
      /\ \A i \in 1..Len(kept) : kept[i] = all[i]
  BY <1>5, <1>6, FilledRecords
<1>8. Len(kept) \in Nat /\ \A i \in 1..Len(kept) : i \in 1..Len(byName)
  BY <1>4, <1>5, <1>7, LenProperties
<1> HIDE DEF kept
<1>9. /\ DOMAIN load \subseteq StoredNames
      /\ load \in [DOMAIN load -> PageIDs]
      /\ \A name \in DOMAIN load : \E i \in 1..Len(kept) : kept[i] = <<name, load[name]>>
      /\ \A i \in 1..Len(kept) :
            /\ kept[i][1] \in DOMAIN load
            /\ (\A j \in 1..Len(kept) : kept[j][1] = kept[i][1] => j = i)
                => load[kept[i][1]] = kept[i][2]
  BY <1>7, LoadedRecords
<1> HIDE DEF load
<1>10. ASSUME NEW u \in DOMAIN load
       PROVE  \E a \in D : u = TruncatedIndex[a] /\ load[u] = Roots[a]
  <2>1. PICK i \in 1..Len(kept) : kept[i] = <<u, load[u]>>
    BY <1>9
  <2>2. kept[i] = <<TruncatedIndex[byName[i]], Roots[byName[i]]>>
    BY <1>5, <1>7, <1>8
  <2> QED
    BY <1>4, <1>8, <2>1, <2>2
<1>11. ASSUME NEW i \in 1..Len(byName), i <= IndexSlots
       PROVE  TruncatedIndex[byName[i]] \in DOMAIN load
  <2>1. i \in 1..Len(kept) /\ kept[i] = <<TruncatedIndex[byName[i]], Roots[byName[i]]>>
    BY <1>5, <1>7, <1>8, <1>11
  <2> QED
    BY <1>9, <2>1
<1>12. ASSUME NEW a \in D
       PROVE  \E i \in 1..Len(byName) : byName[i] = a /\ PlaceOf(a, byName) = i
  <2>1. PICK i \in 1..Len(byName) : byName[i] = a
    BY <1>2, <1>4 DEF Range
  <2> QED
    BY <1>2, <1>4, <2>1, PlaceInSeq
<1>13. ASSUME NEW a \in D, PlaceOf(a, byName) <= IndexSlots,
              \A b \in D : b = a <=> TruncatedIndex[b] = a
       PROVE  a \in DOMAIN load /\ load[a] = Roots[a]
  <2>1. TruncatedIndex[a] = a
    BY <1>13
  <2>2. a \in DOMAIN load
    BY <1>11, <1>12, <1>13, <2>1
  <2>3. PICK b \in D : a = TruncatedIndex[b] /\ load[a] = Roots[b]
    BY <1>10, <2>2
  <2> QED
    BY <1>13, <2>2, <2>3
<1>14. ASSUME Len(all) <= IndexSlots, \A a \in D : TruncatedIndex[a] = a
       PROVE  load = Roots
  <2>1. \A a \in D : a \in DOMAIN load /\ load[a] = Roots[a]
    <3> TAKE a \in D
    <3>1. PlaceOf(a, byName) <= IndexSlots
      BY <1>4, <1>5, <1>6, <1>12, <1>14
    <3> QED
      BY <1>13, <1>14, <3>1
  <2>2. DOMAIN load \subseteq D
    BY <1>10, <1>14
  <2>3. DOMAIN load = D /\ DOMAIN Roots = D
    BY <2>1, <2>2 DEF Roots
  <2> QED
    BY <1>9, <2>1, <2>3 DEF Roots
<1> QED
  BY <1>5, <1>9, <1>10, <1>13, <1>14 DEF load, kept, all, byName, StoredIndexes
-----------------------------------------------------------------------------
(* The invariant *)

TablesHold(d, T) ==
    /\ IsInjective(T)
    /\ \A t \in DOMAIN T : T[t] \in DOMAIN d /\ d[T[t]] \in TablePage

PagesFit(d) ==
    \A p \in DOMAIN d :
        d[p] \in TablePage => Fits(LoadColumnsString(d[p].columns), d[p].declared)

ObjectRight(d, id, obj) ==
    /\ IsTable(obj) /\ obj.id = id
    /\ IsFiniteSet(DOMAIN obj.columns)
    /\ Fits(obj.columns, d[id].declared)

ObjectsRight(d, T, objects) ==
    DOMAIN objects \subseteq DOMAIN T /\ \A t \in DOMAIN objects : ObjectRight(d, T[t], objects[t])

(* IndexListsAgree, at all times. *)
ListsAgree(names, lists) ==
    /\ \A t \in TableNames, c \in Columns :
        <<t, c>> \in names <=> t \in DOMAIN lists /\ c \in Range(lists[t])
    /\ \A t \in DOMAIN lists : lists[t] # << >> /\ IsInjective(lists[t])

(* NothingIsLost, of what it says of the names. *)
AllOwned(d, T, I) ==
    /\ DOMAIN d = Range(T) \union Owned(d, I)
    /\ \A a \in DOMAIN I : a[1] \in DOMAIN T

AtRest ==
    /\ phase \in {"none", "closed"} =>
        /\ DOMAIN tableIDs = {} /\ DOMAIN tables = {}
        /\ DOMAIN indexIDs = {} /\ DOMAIN indexes = {} /\ DOMAIN tableIndexes = {}
    /\ phase = "none" => DOMAIN page = {} /\ tablePage = << >> /\ indexPage = << >>

(* The inductive invariant.  The pages of an index are a path that no link *)
(* enters; the record pages of TableFile are no part of it.                *)
CatalogInv ==
    /\ TypeOK /\ AtRest
    /\ TablesHold(page, KnownTables)
    /\ PathsHold(page, KnownIndexes)
    /\ PagesFit(page)
    /\ ObjectsRight(page, tableIDs, tables)
    /\ ListsAgree(DOMAIN indexIDs, tableIndexes)
    /\ phase # "dead" /\ lossless => AllOwned(page, KnownTables, KnownIndexes)

(* The kinds of pages can be told apart. *)
LEMMA PageKinds ==
    /\ \A r \in TablePage : "declared" \in DOMAIN r /\ r \notin Node
    /\ \A r \in Node : "declared" \notin DOMAIN r
  BY DEF TablePage, Node

LEMMA TypeOfTablePage ==
    ASSUME NEW r \in TablePage
    PROVE  /\ r.declared \in Seq(Columns) /\ IsInjective(r.declared)
           /\ r.columns \in Seq(Columns) /\ IsInjective(r.columns)
  BY DEF TablePage

(* Names are known by pages of their own, of which there are finitely      *)
(* many.                                                                   *)
LEMMA NamesAreFinite ==
    ASSUME NEW f, f \in [DOMAIN f -> PageIDs], IsInjective(f)
    PROVE  IsFiniteSet(DOMAIN f)
<1>1. f \in Injection(DOMAIN f, PageIDs)
  BY DEF Injection
<1> QED
  BY <1>1, PagesAssumption, FS_Injection

LEMMA KnownWhenRunning ==
    ASSUME TypeOK, phase # "closed"
    PROVE  /\ KnownTables = tableIDs /\ KnownIndexes = Roots
           /\ Roots \in [DOMAIN indexIDs -> PageIDs] /\ DOMAIN Roots = DOMAIN indexIDs
<1>1. \A a \in DOMAIN indexIDs : GetIndex(a) \in PageIDs
  BY DEF GetIndex, TypeOK
<1> QED
  BY <1>1 DEF KnownTables, KnownIndexes, Roots

LEMMA FiniteNames ==
    ASSUME CatalogInv, phase # "closed"
    PROVE  IsFiniteSet(DOMAIN tableIDs) /\ IsFiniteSet(DOMAIN indexIDs)
<1>1. TypeOK /\ IsInjective(tableIDs) /\ IsInjective(Roots)
  BY KnownWhenRunning DEF CatalogInv, TablesHold, PathsHold
<1>2. IsFiniteSet(DOMAIN tableIDs)
  BY <1>1, NamesAreFinite DEF TypeOK
<1>3. IsFiniteSet(DOMAIN Roots) /\ DOMAIN Roots = DOMAIN indexIDs
  <2>1. Roots \in [DOMAIN Roots -> PageIDs] /\ DOMAIN Roots = DOMAIN indexIDs
    BY <1>1, KnownWhenRunning
  <2> QED
    BY <1>1, <2>1, NamesAreFinite
<1> QED
  BY <1>2, <1>3

(* The object of a table is right, also when it has not been built yet.    *)
LEMMA GetTableIsRight ==
    ASSUME CatalogInv, NEW t, Exists(t)
    PROVE  ObjectRight(page, tableIDs[t], GetTable(t))
<1>1. CASE t \in DOMAIN tables
  BY <1>1 DEF CatalogInv, ObjectsRight, GetTable
<1>2. CASE t \notin DOMAIN tables
  <2> DEFINE id == tableIDs[t]
             names == page[id].columns
  <2>1. id \in DOMAIN page /\ page[id] \in TablePage /\ id \in PageIDs
    <3>1. phase # "closed"
      BY DEF CatalogInv, AtRest, Exists
    <3> QED
      BY <3>1, KnownWhenRunning DEF CatalogInv, TablesHold, Exists, TypeOK
  <2>2. names \in Seq(Columns) /\ IsInjective(names)
    BY <2>1, TypeOfTablePage
  <2>3. /\ DOMAIN LoadColumnsString(names) = Range(names)
        /\ LoadColumnsString(names) \in [Range(names) -> Nat]
        /\ IsFiniteSet(Range(names)) /\ Range(names) \subseteq Columns
    BY <2>2, LoadedPositions
  <2>4. Fits(LoadColumnsString(names), page[id].declared)
    BY <2>1 DEF CatalogInv, PagesFit
  <2>5. GetTable(t) = [id |-> id, columns |-> LoadColumnsString(names), modified |-> FALSE]
    BY <1>2 DEF GetTable
  <2> HIDE DEF names
  <2>6. IsTable(GetTable(t))
    BY <2>1, <2>3, <2>5 DEF IsTable
  <2>7. GetTable(t).id = id /\ GetTable(t).columns = LoadColumnsString(names)
    BY <2>5
  <2> QED
    BY <2>3, <2>4, <2>6, <2>7 DEF ObjectRight, id
<1> QED
  BY <1>1, <1>2

(* The positions that a look-up invents are those of no declared column.   *)
LEMMA GetPosIsRight ==
    ASSUME NEW d, NEW id, NEW obj, ObjectRight(d, id, obj),
           NEW cols \in SUBSET Columns, IsFiniteSet(cols)
    PROVE  ObjectRight(d, id, GetPos(obj, cols))
<1> DEFINE columns == [c \in DOMAIN obj.columns \union cols |->
                          IF c \in DOMAIN obj.columns THEN obj.columns[c] ELSE 0]
           new == GetPos(obj, cols)
           declared == d[id].declared
<1>1. IsTable(obj) /\ Fits(obj.columns, declared) /\ obj.id = id
  BY DEF ObjectRight
<1>2. /\ DOMAIN new = {"id", "columns", "modified"}
      /\ new.id = obj.id /\ new.modified = obj.modified /\ new.columns = columns
  BY <1>1 DEF GetPos, IsTable
<1>3. columns \in [DOMAIN columns -> Nat] /\ DOMAIN columns \subseteq Columns
  BY <1>1 DEF IsTable
<1>4. IsFiniteSet(DOMAIN columns)
  <2>1. IsFiniteSet(DOMAIN obj.columns \union cols)
    BY FS_Union DEF ObjectRight
  <2> QED
    BY <2>1
<1>5. Fits(columns, declared)
  <2>1. Range(declared) \subseteq DOMAIN obj.columns
    BY <1>1 DEF Fits
  <2>2. \A i \in DOMAIN declared : columns[declared[i]] = obj.columns[declared[i]]
    BY <2>1 DEF Range
  <2>3. DOMAIN columns = Range(declared) => DOMAIN obj.columns = Range(declared)
    BY <2>1
  <2>4. Range(declared) \subseteq DOMAIN columns
    BY <2>1
  <2> HIDE DEF columns, declared
  <2> QED
    BY <1>1, <2>2, <2>3, <2>4 DEF Fits
<1>6. IsTable(new)
  <2> HIDE DEF new, columns
  <2> QED
    BY <1>1, <1>2, <1>3 DEF IsTable
<1> HIDE DEF new, columns
<1> QED
  BY <1>1, <1>2, <1>4, <1>5, <1>6 DEF ObjectRight, new, declared

LEMMA SetTailIDIsRight ==
    ASSUME NEW d, NEW id, NEW obj, ObjectRight(d, id, obj)
    PROVE  ObjectRight(d, id, [obj EXCEPT !.modified = TRUE])
<1> DEFINE new == [obj EXCEPT !.modified = TRUE]
<1>1. /\ DOMAIN new = {"id", "columns", "modified"}
      /\ new.id = obj.id /\ new.modified = TRUE /\ new.columns = obj.columns
  BY DEF ObjectRight, IsTable
<1> HIDE DEF new
<1>2. ObjectRight(d, id, new)
  BY <1>1 DEF ObjectRight, IsTable
<1> QED
  BY <1>2 DEF new

-----------------------------------------------------------------------------
(* The steps *)

LEMMA InitInv == Init => CatalogInv
<1> SUFFICES ASSUME Init PROVE CatalogInv
  OBVIOUS
<1>1. /\ phase = "none" /\ lossless = TRUE
      /\ page = << >> /\ tablePage = << >> /\ indexPage = << >>
      /\ tableIDs = << >> /\ tables = << >> /\ indexIDs = << >> /\ indexes = << >>
      /\ tableIndexes = << >>
  BY DEF Init
<1>2. DOMAIN << >> = {} /\ \A S : << >> \in Seq(S) /\ << >> \in [{} -> S]
  OBVIOUS
<1>3. TypeOK
  BY <1>1, <1>2, PagesAssumption DEF TypeOK
<1>4. KnownTables = << >> /\ DOMAIN KnownIndexes = {}
  BY <1>1, <1>2 DEF KnownTables, KnownIndexes
<1>5. TablesHold(page, KnownTables)
  BY <1>2, <1>4 DEF TablesHold, IsInjective
<1>6. \A p : ~IsNode(page, p)
  BY <1>1, <1>2 DEF IsNode
<1>7. PathsHold(page, KnownIndexes)
  BY <1>1, <1>2, <1>4, <1>6 DEF PathsHold, NodesLink, IsInjective
<1>8. PagesFit(page) /\ ObjectsRight(page, tableIDs, tables) /\ ListsAgree(DOMAIN indexIDs, tableIndexes)
  BY <1>1, <1>2 DEF PagesFit, ObjectsRight, ListsAgree
<1>9. AllOwned(page, KnownTables, KnownIndexes)
  <2>1. DOMAIN page = {} /\ Range(KnownTables) = {} /\ Owned(page, KnownIndexes) = {}
    BY <1>1, <1>2, <1>4 DEF Range, Owned
  <2> QED
    BY <1>4, <2>1 DEF AllOwned
<1>10. AtRest
  BY <1>1, <1>2 DEF AtRest
<1> QED
  BY <1>3, <1>5, <1>7, <1>8, <1>9, <1>10 DEF CatalogInv

(* Nothing is read from an empty catalog page. *)
LEMMA NothingIsLoaded == DOMAIN Loaded(<< >>) = {}
<1>1. Range(<< >>) = {}
  BY DEF Range
<1> QED
  BY <1>1 DEF Loaded

(* Files without a table and without an index. *)
LEMMA EmptyFiles ==
    ASSUME NEW d, DOMAIN d = {}, NEW T, DOMAIN T = {}, NEW I, DOMAIN I = {}
    PROVE  /\ TablesHold(d, T) /\ PathsHold(d, I) /\ PagesFit(d) /\ AllOwned(d, T, I)
           /\ \A objects : DOMAIN objects = {} => ObjectsRight(d, T, objects)
           /\ \A lists : DOMAIN lists = {} => ListsAgree({}, lists)
<1>1. Range(T) = {} /\ Owned(d, I) = {} /\ \A p : ~IsNode(d, p)
  BY DEF Range, Owned, IsNode
<1>2. TablesHold(d, T) /\ PathsHold(d, I)
  BY <1>1 DEF TablesHold, PathsHold, NodesLink, IsInjective
<1>3. PagesFit(d) /\ AllOwned(d, T, I)
  BY <1>1 DEF PagesFit, AllOwned
<1> QED
  BY <1>2, <1>3 DEF ObjectsRight, ListsAgree

LEMMA InitFilesInv == ASSUME CatalogInv, InitFiles PROVE CatalogInv'
<1>1. /\ phase = "none" /\ phase' = "closed"
      /\ UNCHANGED <<page, tablePage, indexPage, lossless>>
      /\ UNCHANGED <<tableIDs, tables, indexIDs, indexes, tableIndexes>>
  BY DEF InitFiles, stored
<1>2. /\ DOMAIN tableIDs = {} /\ DOMAIN tables = {}
      /\ DOMAIN indexIDs = {} /\ DOMAIN indexes = {} /\ DOMAIN tableIndexes = {}
      /\ DOMAIN page = {} /\ tablePage = << >> /\ indexPage = << >>
  BY <1>1 DEF CatalogInv, AtRest
<1>3. TypeOK' /\ AtRest'
  BY <1>1, <1>2 DEF CatalogInv, TypeOK, AtRest
<1>4. DOMAIN KnownTables' = {} /\ DOMAIN KnownIndexes' = {}
  BY <1>1, <1>2, NothingIsLoaded DEF KnownTables, KnownIndexes
<1>5. DOMAIN page' = {} /\ DOMAIN tables' = {} /\ DOMAIN indexIDs' = {} /\ DOMAIN tableIndexes' = {}
      /\ DOMAIN tableIDs' = {}
  BY <1>1, <1>2
<1> QED
  BY <1>3, <1>4, <1>5, EmptyFiles DEF CatalogInv

LEMMA ClearFilesInv == ASSUME CatalogInv, ClearFiles PROVE CatalogInv'
<1>1. /\ phase = "closed" /\ phase' = "none" /\ page' = << >>
      /\ tablePage' = << >> /\ indexPage' = << >> /\ lossless' = TRUE
      /\ UNCHANGED <<tableIDs, tables, indexIDs, indexes, tableIndexes>>
  BY DEF ClearFiles
<1>2. /\ DOMAIN tableIDs = {} /\ DOMAIN tables = {}
      /\ DOMAIN indexIDs = {} /\ DOMAIN indexes = {} /\ DOMAIN tableIndexes = {}
  BY <1>1 DEF CatalogInv, AtRest
<1>3. DOMAIN << >> = {} /\ \A S : << >> \in Seq(S)
  OBVIOUS
<1>4. TypeOK' /\ AtRest'
  BY <1>1, <1>2, <1>3, PagesAssumption DEF CatalogInv, TypeOK, AtRest
<1>5. DOMAIN page' = {} /\ DOMAIN tables' = {} /\ DOMAIN indexIDs' = {} /\ DOMAIN tableIndexes' = {}
      /\ DOMAIN tableIDs' = {}
  BY <1>1, <1>2, <1>3
<1>6. DOMAIN KnownTables' = {} /\ DOMAIN KnownIndexes' = {}
  BY <1>1, <1>5 DEF KnownTables, KnownIndexes
<1> QED
  BY <1>4, <1>5, <1>6, EmptyFiles DEF CatalogInv

(* The lists that IndexManager::Init builds are those of the id map. *)
LEMMA ListsAreBuilt ==
    ASSUME NEW ids, IsFiniteSet(DOMAIN ids), DOMAIN ids \subseteq IndexNames
    PROVE  /\ ListsAgree(DOMAIN ids, IndexesByTable(ids))
           /\ DOMAIN IndexesByTable(ids) \subseteq TableNames
           /\ IndexesByTable(ids) \in [DOMAIN IndexesByTable(ids) -> Seq(Columns)]
<1> DEFINE named == {name[1] : name \in DOMAIN ids}
           of(t) == {n \in DOMAIN ids : n[1] = t}
           cols(t) == {name[2] : name \in of(t)}
           lists == IndexesByTable(ids)
<1>1. \A n \in DOMAIN ids : n = <<n[1], n[2]>> /\ n[1] \in TableNames /\ n[2] \in Columns
  BY DEF IndexNames
<1>2. lists = [t \in named |-> Ascending(cols(t))]
  BY DEF IndexesByTable
<1>3. \A t : cols(t) \subseteq Columns
  BY <1>1
<1>4. ASSUME NEW t PROVE IsFiniteSet(cols(t))
  <2>1. IsFiniteSet(of(t))
    <3>1. of(t) \in SUBSET DOMAIN ids
      OBVIOUS
    <3> QED
      BY <3>1, FS_Subset
  <2> DEFINE f == [name \in of(t) |-> name[2]]
  <2>2. f \in Surjection(of(t), cols(t))
    BY DEF Surjection
  <2> HIDE DEF f, of, cols
  <2> QED
    BY <2>1, <2>2, FS_Surjection
<1>5. ASSUME NEW t
      PROVE  /\ Ascending(cols(t)) \in Seq(cols(t)) /\ IsInjective(Ascending(cols(t)))
             /\ Range(Ascending(cols(t))) = cols(t)
  <2>1. Columns \subseteq Nat
    BY NamesAssumption DEF Columns
  <2> HIDE DEF cols
  <2>2. cols(t) \in SUBSET Nat
    BY <1>3, <2>1
  <2> QED
    BY <1>4, <2>2, AscendingLists DEF IsListOf
<1>6. ASSUME NEW t \in TableNames, NEW c \in Columns
      PROVE  <<t, c>> \in DOMAIN ids <=> t \in named /\ c \in cols(t)
  <2>1. ASSUME <<t, c>> \in DOMAIN ids PROVE t \in named /\ c \in cols(t)
    <3>1. <<t, c>>[1] = t /\ <<t, c>>[2] = c
      OBVIOUS
    <3>2. <<t, c>> \in of(t)
      BY <2>1, <3>1
    <3> QED
      BY <2>1, <3>1, <3>2
  <2>2. ASSUME c \in cols(t) PROVE <<t, c>> \in DOMAIN ids
    <3>1. PICK n \in DOMAIN ids : n[1] = t /\ n[2] = c
      BY <2>2
    <3> QED
      BY <1>1, <3>1
  <2> QED
    BY <2>1, <2>2
<1>7. \A t \in named : cols(t) # {} /\ t \in TableNames
  <2> SUFFICES ASSUME NEW t \in named PROVE cols(t) # {} /\ t \in TableNames
    OBVIOUS
  <2>1. PICK n \in DOMAIN ids : n[1] = t
    OBVIOUS
  <2>2. n[2] \in cols(t)
    BY <2>1
  <2> QED
    BY <1>1, <2>1, <2>2
<1> HIDE DEF lists, named, cols, of
<1>8. \A t \in named : lists[t] # << >>
  <2> SUFFICES ASSUME NEW t \in named, lists[t] = << >> PROVE FALSE
    OBVIOUS
  <2>1. Range(<< >>) = {}
    BY DEF Range
  <2> QED
    BY <1>2, <1>5, <1>7, <2>1
<1>9. ListsAgree(DOMAIN ids, lists)
  BY <1>2, <1>5, <1>6, <1>8 DEF ListsAgree
<1>10. \A t \in named : lists[t] \in Seq(Columns)
  BY <1>2, <1>3, <1>5, SeqMonotonic
<1> QED
  BY <1>2, <1>7, <1>9, <1>10 DEF lists

(* A start whose index names all have their space. *)
LEMMA OpenedInv ==
    ASSUME CatalogInv, Open, phase' = "open"
    PROVE  CatalogInv' /\ KnownTables' = KnownTables /\ KnownIndexes' = KnownIndexes
<1>1. /\ phase = "closed" /\ phase' = "open"
      /\ UNCHANGED <<page, tablePage, indexPage, lossless, tables, indexes>>
      /\ tableIDs' = Loaded(tablePage) /\ indexIDs' = Loaded(indexPage)
      /\ tableIndexes' = IndexesByTable(indexIDs')
      /\ \A name \in DOMAIN indexIDs' : name[2] # NoColumn
  BY DEF Open, stored, HasSpace
<1>2. DOMAIN tables = {} /\ DOMAIN indexes = {}
  BY <1>1 DEF CatalogInv, AtRest
<1>3. /\ DOMAIN tableIDs' \subseteq TableNames /\ tableIDs' \in [DOMAIN tableIDs' -> PageIDs]
      /\ DOMAIN indexIDs' \subseteq IndexNames /\ indexIDs' \in [DOMAIN indexIDs' -> PageIDs]
  <2>1. /\ DOMAIN tableIDs' \subseteq TableNames /\ tableIDs' \in [DOMAIN tableIDs' -> PageIDs]
        /\ DOMAIN indexIDs' \subseteq StoredNames /\ indexIDs' \in [DOMAIN indexIDs' -> PageIDs]
    BY <1>1, LoadedRecords DEF CatalogInv, TypeOK
  <2> QED
    BY <1>1, <2>1 DEF StoredNames, IndexNames
<1>4. KnownTables' = KnownTables /\ KnownTables = tableIDs'
  BY <1>1 DEF KnownTables
<1>5. KnownIndexes' = KnownIndexes /\ KnownIndexes = indexIDs'
  <2>1. KnownIndexes' = [name \in DOMAIN indexIDs' |-> indexIDs'[name]]
    BY <1>1, <1>2 DEF KnownIndexes, GetIndex
  <2>2. KnownIndexes = indexIDs'
    BY <1>1 DEF KnownIndexes
  <2> QED
    BY <1>3, <2>1, <2>2
<1>6. IsFiniteSet(DOMAIN indexIDs')
  <2>1. IsInjective(indexIDs')
    BY <1>5 DEF CatalogInv, PathsHold
  <2> QED
    BY <1>3, <2>1, NamesAreFinite
<1>7. /\ ListsAgree(DOMAIN indexIDs', tableIndexes')
      /\ DOMAIN tableIndexes' \subseteq TableNames
      /\ tableIndexes' \in [DOMAIN tableIndexes' -> Seq(Columns)]
  BY <1>1, <1>3, <1>6, ListsAreBuilt
<1>8. TypeOK' /\ AtRest'
  BY <1>1, <1>2, <1>3, <1>7 DEF CatalogInv, TypeOK, AtRest
<1>9. ObjectsRight(page', tableIDs', tables')
  BY <1>1, <1>2 DEF ObjectsRight
<1> QED
  BY <1>1, <1>4, <1>5, <1>7, <1>8, <1>9 DEF CatalogInv

(* A start that dies of an index name leaves the files as they are. *)
LEMMA OpenFailsInv == ASSUME CatalogInv, Open, phase' = "dead" PROVE CatalogInv'
<1>1. /\ phase = "closed" /\ phase' = "dead"
      /\ UNCHANGED <<page, tablePage, indexPage, lossless, tables, indexes>>
      /\ UNCHANGED <<tableIDs, indexIDs, tableIndexes>>
  BY DEF Open, stored
<1>2. /\ DOMAIN tableIDs = {} /\ DOMAIN tables = {}
      /\ DOMAIN indexIDs = {} /\ DOMAIN indexes = {} /\ DOMAIN tableIndexes = {}
  BY <1>1 DEF CatalogInv, AtRest
<1>3. TypeOK' /\ AtRest'
  BY <1>1 DEF CatalogInv, TypeOK, AtRest
<1>4. DOMAIN KnownTables' = {} /\ DOMAIN KnownIndexes' = {}
  BY <1>1, <1>2 DEF KnownTables, KnownIndexes
<1>5. TablesHold(page', KnownTables') /\ PathsHold(page', KnownIndexes')
  BY <1>1, <1>4 DEF CatalogInv, TablesHold, PathsHold, IsInjective
<1> QED
  BY <1>1, <1>3, <1>5 DEF CatalogInv

LEMMA OpenInv == ASSUME CatalogInv, Open PROVE CatalogInv'
<1>1. phase' \in {"open", "dead"}
  BY DEF Open
<1> QED
  BY <1>1, OpenedInv, OpenFailsInv

(* Whatever only builds or changes Table objects. *)
LEMMA ObjectsChange ==
    ASSUME CatalogInv, Running,
           phase' = phase \/ phase' = "dead",
           UNCHANGED <<page, stored, tableIDs, indexIDs, indexes, tableIndexes>>,
           ObjectsRight(page, tableIDs, tables')
    PROVE  CatalogInv'
<1>1. /\ page' = page /\ tablePage' = tablePage /\ indexPage' = indexPage
      /\ lossless' = lossless /\ tableIDs' = tableIDs /\ indexIDs' = indexIDs
      /\ indexes' = indexes /\ tableIndexes' = tableIndexes
  BY DEF stored
<1>2. KnownTables' = KnownTables /\ KnownIndexes' = KnownIndexes
  BY <1>1 DEF KnownTables, KnownIndexes, GetIndex, Running
<1>3. TypeOK' /\ AtRest'
  BY <1>1 DEF CatalogInv, TypeOK, AtRest, Running, ObjectsRight, ObjectRight
<1> QED
  BY <1>1, <1>2, <1>3 DEF CatalogInv

LEMMA ObjectIsSet ==
    ASSUME CatalogInv, NEW t, Exists(t), NEW obj, ObjectRight(page, tableIDs[t], obj)
    PROVE  ObjectsRight(page, tableIDs, Set(tables, t, obj))
  BY DEF CatalogInv, ObjectsRight, Set, Exists

LEMMA LookUpInv ==
    ASSUME CatalogInv, NEW t \in TableNames, NEW c \in ColumnNames, LookUp(t, c)
    PROVE  CatalogInv'
<1>1. Running /\ Exists(t) /\ tables' = Set(tables, t, GetPos(GetTable(t), {c}))
  BY DEF LookUp
<1>2. {c} \in SUBSET Columns /\ IsFiniteSet({c})
  BY FS_Singleton DEF Columns
<1>3. ObjectRight(page, tableIDs[t], GetPos(GetTable(t), {c}))
  BY <1>1, <1>2, GetTableIsRight, GetPosIsRight
<1> QED
  BY <1>1, <1>3, ObjectIsSet, ObjectsChange DEF LookUp

LEMMA SetTailIDInv ==
    ASSUME CatalogInv, NEW t \in TableNames, SetTailID(t)
    PROVE  CatalogInv'
<1>1. Running /\ Exists(t) /\ tables' = Set(tables, t, [GetTable(t) EXCEPT !.modified = TRUE])
  BY DEF SetTailID
<1>2. ObjectRight(page, tableIDs[t], [GetTable(t) EXCEPT !.modified = TRUE])
  BY <1>1, GetTableIsRight, SetTailIDIsRight
<1> QED
  BY <1>1, <1>2, ObjectIsSet, ObjectsChange DEF SetTailID

LEMMA ShowIndexesInv == ASSUME CatalogInv, ShowIndexes PROVE CatalogInv'
<1> DEFINE shown == {a \in DOMAIN indexIDs :
                        \A b \in DOMAIN indexIDs : b = a \/ Before(b, a) => Exists(b[1])}
           of(t) == {b \in shown : b[1] = t}
           cols(t) == {a[2] : a \in of(t)}
           named == {a[1] : a \in shown}
<1>1. /\ Running
      /\ tables' = [t \in DOMAIN tables \union named |-> GetPos(GetTable(t), cols(t))]
  BY DEF ShowIndexes
<1>2. DOMAIN tables \subseteq DOMAIN tableIDs /\ \A a \in shown : a[1] \in DOMAIN tableIDs
  BY DEF CatalogInv, TypeOK, Exists
<1>3. ASSUME NEW t PROVE cols(t) \in SUBSET Columns /\ IsFiniteSet(cols(t))
  <2>1. cols(t) \in SUBSET Columns
    BY DEF CatalogInv, TypeOK, IndexNames
  <2>2. IsFiniteSet(of(t))
    <3>1. of(t) \in SUBSET DOMAIN indexIDs
      OBVIOUS
    <3>2. IsFiniteSet(DOMAIN indexIDs)
      BY <1>1, FiniteNames DEF Running
    <3> HIDE DEF of
    <3> QED
      BY <3>1, <3>2, FS_Subset
  <2> DEFINE f == [a \in of(t) |-> a[2]]
  <2>3. f \in Surjection(of(t), cols(t))
    BY DEF Surjection
  <2> HIDE DEF f, of
  <2> QED
    BY <2>1, <2>2, <2>3, FS_Surjection
<1> HIDE DEF cols, of
<1>4. ASSUME NEW t \in DOMAIN tables' PROVE ObjectRight(page, tableIDs[t], tables'[t])
  <2>1. Exists(t)
    BY <1>1, <1>2 DEF Exists
  <2>2. tables'[t] = GetPos(GetTable(t), cols(t))
    BY <1>1
  <2> QED
    BY <1>1, <1>3, <2>1, <2>2, GetTableIsRight, GetPosIsRight
<1>5. DOMAIN tables' \subseteq DOMAIN tableIDs
  BY <1>1, <1>2
<1> QED
  BY <1>1, <1>4, <1>5, ObjectsChange DEF ShowIndexes, ObjectsRight

LEMMA NewPageIsUnused ==
    ASSUME TypeOK, HasPage
    PROVE  NewPage \in PageIDs \ DOMAIN page
<1> DEFINE free == PageIDs \ DOMAIN page
<1>1. free \in SUBSET Nat /\ free # {}
  BY PagesAssumption DEF HasPage, TypeOK
<1> HIDE DEF free
<1>2. Min(free) \in free
  BY <1>1, LeastChosen DEF Min
<1> QED
  BY <1>2 DEF NewPage, free

(* Objects stay right as long as their pages keep what they declare. *)
LEMMA ObjectsStayRight ==
    ASSUME NEW d, NEW e, NEW T, NEW U, NEW objects, ObjectsRight(d, T, objects),
           \A t \in DOMAIN objects : t \in DOMAIN U /\ U[t] = T[t] /\ e[T[t]].declared = d[T[t]].declared
    PROVE  ObjectsRight(e, U, objects)
  BY DEF ObjectsRight, ObjectRight

LEMMA SchemaIsList ==
    ASSUME NEW schema \in Schemas, NEW useTxn \in BOOLEAN,
           NEW cols, cols = IF useTxn THEN Append(schema, TxnColumn) ELSE schema
    PROVE  cols \in Seq(Columns) /\ IsInjective(cols)
<1>1. /\ schema \in Seq(ColumnNames) /\ IsInjective(schema) /\ TxnColumn \notin ColumnNames
      /\ ColumnNames \subseteq Columns /\ TxnColumn \in Columns
  BY NamesAssumption DEF Columns
<1>2. schema \in Seq(Columns) /\ \A i \in DOMAIN schema : schema[i] \in ColumnNames
  BY <1>1, SeqMonotonic, LenProperties, ElementOfSeq
<1>3. CASE useTxn
  <2>1. cols = Append(schema, TxnColumn)
    BY <1>3
  <2>2. /\ cols \in Seq(Columns) /\ Len(cols) = Len(schema) + 1
        /\ \A i \in 1..Len(schema) : cols[i] = schema[i]
        /\ cols[Len(schema) + 1] = TxnColumn
    BY <1>1, <1>2, <2>1, AppendProperties
  <2>3. /\ Len(schema) \in Nat /\ DOMAIN schema = 1..Len(schema)
        /\ DOMAIN cols = 1..Len(schema)+1
    BY <1>2, <2>2, LenProperties
  <2>4. ASSUME NEW i \in DOMAIN cols, NEW j \in DOMAIN cols, cols[i] = cols[j] PROVE i = j
    <3>1. CASE i \in 1..Len(schema) /\ j \in 1..Len(schema)
      BY <1>1, <2>2, <2>3, <2>4, <3>1 DEF IsInjective
    <3>2. CASE i \notin 1..Len(schema) \/ j \notin 1..Len(schema)
      <4>1. i \in 1..Len(schema) \/ i = Len(schema) + 1
        BY <2>3
      <4>2. j \in 1..Len(schema) \/ j = Len(schema) + 1
        BY <2>3
      <4> QED
        BY <1>1, <1>2, <2>2, <2>3, <2>4, <3>2, <4>1, <4>2
    <3> QED
      BY <3>1, <3>2
  <2> QED
    BY <2>2, <2>4 DEF IsInjective
<1>4. CASE ~useTxn
  BY <1>1, <1>2, <1>4
<1> QED
  BY <1>3, <1>4

LEMMA CreateTableInv ==
    ASSUME CatalogInv, NEW t \in TableNames, NEW schema \in Schemas, NEW useTxn \in BOOLEAN,
           CreateTable(t, schema, useTxn)
    PROVE  CatalogInv'
<1> DEFINE cols == IF useTxn THEN Append(schema, TxnColumn) ELSE schema
           p == NewPage
           new == [id |-> p, columns |-> LoadColumnsString(cols), modified |-> FALSE]
           content == [declared |-> cols, columns |-> cols]
<1>0. /\ Running
      /\ UNCHANGED <<phase, stored, indexIDs, indexes, tableIndexes>>
      /\ \/ /\ ~Exists(t) /\ HasPage
            /\ page' = Set(page, p, content)
            /\ tables' = Set(tables, t, new)
            /\ tableIDs' = Set(tableIDs, t, p)
         \/ /\ Exists(t)
            /\ tables' = Set(tables, t, GetTable(t))
            /\ UNCHANGED <<page, tableIDs>>
  BY DEF CreateTable
<1>1. CASE Exists(t)
  <2>1. tables' = Set(tables, t, GetTable(t)) /\ UNCHANGED <<page, tableIDs>>
    BY <1>0, <1>1
  <2>2. ObjectsRight(page, tableIDs, tables')
    BY <1>0, <1>1, <2>1, GetTableIsRight, ObjectIsSet
  <2> QED
    BY <1>0, <2>1, <2>2, ObjectsChange
<1>2. CASE ~Exists(t)
  <2>1. cols \in Seq(Columns) /\ IsInjective(cols)
    BY SchemaIsList
  <2>2. p \in PageIDs \ DOMAIN page
    BY <1>0, <1>2, NewPageIsUnused DEF CatalogInv
  <2> HIDE DEF cols, p
  <2>3. content \in TablePage /\ content \notin Node /\ content.declared = cols /\ content.columns = cols
    BY <2>1, PageKinds DEF TablePage
  <2>4. Fits(LoadColumnsString(cols), cols)
    BY <2>1, NewColumnsFit
  <2>5. ObjectRight(page', p, new) /\ IsTable(new)
    <3>1. page'[p] = content
      BY <1>0, <1>2 DEF Set
    <3>2. /\ DOMAIN LoadColumnsString(cols) = Range(cols)
          /\ LoadColumnsString(cols) \in [Range(cols) -> Nat]
          /\ IsFiniteSet(Range(cols)) /\ Range(cols) \subseteq Columns
      BY <2>1, LoadedPositions
    <3>3. IsTable(new)
      BY <2>2, <3>2 DEF IsTable
    <3>4. new.id = p /\ new.columns = LoadColumnsString(cols)
      OBVIOUS
    <3> HIDE DEF new, content
    <3> QED
      BY <2>3, <2>4, <3>1, <3>2, <3>3, <3>4 DEF ObjectRight
  <2> HIDE DEF content, new
  <2>6. /\ page' = Set(page, p, content) /\ tables' = Set(tables, t, new)
        /\ tableIDs' = Set(tableIDs, t, p)
        /\ phase' = phase /\ tablePage' = tablePage /\ indexPage' = indexPage /\ lossless' = lossless
        /\ indexIDs' = indexIDs /\ indexes' = indexes /\ tableIndexes' = tableIndexes
    BY <1>0, <1>2 DEF stored
  <2>7. /\ DOMAIN page' = DOMAIN page \union {p} /\ page'[p] = content
        /\ \A q \in DOMAIN page : page'[q] = page[q]
    BY <2>2, <2>6 DEF Set
  <2>8. /\ DOMAIN tableIDs' = DOMAIN tableIDs \union {t} /\ tableIDs'[t] = p
        /\ \A u \in DOMAIN tableIDs : u # t /\ tableIDs'[u] = tableIDs[u]
    BY <1>2, <2>6 DEF Set, Exists
  <2>9. /\ DOMAIN tables' = DOMAIN tables \union {t} /\ tables'[t] = new
        /\ \A u \in DOMAIN tables : u # t => tables'[u] = tables[u]
    BY <2>6 DEF Set
  <2>10. /\ KnownTables = tableIDs /\ KnownTables' = tableIDs' /\ KnownIndexes' = KnownIndexes
    BY <1>0, <2>6 DEF KnownTables, KnownIndexes, Running, GetIndex
  <2>11. /\ TypeOK /\ TablesHold(page, tableIDs) /\ PathsHold(page, KnownIndexes) /\ PagesFit(page)
         /\ ObjectsRight(page, tableIDs, tables)
         /\ phase # "dead" /\ lossless => AllOwned(page, tableIDs, KnownIndexes)
    BY <2>10 DEF CatalogInv
  <2>12. TablesHold(page', tableIDs')
    <3>1. \A u \in DOMAIN tableIDs' : tableIDs'[u] \in DOMAIN page' /\ page'[tableIDs'[u]] \in TablePage
      BY <2>3, <2>7, <2>8, <2>11 DEF TablesHold
    <3>2. IsInjective(tableIDs')
      BY <2>2, <2>8, <2>11 DEF TablesHold, IsInjective
    <3> QED
      BY <3>1, <3>2 DEF TablesHold
  <2>13. PathsHold(page', KnownIndexes) /\ Owned(page', KnownIndexes) = Owned(page, KnownIndexes)
    <3>1. DOMAIN page' \subseteq PageIDs
      BY <2>2, <2>7, <2>11 DEF TypeOK
    <3>2. SameNodes(page, page')
      BY <2>2, <2>3, <2>7 DEF SameNodes, IsNode
    <3> QED
      BY <2>11, <3>1, <3>2, SamePaths
  <2>14. PagesFit(page')
    BY <2>3, <2>4, <2>7, <2>11 DEF PagesFit
  <2>15. ObjectsRight(page', tableIDs', tables')
    <3>1. ASSUME NEW u \in DOMAIN tables' PROVE ObjectRight(page', tableIDs'[u], tables'[u])
      <4>1. CASE u = t
        BY <2>5, <2>8, <2>9, <4>1
      <4>2. CASE u # t
        <5>1. u \in DOMAIN tables /\ u \in DOMAIN tableIDs /\ ObjectRight(page, tableIDs[u], tables[u])
          BY <2>9, <2>11, <4>2 DEF ObjectsRight
        <5>2. page'[tableIDs[u]] = page[tableIDs[u]]
          BY <2>7, <2>11, <5>1 DEF TablesHold
        <5> QED
          BY <2>8, <2>9, <4>2, <5>1, <5>2 DEF ObjectRight
      <4> QED
        BY <4>1, <4>2
    <3>2. DOMAIN tables' \subseteq DOMAIN tableIDs'
      BY <2>8, <2>9, <2>11 DEF ObjectsRight
    <3> QED
      BY <3>1, <3>2 DEF ObjectsRight
  <2>16. ListsAgree(DOMAIN indexIDs', tableIndexes')
    BY <2>6 DEF CatalogInv
  <2>17. ASSUME phase # "dead", lossless PROVE AllOwned(page', tableIDs', KnownIndexes)
    <3>1. AllOwned(page, tableIDs, KnownIndexes)
      BY <2>11, <2>17
    <3>2. Range(tableIDs') = Range(tableIDs) \union {p}
      BY <2>8 DEF Range
    <3> QED
      BY <2>7, <2>8, <2>13, <3>1, <3>2 DEF AllOwned
  <2>18. TypeOK'
    <3>1. \A q \in DOMAIN page' : page'[q] \in Node \/ page'[q] \in TablePage
      BY <2>3, <2>7, <2>11 DEF TypeOK
    <3>2. tableIDs' \in [DOMAIN tableIDs' -> PageIDs] /\ DOMAIN tableIDs' \subseteq TableNames
      <4>1. tableIDs' = [u \in DOMAIN tableIDs \union {t} |-> IF u = t THEN p ELSE tableIDs[u]]
        BY <2>6 DEF Set
      <4> QED
        BY <2>2, <2>11, <4>1 DEF TypeOK
    <3>3. \A u \in DOMAIN tables' : IsTable(tables'[u])
      BY <2>15 DEF ObjectsRight, ObjectRight
    <3>4. DOMAIN page' \subseteq PageIDs
      BY <2>2, <2>7, <2>11 DEF TypeOK
    <3>5. DOMAIN tables' \subseteq DOMAIN tableIDs'
      BY <2>15 DEF ObjectsRight
    <3> QED
      BY <2>6, <2>11, <3>1, <3>2, <3>3, <3>4, <3>5 DEF TypeOK
  <2>19. AtRest'
    BY <1>0, <2>6 DEF AtRest, Running
  <2> QED
    BY <2>6, <2>10, <2>12, <2>13, <2>14, <2>15, <2>16, <2>17, <2>18, <2>19 DEF CatalogInv
<1> QED
  BY <1>1, <1>2

(* Whatever leaves the pages of the tables alone. *)
LEMMA NodesChange ==
    ASSUME CatalogInv, Running, UNCHANGED <<phase, stored, tableIDs>>,
           ObjectsRight(page, tableIDs, tables'),
           DOMAIN page' \subseteq PageIDs,
           \A q \in DOMAIN page' : page'[q] \in Node \/ (q \in DOMAIN page /\ page'[q] = page[q]),
           \A q \in DOMAIN page : page[q] \in TablePage => q \in DOMAIN page' /\ page'[q] = page[q],
           DOMAIN indexIDs' \subseteq IndexNames, indexIDs' \in [DOMAIN indexIDs' -> PageIDs],
           DOMAIN indexes' \subseteq DOMAIN indexIDs', indexes' \in [DOMAIN indexes' -> PageIDs],
           DOMAIN tableIndexes' \subseteq TableNames,
           tableIndexes' \in [DOMAIN tableIndexes' -> Seq(Columns)],
           PathsHold(page', Roots'), ListsAgree(DOMAIN indexIDs', tableIndexes'),
           lossless => AllOwned(page', tableIDs, Roots')
    PROVE  CatalogInv'
<1>1. /\ phase = "open" /\ phase' = "open" /\ tablePage' = tablePage /\ indexPage' = indexPage
      /\ lossless' = lossless /\ tableIDs' = tableIDs
  BY DEF stored, Running
<1>2. TypeOK /\ TablesHold(page, tableIDs) /\ PagesFit(page)
  BY <1>1 DEF CatalogInv, KnownTables
<1>3. TypeOK'
  <2>1. \A q \in DOMAIN page' : page'[q] \in Node \/ page'[q] \in TablePage
    BY <1>2 DEF TypeOK
  <2>2. DOMAIN tables' \subseteq DOMAIN tableIDs' /\ \A t \in DOMAIN tables' : IsTable(tables'[t])
    BY <1>1 DEF ObjectsRight, ObjectRight
  <2> QED
    BY <1>1, <1>2, <2>1, <2>2 DEF TypeOK
<1>4. AtRest'
  BY <1>1 DEF AtRest
<1>5. KnownTables' = tableIDs /\ KnownIndexes' = Roots'
  BY <1>1, <1>3, KnownWhenRunning DEF KnownTables, KnownIndexes, Roots
<1>6. \A t \in DOMAIN tableIDs : /\ tableIDs[t] \in DOMAIN page'
                                 /\ page'[tableIDs[t]] = page[tableIDs[t]]
                                 /\ page[tableIDs[t]] \in TablePage
  BY <1>2 DEF TablesHold
<1>7. TablesHold(page', tableIDs)
  BY <1>2, <1>6 DEF TablesHold
<1>8. PagesFit(page')
  BY <1>2, PageKinds DEF PagesFit
<1>9. ObjectsRight(page', tableIDs, tables')
  BY <1>6 DEF ObjectsRight, ObjectRight
<1> QED
  BY <1>1, <1>3, <1>4, <1>5, <1>7, <1>8, <1>9 DEF CatalogInv

(* The roots of the indexes are pages; those that have none are none. *)
LEMMA RootsWhenRunning ==
    ASSUME CatalogInv, Running
    PROVE  /\ KnownTables = tableIDs /\ KnownIndexes = Roots
           /\ DOMAIN Roots = DOMAIN indexIDs /\ Roots \in [DOMAIN indexIDs -> PageIDs]
           /\ \A a \in DOMAIN indexIDs : Roots[a] = GetIndex(a)
           /\ PathsHold(page, Roots) /\ TypeOK
           /\ ListsAgree(DOMAIN indexIDs, tableIndexes)
           /\ lossless => AllOwned(page, tableIDs, Roots)
  BY KnownWhenRunning DEF CatalogInv, Running, Roots

LEMMA CreateIndexInv ==
    ASSUME CatalogInv, NEW t \in TableNames, NEW c \in ColumnNames, CreateIndex(t, c)
    PROVE  CatalogInv'
<1> DEFINE p == NewPage
           name == <<t, c>>
           list == IF t \in DOMAIN tableIndexes THEN Append(tableIndexes[t], c) ELSE <<c>>
<1>1. /\ Running /\ Exists(t)
      /\ tables' = Set(tables, t, GetPos(GetTable(t), {c}))
      /\ UNCHANGED <<phase, stored, tableIDs>>
      /\ \/ /\ ~IsIndex(name) /\ HasPage
            /\ page' = Set(page, p, [below |-> Null])
            /\ indexIDs' = Set(indexIDs, name, p)
            /\ indexes' = Set(indexes, name, p)
            /\ tableIndexes' = Set(tableIndexes, t, list)
         \/ /\ IsIndex(name)
            /\ UNCHANGED <<page, indexIDs, indexes, tableIndexes>>
  BY DEF CreateIndex
<1>2. ObjectsRight(page, tableIDs, tables')
  <2>1. {c} \in SUBSET Columns /\ IsFiniteSet({c})
    BY FS_Singleton DEF Columns
  <2>2. ObjectRight(page, tableIDs[t], GetPos(GetTable(t), {c}))
    BY <1>1, <2>1, GetTableIsRight, GetPosIsRight
  <2> QED
    BY <1>1, <2>2, ObjectIsSet
<1>3. CASE IsIndex(name)
  BY <1>1, <1>2, <1>3, ObjectsChange
<1>4. CASE ~IsIndex(name)
  <2>1. p \in PageIDs \ DOMAIN page
    BY <1>1, <1>4, NewPageIsUnused DEF CatalogInv
  <2>2. c \in Columns /\ name \in IndexNames
    BY DEF Columns, IndexNames
  <2>3. /\ TypeOK /\ DOMAIN Roots = DOMAIN indexIDs /\ PathsHold(page, Roots)
        /\ \A a \in DOMAIN indexIDs : Roots[a] = GetIndex(a)
        /\ ListsAgree(DOMAIN indexIDs, tableIndexes)
        /\ lossless => AllOwned(page, tableIDs, Roots)
    BY <1>1, RootsWhenRunning
  <2>4. name \notin DOMAIN indexIDs /\ name \notin DOMAIN indexes
    BY <1>4, <2>3 DEF IsIndex, TypeOK
  <2> HIDE DEF p
  <2>5. page' = Set(page, p, [below |-> Null])
    BY <1>1, <1>4
  <2>6. /\ DOMAIN page' = DOMAIN page \union {p} /\ page'[p] = [below |-> Null]
        /\ \A q \in DOMAIN page : page'[q] = page[q]
    BY <2>1, <2>5 DEF Set
  <2>7. indexIDs' = [a \in DOMAIN indexIDs \union {name} |-> IF a = name THEN p ELSE indexIDs[a]]
    BY <1>1, <1>4 DEF Set
  <2>8. indexes' = [a \in DOMAIN indexes \union {name} |-> IF a = name THEN p ELSE indexes[a]]
    BY <1>1, <1>4 DEF Set
  <2>9. Roots' = Set(Roots, name, p)
    <3>1. Roots' = [a \in DOMAIN indexIDs \union {name} |-> GetIndex(a)']
      BY <2>7 DEF Roots
    <3>2. Set(Roots, name, p) = [a \in DOMAIN indexIDs \union {name} |-> IF a = name THEN p ELSE Roots[a]]
      BY <2>3 DEF Set
    <3>3. \A a \in DOMAIN indexIDs \union {name} : GetIndex(a)' = IF a = name THEN p ELSE Roots[a]
      BY <2>3, <2>4, <2>7, <2>8 DEF GetIndex
    <3> QED
      BY <3>1, <3>2, <3>3
  <2>10. PathsHold(page', Roots') /\ Owned(page', Roots') = Owned(page, Roots) \union {p}
    BY <2>1, <2>3, <2>4, <2>5, <2>9, NewIndex
  <2>11. /\ list \in Seq(Columns) /\ list # << >> /\ IsInjective(list)
         /\ \A d : d \in Range(list) <=> d = c \/ (t \in DOMAIN tableIndexes /\ d \in Range(tableIndexes[t]))
    <3>1. CASE t \in DOMAIN tableIndexes
      <4> DEFINE s == tableIndexes[t]
      <4>1. s \in Seq(Columns) /\ IsInjective(s) /\ c \notin Range(s)
        BY <2>2, <2>3, <2>4, <3>1 DEF TypeOK, ListsAgree
      <4> HIDE DEF s
      <4>2. /\ Append(s, c) \in Seq(Columns) /\ Len(Append(s, c)) = Len(s) + 1
            /\ \A i \in 1..Len(s) : Append(s, c)[i] = s[i]
            /\ Append(s, c)[Len(s) + 1] = c
        BY <2>2, <4>1, AppendProperties
      <4>3. /\ Len(s) \in Nat /\ DOMAIN s = 1..Len(s) /\ DOMAIN Append(s, c) = 1..Len(s)+1
        BY <4>1, <4>2, LenProperties
      <4>4. \A i \in 1..Len(s)+1 : i \in 1..Len(s) \/ i = Len(s) + 1
        BY <4>3
      <4>5. \A i \in 1..Len(s) : i \in 1..Len(s)+1 /\ i # Len(s) + 1
        BY <4>3
      <4>6. Len(s) + 1 \in 1..Len(s)+1
        BY <4>3
      <4>7. \A d : d \in Range(Append(s, c)) <=> d = c \/ d \in Range(s)
        BY <4>2, <4>3, <4>4, <4>5, <4>6 DEF Range
      <4>8. IsInjective(Append(s, c))
        <5>1. \A i \in DOMAIN s : s[i] # c
          BY <4>1 DEF Range
        <5> QED
          BY <4>1, <4>2, <4>3, <4>4, <5>1 DEF IsInjective
      <4>9. Append(s, c) # << >>
        BY <4>3, <4>6
      <4>10. list = Append(s, c)
        BY <3>1 DEF s
      <4> QED
        BY <3>1, <4>2, <4>7, <4>8, <4>9, <4>10 DEF s
    <3>2. CASE t \notin DOMAIN tableIndexes
      <4>1. /\ list = <<c>> /\ <<c>> \in Seq(Columns) /\ <<c>> # << >>
            /\ DOMAIN <<c>> = {1} /\ <<c>>[1] = c
        BY <2>2, <3>2
      <4>2. Range(<<c>>) = {c} /\ IsInjective(<<c>>)
        BY <4>1 DEF Range, IsInjective
      <4> QED
        BY <3>2, <4>1, <4>2
    <3> QED
      BY <3>1, <3>2
  <2> HIDE DEF list
  <2>12. /\ tableIndexes' = [u \in DOMAIN tableIndexes \union {t} |-> IF u = t THEN list ELSE tableIndexes[u]]
         /\ DOMAIN tableIndexes' = DOMAIN tableIndexes \union {t}
         /\ tableIndexes'[t] = list
         /\ \A u \in DOMAIN tableIndexes : u # t => tableIndexes'[u] = tableIndexes[u]
    BY <1>1, <1>4 DEF Set
  <2>13. ListsAgree(DOMAIN indexIDs', tableIndexes')
    <3>1. ASSUME NEW u \in TableNames, NEW d \in Columns
          PROVE  <<u, d>> \in DOMAIN indexIDs' <=> u \in DOMAIN tableIndexes' /\ d \in Range(tableIndexes'[u])
      <4>1. <<u, d>> \in DOMAIN indexIDs' <=> (u = t /\ d = c) \/ <<u, d>> \in DOMAIN indexIDs
        BY <2>7
      <4>2. <<u, d>> \in DOMAIN indexIDs <=> u \in DOMAIN tableIndexes /\ d \in Range(tableIndexes[u])
        BY <2>3 DEF ListsAgree
      <4>3. CASE u = t
        BY <2>11, <2>12, <4>1, <4>2, <4>3
      <4>4. CASE u # t
        BY <2>12, <4>1, <4>2, <4>4
      <4> QED
        BY <4>3, <4>4
    <3>2. \A u \in DOMAIN tableIndexes' : tableIndexes'[u] # << >> /\ IsInjective(tableIndexes'[u])
      BY <2>3, <2>11, <2>12 DEF ListsAgree
    <3> QED
      BY <3>1, <3>2 DEF ListsAgree
  <2>14. ASSUME lossless PROVE AllOwned(page', tableIDs, Roots')
    <3>1. AllOwned(page, tableIDs, Roots)
      BY <2>3, <2>14
    <3>2. DOMAIN Roots' = DOMAIN Roots \union {name} /\ t \in DOMAIN tableIDs
      BY <1>1, <2>9 DEF Set, Exists
    <3>3. \A a \in DOMAIN Roots' : a[1] \in DOMAIN tableIDs
      BY <3>1, <3>2 DEF AllOwned
    <3> QED
      BY <2>6, <2>10, <3>1, <3>3 DEF AllOwned
  <2>15. /\ DOMAIN indexIDs' \subseteq IndexNames /\ indexIDs' \in [DOMAIN indexIDs' -> PageIDs]
         /\ DOMAIN indexes' \subseteq DOMAIN indexIDs' /\ indexes' \in [DOMAIN indexes' -> PageIDs]
    BY <2>1, <2>2, <2>3, <2>7, <2>8 DEF TypeOK
  <2>16. /\ DOMAIN tableIndexes' \subseteq TableNames
         /\ tableIndexes' \in [DOMAIN tableIndexes' -> Seq(Columns)]
    BY <2>3, <2>11, <2>12 DEF TypeOK
  <2>17. /\ DOMAIN page' \subseteq PageIDs
         /\ \A q \in DOMAIN page' : page'[q] \in Node \/ (q \in DOMAIN page /\ page'[q] = page[q])
         /\ \A q \in DOMAIN page : page[q] \in TablePage => q \in DOMAIN page' /\ page'[q] = page[q]
    <3>1. [below |-> Null] \in Node
      BY DEF Node
    <3>2. DOMAIN page \subseteq PageIDs
      BY <2>3 DEF TypeOK
    <3>3. page'[p] \in Node
      BY <2>6, <3>1
    <3> QED
      BY <2>1, <2>6, <3>2, <3>3
  <2> QED
    BY <1>1, <1>2, <2>10, <2>13, <2>14, <2>15, <2>16, <2>17, NodesChange
<1> QED
  BY <1>3, <1>4

(* A root that is split or merged. *)
LEMMA MoveRootInv ==
    ASSUME CatalogInv, NEW t \in TableNames, NEW c \in ColumnNames, MoveRoot(t, c)
    PROVE  CatalogInv'
<1> DEFINE p == NewPage
           name == <<t, c>>
           root == Roots[name]
<1>1. /\ Running /\ name \in DOMAIN indexIDs
      /\ UNCHANGED <<phase, stored, tableIDs, tables, indexIDs, tableIndexes>>
      /\ \/ /\ HasPage
            /\ page' = Set(page, p, [below |-> GetIndex(name)])
            /\ indexes' = Set(indexes, name, p)
         \/ /\ page[GetIndex(name)].below # Null
            /\ page' = Erase(page, {GetIndex(name)})
            /\ indexes' = Set(indexes, name, page[GetIndex(name)].below)
  BY DEF MoveRoot, IsIndex
<1>2. /\ TypeOK /\ DOMAIN Roots = DOMAIN indexIDs /\ Roots \in [DOMAIN indexIDs -> PageIDs]
      /\ PathsHold(page, Roots)
      /\ \A a \in DOMAIN indexIDs : Roots[a] = GetIndex(a)
      /\ ListsAgree(DOMAIN indexIDs, tableIndexes)
      /\ lossless => AllOwned(page, tableIDs, Roots)
  BY <1>1, RootsWhenRunning
<1>3. ObjectsRight(page, tableIDs, tables')
  BY <1>1 DEF CatalogInv
<1> HIDE DEF p
<1>4. ASSUME NEW r \in PageIDs, indexes' = Set(indexes, name, r)
      PROVE  /\ Roots' = Set(Roots, name, r)
             /\ DOMAIN indexes' \subseteq DOMAIN indexIDs' /\ indexes' \in [DOMAIN indexes' -> PageIDs]
  <2>1. indexes' = [a \in DOMAIN indexes \union {name} |-> IF a = name THEN r ELSE indexes[a]]
    BY <1>4 DEF Set
  <2>2. Roots' = [a \in DOMAIN indexIDs |-> GetIndex(a)']
    BY <1>1 DEF Roots
  <2>3. Set(Roots, name, r) = [a \in DOMAIN indexIDs |-> IF a = name THEN r ELSE Roots[a]]
    <3>1. DOMAIN indexIDs \union {name} = DOMAIN indexIDs
      BY <1>1
    <3> QED
      BY <1>2, <3>1 DEF Set
  <2>4. \A a \in DOMAIN indexIDs : GetIndex(a)' = IF a = name THEN r ELSE Roots[a]
    BY <1>1, <1>2, <2>1 DEF GetIndex
  <2> QED
    BY <1>1, <1>2, <2>1, <2>2, <2>3, <2>4 DEF TypeOK
<1>5. ASSUME NEW I, \A a : a \in DOMAIN I <=> a \in DOMAIN Roots,
             lossless, NEW d, DOMAIN d = Range(tableIDs) \union Owned(d, I)
      PROVE  AllOwned(d, tableIDs, I)
  BY <1>2, <1>5 DEF AllOwned
<1>6. CASE /\ HasPage
           /\ page' = Set(page, p, [below |-> GetIndex(name)])
           /\ indexes' = Set(indexes, name, p)
  <2>1. p \in PageIDs \ DOMAIN page
    BY <1>2, <1>6, NewPageIsUnused DEF p
  <2>2. /\ DOMAIN page' = DOMAIN page \union {p} /\ page'[p] = [below |-> root]
        /\ \A q \in DOMAIN page : page'[q] = page[q]
        /\ page' = Set(page, p, [below |-> root])
    BY <1>1, <1>2, <1>6, <2>1 DEF Set
  <2>3. Roots' = Set(Roots, name, p)
    BY <1>4, <1>6, <2>1
  <2>4. PathsHold(page', Roots') /\ Owned(page', Roots') = Owned(page, Roots) \union {p}
    BY <1>1, <1>2, <2>1, <2>2, <2>3, RootGrows
  <2>5. DOMAIN Roots' = DOMAIN Roots
    BY <1>1, <1>2, <2>3 DEF Set
  <2>6. ASSUME lossless PROVE AllOwned(page', tableIDs, Roots')
    <3>1. DOMAIN page' = Range(tableIDs) \union Owned(page', Roots')
      BY <1>2, <2>2, <2>4, <2>6 DEF AllOwned
    <3> QED
      BY <1>5, <2>5, <2>6, <3>1
  <2>7. /\ DOMAIN page' \subseteq PageIDs
        /\ \A q \in DOMAIN page' : page'[q] \in Node \/ (q \in DOMAIN page /\ page'[q] = page[q])
        /\ \A q \in DOMAIN page : page[q] \in TablePage => q \in DOMAIN page' /\ page'[q] = page[q]
    <3>1. root \in PageIDs
      BY <1>1, <1>2
    <3>2. [below |-> root] \in Node
      BY <3>1 DEF Node
    <3>3. DOMAIN page \subseteq PageIDs
      BY <1>2 DEF TypeOK
    <3>4. page'[p] \in Node
      BY <2>2, <3>2
    <3> QED
      BY <2>1, <2>2, <3>3, <3>4
  <2>8. DOMAIN indexes' \subseteq DOMAIN indexIDs' /\ indexes' \in [DOMAIN indexes' -> PageIDs]
    BY <1>4, <1>6, <2>1
  <2> QED
    BY <1>1, <1>2, <1>3, <2>4, <2>6, <2>7, <2>8, NodesChange DEF TypeOK
<1>7. CASE /\ page[GetIndex(name)].below # Null
           /\ page' = Erase(page, {GetIndex(name)})
           /\ indexes' = Set(indexes, name, page[GetIndex(name)].below)
  <2> DEFINE next == page[root].below
  <2>1. /\ next # Null /\ indexes' = Set(indexes, name, next)
        /\ DOMAIN page' = DOMAIN page \ {root}
        /\ \A q \in DOMAIN page' : page'[q] = page[q]
    BY <1>1, <1>2, <1>7 DEF Erase, Restrict
  <2>2. IsNode(page, root) /\ root \in DOMAIN page /\ name \in DOMAIN Roots
    BY <1>1, <1>2 DEF PathsHold, IsNode
  <2>3. /\ PathsHold(page', Set(Roots, name, next))
        /\ Owned(page', Set(Roots, name, next)) = Owned(page, Roots) \ {root}
        /\ next \in PageIDs
    BY <1>2, <2>1, <2>2, RootShrinks
  <2> HIDE DEF next, root
  <2>4. Roots' = Set(Roots, name, next)
    BY <1>4, <2>1, <2>3
  <2>5. DOMAIN Roots' = DOMAIN Roots
    BY <1>1, <1>2, <2>4 DEF Set
  <2>6. page[root] \notin TablePage
    BY <2>2, PageKinds DEF IsNode
  <2>7. root \notin Range(tableIDs)
    <3>1. TablesHold(page, tableIDs)
      BY <1>1, RootsWhenRunning DEF CatalogInv
    <3> QED
      BY <2>6, <3>1 DEF TablesHold, Range
  <2>8. ASSUME lossless PROVE AllOwned(page', tableIDs, Roots')
    <3>1. DOMAIN page' = Range(tableIDs) \union Owned(page', Roots')
      BY <1>2, <2>1, <2>3, <2>4, <2>7, <2>8 DEF AllOwned
    <3> QED
      BY <1>5, <2>5, <2>8, <3>1
  <2>9. /\ DOMAIN page' \subseteq PageIDs
        /\ \A q \in DOMAIN page' : page'[q] \in Node \/ (q \in DOMAIN page /\ page'[q] = page[q])
        /\ \A q \in DOMAIN page : page[q] \in TablePage => q \in DOMAIN page' /\ page'[q] = page[q]
    BY <1>2, <2>1, <2>6 DEF TypeOK
  <2>10. DOMAIN indexes' \subseteq DOMAIN indexIDs' /\ indexes' \in [DOMAIN indexes' -> PageIDs]
    BY <1>4, <2>1, <2>3
  <2> QED
    BY <1>1, <1>2, <1>3, <2>3, <2>4, <2>8, <2>9, <2>10, NodesChange DEF TypeOK
<1> QED
  BY <1>1, <1>6, <1>7

LEMMA DropIndexInv ==
    ASSUME CatalogInv, NEW t \in TableNames, NEW c \in ColumnNames, NEW hasRows \in BOOLEAN,
           DropIndex(t, c, hasRows)
    PROVE  CatalogInv'
<1> DEFINE name == <<t, c>>
           list == tableIndexes[t]
           rest == RemoveFirst(list, c)
           obj == IF hasRows THEN GetPos(GetTable(t), {c}) ELSE GetTable(t)
<1>1. /\ Running /\ Exists(t)
      /\ tables' = Set(tables, t, obj)
      /\ UNCHANGED <<stored, tableIDs>>
      /\ \/ /\ name \in DOMAIN indexIDs
            /\ page' = Erase(page, Tree(page, GetIndex(name)))
            /\ DropIndexes(t, {c}, rest)
            /\ UNCHANGED phase
         \/ /\ name \notin DOMAIN indexIDs
            /\ phase' = IF hasRows THEN "dead" ELSE phase
            /\ UNCHANGED <<page, indexIDs, indexes, tableIndexes>>
  BY DEF DropIndex, IsIndex
<1>2. c \in Columns /\ {c} \in SUBSET Columns /\ IsFiniteSet({c})
  BY FS_Singleton DEF Columns
<1>3. ObjectsRight(page, tableIDs, tables')
  <2>1. ObjectRight(page, tableIDs[t], obj)
    <3>1. ObjectRight(page, tableIDs[t], GetTable(t))
      BY <1>1, GetTableIsRight
    <3>2. ObjectRight(page, tableIDs[t], GetPos(GetTable(t), {c}))
      BY <1>2, <3>1, GetPosIsRight
    <3> QED
      BY <3>1, <3>2
  <2> HIDE DEF obj
  <2> QED
    BY <1>1, <2>1, ObjectIsSet
<1> HIDE DEF obj
<1>4. CASE name \notin DOMAIN indexIDs
  BY <1>1, <1>3, <1>4, ObjectsChange
<1>5. CASE name \in DOMAIN indexIDs
  <2> DEFINE gone == Tree(page, Roots[name])
             keys == {t} \X {c}
  <2>1. /\ TypeOK /\ DOMAIN Roots = DOMAIN indexIDs /\ PathsHold(page, Roots)
        /\ \A a \in DOMAIN indexIDs : Roots[a] = GetIndex(a)
        /\ ListsAgree(DOMAIN indexIDs, tableIndexes)
        /\ lossless => AllOwned(page, tableIDs, Roots)
    BY <1>1, RootsWhenRunning
  <2>2. /\ page' = Erase(page, gone) /\ phase' = phase
        /\ indexIDs' = Erase(indexIDs, keys) /\ indexes' = Erase(indexes, keys)
        /\ tableIndexes' = IF rest = << >> THEN Erase(tableIndexes, {t})
                           ELSE [tableIndexes EXCEPT ![t] = rest]
    BY <1>1, <1>5, <2>1 DEF DropIndexes
  <2>3. keys = {name}
    OBVIOUS
  <2> HIDE DEF gone, keys
  <2>4. /\ DOMAIN page' = DOMAIN page \ gone
        /\ \A q \in DOMAIN page' : page'[q] = page[q]
    BY <2>2 DEF Erase, Restrict
  <2>5. /\ indexIDs' = [a \in DOMAIN indexIDs \ {name} |-> indexIDs[a]]
        /\ indexes' = [a \in DOMAIN indexes \ {name} |-> indexes[a]]
    BY <2>2, <2>3 DEF Erase, Restrict
  <2>6. Roots' = [a \in DOMAIN Roots \ {name} |-> Roots[a]]
    <3>1. Roots' = [a \in DOMAIN indexIDs \ {name} |-> GetIndex(a)']
      BY <2>5 DEF Roots
    <3>2. \A a \in DOMAIN indexIDs \ {name} : GetIndex(a)' = Roots[a]
      BY <2>1, <2>5 DEF GetIndex
    <3> QED
      BY <2>1, <3>1, <3>2
  <2>7. /\ PathsHold(page', Roots') /\ Owned(page', Roots') = Owned(page, Roots) \ gone
        /\ \A q \in gone : IsNode(page, q)
    <3>1. \A q : q \in gone <=> \E a \in {name} : q \in Tree(page, Roots[a])
      BY DEF gone
    <3>2. {name} \in SUBSET DOMAIN Roots
      BY <1>5, <2>1
    <3>3. DOMAIN Roots' = DOMAIN Roots \ {name} /\ \A a \in DOMAIN Roots' : Roots'[a] = Roots[a]
      BY <2>6
    <3>4. Cleared(page, Roots, {name}, gone, page', Roots')
      BY <2>4, <3>1, <3>2, <3>3 DEF Cleared
    <3> QED
      BY <2>1, <3>4, IndexesGo
  <2>8. t \in DOMAIN tableIndexes /\ c \in Range(list) /\ list \in Seq(Columns) /\ IsInjective(list)
    BY <1>2, <1>5, <2>1 DEF ListsAgree, TypeOK
  <2>9. rest \in Seq(Columns) /\ IsInjective(rest) /\ Range(rest) = Range(list) \ {c}
    <3> HIDE DEF list
    <3> QED
      BY <2>8, RemoveFirstRemoves
  <2> HIDE DEF rest
  <2>10. /\ \A u \in DOMAIN tableIndexes : u # t => u \in DOMAIN tableIndexes' /\ tableIndexes'[u] = tableIndexes[u]
         /\ DOMAIN tableIndexes' \subseteq DOMAIN tableIndexes
         /\ t \in DOMAIN tableIndexes' => rest # << >> /\ tableIndexes'[t] = rest
         /\ rest # << >> => t \in DOMAIN tableIndexes'
    <3>1. CASE rest = << >>
      <4>1. tableIndexes' = [u \in DOMAIN tableIndexes \ {t} |-> tableIndexes[u]]
        BY <2>2, <3>1 DEF Erase, Restrict
      <4> QED
        BY <3>1, <4>1
    <3>2. CASE rest # << >>
      <4>1. tableIndexes' = [tableIndexes EXCEPT ![t] = rest]
        BY <2>2, <3>2
      <4> QED
        BY <2>8, <3>2, <4>1
    <3> QED
      BY <3>1, <3>2
  <2>11. Range(<< >>) = {}
    BY DEF Range
  <2>12. ListsAgree(DOMAIN indexIDs', tableIndexes')
    <3>1. ASSUME NEW u \in TableNames, NEW d \in Columns
          PROVE  <<u, d>> \in DOMAIN indexIDs' <=> u \in DOMAIN tableIndexes' /\ d \in Range(tableIndexes'[u])
      <4>1. <<u, d>> \in DOMAIN indexIDs' <=> ~(u = t /\ d = c) /\ <<u, d>> \in DOMAIN indexIDs
        BY <2>5
      <4>2. <<u, d>> \in DOMAIN indexIDs <=> u \in DOMAIN tableIndexes /\ d \in Range(tableIndexes[u])
        BY <2>1 DEF ListsAgree
      <4>3. CASE u = t
        BY <2>8, <2>9, <2>10, <2>11, <4>1, <4>2, <4>3
      <4>4. CASE u # t
        BY <2>10, <4>1, <4>2, <4>4
      <4> QED
        BY <4>3, <4>4
    <3>2. \A u \in DOMAIN tableIndexes' : tableIndexes'[u] # << >> /\ IsInjective(tableIndexes'[u])
      BY <2>1, <2>9, <2>10 DEF ListsAgree
    <3> QED
      BY <3>1, <3>2 DEF ListsAgree
  <2>13. TablesHold(page, tableIDs)
    BY <1>1, RootsWhenRunning DEF CatalogInv
  <2>14. ASSUME lossless PROVE AllOwned(page', tableIDs, Roots')
    <3>1. AllOwned(page, tableIDs, Roots)
      BY <2>1, <2>14
    <3>2. \A q \in Range(tableIDs) : q \notin gone
      BY <2>7, <2>13, PageKinds DEF TablesHold, Range, IsNode
    <3>3. \A a \in DOMAIN Roots' : a[1] \in DOMAIN tableIDs
      BY <2>6, <3>1 DEF AllOwned
    <3> QED
      BY <2>4, <2>7, <3>1, <3>2, <3>3 DEF AllOwned
  <2>15. /\ DOMAIN indexIDs' \subseteq IndexNames /\ indexIDs' \in [DOMAIN indexIDs' -> PageIDs]
         /\ DOMAIN indexes' \subseteq DOMAIN indexIDs' /\ indexes' \in [DOMAIN indexes' -> PageIDs]
    BY <2>1, <2>5 DEF TypeOK
  <2>16. /\ DOMAIN tableIndexes' \subseteq TableNames
         /\ tableIndexes' \in [DOMAIN tableIndexes' -> Seq(Columns)]
    <3>1. \A u \in DOMAIN tableIndexes' : tableIndexes'[u] \in Seq(Columns)
      BY <2>1, <2>9, <2>10 DEF TypeOK
    <3>2. tableIndexes' = [u \in DOMAIN tableIndexes' |-> tableIndexes'[u]]
      <4>1. CASE rest = << >>
        BY <2>2, <4>1 DEF Erase, Restrict
      <4>2. CASE rest # << >>
        BY <2>2, <4>2
      <4> QED
        BY <4>1, <4>2
    <3>3. DOMAIN tableIndexes' \subseteq TableNames
      BY <2>1, <2>10 DEF TypeOK
    <3> QED
      BY <3>1, <3>2, <3>3
  <2>17. /\ DOMAIN page' \subseteq PageIDs
         /\ \A q \in DOMAIN page' : page'[q] \in Node \/ (q \in DOMAIN page /\ page'[q] = page[q])
         /\ \A q \in DOMAIN page : page[q] \in TablePage => q \in DOMAIN page' /\ page'[q] = page[q]
    BY <2>1, <2>4, <2>7, PageKinds DEF TypeOK, IsNode
  <2> QED
    BY <1>1, <1>3, <2>2, <2>7, <2>12, <2>14, <2>15, <2>16, <2>17, NodesChange
<1> QED
  BY <1>4, <1>5

LEMMA DropTableInv == ASSUME CatalogInv, NEW t \in TableNames, DropTable(t) PROVE CatalogInv'
<1> DEFINE cols  == IF t \in DOMAIN tableIndexes THEN Range(tableIndexes[t]) ELSE {}
           trees == UNION {Tree(page, GetIndex(<<t, c>>)) : c \in cols}
           own   == IF Exists(t) THEN {tableIDs[t]} ELSE {}
           N     == {t} \X cols
           mid   == Erase(page, trees)
<1>1. /\ phase = "open" /\ phase' = "open" /\ tablePage' = tablePage /\ indexPage' = indexPage
      /\ lossless' = lossless /\ Running
      /\ indexIDs' = Erase(indexIDs, N) /\ indexes' = Erase(indexes, N)
      /\ tableIndexes' = Erase(tableIndexes, {t})
      /\ page' = Erase(page, trees \union own)
      /\ tableIDs' = Erase(tableIDs, {t}) /\ tables' = Erase(tables, {t})
  BY DEF DropTable, DropIndexes, Running, stored
<1>2. /\ TypeOK /\ KnownTables = tableIDs /\ DOMAIN Roots = DOMAIN indexIDs /\ PathsHold(page, Roots)
      /\ \A a \in DOMAIN indexIDs : Roots[a] = GetIndex(a)
      /\ ListsAgree(DOMAIN indexIDs, tableIndexes)
      /\ lossless => AllOwned(page, tableIDs, Roots)
  BY <1>1, RootsWhenRunning
<1>3. TablesHold(page, tableIDs) /\ PagesFit(page) /\ ObjectsRight(page, tableIDs, tables)
  BY <1>2 DEF CatalogInv
<1>4. cols \subseteq Columns /\ \A c \in Columns : <<t, c>> \in DOMAIN indexIDs <=> c \in cols
  <2>1. \A c \in Columns : <<t, c>> \in DOMAIN indexIDs <=> c \in cols
    BY <1>2 DEF ListsAgree
  <2>2. ASSUME t \in DOMAIN tableIndexes PROVE Range(tableIndexes[t]) \subseteq Columns
    <3>1. tableIndexes[t] \in Seq(Columns)
      BY <1>2, <2>2 DEF TypeOK
    <3> QED
      BY <3>1, RangeOfSeq
  <2> QED
    BY <2>1, <2>2
<1>5. \A a \in IndexNames : a \in N <=> a[1] = t /\ a \in DOMAIN indexIDs
  <2>1. \A a \in IndexNames : a = <<a[1], a[2]>> /\ a[2] \in Columns
    BY DEF IndexNames
  <2> HIDE DEF cols
  <2> QED
    BY <1>4, <2>1
<1>6. N \subseteq DOMAIN indexIDs
  <2>1. N \subseteq IndexNames
    BY <1>4 DEF IndexNames
  <2> HIDE DEF N
  <2> QED
    BY <1>5, <2>1
<1>7. \A p : p \in trees <=> \E a \in N : p \in Tree(page, Roots[a])
  <2>1. \A p : p \in trees <=> \E c \in cols : p \in Tree(page, GetIndex(<<t, c>>))
    OBVIOUS
  <2>2. \A c \in cols : <<t, c>> \in N /\ Roots[<<t, c>>] = GetIndex(<<t, c>>)
    BY <1>2, <1>6
  <2>3. \A a \in N : \E c \in cols : a = <<t, c>>
    OBVIOUS
  <2> HIDE DEF trees, N, cols
  <2> QED
    BY <2>1, <2>2, <2>3
<1> HIDE DEF trees, N, cols
<1>8. /\ indexIDs' = [a \in DOMAIN indexIDs \ N |-> indexIDs[a]]
      /\ indexes' = [a \in DOMAIN indexes \ N |-> indexes[a]]
      /\ tableIndexes' = [u \in DOMAIN tableIndexes \ {t} |-> tableIndexes[u]]
      /\ tableIDs' = [u \in DOMAIN tableIDs \ {t} |-> tableIDs[u]]
      /\ tables' = [u \in DOMAIN tables \ {t} |-> tables[u]]
  BY <1>1 DEF Erase, Restrict
<1>9. DOMAIN mid = DOMAIN page \ trees /\ \A q \in DOMAIN mid : mid[q] = page[q]
  BY DEF Erase, Restrict
<1>10. DOMAIN page' = DOMAIN page \ (trees \union own) /\ \A q \in DOMAIN page' : page'[q] = page[q]
  BY <1>1 DEF Erase, Restrict
<1> HIDE DEF mid
<1>11. Roots' = [a \in DOMAIN Roots \ N |-> Roots[a]]
  <2>1. Roots' = [a \in DOMAIN indexIDs \ N |-> GetIndex(a)']
    BY <1>8 DEF Roots
  <2>2. \A a \in DOMAIN indexIDs \ N : GetIndex(a)' = Roots[a]
    BY <1>2, <1>8 DEF GetIndex
  <2> QED
    BY <1>2, <2>1, <2>2
<1>12. /\ PathsHold(mid, Roots') /\ Owned(mid, Roots') = Owned(page, Roots) \ trees
       /\ \A q \in trees : IsNode(page, q)
  <2>1. Cleared(page, Roots, N, trees, mid, Roots')
    <3>1. DOMAIN Roots' = DOMAIN Roots \ N /\ \A a \in DOMAIN Roots' : Roots'[a] = Roots[a]
      BY <1>11
    <3> QED
      BY <1>2, <1>6, <1>7, <1>9, <3>1 DEF Cleared
  <2> QED
    BY <1>2, <2>1, IndexesGo
<1>13. \A p \in own : ~IsNode(page, p)
  BY <1>3, PageKinds DEF TablesHold, IsNode, Exists
<1>14. /\ PathsHold(page', Roots') /\ Owned(page', Roots') = Owned(page, Roots) \ trees
  <2>1. SameNodes(mid, page')
    BY <1>9, <1>10, <1>13 DEF SameNodes, IsNode
  <2>2. DOMAIN page' \subseteq PageIDs
    BY <1>2, <1>10 DEF TypeOK
  <2> QED
    BY <1>12, <2>1, <2>2, SamePaths
<1>15. \A u \in DOMAIN tableIDs : tableIDs[u] \notin trees /\ (tableIDs[u] \in own <=> u = t)
  <2>1. \A u \in DOMAIN tableIDs : tableIDs[u] \notin trees
    BY <1>3, <1>12, PageKinds DEF TablesHold, IsNode
  <2> QED
    BY <1>3, <2>1 DEF TablesHold, IsInjective, Exists
<1>16. own \subseteq Range(tableIDs)
  BY DEF Exists, Range
<1> HIDE DEF own
<1>17. TablesHold(page', tableIDs')
  <2>1. \A u \in DOMAIN tableIDs' : /\ u \in DOMAIN tableIDs /\ u # t /\ tableIDs'[u] = tableIDs[u]
                                    /\ tableIDs[u] \in DOMAIN page'
    BY <1>3, <1>8, <1>10, <1>15 DEF TablesHold
  <2> QED
    BY <1>3, <1>10, <2>1 DEF TablesHold, IsInjective
<1>18. PagesFit(page')
  BY <1>3, <1>10 DEF PagesFit
<1>19. ObjectsRight(page', tableIDs', tables')
  <2>1. DOMAIN tables' \subseteq DOMAIN tableIDs'
    BY <1>3, <1>8 DEF ObjectsRight
  <2>2. ASSUME NEW u \in DOMAIN tables' PROVE ObjectRight(page', tableIDs'[u], tables'[u])
    <3>1. /\ u \in DOMAIN tables /\ tables'[u] = tables[u]
          /\ u \in DOMAIN tableIDs' /\ tableIDs'[u] = tableIDs[u]
      BY <1>8, <2>1
    <3>2. page'[tableIDs[u]] = page[tableIDs[u]]
      BY <1>10, <1>17, <3>1 DEF TablesHold
    <3>3. ObjectRight(page, tableIDs[u], tables[u])
      BY <1>3, <3>1 DEF ObjectsRight
    <3> QED
      BY <3>1, <3>2, <3>3 DEF ObjectRight
  <2> QED
    BY <2>1, <2>2 DEF ObjectsRight
<1>20. ListsAgree(DOMAIN indexIDs', tableIndexes')
  <2>1. ASSUME NEW u \in TableNames, NEW d \in Columns
        PROVE  <<u, d>> \in DOMAIN indexIDs' <=> u \in DOMAIN tableIndexes' /\ d \in Range(tableIndexes'[u])
    <3>1. <<u, d>> \in IndexNames /\ <<u, d>>[1] = u
      BY DEF IndexNames
    <3>2. <<u, d>> \in DOMAIN indexIDs' <=> u # t /\ <<u, d>> \in DOMAIN indexIDs
      BY <1>5, <1>8, <3>1
    <3>3. <<u, d>> \in DOMAIN indexIDs <=> u \in DOMAIN tableIndexes /\ d \in Range(tableIndexes[u])
      BY <1>2 DEF ListsAgree
    <3> QED
      BY <1>8, <3>2, <3>3
  <2>2. \A u \in DOMAIN tableIndexes' : tableIndexes'[u] # << >> /\ IsInjective(tableIndexes'[u])
    BY <1>2, <1>8 DEF ListsAgree
  <2> QED
    BY <2>1, <2>2 DEF ListsAgree
<1>21. ASSUME lossless PROVE AllOwned(page', tableIDs', Roots')
  <2>1. AllOwned(page, tableIDs, Roots)
    BY <1>2, <1>21
  <2>2. \A p : p \in Range(tableIDs') <=> p \in Range(tableIDs) /\ p \notin own
    BY <1>8, <1>15 DEF Range
  <2>3. \A p \in Range(tableIDs) : p \notin trees
    BY <1>15 DEF Range
  <2>4. \A p \in own : p \notin Owned(page, Roots)
    <3>1. \A p \in Owned(page, Roots) : IsNode(page, p)
      BY <1>2, TreesAreNodes DEF Owned
    <3> QED
      BY <1>13, <3>1 DEF own
  <2>5. DOMAIN page' = Range(tableIDs') \union Owned(page', Roots')
    BY <1>10, <1>14, <2>1, <2>2, <2>3, <2>4 DEF AllOwned
  <2>6. \A a \in DOMAIN Roots' : a[1] \in DOMAIN tableIDs'
    BY <1>2, <1>5, <1>8, <1>11, <2>1 DEF AllOwned, TypeOK
  <2> QED
    BY <2>5, <2>6 DEF AllOwned
<1>22. TypeOK'
  <2>1. DOMAIN page' \subseteq PageIDs /\ \A p \in DOMAIN page' : page'[p] \in Node \/ page'[p] \in TablePage
    BY <1>2, <1>10 DEF TypeOK
  <2>2. DOMAIN tables' \subseteq DOMAIN tableIDs' /\ \A u \in DOMAIN tables' : IsTable(tables'[u])
    BY <1>19 DEF ObjectsRight, ObjectRight
  <2>3. DOMAIN tableIDs' \subseteq TableNames /\ tableIDs' \in [DOMAIN tableIDs' -> PageIDs]
    BY <1>2, <1>8 DEF TypeOK
  <2>4. /\ DOMAIN indexIDs' \subseteq IndexNames /\ indexIDs' \in [DOMAIN indexIDs' -> PageIDs]
        /\ DOMAIN indexes' \subseteq DOMAIN indexIDs' /\ indexes' \in [DOMAIN indexes' -> PageIDs]
    BY <1>2, <1>8 DEF TypeOK
  <2>5. /\ DOMAIN tableIndexes' \subseteq TableNames
        /\ tableIndexes' \in [DOMAIN tableIndexes' -> Seq(Columns)]
    BY <1>2, <1>8 DEF TypeOK
  <2> QED
    BY <1>1, <1>2, <2>1, <2>2, <2>3, <2>4, <2>5 DEF TypeOK
<1>23. AtRest'
  BY <1>1 DEF AtRest
<1>24. KnownTables' = tableIDs' /\ KnownIndexes' = Roots'
  BY <1>1 DEF KnownTables, KnownIndexes, Roots
<1> QED
  BY <1>1, <1>14, <1>17, <1>18, <1>19, <1>20, <1>21, <1>22, <1>23, <1>24 DEF CatalogInv

(* The pages that TablePage::Store writes still fit what they declare. *)
LEMMA PagesAreStored ==
    ASSUME CatalogInv, Running, NEW names,
           \A t \in Modified : names[t] \in BuildColumnsString(tables[t].columns),
           NEW p \in DOMAIN page
    PROVE  \/ Stored(names)[p] = page[p]
           \/ /\ page[p] \in TablePage /\ Stored(names)[p] \in TablePage
              /\ Fits(LoadColumnsString(Stored(names)[p].columns), Stored(names)[p].declared)
<1>1. CASE ~ \E t \in Modified : tables[t].id = p
  BY <1>1 DEF Stored
<1>2. CASE \E t \in Modified : tables[t].id = p
  <2> DEFINE t == CHOOSE u \in Modified : tables[u].id = p
             columns == tables[t].columns
             declared == page[p].declared
             r == [declared |-> declared, columns |-> names[t]]
  <2>1. t \in Modified /\ tables[t].id = p /\ Stored(names)[p] = r
    BY <1>2 DEF Stored
  <2> HIDE DEF t
  <2>2. t \in DOMAIN tables /\ names[t] \in BuildColumnsString(columns)
    BY <2>1 DEF Modified
  <2>3. ObjectRight(page, tableIDs[t], tables[t]) /\ t \in DOMAIN tableIDs
    BY <2>2 DEF CatalogInv, ObjectsRight
  <2>4. tableIDs[t] = p /\ page[p] \in TablePage
    <3>1. tableIDs[t] = p
      BY <2>1, <2>3 DEF ObjectRight
    <3> QED
      BY <2>3, <3>1, RootsWhenRunning DEF CatalogInv, TablesHold
  <2>5. declared \in Seq(Columns) /\ IsInjective(declared)
    BY <2>4, TypeOfTablePage
  <2>6. /\ Fits(columns, declared) /\ IsFiniteSet(DOMAIN columns)
        /\ columns \in [DOMAIN columns -> Nat] /\ DOMAIN columns \subseteq Columns
    BY <2>3, <2>4 DEF ObjectRight, IsTable
  <2> HIDE DEF columns, declared
  <2>7. /\ names[t] \in Seq(Columns) /\ IsInjective(names[t])
        /\ Fits(LoadColumnsString(names[t]), declared)
    BY <2>2, <2>5, <2>6, BuiltColumnsFit
  <2>8. r \in TablePage /\ r.declared = declared /\ r.columns = names[t]
    BY <2>5, <2>7 DEF TablePage
  <2> HIDE DEF r
  <2> QED
    BY <2>1, <2>4, <2>7, <2>8
<1> QED
  BY <1>1, <1>2

LEMMA SomePathsHold ==
    ASSUME NEW d, NEW I, PathsHold(d, I),
           NEW J, \A u \in DOMAIN J : \E a \in DOMAIN I : u = TruncatedIndex[a] /\ J[u] = I[a]
    PROVE  PathsHold(d, J)
<1>1. IsInjective(J)
  BY DEF PathsHold, IsInjective
<1> QED
  BY <1>1 DEF PathsHold

LEMMA ShutdownInv == ASSUME CatalogInv, Shutdown PROVE CatalogInv'
<1>1. /\ Running /\ phase = "open" /\ phase' = "closed"
      /\ tablePage' = Filled(TableRecords, TableSlots)
      /\ indexPage' = Filled(IndexRecords, IndexSlots)
      /\ lossless' <=> /\ lossless
                       /\ Len(TableRecords) <= TableSlots /\ Len(IndexRecords) <= IndexSlots
                       /\ \A t \in DOMAIN tableIDs : Truncated[t] = t
                       /\ \A a \in DOMAIN indexIDs : TruncatedIndex[a] = a
      /\ lossless' \in BOOLEAN
      /\ tableIDs' = << >> /\ tables' = << >>
      /\ indexIDs' = << >> /\ indexes' = << >> /\ tableIndexes' = << >>
  BY DEF Shutdown, Running
<1>2. PICK names : /\ page' = Stored(names)
                   /\ \A t \in Modified : names[t] \in BuildColumnsString(tables[t].columns)
  BY DEF Shutdown
<1>3. /\ TypeOK /\ KnownTables = tableIDs /\ DOMAIN Roots = DOMAIN indexIDs
      /\ Roots \in [DOMAIN indexIDs -> PageIDs] /\ PathsHold(page, Roots)
      /\ lossless => AllOwned(page, tableIDs, Roots)
  BY <1>1, RootsWhenRunning
<1>4. TablesHold(page, tableIDs) /\ PagesFit(page)
  BY <1>3 DEF CatalogInv
<1>5. IsFiniteSet(DOMAIN tableIDs) /\ IsFiniteSet(DOMAIN indexIDs)
  BY <1>1, FiniteNames
<1>6. /\ DOMAIN tableIDs \subseteq TableNames /\ tableIDs \in [DOMAIN tableIDs -> PageIDs]
      /\ DOMAIN indexIDs \subseteq IndexNames /\ DOMAIN page \subseteq PageIDs
      /\ \A p \in DOMAIN page : page[p] \in Node \/ page[p] \in TablePage
  BY <1>3 DEF TypeOK
<1>7. KnownTables' = StoredTables /\ KnownIndexes' = StoredIndexes
  BY <1>1 DEF KnownTables, KnownIndexes, StoredTables, StoredIndexes
<1>8. /\ DOMAIN page' = DOMAIN page
      /\ \A p \in DOMAIN page :
            \/ page'[p] = page[p]
            \/ /\ page[p] \in TablePage /\ page'[p] \in TablePage
               /\ Fits(LoadColumnsString(page'[p].columns), page'[p].declared)
  BY <1>1, <1>2, PagesAreStored DEF Stored
<1>9. /\ tablePage' \in Seq(TableNames \X PageIDs) /\ Len(tablePage') <= TableSlots
      /\ indexPage' \in Seq(StoredNames \X PageIDs) /\ Len(indexPage') <= IndexSlots
  <2>1. TableRecords \in Seq(TableNames \X PageIDs)
    BY <1>5, <1>6, TableRecordsList
  <2>2. IndexRecords \in Seq(StoredNames \X PageIDs)
    BY <1>3, <1>5, <1>6, IndexesAreStored
  <2> QED
    BY <1>1, <2>1, <2>2, PagesAssumption, FilledRecords
<1>10. TypeOK'
  <2>1. \A p \in DOMAIN page' : page'[p] \in Node \/ page'[p] \in TablePage
    BY <1>6, <1>8
  <2>2. DOMAIN << >> = {} /\ \A S : << >> \in [{} -> S]
    OBVIOUS
  <2> QED
    BY <1>1, <1>6, <1>8, <1>9, <2>1, <2>2 DEF TypeOK
<1>11. AtRest'
  BY <1>1 DEF AtRest
<1>12. TablesHold(page', StoredTables)
  <2>1. \A u \in DOMAIN StoredTables :
            \E t \in DOMAIN tableIDs : u = Truncated[t] /\ StoredTables[u] = tableIDs[t]
    BY <1>5, <1>6, TablesAreStored
  <2>2. IsInjective(StoredTables)
    BY <1>4, <2>1 DEF TablesHold, IsInjective
  <2>3. \A t \in DOMAIN tableIDs : tableIDs[t] \in DOMAIN page' /\ page'[tableIDs[t]] \in TablePage
    BY <1>4, <1>8 DEF TablesHold
  <2> QED
    BY <2>1, <2>2, <2>3 DEF TablesHold
<1>13. SameNodes(page, page')
  BY <1>8, PageKinds DEF SameNodes, IsNode
<1>14. PathsHold(page', StoredIndexes)
  <2>1. \A u \in DOMAIN StoredIndexes :
            \E a \in DOMAIN Roots : u = TruncatedIndex[a] /\ StoredIndexes[u] = Roots[a]
    BY <1>3, <1>5, <1>6, IndexesAreStored
  <2>2. PathsHold(page, StoredIndexes)
    BY <1>3, <2>1, SomePathsHold
  <2> QED
    BY <1>6, <1>8, <1>13, <2>2, SamePaths
<1>15. PagesFit(page')
  BY <1>4, <1>8 DEF PagesFit
<1>16. ObjectsRight(page', tableIDs', tables') /\ ListsAgree(DOMAIN indexIDs', tableIndexes')
  BY <1>1 DEF ObjectsRight, ListsAgree
<1>17. ASSUME lossless' PROVE AllOwned(page', StoredTables, StoredIndexes)
  <2>1. StoredTables = tableIDs
    BY <1>1, <1>5, <1>6, <1>17, TablesAreStored
  <2>2. StoredIndexes = Roots
    BY <1>1, <1>3, <1>5, <1>6, <1>17, IndexesAreStored
  <2>3. Owned(page', Roots) = Owned(page, Roots)
    BY <1>3, <1>6, <1>8, <1>13, SamePaths
  <2> QED
    BY <1>1, <1>3, <1>8, <1>17, <2>1, <2>2, <2>3 DEF AllOwned
<1> QED
  BY <1>7, <1>10, <1>11, <1>12, <1>14, <1>15, <1>16, <1>17 DEF CatalogInv

LEMMA NextInv == ASSUME CatalogInv, [Next]_vars PROVE CatalogInv'
<1>1. CASE InitFiles
  BY <1>1, InitFilesInv
<1>2. CASE ClearFiles
  BY <1>2, ClearFilesInv
<1>3. CASE Open
  BY <1>3, OpenInv
<1>4. CASE Shutdown
  BY <1>4, ShutdownInv
<1>5. CASE ShowIndexes
  BY <1>5, ShowIndexesInv
<1>6. ASSUME NEW t \in TableNames, NEW schema \in Schemas, NEW useTxn \in BOOLEAN,
             CreateTable(t, schema, useTxn)
      PROVE  CatalogInv'
  BY <1>6, CreateTableInv
<1>7. ASSUME NEW t \in TableNames, DropTable(t) \/ SetTailID(t) PROVE CatalogInv'
  BY <1>7, DropTableInv, SetTailIDInv
<1>8. ASSUME NEW t \in TableNames, NEW c \in ColumnNames,
             LookUp(t, c) \/ CreateIndex(t, c) \/ MoveRoot(t, c)
      PROVE  CatalogInv'
  BY <1>8, LookUpInv, CreateIndexInv, MoveRootInv
<1>9. ASSUME NEW t \in TableNames, NEW c \in ColumnNames, NEW hasRows \in BOOLEAN,
             DropIndex(t, c, hasRows)
      PROVE  CatalogInv'
  BY <1>9, DropIndexInv
<1>10. CASE UNCHANGED vars
  <2>1. /\ phase' = phase /\ page' = page /\ tablePage' = tablePage /\ indexPage' = indexPage
        /\ lossless' = lossless /\ tableIDs' = tableIDs /\ tables' = tables
        /\ indexIDs' = indexIDs /\ indexes' = indexes /\ tableIndexes' = tableIndexes
    BY <1>10 DEF vars, stored
  <2>2. KnownTables' = KnownTables /\ KnownIndexes' = KnownIndexes
    BY <2>1 DEF KnownTables, KnownIndexes, GetIndex
  <2> QED
    BY <2>1, <2>2 DEF CatalogInv, TypeOK, AtRest
<1> QED
  BY <1>1, <1>2, <1>3, <1>4, <1>5, <1>6, <1>7, <1>8, <1>9, <1>10 DEF Next

(* The invariant holds in every state. *)
THEOREM CatalogInvariant == Spec => []CatalogInv
<1>1. Init => CatalogInv
  BY InitInv
<1>2. CatalogInv /\ [Next]_vars => CatalogInv'
  BY NextInv
<1> QED
  BY <1>1, <1>2, PTL DEF Spec

(* Every map, list, object and page keeps its type, and a catalog page     *)
(* never takes more records than it has room for (Catalog).                *)
THEOREM CatalogIsTyped == Spec => []TypeOK
<1>1. CatalogInv => TypeOK
  BY DEF CatalogInv
<1> QED
  BY <1>1, CatalogInvariant, PTL

(* Through creations, drops, splits of roots, full catalog pages, cut      *)
(* names and restarts, a name leads to a page in use, of its kind, and     *)
(* shares no page with another name (TableManager, IndexManager).          *)
THEOREM NamesKeepTheirPages == Spec => []NamesLeadToTheirPages
<1>1. CatalogInv => NamesLeadToTheirPages
  <2> SUFFICES ASSUME CatalogInv PROVE NamesLeadToTheirPages
    OBVIOUS
  <2>1. TablesHold(page, KnownTables) /\ PathsHold(page, KnownIndexes)
    BY DEF CatalogInv
  <2>2. \A t \in DOMAIN tables : t \in DOMAIN KnownTables => tables[t].id = KnownTables[t]
    <3>1. CASE phase = "closed"
      BY <3>1 DEF CatalogInv, AtRest
    <3>2. CASE phase # "closed"
      BY <3>2 DEF CatalogInv, ObjectsRight, ObjectRight, KnownTables
    <3> QED
      BY <3>1, <3>2
  <2>3. ASSUME NEW t \in DOMAIN KnownTables
        PROVE  /\ KnownTables[t] \in DOMAIN page /\ "declared" \in DOMAIN page[KnownTables[t]]
               /\ \A u \in DOMAIN KnownTables \ {t} : KnownTables[u] # KnownTables[t]
    BY <2>1, PageKinds DEF TablesHold, IsInjective
  <2>4. ASSUME NEW a \in DOMAIN KnownIndexes
        PROVE  /\ \A p \in Tree(page, KnownIndexes[a]) : IsNode(page, p)
               /\ \A b \in DOMAIN KnownIndexes \ {a} :
                    Tree(page, KnownIndexes[a]) \intersect Tree(page, KnownIndexes[b]) = {}
    BY <2>1, TreesAreNodes, TreesAreApart
  <2> QED
    BY <2>2, <2>3, <2>4 DEF NamesLeadToTheirPages
<1> QED
  BY <1>1, CatalogInvariant, PTL

(* The two records of which indexes a table has, the map of the names and  *)
(* the list of the table, agree whenever an Instance runs (IndexManager).  *)
THEOREM ListsAgreeWithNames == Spec => []IndexListsAgree
<1>1. CatalogInv => IndexListsAgree
  BY DEF CatalogInv, ListsAgree, IndexListsAgree
<1> QED
  BY <1>1, CatalogInvariant, PTL

(* Unless a shutdown has met a full catalog page or a name that is cut,    *)
(* every used page belongs to a name, and every index to a table.          *)
THEOREM PagesBelongToNames == Spec => []NothingIsLost
<1>1. CatalogInv => NothingIsLost
  BY DEF CatalogInv, AllOwned, Owned, NothingIsLost
<1> QED
  BY <1>1, CatalogInvariant, PTL

(* Look-ups of names that are no columns, and the lists of names that are  *)
(* written and read back after them, never exchange two declared columns   *)
(* (TablePage::GetPos, BuildColumnsString).                                *)
THEOREM ColumnsStayInOrder == Spec => []ColumnsKeepTheirOrder
<1>1. CatalogInv => ColumnsKeepTheirOrder
  <2> SUFFICES ASSUME CatalogInv PROVE ColumnsKeepTheirOrder
    OBVIOUS
  <2>1. ASSUME NEW t \in DOMAIN tableIDs
        PROVE  Fits(GetTable(t).columns, page[tableIDs[t]].declared)
    BY GetTableIsRight DEF Exists, ObjectRight
  <2> QED
    BY <2>1 DEF ColumnsKeepTheirOrder, Fits
<1> QED
  BY <1>1, CatalogInvariant, PTL

(* A shutdown that is followed by a start, and a start, keep the names     *)
(* that the catalog pages have room for and that are not cut, under their  *)
(* ids and roots (TableManager::Store, IndexManager::Store and Load).      *)
THEOREM NamesSurviveRestarts == Spec => RestartsKeepNames
<1> DEFINE Kept ==
        /\ \A t \in DOMAIN KnownTables :
            (/\ Cardinality({u \in DOMAIN KnownTables : u <= t}) <= TableSlots
             /\ \A u \in DOMAIN KnownTables : u = t <=> Truncated[u] = t)
                => t \in DOMAIN KnownTables' /\ KnownTables'[t] = KnownTables[t]
        /\ \A a \in DOMAIN KnownIndexes :
            (/\ PlaceOf(a, InOrder(DOMAIN KnownIndexes)) <= IndexSlots
             /\ \A b \in DOMAIN KnownIndexes : b = a <=> TruncatedIndex[b] = a)
                => a \in DOMAIN KnownIndexes' /\ KnownIndexes'[a] = KnownIndexes[a]
           Restart == phase' # phase /\ {phase, phase'} = {"open", "closed"}
<1>1. ASSUME CatalogInv, Open, Restart PROVE Kept
  <2>1. phase' = "open"
    BY <1>1 DEF Open
  <2> QED
    BY <1>1, <2>1, OpenedInv
<1>2. ASSUME CatalogInv, Shutdown PROVE Kept
  <2>1. /\ phase = "open" /\ phase' = "closed" /\ Running
        /\ KnownTables' = StoredTables /\ KnownIndexes' = StoredIndexes
    BY <1>2 DEF Shutdown, Running, KnownTables, KnownIndexes, StoredTables, StoredIndexes
  <2>2. /\ KnownTables = tableIDs /\ KnownIndexes = Roots /\ DOMAIN Roots = DOMAIN indexIDs
        /\ Roots \in [DOMAIN indexIDs -> PageIDs] /\ TypeOK
        /\ IsFiniteSet(DOMAIN tableIDs) /\ IsFiniteSet(DOMAIN indexIDs)
    BY <1>2, <2>1, RootsWhenRunning, FiniteNames
  <2>3. /\ DOMAIN tableIDs \subseteq TableNames /\ tableIDs \in [DOMAIN tableIDs -> PageIDs]
        /\ DOMAIN indexIDs \subseteq IndexNames /\ DOMAIN tableIDs \subseteq Nat
    BY <2>2, NamesAssumption DEF TypeOK
  <2>4. ASSUME NEW t \in DOMAIN tableIDs,
               Cardinality({u \in DOMAIN tableIDs : u <= t}) <= TableSlots,
               \A u \in DOMAIN tableIDs : u = t <=> Truncated[u] = t
        PROVE  t \in DOMAIN StoredTables /\ StoredTables[t] = tableIDs[t]
    <3> DEFINE below == {u \in DOMAIN tableIDs : u < t}
    <3>1. IsFiniteSet(below) /\ t \notin below
      <4>1. below \subseteq DOMAIN tableIDs
        OBVIOUS
      <4>2. IsFiniteSet(below)
        <5> HIDE DEF below
        <5> QED
          BY <2>2, <4>1, FS_Subset
      <4>3. t \notin below
        BY <2>3
      <4> QED
        BY <4>2, <4>3
    <3>2. {u \in DOMAIN tableIDs : u <= t} = below \union {t}
      BY <2>3
    <3> HIDE DEF below
    <3>3. Cardinality(below \union {t}) = Cardinality(below) + 1
      BY <3>1, FS_AddElement
    <3>4. Cardinality({u \in DOMAIN tableIDs : u < t}) + 1 <= TableSlots
      BY <2>4, <3>2, <3>3 DEF below
    <3>5. Truncated[t] = t /\ \A u \in DOMAIN tableIDs : Truncated[u] = t => u = t
      BY <2>4
    <3> QED
      BY <2>2, <2>3, <3>4, <3>5, TablesAreStored
  <2>5. ASSUME NEW a \in DOMAIN indexIDs, PlaceOf(a, InOrder(DOMAIN indexIDs)) <= IndexSlots,
               \A b \in DOMAIN indexIDs : b = a <=> TruncatedIndex[b] = a
        PROVE  a \in DOMAIN StoredIndexes /\ StoredIndexes[a] = Roots[a]
    BY <2>2, <2>3, <2>5, IndexesAreStored
  <2>6. \A t \in DOMAIN KnownTables :
            (/\ Cardinality({u \in DOMAIN KnownTables : u <= t}) <= TableSlots
             /\ \A u \in DOMAIN KnownTables : u = t <=> Truncated[u] = t)
                => t \in DOMAIN KnownTables' /\ KnownTables'[t] = KnownTables[t]
    BY <2>1, <2>2, <2>4
  <2>7. \A a \in DOMAIN KnownIndexes :
            (/\ PlaceOf(a, InOrder(DOMAIN KnownIndexes)) <= IndexSlots
             /\ \A b \in DOMAIN KnownIndexes : b = a <=> TruncatedIndex[b] = a)
                => a \in DOMAIN KnownIndexes' /\ KnownIndexes'[a] = KnownIndexes[a]
    BY <2>1, <2>2, <2>5
  <2> QED
    BY <2>6, <2>7
<1> HIDE DEF Kept
<1>3. ASSUME [Next]_vars, Restart PROVE Open \/ Shutdown
  <2>1. phase \in {"open", "closed"} /\ phase' \in {"open", "closed"} /\ phase' # phase
    BY <1>3
  <2>2. CASE UNCHANGED vars
    BY <2>1, <2>2 DEF vars
  <2>3. CASE InitFiles \/ ClearFiles \/ ShowIndexes
    BY <2>1, <2>3 DEF InitFiles, ClearFiles, ShowIndexes
  <2>4. ASSUME NEW t \in TableNames, NEW schema \in Schemas, NEW useTxn \in BOOLEAN,
               CreateTable(t, schema, useTxn)
        PROVE  FALSE
    BY <2>1, <2>4 DEF CreateTable
  <2>5. ASSUME NEW t \in TableNames, DropTable(t) \/ SetTailID(t) PROVE FALSE
    BY <2>1, <2>5 DEF DropTable, SetTailID
  <2>6. ASSUME NEW t \in TableNames, NEW c \in ColumnNames,
               LookUp(t, c) \/ CreateIndex(t, c) \/ MoveRoot(t, c)
        PROVE  FALSE
    BY <2>1, <2>6 DEF LookUp, CreateIndex, MoveRoot
  <2>7. ASSUME NEW t \in TableNames, NEW c \in ColumnNames, NEW hasRows \in BOOLEAN,
               DropIndex(t, c, hasRows)
        PROVE  FALSE
    BY <2>1, <2>7 DEF DropIndex, Running
  <2> QED
    BY <1>3, <2>2, <2>3, <2>4, <2>5, <2>6, <2>7 DEF Next
<1>4. CatalogInv /\ [Next]_vars => [Restart => Kept]_vars
  BY <1>1, <1>2, <1>3
<1>5. Spec => [][Restart => Kept]_vars
  <2> HIDE DEF Restart
  <2> QED
    BY <1>4, CatalogInvariant, PTL DEF Spec
<1> QED
  BY <1>5, PTL DEF RestartsKeepNames, Kept
====
