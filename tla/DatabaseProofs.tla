--------------------------- MODULE DatabaseProofs ---------------------------
(***************************************************************************)
(* Instance for any tables, columns, clients and numbers: comparisons are  *)
(* exact, rows, entries and searches stay together while transactions      *)
(* insert and abort, and the lines of SQL of a client change and answer    *)
(* what they say.                                                          *)
(***************************************************************************)
EXTENDS Sessions, Query, SequenceTheorems, OrderProofs

-----------------------------------------------------------------------------
(* What WHERE makes of a comparison is exact for every int that is not one *)
(* of the bounds, whatever the width of int and the grain of double.       *)

(* An interval of doubles, as range_condition.cc:20-22 and                 *)
(* index_condition.cc:12-13 cut it for ints, keeps the ints it held.       *)
LEMMA BoundsKeepTheirInts ==
    ASSUME NEW x \in PlainInts, NEW bound \in Numbers,
           MinInt <= ceil(bound), ceil(bound) <= MaxInt
    PROVE  /\ IntMin(bound) <= x <=> AtMost(bound, Whole(x))
           /\ x < IntMax(bound) <=> Below(Whole(x), bound)
BY UnitAssumption, IntAssumption
   DEF PlainInts, Numbers, ceil, IntMin, IntMax, ToInt, AtMost, Below, Whole

(* DBL_MAX stands for no upper bound, and the ints reach up to INT32_MAX.  *)
LEMMA NoUpperBound == ASSUME NEW x \in PlainInts PROVE x < IntMax(DBL_MAX)
BY IntAssumption DEF PlainInts, IntMax, DBL_MAX, Below, Whole

(* DBL_MIN is the least number above 0: positive ints are not below it.    *)
LEMMA PositiveBound == ASSUME NEW x \in PlainInts PROVE IntMin(DBL_MIN) <= x
BY IntAssumption DEF PlainInts, IntMin, ToInt, ceil, DBL_MIN, Below, Whole

(* v + EPOSILO is a number that no other int has passed since v.           *)
LEMMA EpsilonIsSmall ==
    ASSUME NEW x \in PlainInts, NEW v \in PlainLiterals
    PROVE  /\ PlusEpsilon(v) \in Numbers
           /\ MinInt <= ceil(PlusEpsilon(v)) /\ ceil(PlusEpsilon(v)) <= MaxInt
           /\ Below(Whole(x), PlusEpsilon(v)) <=> AtMost(Whole(x), v)
           /\ AtMost(PlusEpsilon(v), Whole(x)) <=> Below(v, Whole(x))
<1>1. PICK n \in MinInt..MaxInt-1, p \in 0..Unit-Epsilon : v = <<n, p>>
  BY DEF PlainLiterals
<1>2. CASE p + Epsilon < Unit
  BY <1>1, <1>2, UnitAssumption, IntAssumption
     DEF PlainInts, PlusEpsilon, Numbers, ceil, AtMost, Below, Whole
<1>3. CASE p + Epsilon = Unit
  BY <1>1, <1>3, UnitAssumption, IntAssumption
     DEF PlainInts, PlusEpsilon, Numbers, ceil, AtMost, Below, Whole
<1> QED BY <1>2, <1>3, UnitAssumption, IntAssumption

LEMMA LiteralsAreNumbers ==
    ASSUME NEW v \in PlainLiterals
    PROVE  v \in Numbers /\ MinInt <= ceil(v) /\ ceil(v) <= MaxInt
BY UnitAssumption, IntAssumption DEF PlainLiterals, Numbers, ceil

(* The interval of an operator other than <> holds the ints that compare.  *)
LEMMA IntervalsAreExact ==
    ASSUME NEW x \in PlainInts, NEW v \in PlainLiterals, NEW operate \in Operators \ {"<>"}
    PROVE  (IntMin(LowOf(operate, v)) <= x /\ x < IntMax(HighOf(operate, v)))
               <=> Compares(Whole(x), operate, v)
<1>1. CASE operate = "<"
  BY <1>1, BoundsKeepTheirInts, PositiveBound, LiteralsAreNumbers DEF LowOf, HighOf, Compares
<1>2. CASE operate = "<="
  BY <1>2, BoundsKeepTheirInts, PositiveBound, EpsilonIsSmall DEF LowOf, HighOf, Compares
<1>3. CASE operate = "="
  <2>1. AtMost(v, Whole(x)) /\ AtMost(Whole(x), v) <=> Whole(x) = v
    BY UnitAssumption, IntAssumption DEF AtMost, Below, Whole, PlainInts, PlainLiterals
  <2> QED
    BY <1>3, <2>1, BoundsKeepTheirInts, LiteralsAreNumbers, EpsilonIsSmall DEF LowOf, HighOf, Compares
<1>4. CASE operate = ">="
  BY <1>4, BoundsKeepTheirInts, NoUpperBound, LiteralsAreNumbers DEF LowOf, HighOf, Compares
<1>5. CASE operate = ">"
  BY <1>5, BoundsKeepTheirInts, NoUpperBound, EpsilonIsSmall DEF LowOf, HighOf, Compares
<1> QED BY <1>1, <1>2, <1>3, <1>4, <1>5 DEF Operators

(* A comparison with a literal selects the ints that SQL's operator        *)
(* selects, by a scan and by an index.                                     *)
THEOREM IntsCompareAsSQLSays == \A x \in PlainInts : ComparesLikeSQL(x)
<1> SUFFICES ASSUME NEW x \in PlainInts, NEW v \in PlainLiterals, NEW operate \in Operators
             PROVE  LET row   == <<Field("INT", Whole(x))>>
                        index == IndexedComparison(1, 1, 1, "INT", operate, v)
                    IN  /\ Match(Comparison(1, operate, v), row) <=> Compares(Whole(x), operate, v)
                        /\ operate # "<>" =>
                              (InRange(row[1], index.low, index.high)
                                  <=> Compares(Whole(x), operate, v))
  BY DEF ComparesLikeSQL
<1> DEFINE row == <<Field("INT", Whole(x))>>
           index == IndexedComparison(1, 1, 1, "INT", operate, v)
<1>1. row[1] = <<"INT", x, 0>>
  BY DEF Field, Whole
<1>2. ASSUME NEW low, NEW high
      PROVE  RangeMatches(RangeCondition(1, low, high), row) <=> IntMin(low) <= x /\ x < IntMax(high)
  BY <1>1 DEF RangeMatches, RangeCondition, TypeOf
<1>3. Match(Comparison(1, operate, v), row) <=> Compares(Whole(x), operate, v)
  <2>1. CASE operate = "<>"
    <3>1. LowOf("<>", v) = LowOf("=", v) /\ HighOf("<>", v) = HighOf("=", v)
      BY DEF LowOf, HighOf
    <3>2. (IntMin(LowOf("<>", v)) <= x /\ x < IntMax(HighOf("<>", v))) <=> Compares(Whole(x), "=", v)
      BY <3>1, IntervalsAreExact DEF Operators
    <3>3. Compares(Whole(x), "<>", v) <=> ~Compares(Whole(x), "=", v)
      BY DEF Compares
    <3> QED BY <1>2, <2>1, <3>2, <3>3 DEF Match, Comparison, NotCondition
  <2>2. CASE operate # "<>"
    <3>1. Match(Comparison(1, operate, v), row)
             <=> RangeMatches(RangeCondition(1, LowOf(operate, v), HighOf(operate, v)), row)
      BY <2>2 DEF Match, Comparison, RangeCondition
    <3> QED BY <1>2, <2>2, <3>1, IntervalsAreExact
  <2> QED BY <2>1, <2>2
<1>4. ASSUME operate # "<>"
      PROVE  InRange(row[1], index.low, index.high) <=> Compares(Whole(x), operate, v)
  <2>1. /\ index.low = Field("INT", Whole(IntMin(LowOf(operate, v))))
        /\ index.high = Field("INT", Whole(IntMax(HighOf(operate, v))))
    BY <1>4 DEF IndexedComparison, IndexCondition
  <2>2. /\ NumberOf(index.low) = <<IntMin(LowOf(operate, v)), 0>>
        /\ NumberOf(index.high) = <<IntMax(HighOf(operate, v)), 0>>
        /\ NumberOf(row[1]) = <<x, 0>>
    BY <1>1, <2>1 DEF NumberOf, Field, Whole
  <2>3. IntMin(LowOf(operate, v)) \in Int /\ IntMax(HighOf(operate, v)) \in Int
    <3>1. ASSUME NEW number \in Numbers PROVE IntMin(number) \in Int /\ IntMax(number) \in Int
      BY IntAssumption DEF IntMin, IntMax, ToInt, Numbers, ceil
    <3>2. DBL_MIN \in Numbers /\ DBL_MAX \in Numbers
      BY UnitAssumption, IntAssumption DEF DBL_MIN, DBL_MAX, Numbers
    <3> QED
      BY <3>1, <3>2, LiteralsAreNumbers, EpsilonIsSmall DEF LowOf, HighOf, Operators
  <2>4. InRange(row[1], index.low, index.high)
           <=> (IntMin(LowOf(operate, v)) <= x /\ x < IntMax(HighOf(operate, v)))
    <3> HIDE DEF row, index
    <3> QED BY <2>2, <2>3 DEF InRange, AtMost, Below, PlainInts
  <2> QED BY <1>4, <2>4, IntervalsAreExact
<1> QED BY <1>3, <1>4

(* Whatever the statements of the lines do to the tables, each int that a  *)
(* row holds is selected by the comparisons that SQL says                  *)
(* (SystemVisitor.cc:318-374).                                             *)
THEOREM RowsCompareAsSQLSays == SpecQuery => []RowsCompareLikeSQL
<1>1. RowsCompareLikeSQL
  BY IntsCompareAsSQLSays DEF RowsCompareLikeSQL, IntsLikeSQL
<1> QED
  BY <1>1, PTL

-----------------------------------------------------------------------------
(* Loops: the states between the iterations are a function of their number. *)

LEMMA DeletionRuns ==
    ASSUME NEW q, Len(q) \in Nat
    PROVE  \E after :
              /\ after = [i \in 0..Len(q) |-> IF i = 0 THEN Now ELSE DeleteRow(after[i-1], q[i])]
              /\ AllDeleted(q) = after[Len(q)]
<1> DEFINE Runs(f, m) == f = [i \in 0..m |-> IF i = 0 THEN Now ELSE DeleteRow(f[i-1], q[i])]
           K == {m \in 0..Len(q) : \E f : Runs(f, m)}
<1>1. 0 \in K
  <2>1. Runs([i \in 0..0 |-> Now], 0)
    OBVIOUS
  <2>2. 0 \in 0..Len(q)
    OBVIOUS
  <2> HIDE DEF Runs
  <2> QED
    BY <2>1, <2>2
<1>2. ASSUME NEW k \in 0..Len(q)-1, k \in K PROVE k + 1 \in K
  <2>1. PICK f : Runs(f, k)
    BY <1>2
  <2> DEFINE g == [i \in 0..k+1 |-> IF i = k + 1 THEN DeleteRow(f[k], q[k+1]) ELSE f[i]]
  <2>2. \A i \in 0..k+1 : i # k + 1 => g[i] = f[i] /\ i \in 0..k
    OBVIOUS
  <2>3. ASSUME NEW i \in 0..k+1
        PROVE  g[i] = IF i = 0 THEN Now ELSE DeleteRow(g[i-1], q[i])
    <3>1. i # 0 => i - 1 \in 0..k+1 /\ i - 1 # k + 1
      OBVIOUS
    <3>2. CASE i = k + 1
      BY <2>2, <3>1, <3>2
    <3>3. CASE i # k + 1
      BY <2>1, <2>2, <3>1, <3>3
    <3> QED
      BY <3>2, <3>3
  <2>4. g = [i \in 0..k+1 |-> g[i]]
    OBVIOUS
  <2> HIDE DEF g
  <2>5. Runs(g, k + 1)
    BY <2>3, <2>4
  <2> QED
    BY <2>5
<1>3. K = 0..Len(q)
  <2>1. K \in SUBSET (0..Len(q))
    OBVIOUS
  <2> HIDE DEF K, Runs
  <2> QED
    BY <1>1, <1>2, <2>1, InductionUpTo
<1>4. Runs(CHOOSE f : Runs(f, Len(q)), Len(q))
  <2> HIDE DEF Runs
  <2>1. \E f : Runs(f, Len(q))
    BY <1>3
  <2> QED
    BY <2>1
<1>5. AllDeleted(q) = (CHOOSE f : Runs(f, Len(q)))[Len(q)]
  BY DEF AllDeleted, Loop
<1> QED
  BY <1>4, <1>5

LEMMA UpdateRuns ==
    ASSUME NEW trans, NEW q, Len(q) \in Nat
    PROVE  \E after :
              /\ after = [i \in 0..Len(q) |-> IF i = 0 THEN Now ELSE UpdateRow(after[i-1], q[i], trans)]
              /\ AllUpdated(q, trans) = after[Len(q)]
<1> DEFINE Runs(f, m) == f = [i \in 0..m |-> IF i = 0 THEN Now ELSE UpdateRow(f[i-1], q[i], trans)]
           K == {m \in 0..Len(q) : \E f : Runs(f, m)}
<1>1. 0 \in K
  <2>1. Runs([i \in 0..0 |-> Now], 0)
    OBVIOUS
  <2>2. 0 \in 0..Len(q)
    OBVIOUS
  <2> HIDE DEF Runs
  <2> QED
    BY <2>1, <2>2
<1>2. ASSUME NEW k \in 0..Len(q)-1, k \in K PROVE k + 1 \in K
  <2>1. PICK f : Runs(f, k)
    BY <1>2
  <2> DEFINE g == [i \in 0..k+1 |-> IF i = k + 1 THEN UpdateRow(f[k], q[k+1], trans) ELSE f[i]]
  <2>2. \A i \in 0..k+1 : i # k + 1 => g[i] = f[i] /\ i \in 0..k
    OBVIOUS
  <2>3. ASSUME NEW i \in 0..k+1
        PROVE  g[i] = IF i = 0 THEN Now ELSE UpdateRow(g[i-1], q[i], trans)
    <3>1. i # 0 => i - 1 \in 0..k+1 /\ i - 1 # k + 1
      OBVIOUS
    <3>2. CASE i = k + 1
      BY <2>2, <3>1, <3>2
    <3>3. CASE i # k + 1
      BY <2>1, <2>2, <3>1, <3>3
    <3> QED
      BY <3>2, <3>3
  <2>4. g = [i \in 0..k+1 |-> g[i]]
    OBVIOUS
  <2> HIDE DEF g
  <2>5. Runs(g, k + 1)
    BY <2>3, <2>4
  <2> QED
    BY <2>5
<1>3. K = 0..Len(q)
  <2>1. K \in SUBSET (0..Len(q))
    OBVIOUS
  <2> HIDE DEF K, Runs
  <2> QED
    BY <1>1, <1>2, <2>1, InductionUpTo
<1>4. Runs(CHOOSE f : Runs(f, Len(q)), Len(q))
  <2> HIDE DEF Runs
  <2>1. \E f : Runs(f, Len(q))
    BY <1>3
  <2> QED
    BY <2>1
<1>5. AllUpdated(q, trans) = (CHOOSE f : Runs(f, Len(q)))[Len(q)]
  BY DEF AllUpdated, Loop
<1> QED
  BY <1>4, <1>5

-----------------------------------------------------------------------------
(* Entries *)

(* One copy of an entry is taken out of an index, or put into it.          *)
LEMMA Taken ==
    ASSUME NEW B, IsABag(B), NEW f, NEW C, C = B (-) SetToBag({f})
    PROVE  /\ IsABag(C)
           /\ DOMAIN C \subseteq DOMAIN B
           /\ \A g \in DOMAIN B : g # f => g \in DOMAIN C /\ C[g] = B[g]
           /\ f \in DOMAIN C <=> f \in DOMAIN B /\ B[f] > 1
           /\ f \in DOMAIN C => C[f] = B[f] - 1
<1>1. \A g \in DOMAIN B : B[g] \in Nat /\ B[g] > 0
  BY DEF IsABag
<1> DEFINE left == [g \in DOMAIN B |-> IF g = f THEN B[g] - 1 ELSE B[g]]
<1>2. C = [g \in {h \in DOMAIN left : left[h] > 0} |-> left[g]]
  BY DEF (-), SetToBag
<1>3. \A g \in DOMAIN B : left[g] \in Int /\ (left[g] > 0 <=> g # f \/ B[g] > 1)
  BY <1>1
<1>4. \A g : g \in DOMAIN C <=> g \in DOMAIN B /\ (g # f \/ B[g] > 1)
  BY <1>2, <1>3
<1>5. \A g \in DOMAIN C : C[g] = IF g = f THEN B[g] - 1 ELSE B[g]
  BY <1>2
<1>6. IsABag(C)
  <2>1. ASSUME NEW g \in DOMAIN C PROVE C[g] \in {n \in Nat : n > 0}
    <3>1. g \in DOMAIN B /\ (g # f \/ B[g] > 1) /\ B[g] \in Nat /\ B[g] > 0
      BY <1>1, <1>4
    <3>2. C[g] = IF g = f THEN B[g] - 1 ELSE B[g]
      BY <1>5
    <3> QED
      BY <3>1, <3>2
  <2>2. C = [g \in DOMAIN C |-> C[g]]
    BY <1>2
  <2> QED
    BY <2>1, <2>2 DEF IsABag
<1> QED
  BY <1>4, <1>5, <1>6

LEMMA Added ==
    ASSUME NEW B, IsABag(B), NEW f, NEW C, C = B (+) SetToBag({f})
    PROVE  /\ IsABag(C)
           /\ DOMAIN C = DOMAIN B \union {f}
           /\ \A g \in DOMAIN B : g # f => C[g] = B[g]
           /\ C[f] > 1 => f \in DOMAIN B
<1>1. \A g \in DOMAIN B : B[g] \in Nat /\ B[g] > 0
  BY DEF IsABag
<1>2. C = [g \in DOMAIN B \union {f} |->
              (IF g \in DOMAIN B THEN B[g] ELSE 0) + (IF g \in {f} THEN 1 ELSE 0)]
  BY DEF (+), SetToBag
<1>3. DOMAIN C = DOMAIN B \union {f}
  BY <1>2
<1>4. ASSUME NEW g \in DOMAIN B, g # f PROVE C[g] = B[g]
  <2>1. C[g] = B[g] + 0
    BY <1>2, <1>4
  <2> QED
    BY <1>1, <2>1
<1>5. C[f] = IF f \in DOMAIN B THEN B[f] + 1 ELSE 1
  <2>1. C[f] = (IF f \in DOMAIN B THEN B[f] ELSE 0) + 1
    BY <1>2
  <2> QED
    BY <1>1, <2>1
<1>6. \A g \in DOMAIN C : C[g] \in {n \in Nat : n > 0}
  BY <1>1, <1>3, <1>4, <1>5
<1>7. IsABag(C)
  <2>1. C = [g \in DOMAIN C |-> C[g]]
    BY <1>2
  <2> QED
    BY <1>6, <2>1 DEF IsABag
<1>8. C[f] > 1 => f \in DOMAIN B
  BY <1>5
<1> QED
  BY <1>3, <1>4, <1>7, <1>8

(* What the index i of the tables r and e should hold; what it lacks, and  *)
(* what it holds beyond that.                                              *)
DueSet(r, i) == {Entry(i, r[l], l) : l \in {m \in LocationsOf(i[1]) : r[m] # NoRow}}
Lacks(r, e, i, f) == f \in DueSet(r, i) /\ f \notin DOMAIN e[i]
Exceeds(r, e, i, f) == f \in DOMAIN e[i] /\ (f \in DueSet(r, i) => e[i][f] > 1)

MissingOf(r, e) ==
    UNION {{<<i, f>> : f \in DOMAIN (SetToBag(DueSet(r, i)) (-) e[i])} : i \in DOMAIN e}
StaleOf(r, e) ==
    UNION {{<<i, f>> : f \in DOMAIN (e[i] (-) SetToBag(DueSet(r, i)))} : i \in DOMAIN e}

BagsIn(e) == \A i \in DOMAIN e : IsABag(e[i])

LEMMA WhatIsMissing == Missing = MissingOf(rows, entries) /\ Stale = StaleOf(rows, entries)
  BY DEF Missing, Stale, MissingOf, StaleOf, Due, Indexed, DueSet, Entry

LEMMA WhatIsMissingNext ==
    Missing' = MissingOf(rows', entries') /\ Stale' = StaleOf(rows', entries')
  BY DEF Missing, Stale, MissingOf, StaleOf, Due, Indexed, DueSet, Entry

LEMMA MissingIsLacked ==
    ASSUME NEW r, NEW e, BagsIn(e)
    PROVE  /\ \A p : p \in MissingOf(r, e) <=> \E i \in DOMAIN e : \E f : p = <<i, f>> /\ Lacks(r, e, i, f)
           /\ \A p : p \in StaleOf(r, e) <=> \E i \in DOMAIN e : \E f : p = <<i, f>> /\ Exceeds(r, e, i, f)
<1> SUFFICES ASSUME NEW i \in DOMAIN e
             PROVE  \A f : /\ f \in DOMAIN (SetToBag(DueSet(r, i)) (-) e[i]) <=> Lacks(r, e, i, f)
                           /\ f \in DOMAIN (e[i] (-) SetToBag(DueSet(r, i))) <=> Exceeds(r, e, i, f)
  BY DEF MissingOf, StaleOf
<1> DEFINE B == e[i]
           D == DueSet(r, i)
<1>1. \A g \in DOMAIN B : B[g] \in Nat /\ B[g] > 0
  BY DEF IsABag, BagsIn
<1> HIDE DEF B, D
<1>2. \A f : f \in DOMAIN (SetToBag(D) (-) B) <=> f \in D /\ f \notin DOMAIN B
  <2> DEFINE left == [g \in D |-> IF g \in DOMAIN B THEN 1 - B[g] ELSE 1]
  <2>1. SetToBag(D) (-) B = [g \in {h \in DOMAIN left : left[h] > 0} |-> left[g]]
    BY DEF (-), SetToBag
  <2>2. \A g \in D : left[g] > 0 <=> g \notin DOMAIN B
    BY <1>1
  <2> QED
    BY <2>1, <2>2
<1>3. \A f : f \in DOMAIN (B (-) SetToBag(D)) <=> f \in DOMAIN B /\ (f \in D => B[f] > 1)
  <2> DEFINE left == [g \in DOMAIN B |-> IF g \in D THEN B[g] - 1 ELSE B[g]]
  <2>1. B (-) SetToBag(D) = [g \in {h \in DOMAIN left : left[h] > 0} |-> left[g]]
    BY DEF (-), SetToBag
  <2>2. \A g \in DOMAIN B : left[g] > 0 <=> (g \in D => B[g] > 1)
    BY <1>1
  <2> QED
    BY <2>1, <2>2
<1> QED
  BY <1>2, <1>3 DEF Lacks, Exceeds, B, D

(* From the tables r and e to r2 and e2 no index has lost an entry of a    *)
(* row, or got one too many.                                               *)
NoneLost(r, e, r2, e2) ==
    \A i \in DOMAIN e2 : \A f : Lacks(r2, e2, i, f) => i \in DOMAIN e /\ Lacks(r, e, i, f)
NoneLeft(r, e, r2, e2) ==
    \A i \in DOMAIN e2 : \A f : Exceeds(r2, e2, i, f) => i \in DOMAIN e /\ Exceeds(r, e, i, f)

LEMMA NoneIsNew ==
    ASSUME NEW r, NEW e, NEW r2, NEW e2, BagsIn(e), BagsIn(e2)
    PROVE  /\ NoneLost(r, e, r2, e2) => MissingOf(r2, e2) \subseteq MissingOf(r, e)
           /\ NoneLeft(r, e, r2, e2) => StaleOf(r2, e2) \subseteq StaleOf(r, e)
  BY MissingIsLacked DEF NoneLost, NoneLeft

LEMMA IsDue ==
    ASSUME NEW r, NEW i, NEW f
    PROVE  f \in DueSet(r, i) <=>
              \E l \in Slots : l[1] = i[1] /\ r[l] # NoRow /\ f = Entry(i, r[l], l) /\ f[2] = l
  BY DEF DueSet, Entry, LocationsOf, TableOf

(* A row and its entries go.  What the entries alone leave behind is what  *)
(* an Update leaves that throws.                                           *)
LEMMA RowGoes ==
    ASSUME NEW r, NEW e, NEW loc \in Slots, NEW row, NEW r2, NEW e2, BagsIn(e),
           r = [l \in Slots |-> r[l]], row = r[loc], row # NoRow,
           r2 = [r EXCEPT ![loc] = NoRow],
           e2 = [i \in DOMAIN e |->
                    IF i[1] = loc[1] THEN e[i] (-) SetToBag({Entry(i, row, loc)}) ELSE e[i]]
    PROVE  /\ BagsIn(e2) /\ \A i \in DOMAIN e : DOMAIN e2[i] \subseteq DOMAIN e[i]
           /\ NoneLost(r, e, r2, e2) /\ NoneLeft(r, e, r2, e2) /\ NoneLeft(r, e, r, e2)
<1>1. \A i \in DOMAIN e : IsABag(e[i])
  BY DEF BagsIn
<1>2. \A l \in Slots : r2[l] = IF l = loc THEN NoRow ELSE r[l]
  OBVIOUS
<1>3. DOMAIN e2 = DOMAIN e
  OBVIOUS
<1>4. ASSUME NEW i \in DOMAIN e
      PROVE  /\ IsABag(e2[i]) /\ DOMAIN e2[i] \subseteq DOMAIN e[i]
             /\ \A f : Lacks(r2, e2, i, f) => Lacks(r, e, i, f)
             /\ \A f : Exceeds(r2, e2, i, f) => Exceeds(r, e, i, f)
             /\ \A f : Exceeds(r, e2, i, f) => Exceeds(r, e, i, f)
  <2> DEFINE g == Entry(i, row, loc)
  <2>1. CASE i[1] # loc[1]
    <3>1. e2[i] = e[i]
      BY <2>1
    <3>2. \A f : f \in DueSet(r2, i) <=> f \in DueSet(r, i)
      <4>1. \A l \in Slots : l[1] = i[1] => r2[l] = r[l]
        BY <1>2, <2>1
      <4> QED
        BY <4>1, IsDue
    <3> QED
      BY <1>1, <3>1, <3>2 DEF Lacks, Exceeds
  <2>2. CASE i[1] = loc[1]
    <3>1. e2[i] = e[i] (-) SetToBag({g})
      BY <2>2
    <3>2. /\ IsABag(e2[i])
          /\ DOMAIN e2[i] \subseteq DOMAIN e[i]
          /\ \A f \in DOMAIN e[i] : f # g => f \in DOMAIN e2[i] /\ e2[i][f] = e[i][f]
          /\ g \in DOMAIN e2[i] => e[i][g] > 1
      <4> HIDE DEF g
      <4> QED
        BY <1>1, <3>1, Taken
    <3>3. g[2] = loc /\ \A f : f \in DueSet(r2, i) <=> f \in DueSet(r, i) /\ f # g
      <4>1. g[2] = loc
        BY DEF Entry
      <4>2. \A f : f \in DueSet(r, i) /\ f[2] = loc => f = g
        BY IsDue
      <4> HIDE DEF g
      <4> QED
        BY <1>2, <4>1, <4>2, IsDue
    <3> HIDE DEF g
    <3>4. \A f : Lacks(r2, e2, i, f) => Lacks(r, e, i, f)
      BY <3>2, <3>3 DEF Lacks
    <3>5. \A f : Exceeds(r2, e2, i, f) => Exceeds(r, e, i, f)
      BY <3>2, <3>3 DEF Exceeds
    <3>6. \A f : Exceeds(r, e2, i, f) => Exceeds(r, e, i, f)
      BY <3>2, <3>3 DEF Exceeds
    <3> QED
      BY <3>2, <3>4, <3>5, <3>6
  <2> QED
    BY <2>1, <2>2
<1> HIDE DEF BagsIn
<1>5. BagsIn(e2)
  BY <1>3, <1>4 DEF BagsIn
<1> QED
  BY <1>3, <1>4, <1>5 DEF NoneLost, NoneLeft

(* A row and its entries come to a free location.                          *)
LEMMA RowComes ==
    ASSUME NEW r, NEW e, NEW loc \in Slots, NEW row, NEW r2, NEW e2, BagsIn(e),
           r = [l \in Slots |-> r[l]], r[loc] = NoRow, row # NoRow,
           r2 = [r EXCEPT ![loc] = row],
           e2 = [i \in DOMAIN e |->
                    IF i[1] = loc[1] THEN e[i] (+) SetToBag({Entry(i, row, loc)}) ELSE e[i]]
    PROVE  /\ BagsIn(e2)
           /\ \A i \in DOMAIN e : DOMAIN e2[i] \subseteq DOMAIN e[i] \union {Entry(i, row, loc)}
           /\ \A i \in DOMAIN e : i[1] # loc[1] => e2[i] = e[i]
           /\ NoneLost(r, e, r2, e2) /\ NoneLeft(r, e, r2, e2)
<1>1. \A i \in DOMAIN e : IsABag(e[i])
  BY DEF BagsIn
<1>2. \A l \in Slots : r2[l] = IF l = loc THEN row ELSE r[l]
  OBVIOUS
<1>3. DOMAIN e2 = DOMAIN e
  OBVIOUS
<1>4. ASSUME NEW i \in DOMAIN e
      PROVE  /\ IsABag(e2[i]) /\ DOMAIN e2[i] \subseteq DOMAIN e[i] \union {Entry(i, row, loc)}
             /\ \A f : Lacks(r2, e2, i, f) => Lacks(r, e, i, f)
             /\ \A f : Exceeds(r2, e2, i, f) => Exceeds(r, e, i, f)
  <2> DEFINE g == Entry(i, row, loc)
  <2>1. CASE i[1] # loc[1]
    <3>1. e2[i] = e[i]
      BY <2>1
    <3>2. \A f : f \in DueSet(r2, i) <=> f \in DueSet(r, i)
      <4>1. \A l \in Slots : l[1] = i[1] => r2[l] = r[l]
        BY <1>2, <2>1
      <4> QED
        BY <4>1, IsDue
    <3> QED
      BY <1>1, <3>1, <3>2 DEF Lacks, Exceeds
  <2>2. CASE i[1] = loc[1]
    <3>1. e2[i] = e[i] (+) SetToBag({g})
      BY <2>2
    <3>2. /\ IsABag(e2[i])
          /\ DOMAIN e2[i] = DOMAIN e[i] \union {g}
          /\ \A f \in DOMAIN e[i] : f # g => e2[i][f] = e[i][f]
          /\ e2[i][g] > 1 => g \in DOMAIN e[i]
      <4>1. IsABag(e[i])
        BY <1>1
      <4> HIDE DEF g
      <4> QED
        BY <3>1, <4>1, Added
    <3>3. \A f : f \in DueSet(r2, i) <=> f \in DueSet(r, i) \/ f = g
      <4>1. g[2] = loc
        BY DEF Entry
      <4>2. \A f : f \in DueSet(r2, i) /\ f[2] = loc => f = g
        BY <1>2, IsDue
      <4>3. g \in DueSet(r2, i)
        BY <1>2, <2>2, <4>1, IsDue
      <4> HIDE DEF g
      <4> QED
        BY <1>2, <4>1, <4>2, <4>3, IsDue
    <3>4. g \notin DueSet(r, i)
      BY IsDue DEF Entry
    <3> HIDE DEF g
    <3>5. \A f : Lacks(r2, e2, i, f) => Lacks(r, e, i, f)
      BY <3>2, <3>3 DEF Lacks
    <3>6. \A f : Exceeds(r2, e2, i, f) => Exceeds(r, e, i, f)
      BY <3>2, <3>3, <3>4 DEF Exceeds
    <3> QED
      BY <3>2, <3>5, <3>6 DEF g
  <2> QED
    BY <2>1, <2>2
<1>5. BagsIn(e2)
  BY <1>3, <1>4 DEF BagsIn
<1>6. \A i \in DOMAIN e : i[1] # loc[1] => e2[i] = e[i]
  OBVIOUS
<1> HIDE DEF BagsIn
<1> QED
  BY <1>3, <1>4, <1>5, <1>6 DEF NoneLost, NoneLeft
-----------------------------------------------------------------------------
(* Rows *)

LEMMA ColumnsAre ==
    ASSUME NEW t \in Tables
    PROVE  /\ Len(Columns[t]) \in Nat /\ Len(Columns[t]) > 1
           /\ DOMAIN Columns[t] = 1..Len(Columns[t])
           /\ Columns[t][Len(Columns[t])].type = "INT"
           /\ \A i \in DOMAIN Columns[t] :
                 Columns[t][i].type \in FieldTypes /\ Columns[t][i].size \in Nat
<1>1. Columns[t] \in Seq(ToSet(Columns[t]))
  BY ColumnsAssumption
<1>2. Len(Columns[t]) \in Nat /\ DOMAIN Columns[t] = 1..Len(Columns[t])
  BY <1>1
<1> QED
  BY <1>2, ColumnsAssumption DEF Last

(* The column of a comparison is an INT column of every table.             *)
LEMMA ComparedColumns ==
    ASSUME NEW t \in Tables, NEW c \in {d[1] : d \in Comparisons}
    PROVE  GetPos(t, c) \in DOMAIN Columns[t] /\ Columns[t][GetPos(t, c)].type = "INT"
<1>1. PICK i \in DOMAIN Columns[t] : Columns[t][i].name = c /\ Columns[t][i].type = "INT"
  BY ClientsAssumption
<1>2. GetPos(t, c) \in DOMAIN Columns[t] /\ Columns[t][GetPos(t, c)].name = c
  BY <1>1 DEF GetPos
<1>3. GetPos(t, c) = i
  BY <1>1, <1>2, ColumnsAssumption
<1> QED
  BY <1>1, <1>3

LEMMA FieldsFit ==
    ASSUME NEW raw \in RawTexts, NEW type \in FieldTypes
    PROVE  /\ FieldOf(raw, type) \in Fields
           /\ TypeOf(FieldOf(raw, type)) = type
           /\ type = "INT" => FieldOf(raw, type) = <<"INT", raw[2], 0>>
<1>1. raw[1] \in {"Integer", "Float", "String", "NULL"} /\ raw[2] \in Int
  BY DEF RawTexts
<1>2. 0 \in 0..Unit-1 /\ 1 \in 0..Unit-1
  BY UnitAssumption
<1>3. CASE type = "INT"
  BY <1>1, <1>2, <1>3 DEF FieldOf, Field, Whole, stoi, Fields, FieldTypes, TypeOf
<1>4. CASE type = "FLOAT"
  BY <1>1, <1>2, <1>4 DEF FieldOf, Field, stod, Fields, FieldTypes, TypeOf
<1>5. CASE type = "STRING"
  <2>1. Unquoted(raw) \in Int
    BY <1>1 DEF Unquoted
  <2>2. FieldOf(raw, type) = <<"STRING", Unquoted(raw), 0>>
    BY <1>5 DEF FieldOf, Field, Whole
  <2> QED
    BY <1>2, <1>5, <2>1, <2>2 DEF Fields, FieldTypes, TypeOf
<1> QED
  BY <1>3, <1>4, <1>5 DEF FieldTypes

(* A page gives back a field of the type it got, and an INT as it was.     *)
LEMMA StoredFits ==
    ASSUME NEW t \in Tables, NEW row,
           \A i \in DOMAIN Columns[t] :
               row[i] \in Fields /\ TypeOf(row[i]) = Columns[t][i].type
    PROVE  /\ Fits(Stored(row, Columns[t]), t)
           /\ \A i \in DOMAIN Columns[t] :
                 Columns[t][i].type = "INT" => Stored(row, Columns[t])[i] = row[i]
<1> DEFINE n == Len(Columns[t])
           stored == Stored(row, Columns[t])
<1>1. n \in Nat /\ DOMAIN Columns[t] = 1..n
  BY ColumnsAre
<1>2. \A i \in 1..n : Columns[t][i].type \in FieldTypes /\ Columns[t][i].size \in Nat
  BY <1>1, ColumnsAre
<1>3. stored = [i \in 1..n |->
            IF Columns[t][i].type = "STRING" /\ row[i][2] > Columns[t][i].size
            THEN <<"STRING", Columns[t][i].size, 0>> ELSE row[i]]
  BY <1>1 DEF Stored, Field, Whole
<1>4. ASSUME NEW i \in 1..n
      PROVE  stored[i] \in Fields /\ TypeOf(stored[i]) = Columns[t][i].type
  <2>1. stored[i] = IF Columns[t][i].type = "STRING" /\ row[i][2] > Columns[t][i].size
                    THEN <<"STRING", Columns[t][i].size, 0>> ELSE row[i]
    BY <1>3
  <2>2. row[i] \in Fields /\ TypeOf(row[i]) = Columns[t][i].type
    BY <1>1
  <2>3. <<"STRING", Columns[t][i].size, 0>> \in Fields
    BY <1>2, UnitAssumption DEF Fields, FieldTypes
  <2> HIDE DEF stored
  <2> QED
    BY <2>1, <2>2, <2>3 DEF TypeOf
<1>5. stored \in Seq(Fields) /\ Len(stored) = n
  <2>1. stored = [i \in 1..n |-> stored[i]]
    BY <1>3
  <2> HIDE DEF stored, n
  <2> QED
    BY <1>1, <1>4, <2>1
<1>6. \A i \in 1..n : Columns[t][i].type = "INT" => stored[i] = row[i]
  BY <1>3
<1> HIDE DEF stored
<1> QED
  BY <1>1, <1>4, <1>5, <1>6 DEF Fits, stored

(* Insert stores a row that fits, under the id of its transaction.         *)
LEMMA InsertedFits ==
    ASSUME NEW t \in Tables, NEW raws \in InsertedRows, NEW x \in Nat,
           NEW raw, raw = RawRow(x, raws), NEW row, row = Stored(Build(raw, Columns[t]), Columns[t]),
           ~BuildAssertFails(raw, Columns[t]), ~BuildThrows(raw, Columns[t]),
           ~StoreCrashes(Build(raw, Columns[t]), Columns[t])
    PROVE  Fits(row, t) /\ WriterOf(row) = x /\ (PlainClients => HasPlainKeys(row, t))
<1> DEFINE n == Len(Columns[t])
           built == Build(raw, Columns[t])
<1>1. n \in Nat /\ n > 1 /\ DOMAIN Columns[t] = 1..n /\ Columns[t][n].type = "INT"
      /\ \A i \in 1..n : Columns[t][i].type \in FieldTypes
  BY ColumnsAre
<1>2. raws \in Seq(RawTexts)
  BY ClientsAssumption
<1>3. raw = Append(raws, <<"Integer", x>>) /\ <<"Integer", x>> \in RawTexts
  BY DEF RawRow, NoTxn, RawTexts
<1>4. raw \in Seq(RawTexts) /\ Len(raw) = Len(raws) + 1 /\ Len(raw) = n
  BY <1>2, <1>3 DEF BuildAssertFails
<1>5. Len(raws) = n - 1
  BY <1>2, <1>4
<1>6. raw[n] = <<"Integer", x>> /\ \A i \in 1..n-1 : i \in DOMAIN raws /\ raw[i] = raws[i]
  BY <1>2, <1>3, <1>5
<1>7. \A i \in 1..n : raw[i] \in RawTexts
  BY <1>4
<1>8. built = [i \in 1..n |-> IF raw[i] = Null THEN NoneField ELSE FieldOf(raw[i], Columns[t][i].type)]
  BY <1>1 DEF Build
<1> HIDE DEF n, built
<1>9. ASSUME NEW i \in 1..n
      PROVE  /\ built[i] \in Fields /\ TypeOf(built[i]) = Columns[t][i].type
             /\ Columns[t][i].type = "INT" => built[i] = <<"INT", raw[i][2], 0>> /\ raw[i] # Null
  <2>1. TypeOf(built[i]) = Columns[t][i].type
    BY <1>1 DEF StoreCrashes, built
  <2>2. raw[i] # Null
    BY <1>1, <1>8, <2>1 DEF NoneField, Field, TypeOf, FieldTypes
  <2>3. built[i] = FieldOf(raw[i], Columns[t][i].type)
    BY <1>8, <2>2
  <2> QED
    BY <1>1, <1>7, <2>2, <2>3, FieldsFit
<1>10. row = Stored(built, Columns[t])
  BY DEF built
<1>11. Fits(row, t) /\ \A i \in 1..n : Columns[t][i].type = "INT" => row[i] = built[i]
  BY <1>1, <1>9, <1>10, StoredFits
<1>12. WriterOf(row) = x
  <2>1. n \in 1..n /\ Len(row) = n
    BY <1>1, <1>11 DEF Fits, n
  <2>2. row[n] = <<"INT", raw[n][2], 0>>
    BY <1>1, <1>9, <1>11, <2>1
  <2> QED
    BY <1>6, <2>1, <2>2 DEF WriterOf, Last
<1>13. ASSUME PlainClients PROVE HasPlainKeys(row, t)
  <2> SUFFICES ASSUME NEW d \in Comparisons
               PROVE  row[GetPos(t, d[1])] \in {"INT"} \X PlainInts \X {0}
    BY DEF HasPlainKeys
  <2> DEFINE p == GetPos(t, d[1])
  <2>1. p \in 1..n-1 /\ Columns[t][p].type = "INT"
    <3>1. p \in 1..n /\ Columns[t][p].type = "INT"
      BY <1>1, ComparedColumns
    <3>2. p < n
      BY <1>13 DEF PlainClients, n
    <3> HIDE DEF p
    <3> QED
      BY <1>1, <3>1, <3>2
  <2>2. p \in 1..n
    <3> HIDE DEF p
    <3> QED
      BY <1>1, <2>1
  <2>3. row[p] = <<"INT", raw[p][2], 0>> /\ raw[p] # Null
    BY <1>9, <1>11, <2>1, <2>2
  <2>4. p \in DOMAIN raws /\ raw[p] = raws[p]
    BY <1>6, <2>1
  <2>5. IsPlain(raw[p])
    BY <1>13, <2>4 DEF PlainClients
  <2>6. ~FieldThrows(raw[p], "INT")
    BY <1>1, <2>1, <2>2, <2>3 DEF BuildThrows
  <2>7. raw[p][2] \in PlainInts
    BY <2>5, <2>6 DEF FieldThrows, stoiThrows, IsPlain
  <2> QED
    BY <2>3, <2>7
<1> QED
  BY <1>11, <1>12, <1>13

(* Transforms of columns that the table has. *)
TransformsFit(trans, t) ==
    /\ trans \in Seq(ToSet(trans))
    /\ \A k \in DOMAIN trans :
          /\ trans[k].raw \in RawTexts
          /\ trans[k].pos \in DOMAIN Columns[t]
          /\ trans[k].type = Columns[t][trans[k].pos].type

(* Each field is the old one, or what the last of its Transforms makes.    *)
LEMMA TransformedFits ==
    ASSUME NEW t \in Tables, NEW trans, TransformsFit(trans, t), NEW old, Fits(old, t),
           NEW i \in DOMAIN Columns[t]
    PROVE  /\ Transformed(old, trans)[i] \in Fields
           /\ TypeOf(Transformed(old, trans)[i]) = Columns[t][i].type
           /\ \/ /\ \A k \in DOMAIN trans : trans[k].pos # i
                 /\ Transformed(old, trans)[i] = old[i]
              \/ \E k \in DOMAIN trans :
                    /\ trans[k].pos = i
                    /\ Transformed(old, trans)[i] = FieldOf(trans[k].raw, Columns[t][i].type)
<1> DEFINE n == Len(Columns[t])
           new == Transformed(old, trans)
           Mine(j) == {k \in DOMAIN trans : trans[k].pos = j}
           Latest(j) == CHOOSE k \in Mine(j) : \A m \in Mine(j) : m <= k
<1>1. n \in Nat /\ DOMAIN Columns[t] = 1..n /\ Columns[t][i].type \in FieldTypes
  BY ColumnsAre
<1>2. DOMAIN old = 1..n /\ old[i] \in Fields /\ TypeOf(old[i]) = Columns[t][i].type
  BY <1>1 DEF Fits
<1>3. new[i] = IF Mine(i) = {} THEN old[i] ELSE FieldOf(trans[Latest(i)].raw, trans[Latest(i)].type)
  BY <1>1, <1>2 DEF Transformed
<1>4. ASSUME Mine(i) # {} PROVE Latest(i) \in DOMAIN trans /\ trans[Latest(i)].pos = i
  <2>1. Len(trans) \in Nat /\ DOMAIN trans = 1..Len(trans)
    BY DEF TransformsFit
  <2>2. Mine(i) \in SUBSET (0..Len(trans))
    BY <2>1
  <2> HIDE DEF Mine
  <2>3. \E k \in Mine(i) : \A m \in Mine(i) : m <= k
    <3>1. Max(Mine(i)) \in Mine(i) /\ \A m \in Mine(i) : m <= Max(Mine(i))
      BY <1>4, <2>1, <2>2, GreatestChosen DEF Max
    <3> QED
      BY <3>1
  <2>4. Latest(i) \in Mine(i)
    BY <2>3
  <2> QED
    BY <2>4 DEF Mine
<1>5. Mine(i) = {} => \A k \in DOMAIN trans : trans[k].pos # i
  OBVIOUS
<1> HIDE DEF n, new, Mine, Latest
<1>6. CASE Mine(i) = {}
  BY <1>2, <1>3, <1>5, <1>6 DEF new
<1>7. CASE Mine(i) # {}
  <2>1. trans[Latest(i)].raw \in RawTexts /\ trans[Latest(i)].type = Columns[t][i].type
    BY <1>4, <1>7 DEF TransformsFit
  <2>2. new[i] = FieldOf(trans[Latest(i)].raw, Columns[t][i].type)
    BY <1>3, <1>7, <2>1
  <2> QED
    BY <1>1, <1>4, <1>7, <2>1, <2>2, FieldsFit DEF new
<1> QED
  BY <1>6, <1>7

(* Update stores a row that fits, under the id that the row had.           *)
LEMMA UpdatedFits ==
    ASSUME NEW t \in Tables, NEW trans \in UpdatedColumns, NEW old, Fits(old, t),
           ~TransformsThrow(trans), NEW row, row = Stored(Transformed(old, trans), Columns[t])
    PROVE  /\ Fits(row, t) /\ WriterOf(row) = WriterOf(old)
           /\ PlainClients /\ HasPlainKeys(old, t) => HasPlainKeys(row, t)
<1> DEFINE n == Len(Columns[t])
           new == Transformed(old, trans)
<1>1. n \in Nat /\ n > 1 /\ DOMAIN Columns[t] = 1..n /\ Columns[t][n].type = "INT"
      /\ \A i \in 1..n : Columns[t][i].type \in FieldTypes
  BY ColumnsAre
<1>2. /\ old \in Seq(Fields) /\ Len(old) = n /\ DOMAIN old = 1..n
      /\ \A i \in 1..n : old[i] \in Fields /\ TypeOf(old[i]) = Columns[t][i].type
  BY <1>1 DEF Fits
<1>3. \A k \in DOMAIN trans :
         /\ trans[k].raw \in RawTexts
         /\ trans[k].pos \in 1..n-1
         /\ trans[k].type = Columns[t][trans[k].pos].type
  BY ClientsAssumption
<1>4. TransformsFit(trans, t)
  <2>1. trans \in Seq(ToSet(trans))
    BY ClientsAssumption
  <2>2. \A p \in 1..n-1 : p \in DOMAIN Columns[t]
    BY <1>1
  <2> HIDE DEF n
  <2> QED
    BY <1>3, <2>1, <2>2 DEF TransformsFit
<1> HIDE DEF n, new
<1>6. ASSUME NEW i \in 1..n
      PROVE  /\ new[i] \in Fields /\ TypeOf(new[i]) = Columns[t][i].type
             /\ \/ new[i] = old[i]
                \/ \E k \in DOMAIN trans :
                      trans[k].pos = i /\ new[i] = FieldOf(trans[k].raw, Columns[t][i].type)
  BY <1>1, <1>4, TransformedFits DEF new
<1>7. row = Stored(new, Columns[t])
  BY DEF new
<1>8. Fits(row, t) /\ \A i \in 1..n : Columns[t][i].type = "INT" => row[i] = new[i]
  BY <1>1, <1>6, <1>7, StoredFits
<1>9. WriterOf(row) = WriterOf(old)
  <2>1. n \in 1..n /\ Len(row) = n
    BY <1>1, <1>8 DEF Fits, n
  <2>2. \A k \in DOMAIN trans : trans[k].pos # n
    BY <1>1, <1>3
  <2>3. row[n] = old[n]
    BY <1>1, <1>6, <1>8, <2>1, <2>2
  <2> QED
    BY <1>2, <2>1, <2>3 DEF WriterOf, Last
<1>10. ASSUME PlainClients, HasPlainKeys(old, t) PROVE HasPlainKeys(row, t)
  <2> SUFFICES ASSUME NEW d \in Comparisons
               PROVE  row[GetPos(t, d[1])] \in {"INT"} \X PlainInts \X {0}
    BY DEF HasPlainKeys
  <2> DEFINE p == GetPos(t, d[1])
  <2>1. p \in 1..n /\ Columns[t][p].type = "INT"
    BY <1>1, ComparedColumns
  <2> HIDE DEF p
  <2>2. row[p] = new[p]
    BY <1>8, <2>1
  <2>3. CASE new[p] = old[p]
    BY <1>10, <2>2, <2>3 DEF HasPlainKeys, p
  <2>4. ASSUME NEW k \in DOMAIN trans,
               trans[k].pos = p, new[p] = FieldOf(trans[k].raw, Columns[t][p].type)
        PROVE  row[p] \in {"INT"} \X PlainInts \X {0}
    <3>1. trans[k].type = "INT" /\ trans[k].raw \in RawTexts
      BY <1>3, <2>1, <2>4
    <3>2. new[p] = <<"INT", trans[k].raw[2], 0>>
      BY <2>1, <2>4, <3>1, FieldsFit DEF FieldTypes
    <3>3. IsPlain(trans[k].raw)
      BY <1>10, <2>4 DEF PlainClients, p
    <3>4. trans[k].raw[2] \in PlainInts
      BY <3>1, <3>3 DEF TransformsThrow, FieldThrows, stoiThrows, IsPlain
    <3> QED
      BY <2>2, <3>2, <3>4
  <2> QED
    BY <1>6, <2>1, <2>3, <2>4 DEF p
<1> QED
  BY <1>8, <1>9, <1>10
-----------------------------------------------------------------------------
(* Searches *)

(* A sequence that has no element of a finite set twice, and is as long as *)
(* the set is large, has them all.                                         *)
LEMMA SeqsList ==
    ASSUME NEW S, IsFiniteSet(S), NEW q \in SetToSeqs(S)
    PROVE  /\ q \in Seq(S) /\ Len(q) \in Nat /\ DOMAIN q = 1..Len(q)
           /\ Len(q) = Cardinality(S) /\ IsInjective(q) /\ ToSet(q) = S
<1> DEFINE n == Cardinality(S)
<1>1. n \in Nat
  BY FS_CardinalityType
<1>2. q \in [1..n -> S] /\ \A i, j \in 1..n : i # j => q[i] # q[j]
  BY DEF SetToSeqs
<1>3. IsFiniteSet(1..n) /\ Cardinality(1..n) = n
  <2>1. 1 \in Int /\ n \in Int
    BY <1>1
  <2>2. IsFiniteSet(1..n) /\ Cardinality(1..n) = IF 1 > n THEN 0 ELSE n - 1 + 1
    BY <2>1, FS_Interval
  <2> HIDE DEF n
  <2> QED
    BY <1>1, <2>2
<1>4. IsInjective(q)
  BY <1>2 DEF IsInjective
<1>5. q \in Surjection(1..n, S)
  <2>1. q \in Injection(1..n, S)
    BY <1>2, <1>4 DEF Injection
  <2> QED
    BY <1>3, <2>1, FS_Injection
<1>6. ToSet(q) = S
  BY <1>2, <1>5 DEF Surjection, ToSet
<1> HIDE DEF n
<1>7. q \in Seq(S) /\ Len(q) = n /\ DOMAIN q = 1..n
  BY <1>1, <1>2
<1> QED
  BY <1>1, <1>4, <1>6, <1>7 DEF n

LEMMA InOrderLists ==
    ASSUME NEW t \in Tables, NEW S \in SUBSET LocationsOf(t)
    PROVE  /\ InOrder(S) \in Seq(S) /\ Len(InOrder(S)) \in Nat
           /\ DOMAIN InOrder(S) = 1..Len(InOrder(S))
           /\ IsInjective(InOrder(S)) /\ ToSet(InOrder(S)) = S
           /\ InOrder(S) \in SetToSeqs(S)
           /\ \A i, j \in DOMAIN InOrder(S) : i < j => InOrder(S)[i][2] < InOrder(S)[j][2]
<1>1. IsFiniteSet(S)
  <2>1. S \in SUBSET Slots
    BY DEF LocationsOf
  <2> QED
    BY <2>1, SlotsAssumption, FS_Subset
<1>2. \A a \in S : a[1] = t /\ a[2] \in Nat /\ a = <<a[1], a[2]>>
  BY SlotsAssumption DEF LocationsOf, TableOf
<1> DEFINE below == [a \in S |-> {b \in S : b[2] < a[2]}]
           n == Cardinality(S)
           q == [i \in 1..n |-> CHOOSE a \in S : Rank(below, a) = i]
<1>3. Ordered(below) /\ DOMAIN below = S
  <2>1. /\ \A a \in S : ~(a[2] < a[2])
        /\ \A a, b \in S : a = b \/ a[2] < b[2] \/ b[2] < a[2]
        /\ \A a, b, c \in S : a[2] < b[2] /\ b[2] < c[2] => a[2] < c[2]
    BY <1>2
  <2> QED
    BY <2>1 DEF Ordered
<1>4. /\ n \in Nat
      /\ \A a, b \in S : a[2] < b[2] => Rank(below, a) < Rank(below, b)
      /\ \A i \in 1..n : \E a \in S : Rank(below, a) = i
  <2>1. \A a, b \in S : a[2] < b[2] => a \in below[b]
    OBVIOUS
  <2> HIDE DEF below
  <2> QED
    BY <1>1, <1>3, <2>1, Ranks
<1> HIDE DEF below, n
<1>5. \A i \in 1..n : q[i] \in S /\ Rank(below, q[i]) = i
  BY <1>4
<1>6. q \in SetToSeqs(S)
  <2>1. q \in [1..n -> S]
    BY <1>5
  <2>2. \A i, j \in 1..n : i # j => q[i] # q[j]
    BY <1>5
  <2> HIDE DEF q
  <2> QED
    BY <2>1, <2>2 DEF SetToSeqs, n
<1>7. \A i, j \in DOMAIN q : i < j => q[i][2] < q[j][2]
  <2> SUFFICES ASSUME NEW i \in 1..n, NEW j \in 1..n, i < j PROVE q[i][2] < q[j][2]
    OBVIOUS
  <2>1. q[i] \in S /\ q[j] \in S /\ Rank(below, q[i]) = i /\ Rank(below, q[j]) = j
    BY <1>5
  <2> HIDE DEF q
  <2>2. ~(q[j][2] < q[i][2])
    BY <1>4, <2>1
  <2>3. q[i][2] # q[j][2]
    BY <1>2, <2>1
  <2> QED
    BY <1>2, <2>1, <2>2, <2>3
<1> HIDE DEF q
<1>8. /\ InOrder(S) \in SetToSeqs(S)
      /\ \A i, j \in DOMAIN InOrder(S) : i < j => InOrder(S)[i][2] < InOrder(S)[j][2]
  BY <1>6, <1>7 DEF InOrder
<1> QED
  BY <1>1, <1>8, SeqsList

LEMMA ScannedLists ==
    ASSUME NEW t \in Tables, NEW conds
    PROVE  /\ Scanned(t, NoTxn, conds) \in Seq(LocationsOf(t))
           /\ Len(Scanned(t, NoTxn, conds)) \in Nat
           /\ DOMAIN Scanned(t, NoTxn, conds) = 1..Len(Scanned(t, NoTxn, conds))
           /\ IsInjective(Scanned(t, NoTxn, conds))
           /\ ToSet(Scanned(t, NoTxn, conds)) =
                {loc \in LocationsOf(t) : rows[loc] # NoRow /\ AndMatches(conds, rows[loc])}
<1> DEFINE S == {loc \in LocationsOf(t) : rows[loc] # NoRow /\ AndMatches(conds, rows[loc])}
<1>1. Scanned(t, NoTxn, conds) = InOrder(S)
  BY DEF Scanned
<1>2. S \in SUBSET LocationsOf(t)
  OBVIOUS
<1> HIDE DEF S
<1>3. Seq(S) \subseteq Seq(LocationsOf(t))
  BY <1>2
<1> QED
  BY <1>1, <1>2, <1>3, InOrderLists DEF S

(* A range lists the locations of the entries in its interval, or gives up *)
(* when none has its least key.                                            *)
OneEach(bag) ==
    /\ \A e \in DOMAIN bag : bag[e] = 1
    /\ \A e, f \in DOMAIN bag : e[2] = f[2] => e = f

(* No location l has two entries. *)
OneAt(bag, l) ==
    \A e \in DOMAIN bag : e[2] = l => bag[e] = 1 /\ \A f \in DOMAIN bag : f[2] = l => e = f
AtMostOnce(q, l) == \A j, k \in DOMAIN q : q[j] = l /\ q[k] = l => j = k

LEMMA RangesList ==
    ASSUME NEW i \in DOMAIN entries, NEW cond, <<cond.table, cond.column>> = i,
           IsABag(entries[i]), IsFiniteSet(DOMAIN entries[i]),
           DOMAIN entries[i] \subseteq Fields \X LocationsOf(i[1]),
           NEW found \in Ranges(cond)
    PROVE  /\ found \in Seq(LocationsOf(i[1])) /\ Len(found) \in Nat
           /\ DOMAIN found = 1..Len(found)
           /\ \A l \in ToSet(found) : \E e \in DOMAIN entries[i] :
                 e[2] = l /\ InRange(e[1], cond.low, cond.high)
           /\ OneEach(entries[i]) => IsInjective(found)
           /\ \A l : OneAt(entries[i], l) => AtMostOnce(found, l)
           /\ \/ /\ found = << >>
                 /\ \A e \in DOMAIN entries[i] : InRange(e[1], cond.low, cond.high) => e[1] # cond.low
              \/ \A e \in DOMAIN entries[i] : InRange(e[1], cond.low, cond.high) => e[2] \in ToSet(found)
<1> DEFINE bag == entries[i]
           inside == {e \in DOMAIN bag : InRange(e[1], cond.low, cond.high)}
           N == 1..MaxTxn * MaxInserts
           copies == {copy \in inside \X N : copy[2] <= bag[copy[1]]}
<1>1. CASE found = << >> /\ \A e \in inside : e[1] # cond.low
  <2>1. found \in Seq(LocationsOf(i[1])) /\ Len(found) = 0 /\ ToSet(found) = {} /\ IsInjective(found)
    BY <1>1 DEF ToSet, IsInjective
  <2>2. \A l : AtMostOnce(found, l)
    BY <1>1 DEF AtMostOnce
  <2> QED
    BY <1>1, <2>1, <2>2
<1>2. ASSUME NEW q \in SetToSeqs(copies), found = [k \in DOMAIN q |-> q[k][1][2]]
      PROVE  /\ found \in Seq(LocationsOf(i[1])) /\ Len(found) \in Nat
             /\ DOMAIN found = 1..Len(found)
             /\ \A l \in ToSet(found) : \E e \in inside : e[2] = l
             /\ \A e \in inside : e[2] \in ToSet(found)
             /\ OneEach(bag) => IsInjective(found)
             /\ \A l : OneAt(bag, l) => AtMostOnce(found, l)
  <2>1. MaxTxn * MaxInserts \in Nat /\ MaxTxn * MaxInserts >= 1
    BY BoundsAssumption
  <2>2. IsFiniteSet(copies)
    <3>1. IsFiniteSet(inside)
      <4>1. inside \in SUBSET DOMAIN bag
        OBVIOUS
      <4> HIDE DEF inside
      <4> QED
        BY <4>1, FS_Subset
    <3>2. IsFiniteSet(N)
      <4>1. 1 \in Int /\ MaxTxn * MaxInserts \in Int
        BY <2>1
      <4> QED
        BY <4>1, FS_Interval
    <3> HIDE DEF inside, N
    <3>3. IsFiniteSet(inside \X N)
      BY <3>1, <3>2, FS_Product
    <3>4. copies \in SUBSET (inside \X N)
      OBVIOUS
    <3> HIDE DEF copies
    <3> QED
      BY <3>3, <3>4, FS_Subset
  <2> HIDE DEF copies
  <2>3. /\ q \in Seq(copies) /\ Len(q) \in Nat /\ DOMAIN q = 1..Len(q)
        /\ ToSet(q) = copies /\ IsInjective(q)
    BY <1>2, <2>2, SeqsList
  <2>4. \A copy \in copies : copy[1] \in inside
    BY DEF copies
  <2>5. \A e \in inside : <<e, 1>> \in copies
    <3>1. \A e \in inside : bag[e] \in Nat /\ bag[e] > 0
      BY DEF IsABag
    <3>2. \A e \in inside : 1 <= bag[e]
      BY <3>1
    <3>3. 1 \in N
      BY <2>1
    <3> HIDE DEF inside, N, bag
    <3> QED
      BY <3>2, <3>3 DEF copies
  <2>6. \A e \in inside : e[2] \in LocationsOf(i[1])
    OBVIOUS
  <2> HIDE DEF inside
  <2>7. \A k \in DOMAIN q : q[k] \in copies /\ found[k] = q[k][1][2]
    BY <1>2, <2>3
  <2>8. found \in Seq(LocationsOf(i[1])) /\ Len(found) = Len(q) /\ DOMAIN found = 1..Len(q)
    <3>1. \A k \in 1..Len(q) : found[k] \in LocationsOf(i[1])
      BY <2>3, <2>4, <2>6, <2>7
    <3>2. found = [k \in 1..Len(q) |-> found[k]]
      BY <1>2, <2>3
    <3> QED
      BY <2>3, <3>1, <3>2
  <2>9. \A l \in ToSet(found) : \E e \in inside : e[2] = l
    BY <2>3, <2>4, <2>7, <2>8 DEF ToSet
  <2>10. ASSUME NEW e \in inside PROVE e[2] \in ToSet(found)
    <3>1. PICK k \in DOMAIN q : q[k] = <<e, 1>>
      BY <2>3, <2>5 DEF ToSet
    <3>2. found[k] = e[2]
      BY <2>7, <3>1
    <3> QED
      BY <2>3, <2>8, <3>2 DEF ToSet
  <2>11. ASSUME OneEach(bag) PROVE IsInjective(found)
    <3>1. \A copy \in copies : copy = <<copy[1], 1>>
      <4>1. \A e \in inside : bag[e] = 1
        BY <2>11 DEF OneEach, inside
      <4> HIDE DEF inside, bag
      <4> QED
        BY <2>1, <4>1 DEF copies
    <3>2. \A e, f \in inside : e[2] = f[2] => e = f
      BY <2>11 DEF OneEach, inside
    <3> SUFFICES ASSUME NEW j \in DOMAIN found, NEW k \in DOMAIN found, found[j] = found[k] PROVE j = k
      BY DEF IsInjective
    <3>3. q[j] \in copies /\ q[k] \in copies /\ q[j][1][2] = q[k][1][2]
      BY <2>3, <2>7, <2>8
    <3>4. q[j] = q[k]
      BY <2>4, <3>1, <3>2, <3>3
    <3> QED
      BY <2>3, <2>8, <3>4 DEF IsInjective
  <2>12. ASSUME NEW l, OneAt(bag, l) PROVE AtMostOnce(found, l)
    <3>1. \A copy \in copies : copy[1][2] = l => copy = <<copy[1], 1>>
      <4>1. \A e \in inside : e[2] = l => bag[e] = 1
        BY <2>12 DEF OneAt, inside
      <4> HIDE DEF inside, bag
      <4> QED
        BY <2>1, <4>1 DEF copies
    <3>2. \A e, f \in inside : e[2] = l /\ f[2] = l => e = f
      BY <2>12 DEF OneAt, inside
    <3> SUFFICES ASSUME NEW j \in DOMAIN found, NEW k \in DOMAIN found, found[j] = l, found[k] = l
                 PROVE j = k
      BY DEF AtMostOnce
    <3>3. q[j] \in copies /\ q[k] \in copies /\ q[j][1][2] = l /\ q[k][1][2] = l
      BY <2>3, <2>7, <2>8
    <3>4. q[j] = q[k]
      BY <2>4, <3>1, <3>2, <3>3
    <3> QED
      BY <2>3, <2>8, <3>4 DEF IsInjective
  <2> QED
    BY <2>3, <2>8, <2>9, <2>10, <2>11, <2>12
<1>3. (found = << >> /\ \A e \in inside : e[1] # cond.low) \/ \E q \in SetToSeqs(copies) : found = [k \in DOMAIN q |-> q[k][1][2]]
  <2>1. copies = {copy \in inside \X (1..MaxTxn * MaxInserts) : copy[2] <= bag[copy[1]]}
    OBVIOUS
  <2>2. bag = entries[<<cond.table, cond.column>>]
    OBVIOUS
  <2> HIDE DEF copies, bag
  <2> QED
    BY <2>1, <2>2 DEF Ranges
<1>4. CASE \E q \in SetToSeqs(copies) : found = [k \in DOMAIN q |-> q[k][1][2]]
  <2>1. PICK q \in SetToSeqs(copies) : found = [k \in DOMAIN q |-> q[k][1][2]]
    BY <1>4
  <2>2. /\ found \in Seq(LocationsOf(i[1])) /\ Len(found) \in Nat
        /\ DOMAIN found = 1..Len(found)
        /\ \A l \in ToSet(found) : \E e \in inside : e[2] = l
        /\ \A e \in inside : e[2] \in ToSet(found)
        /\ OneEach(bag) => IsInjective(found)
        /\ \A l : OneAt(bag, l) => AtMostOnce(found, l)
    <3> HIDE DEF copies
    <3> QED
      BY <1>2, <2>1
  <2> QED
    BY <2>2
<1> HIDE DEF copies
<1> QED
  BY <1>1, <1>3, <1>4

(* A search with one index condition returns what its range returns.       *)
LEMMA OneRange ==
    ASSUME NEW t, NEW cond, NEW c, cond.index = <<c>>
    PROVE  Searches(t, NoTxn, cond) = Ranges(c)
<1> DEFINE start == Ranges(c)
           q == Tail(<<c>>)
           Runs(f) == f = [k \in 0..Len(q) |-> IF k = 0 THEN start ELSE Intersections(f[k-1], q[k])]
<1>1. q = << >> /\ Len(q) = 0 /\ Head(<<c>>) = c /\ <<c>> # << >>
  OBVIOUS
<1>2. Searches(t, NoTxn, cond) = (CHOOSE f : Runs(f))[Len(q)]
  BY <1>1 DEF Searches, Loop
<1>3. Runs([k \in 0..0 |-> start])
  BY <1>1
<1>4. Runs(CHOOSE f : Runs(f))
  <2> HIDE DEF Runs
  <2> QED
    BY <1>3
<1> HIDE DEF start, q
<1>5. (CHOOSE f : Runs(f))[0] = start
  BY <1>1, <1>4
<1> QED
  BY <1>1, <1>2, <1>5 DEF start

(* What Delete and Update find: a scan each row the condition holds for,   *)
(* once; an index rows it holds for, and locations of stale entries.       *)
LEMMA SearchesFind ==
    ASSUME SessionsInv, NEW t \in Tables, NEW cond \in Conditions_(t),
           NEW found \in Searches(t, NoTxn, cond)
    PROVE  /\ found \in Seq(LocationsOf(t)) /\ Len(found) \in Nat
           /\ DOMAIN found = 1..Len(found)
           /\ cond.index = << >> =>
                 /\ IsInjective(found)
                 /\ \A l \in LocationsOf(t) :
                       l \in ToSet(found) <=> rows[l] # NoRow /\ Holds(cond, rows[l])
           /\ cond.index # << >> =>
                 \A l \in ToSet(found) :
                    \/ rows[l] # NoRow /\ Holds(cond, rows[l])
                    \/ \E i \in DOMAIN entries : \E f : f[2] = l /\ Exceeds(rows, entries, i, f)
<1>1. \/ cond.index = << >>
      \/ \E d \in Comparisons :
            /\ IsIndex(t, d[1]) /\ d[2] # "<>"
            /\ cond.other = << >>
            /\ cond.index = <<IndexedComparison(t, d[1], GetPos(t, d[1]), "INT", d[2], d[3])>>
  BY DEF Conditions_, Everything
<1>2. CASE cond.index = << >>
  <2>1. found = Scanned(t, NoTxn, cond.other)
    <3>1. Searches(t, NoTxn, cond) = {Scanned(t, NoTxn, cond.other)}
      BY <1>2 DEF Searches, Loop
    <3> QED
      BY <3>1
  <2>2. \A l : Holds(cond, rows[l]) <=> AndMatches(cond.other, rows[l])
    BY <1>2 DEF Holds
  <2>3. /\ found \in Seq(LocationsOf(t)) /\ Len(found) \in Nat /\ DOMAIN found = 1..Len(found)
        /\ IsInjective(found)
        /\ ToSet(found) = {l \in LocationsOf(t) : rows[l] # NoRow /\ AndMatches(cond.other, rows[l])}
    BY <2>1, ScannedLists
  <2> QED
    BY <1>2, <2>2, <2>3
<1>3. ASSUME NEW d \in Comparisons, IsIndex(t, d[1]), d[2] # "<>", cond.other = << >>,
             cond.index = <<IndexedComparison(t, d[1], GetPos(t, d[1]), "INT", d[2], d[3])>>
      PROVE  /\ found \in Seq(LocationsOf(t)) /\ Len(found) \in Nat
             /\ DOMAIN found = 1..Len(found)
             /\ cond.index # << >>
             /\ \A l \in ToSet(found) :
                    \/ rows[l] # NoRow /\ Holds(cond, rows[l])
                    \/ \E i \in DOMAIN entries : \E f : f[2] = l /\ Exceeds(rows, entries, i, f)
  <2> DEFINE c == IndexedComparison(t, d[1], GetPos(t, d[1]), "INT", d[2], d[3])
             i == <<t, d[1]>>
  <2>1. c.table = t /\ c.column = d[1]
    BY <1>3 DEF IndexedComparison, IndexCondition
  <2>2. i \in DOMAIN entries /\ <<c.table, c.column>> = i /\ i[1] = t
    BY <1>3, <2>1 DEF IsIndex
  <2>3. /\ IsABag(entries[i]) /\ IsFiniteSet(DOMAIN entries[i])
        /\ DOMAIN entries[i] \subseteq Fields \X LocationsOf(t)
    BY <2>2 DEF SessionsInv, TypeOK
  <2>4. found \in Ranges(c)
    BY <1>3, OneRange
  <2> HIDE DEF c, i
  <2>5. /\ found \in Seq(LocationsOf(t)) /\ Len(found) \in Nat
        /\ DOMAIN found = 1..Len(found)
        /\ \A l \in ToSet(found) : \E e \in DOMAIN entries[i] :
                 e[2] = l /\ InRange(e[1], c.low, c.high)
    BY <2>2, <2>3, <2>4, RangesList
  <2>6. ASSUME NEW l \in ToSet(found), ~\E j \in DOMAIN entries : \E f : f[2] = l /\ Exceeds(rows, entries, j, f)
        PROVE  rows[l] # NoRow /\ Holds(cond, rows[l])
    <3>1. PICK e \in DOMAIN entries[i] : e[2] = l /\ InRange(e[1], c.low, c.high)
      BY <2>5
    <3>2. e \in DueSet(rows, i)
      BY <2>2, <2>6, <3>1 DEF Exceeds
    <3>3. rows[l] # NoRow /\ e = Entry(i, rows[l], l)
      BY <3>1, <3>2, IsDue
    <3>4. e[1] = rows[l][GetPos(c.table, c.column)]
      BY <2>1, <3>3 DEF Entry, i
    <3>5. Holds(cond, rows[l])
      <4>1. cond.index = <<c>> /\ cond.other = << >>
        BY <1>3 DEF c
      <4>2. AndMatches(cond.other, rows[l])
        BY <4>1 DEF AndMatches
      <4>3. \A k \in DOMAIN cond.index : cond.index[k] = c
        BY <4>1
      <4> QED
        BY <3>1, <3>4, <4>2, <4>3 DEF Holds
    <3> QED
      BY <3>3, <3>5
  <2> QED
    BY <1>3, <2>5, <2>6
<1> QED
  BY <1>1, <1>2, <1>3
-----------------------------------------------------------------------------
(* What the loop of Delete leaves: rows of the locations found are gone    *)
(* with their entries, the others are as they were.                        *)

IsDB(db) ==
    /\ db = [rows |-> db.rows, entries |-> db.entries, thrown |-> db.thrown]
    /\ db.thrown \in BOOLEAN
    /\ db.rows = [l \in Slots |-> db.rows[l]]
    /\ db.entries = [i \in DOMAIN db.entries |-> db.entries[i]]
    /\ BagsIn(db.entries)

LEMMA NowIsDB == ASSUME SessionsInv PROVE IsDB(Now)
<1>1. rows = [l \in Slots |-> rows[l]] /\ BagsIn(entries)
  BY DEF SessionsInv, TypeOK, BagsIn
<1> QED
  BY <1>1 DEF IsDB, Now, SessionsInv

LEMMA DeleteRowIs ==
    ASSUME NEW db, IsDB(db), NEW loc \in Slots, NEW new, new = DeleteRow(db, loc)
    PROVE  /\ IsDB(new)
           /\ \/ /\ db.thrown \/ db.rows[loc] = NoRow
                 /\ new = [rows |-> db.rows, entries |-> db.entries, thrown |-> TRUE]
              \/ /\ ~db.thrown /\ db.rows[loc] # NoRow
                 /\ new.rows = [db.rows EXCEPT ![loc] = NoRow]
                 /\ DOMAIN new.entries = DOMAIN db.entries
                 /\ \A i \in DOMAIN db.entries : DOMAIN new.entries[i] \subseteq DOMAIN db.entries[i]
                 /\ ~new.thrown
                 /\ NoneLost(db.rows, db.entries, new.rows, new.entries)
                 /\ NoneLeft(db.rows, db.entries, new.rows, new.entries)
<1>1. CASE db.thrown \/ db.rows[loc] = NoRow
  <2>1. new = [rows |-> db.rows, entries |-> db.entries, thrown |-> TRUE]
    BY <1>1 DEF DeleteRow, IsDB
  <2> QED
    BY <1>1, <2>1 DEF IsDB
<1>2. CASE ~db.thrown /\ db.rows[loc] # NoRow
  <2> DEFINE row == db.rows[loc]
             r2 == [db.rows EXCEPT ![loc] = NoRow]
             e2 == [i \in DOMAIN db.entries |->
                       IF i[1] = loc[1] THEN db.entries[i] (-) SetToBag({Entry(i, row, loc)})
                       ELSE db.entries[i]]
  <2>1. new = [rows |-> r2, entries |-> e2, thrown |-> db.thrown]
    <3>1. e2 = WithoutEntries(db, row, loc)
      BY DEF WithoutEntries, TableOf
    <3> HIDE DEF e2
    <3> QED
      BY <1>2, <3>1 DEF DeleteRow, IsDB
  <2>2. /\ BagsIn(e2) /\ \A i \in DOMAIN db.entries : DOMAIN e2[i] \subseteq DOMAIN db.entries[i]
        /\ NoneLost(db.rows, db.entries, r2, e2) /\ NoneLeft(db.rows, db.entries, r2, e2)
    <3>1. BagsIn(db.entries) /\ db.rows = [l \in Slots |-> db.rows[l]]
      BY DEF IsDB
    <3> QED
      BY <1>2, <3>1, RowGoes, SMTT(30)
  <2>3. /\ DOMAIN e2 = DOMAIN db.entries /\ e2 = [i \in DOMAIN e2 |-> e2[i]]
        /\ r2 = [l \in Slots |-> r2[l]]
    BY DEF IsDB
  <2> HIDE DEF r2, e2
  <2> QED
    BY <1>2, <2>1, <2>2, <2>3 DEF IsDB, r2
<1> QED
  BY <1>1, <1>2

(* After k iterations.  A scan finds each row once, so nothing is thrown.  *)
AllThere(q) == IsInjective(q) /\ \A j \in DOMAIN q : rows[q[j]] # NoRow
DeletedSoFar(db, q, k) ==
    /\ IsDB(db)
    /\ \A l \in Slots : \/ db.rows[l] = rows[l]
                        \/ db.rows[l] = NoRow /\ \E j \in 1..k : q[j] = l
    /\ DOMAIN db.entries = DOMAIN entries
    /\ \A i \in DOMAIN entries : DOMAIN db.entries[i] \subseteq DOMAIN entries[i]
    /\ NoneLost(rows, entries, db.rows, db.entries)
    /\ NoneLeft(rows, entries, db.rows, db.entries)
    /\ AllThere(q) => ~db.thrown /\ \A j \in 1..k : db.rows[q[j]] = NoRow

LEMMA LostAndLeft ==
    ASSUME NEW r, NEW e, NEW r2, NEW e2, NEW r3, NEW e3
    PROVE  /\ NoneLost(r, e, r, e) /\ NoneLeft(r, e, r, e)
           /\ NoneLost(r, e, r2, e2) /\ NoneLost(r2, e2, r3, e3) => NoneLost(r, e, r3, e3)
           /\ NoneLeft(r, e, r2, e2) /\ NoneLeft(r2, e2, r3, e3) => NoneLeft(r, e, r3, e3)
  BY DEF NoneLost, NoneLeft

LEMMA OneMoreIsDeleted ==
    ASSUME NEW q, Len(q) \in Nat, DOMAIN q = 1..Len(q), NEW k \in 0..Len(q)-1,
           \A j \in DOMAIN q : q[j] \in Slots, NEW db, DeletedSoFar(db, q, k)
    PROVE  DeletedSoFar(DeleteRow(db, q[k+1]), q, k + 1)
<1> DEFINE loc == q[k+1]
           new == DeleteRow(db, loc)
<1>1. IsDB(db) /\ k + 1 \in 1..k+1 /\ k + 1 \in DOMAIN q /\ \A j \in 1..k : j \in 1..k+1 /\ j \in DOMAIN q
  BY DEF DeletedSoFar
<1>2. /\ IsDB(new)
      /\ \/ /\ db.thrown \/ db.rows[loc] = NoRow
            /\ new = [rows |-> db.rows, entries |-> db.entries, thrown |-> TRUE]
         \/ /\ ~db.thrown /\ db.rows[loc] # NoRow
            /\ new.rows = [db.rows EXCEPT ![loc] = NoRow]
            /\ DOMAIN new.entries = DOMAIN db.entries
            /\ \A i \in DOMAIN db.entries : DOMAIN new.entries[i] \subseteq DOMAIN db.entries[i]
            /\ ~new.thrown
            /\ NoneLost(db.rows, db.entries, new.rows, new.entries)
            /\ NoneLeft(db.rows, db.entries, new.rows, new.entries)
  <2> HIDE DEF loc
  <2>1. loc \in Slots
    BY <1>1 DEF loc
  <2> QED
    BY <1>1, <2>1, DeleteRowIs
<1> HIDE DEF new
<1>3. CASE db.thrown \/ db.rows[loc] = NoRow
  <2>1. new.rows = db.rows /\ new.entries = db.entries
    BY <1>2, <1>3
  <2>2. ~AllThere(q)
    <3> SUFFICES ASSUME AllThere(q) PROVE FALSE
      OBVIOUS
    <3>1. rows[loc] # NoRow /\ db.rows[loc] = NoRow
      BY <1>1, <1>3 DEF AllThere, DeletedSoFar
    <3>2. PICK j \in 1..k : q[j] = loc
      BY <3>1 DEF DeletedSoFar
    <3>3. j = k + 1
      BY <1>1, <3>2 DEF AllThere, IsInjective
    <3> QED
      BY <3>2, <3>3
  <2> QED
    BY <1>1, <1>2, <2>1, <2>2 DEF DeletedSoFar, new
<1>4. CASE ~db.thrown /\ db.rows[loc] # NoRow
  <2>1. \A l \in Slots : new.rows[l] = IF l = loc THEN NoRow ELSE db.rows[l]
    BY <1>1, <1>2, <1>4 DEF IsDB
  <2>2. NoneLost(rows, entries, new.rows, new.entries) /\ NoneLeft(rows, entries, new.rows, new.entries)
    BY <1>2, <1>4, LostAndLeft DEF DeletedSoFar
  <2>3. /\ DOMAIN new.entries = DOMAIN entries
        /\ \A i \in DOMAIN entries : DOMAIN new.entries[i] \subseteq DOMAIN entries[i]
    BY <1>2, <1>4 DEF DeletedSoFar
  <2>4. \A l \in Slots : \/ new.rows[l] = rows[l]
                         \/ new.rows[l] = NoRow /\ \E j \in 1..k+1 : q[j] = l
    BY <1>1, <2>1 DEF DeletedSoFar
  <2>5. ASSUME AllThere(q), NEW j \in 1..k+1 PROVE new.rows[q[j]] = NoRow
    <3>1. CASE j = k + 1
      BY <2>1, <3>1
    <3>2. CASE j # k + 1
      <4>1. j \in 1..k
        BY <3>2
      <4>2. db.rows[q[j]] = NoRow
        BY <2>5, <4>1 DEF DeletedSoFar
      <4>3. q[j] \in Slots
        BY <1>1, <4>1
      <4> QED
        BY <2>1, <4>2, <4>3
    <3> QED
      BY <3>1, <3>2
  <2>6. ~new.thrown
    BY <1>2, <1>4
  <2> QED
    BY <1>2, <2>2, <2>3, <2>4, <2>5, <2>6 DEF DeletedSoFar, new
<1> QED
  BY <1>3, <1>4

LEMMA DeletionLeaves ==
    ASSUME IsDB(Now), NEW q, Len(q) \in Nat, DOMAIN q = 1..Len(q),
           \A j \in DOMAIN q : q[j] \in Slots
    PROVE  DeletedSoFar(AllDeleted(q), q, Len(q))
<1> DEFINE n == Len(q)
<1>1. PICK after :
        /\ after = [i \in 0..n |-> IF i = 0 THEN Now ELSE DeleteRow(after[i-1], q[i])]
        /\ AllDeleted(q) = after[n]
  BY DeletionRuns
<1> DEFINE K == {k \in 0..n : DeletedSoFar(after[k], q, k)}
<1>2. after[0] = Now /\ \A k \in 0..n-1 : after[k+1] = DeleteRow(after[k], q[k+1])
  <2>1. \A k \in 0..n-1 : k + 1 \in 0..n /\ k + 1 # 0 /\ (k + 1) - 1 = k
    OBVIOUS
  <2>2. 0 \in 0..n
    OBVIOUS
  <2> HIDE DEF n
  <2> QED
    BY <1>1, <2>1, <2>2
<1>3. DeletedSoFar(Now, q, 0)
  <2>1. Now.rows = rows /\ Now.entries = entries /\ Now.thrown = FALSE
    BY DEF Now
  <2> QED
    BY <2>1, LostAndLeft DEF DeletedSoFar
<1>4. 0 \in K
  BY <1>2, <1>3
<1>5. ASSUME NEW k \in 0..n-1, k \in K PROVE k + 1 \in K
  <2>1. DeletedSoFar(after[k], q, k)
    BY <1>5
  <2>2. DeletedSoFar(DeleteRow(after[k], q[k+1]), q, k + 1)
    BY <2>1, OneMoreIsDeleted
  <2>3. after[k+1] = DeleteRow(after[k], q[k+1]) /\ k + 1 \in 0..n
    BY <1>2
  <2> QED
    BY <2>2, <2>3
<1>6. K = 0..n
  <2>1. K \in SUBSET (0..n)
    OBVIOUS
  <2> HIDE DEF K
  <2> QED
    BY <1>4, <1>5, <2>1, InductionUpTo
<1>7. n \in K
  BY <1>6
<1> QED
  BY <1>1, <1>7
-----------------------------------------------------------------------------
(* What the loop of Update leaves: every row is there still and of the     *)
(* same transaction, with its entries, unless a Transform threw.           *)

EntriesFit(e) ==
    \A i \in DOMAIN e :
        IsABag(e[i]) /\ IsFiniteSet(DOMAIN e[i]) /\ DOMAIN e[i] \subseteq Fields \X LocationsOf(i[1])

RowStays(row, old, t) ==
    /\ row # NoRow /\ Fits(row, t) /\ WriterOf(row) = WriterOf(old)
    /\ PlainClients => HasPlainKeys(row, t)

LEMMA FittingIsARow == ASSUME NEW t, NEW row, Fits(row, t) PROVE row # NoRow
  BY NoRowAssumption DEF Fits

(* Indexes are of columns that their tables have.                          *)
IsColumn(i) == i[1] \in Tables /\ GetPos(i[1], i[2]) \in DOMAIN Columns[i[1]]
AllColumns(e) == \A i \in DOMAIN e : IsColumn(i)

LEMMA ComparedAreColumns ==
    ASSUME NEW e, DOMAIN e \subseteq Tables \X {d[1] : d \in Comparisons} PROVE AllColumns(e)
<1> SUFFICES ASSUME NEW i \in DOMAIN e PROVE IsColumn(i)
  BY DEF AllColumns
<1>1. i[1] \in Tables /\ i[2] \in {d[1] : d \in Comparisons}
  OBVIOUS
<1> QED
  BY <1>1, ComparedColumns DEF IsColumn

LEMMA EntryFits ==
    ASSUME NEW i, IsColumn(i), NEW loc \in Slots, loc[1] = i[1], NEW row, Fits(row, i[1])
    PROVE  Entry(i, row, loc) \in Fields \X LocationsOf(i[1])
<1>1. i[1] \in Tables
  BY DEF IsColumn
<1>2. GetPos(i[1], i[2]) \in DOMAIN Columns[i[1]]
  BY DEF IsColumn
<1>3. row \in Seq(Fields) /\ DOMAIN row = DOMAIN Columns[i[1]]
  BY <1>1, ColumnsAre DEF Fits
<1>4. row[GetPos(i[1], i[2])] \in Fields
  BY <1>2, <1>3
<1>5. loc \in LocationsOf(i[1])
  BY DEF LocationsOf, TableOf
<1> QED
  BY <1>4, <1>5 DEF Entry

(* A row comes with entries that fit.                                      *)
LEMMA EntriesStillFit ==
    ASSUME NEW e, EntriesFit(e), AllColumns(e),
           NEW loc \in Slots, NEW row, Fits(row, loc[1]), NEW e2, DOMAIN e2 = DOMAIN e, BagsIn(e2),
           \A i \in DOMAIN e : DOMAIN e2[i] \subseteq DOMAIN e[i] \union {Entry(i, row, loc)},
           \A i \in DOMAIN e : i[1] # loc[1] => DOMAIN e2[i] \subseteq DOMAIN e[i]
    PROVE  EntriesFit(e2)
<1> SUFFICES ASSUME NEW i \in DOMAIN e
             PROVE  /\ IsABag(e2[i]) /\ IsFiniteSet(DOMAIN e2[i])
                    /\ DOMAIN e2[i] \subseteq Fields \X LocationsOf(i[1])
  BY DEF EntriesFit
<1>1. IsFiniteSet(DOMAIN e[i]) /\ DOMAIN e[i] \subseteq Fields \X LocationsOf(i[1])
  BY DEF EntriesFit
<1>2. IsABag(e2[i])
  BY DEF BagsIn
<1>3. IsFiniteSet(DOMAIN e2[i])
  <2>1. IsFiniteSet(DOMAIN e[i] \union {Entry(i, row, loc)})
    BY <1>1, FS_AddElement
  <2> QED
    BY <2>1, FS_Subset
<1>4. DOMAIN e2[i] \subseteq Fields \X LocationsOf(i[1])
  <2>1. CASE i[1] # loc[1]
    BY <1>1, <2>1
  <2>2. CASE i[1] = loc[1]
    <3>1. Entry(i, row, loc) \in Fields \X LocationsOf(i[1])
      BY <2>2, EntryFits DEF AllColumns
    <3> QED
      BY <1>1, <3>1
  <2> QED
    BY <2>1, <2>2
<1> QED
  BY <1>2, <1>3, <1>4

LEMMA FewerStillFit ==
    ASSUME NEW e, EntriesFit(e), NEW e2, DOMAIN e2 = DOMAIN e, BagsIn(e2),
           \A i \in DOMAIN e : DOMAIN e2[i] \subseteq DOMAIN e[i]
    PROVE  EntriesFit(e2)
<1>1. \A i \in DOMAIN e : IsFiniteSet(DOMAIN e2[i])
  BY FS_Subset DEF EntriesFit
<1> QED
  BY <1>1 DEF EntriesFit, BagsIn

(* RowComes, with a name for the entries afterwards.                       *)
Grown(e, row, loc) ==
    [i \in DOMAIN e |-> IF i[1] = loc[1] THEN e[i] (+) SetToBag({Entry(i, row, loc)}) ELSE e[i]]

LEMMA RowEnters ==
    ASSUME NEW r, NEW e, NEW loc \in Slots, NEW row, BagsIn(e),
           r = [l \in Slots |-> r[l]], r[loc] = NoRow, row # NoRow
    PROVE  /\ BagsIn(Grown(e, row, loc))
           /\ \A i \in DOMAIN e :
                DOMAIN Grown(e, row, loc)[i] \subseteq DOMAIN e[i] \union {Entry(i, row, loc)}
           /\ \A i \in DOMAIN e : i[1] # loc[1] => Grown(e, row, loc)[i] = e[i]
           /\ NoneLost(r, e, [r EXCEPT ![loc] = row], Grown(e, row, loc))
           /\ NoneLeft(r, e, [r EXCEPT ![loc] = row], Grown(e, row, loc))
  BY RowComes DEF Grown

LEMMA EntriesChange ==
    ASSUME NEW db, IsDB(db), ~db.thrown, NEW e2
    PROVE  [db EXCEPT !.entries = e2] = [rows |-> db.rows, entries |-> e2, thrown |-> FALSE]
<1>1. \A r, e, t, d : d = [rows |-> r, entries |-> e, thrown |-> t] =>
            [d EXCEPT !.entries = e2] = [rows |-> r, entries |-> e2, thrown |-> t]
  OBVIOUS
<1>2. db.thrown = FALSE /\ db = [rows |-> db.rows, entries |-> db.entries, thrown |-> db.thrown]
  BY DEF IsDB
<1> DEFINE r == db.rows  e == db.entries  t == db.thrown
<1>3. db = [rows |-> r, entries |-> e, thrown |-> t] /\ t = FALSE
  BY <1>2
<1> HIDE DEF r, e, t
<1>4. [db EXCEPT !.entries = e2] = [rows |-> r, entries |-> e2, thrown |-> FALSE]
  BY <1>1, <1>3
<1> QED
  BY <1>4 DEF r

(* The indexes of its table have lost no entry but that of the row at loc. *)
LostAt(r, e, r2, e2, loc) ==
    \A i \in DOMAIN e2 : \A f : Lacks(r2, e2, i, f) =>
        i \in DOMAIN e /\ (Lacks(r, e, i, f) \/ (i[1] = loc[1] /\ f[2] = loc))

LEMMA UpdateRowIs ==
    ASSUME NEW db, IsDB(db), NEW loc \in Slots, NEW trans, NEW new, new = UpdateRow(db, loc, trans),
           EntriesFit(db.entries), AllColumns(db.entries),
           NEW row, row = Stored(Transformed(db.rows[loc], trans), Columns[loc[1]]),
           db.rows[loc] # NoRow /\ ~TransformsThrow(trans) => Fits(row, loc[1])
    PROVE  /\ IsDB(new) /\ EntriesFit(new.entries)
           /\ DOMAIN new.entries = DOMAIN db.entries
           /\ NoneLeft(db.rows, db.entries, new.rows, new.entries)
           /\ \/ /\ db.thrown \/ db.rows[loc] = NoRow
                 /\ new = [rows |-> db.rows, entries |-> db.entries, thrown |-> TRUE]
              \/ /\ ~db.thrown /\ db.rows[loc] # NoRow /\ TransformsThrow(trans)
                 /\ new.rows = db.rows /\ new.thrown
                 /\ LostAt(db.rows, db.entries, new.rows, new.entries, loc)
              \/ /\ ~db.thrown /\ db.rows[loc] # NoRow /\ ~TransformsThrow(trans)
                 /\ new.rows = [db.rows EXCEPT ![loc] = row]
                 /\ ~new.thrown
                 /\ NoneLost(db.rows, db.entries, new.rows, new.entries)
<1>1. CASE db.thrown \/ db.rows[loc] = NoRow
  <2>1. new = [rows |-> db.rows, entries |-> db.entries, thrown |-> TRUE]
    BY <1>1 DEF UpdateRow, IsDB
  <2>2. IsDB(new)
    BY <2>1 DEF IsDB
  <2>3. new.rows = db.rows /\ new.entries = db.entries
    BY <2>1
  <2> QED
    BY <1>1, <2>1, <2>2, <2>3, LostAndLeft
<1>2. CASE ~db.thrown /\ db.rows[loc] # NoRow
  <2> DEFINE old == db.rows[loc]
             r1 == [db.rows EXCEPT ![loc] = NoRow]
             e1 == [i \in DOMAIN db.entries |->
                       IF i[1] = loc[1] THEN db.entries[i] (-) SetToBag({Entry(i, old, loc)})
                       ELSE db.entries[i]]
             r2 == [r1 EXCEPT ![loc] = row]
             e2 == [i \in DOMAIN e1 |->
                       IF i[1] = loc[1] THEN e1[i] (+) SetToBag({Entry(i, row, loc)}) ELSE e1[i]]
  <2>1. BagsIn(db.entries) /\ db.rows = [l \in Slots |-> db.rows[l]]
    BY DEF IsDB
  <2>2. /\ BagsIn(e1) /\ \A i \in DOMAIN db.entries : DOMAIN e1[i] \subseteq DOMAIN db.entries[i]
        /\ NoneLost(db.rows, db.entries, r1, e1) /\ NoneLeft(db.rows, db.entries, r1, e1)
        /\ NoneLeft(db.rows, db.entries, db.rows, e1)
    BY <1>2, <2>1, RowGoes
  <2>3. DOMAIN e1 = DOMAIN db.entries /\ e1 = [i \in DOMAIN e1 |-> e1[i]]
    OBVIOUS
  <2>4. EntriesFit(e1)
    <3> HIDE DEF e1, r1
    <3> QED
      BY <2>2, <2>3, FewerStillFit
  <2>5. e1 = WithoutEntries(db, old, loc)
    BY DEF WithoutEntries, TableOf
  <2>6. CASE TransformsThrow(trans)
    <3> HIDE DEF e1
    <3>1. new = [rows |-> db.rows, entries |-> e1, thrown |-> TRUE]
      BY <1>2, <2>5, <2>6 DEF UpdateRow, IsDB
    <3>2. IsDB(new)
      BY <2>1, <2>2, <2>3, <3>1 DEF IsDB
    <3>3. ASSUME NEW i \in DOMAIN e1, NEW f, Lacks(db.rows, e1, i, f)
          PROVE  Lacks(db.rows, db.entries, i, f) \/ (i[1] = loc[1] /\ f[2] = loc)
      <4>1. PICK l \in Slots : l[1] = i[1] /\ db.rows[l] # NoRow /\ f = Entry(i, db.rows[l], l) /\ f[2] = l
        BY <3>3, IsDue DEF Lacks
      <4>2. CASE l = loc
        BY <4>1, <4>2
      <4>3. CASE l # loc
        <5>1. r1[l] = db.rows[l]
          BY <2>1, <4>3
        <5>2. f \in DueSet(r1, i)
          BY <4>1, <5>1, IsDue
        <5> HIDE DEF r1
        <5>3. Lacks(r1, e1, i, f)
          BY <3>3, <5>2 DEF Lacks
        <5> QED
          BY <2>2, <5>3 DEF NoneLost
      <4> QED
        BY <4>2, <4>3
    <3>4. LostAt(db.rows, db.entries, new.rows, new.entries, loc)
      BY <2>3, <3>1, <3>3 DEF LostAt
    <3> QED
      BY <1>2, <2>2, <2>3, <2>4, <2>6, <3>1, <3>2, <3>4
  <2>7. CASE ~TransformsThrow(trans)
    <3>1. Fits(row, loc[1]) /\ row # NoRow
      BY <1>2, <2>7, FittingIsARow
    <3>2. r1 = [l \in Slots |-> r1[l]] /\ r1[loc] = NoRow /\ r2 = [db.rows EXCEPT ![loc] = row]
      BY <2>1
    <3>3. /\ BagsIn(e2)
          /\ \A i \in DOMAIN e1 : DOMAIN e2[i] \subseteq DOMAIN e1[i] \union {Entry(i, row, loc)}
          /\ \A i \in DOMAIN e1 : i[1] # loc[1] => e2[i] = e1[i]
          /\ NoneLost(r1, e1, r2, e2) /\ NoneLeft(r1, e1, r2, e2)
      <4>1. r2 = [r1 EXCEPT ![loc] = row]
        OBVIOUS
      <4>2. e2 = Grown(e1, row, loc)
        BY DEF Grown
      <4> HIDE DEF r1, e1, r2, e2
      <4>3. BagsIn(e1) /\ r1 = [l \in Slots |-> r1[l]] /\ r1[loc] = NoRow /\ row # NoRow
        BY <2>2, <3>1, <3>2
      <4> QED
        BY <4>1, <4>2, <4>3, RowEnters
    <3>4. DOMAIN e2 = DOMAIN db.entries /\ e2 = [i \in DOMAIN e2 |-> e2[i]]
      <4> HIDE DEF e1
      <4> QED
        BY <2>3
    <3>5. EntriesFit(e2)
      <4> HIDE DEF r1, e1, r2, e2
      <4>1. AllColumns(e1) /\ DOMAIN e2 = DOMAIN e1
        BY <2>3, <3>4 DEF AllColumns
      <4>2. \A i \in DOMAIN e1 : i[1] # loc[1] => DOMAIN e2[i] \subseteq DOMAIN e1[i]
        BY <3>3
      <4> QED
        BY <2>4, <3>1, <3>3, <4>1, <4>2, EntriesStillFit
    <3>6. new = [rows |-> r2, entries |-> e2, thrown |-> FALSE]
      <4> DEFINE mid == [rows |-> db.rows, entries |-> e1, thrown |-> FALSE]
      <4>1. [db EXCEPT !.entries = WithoutEntries(db, old, loc)] = mid
        <5> HIDE DEF e1
        <5> QED
          BY <1>2, <2>5, EntriesChange
      <4>2. WithEntries(mid, row, loc) = e2
        <5> HIDE DEF e1
        <5> QED
          BY DEF WithEntries, TableOf
      <4>3. new = [mid EXCEPT !.rows[loc] = row, !.entries = WithEntries(mid, row, loc)]
        <5> HIDE DEF mid, e1
        <5> QED
          BY <1>2, <2>7, <4>1 DEF UpdateRow, TableOf
      <4> HIDE DEF e1, e2
      <4> QED
        BY <3>2, <4>2, <4>3
    <3> HIDE DEF r1, e1, r2, e2
    <3>7. NoneLost(db.rows, db.entries, r2, e2) /\ NoneLeft(db.rows, db.entries, r2, e2)
      BY <2>2, <3>3, LostAndLeft
    <3>8. r2 = [l \in Slots |-> r2[l]]
      BY <2>1, <3>2
    <3>9. IsDB(new)
      BY <3>3, <3>4, <3>6, <3>8 DEF IsDB
    <3> QED
      BY <1>2, <2>7, <3>2, <3>4, <3>5, <3>6, <3>7, <3>9
  <2> QED
    BY <2>6, <2>7
<1> QED
  BY <1>1, <1>2

(* After k iterations.  Each location is read when its turn comes, so a    *)
(* row that is updated twice is still one that fits.                       *)
UpdatedSoFar(db, q, k, trans) ==
    /\ IsDB(db) /\ EntriesFit(db.entries)
    /\ DOMAIN db.entries = DOMAIN entries
    /\ \A l \in Slots : rows[l] = NoRow => db.rows[l] = NoRow
    /\ \A l \in Slots : rows[l] # NoRow => RowStays(db.rows[l], rows[l], l[1])
    /\ \A l \in Slots : db.rows[l] = rows[l] \/ \E j \in 1..k : q[j] = l
    /\ NoneLeft(rows, entries, db.rows, db.entries)
    /\ \/ NoneLost(rows, entries, db.rows, db.entries)
       \/ /\ db.thrown /\ TransformsThrow(trans) /\ k > 0 /\ rows[q[1]] # NoRow
          /\ LostAt(rows, entries, db.rows, db.entries, q[1])
    /\ TransformsThrow(trans) => db.rows = rows /\ (k = 0 \/ db.thrown)
    /\ k = 0 => db.entries = entries

LEMMA OneMoreIsUpdated ==
    ASSUME SessionsInv, NEW t \in Tables, NEW trans \in UpdatedColumns,
           NEW q, Len(q) \in Nat, DOMAIN q = 1..Len(q), NEW k \in 0..Len(q)-1,
           \A j \in DOMAIN q : q[j] \in LocationsOf(t), NEW db, UpdatedSoFar(db, q, k, trans)
    PROVE  UpdatedSoFar(UpdateRow(db, q[k+1], trans), q, k + 1, trans)
<1> DEFINE loc == q[k+1]
           new == UpdateRow(db, loc, trans)
           row == Stored(Transformed(db.rows[loc], trans), Columns[loc[1]])
<1>1. /\ k + 1 \in 1..k+1 /\ k + 1 \in DOMAIN q
      /\ \A j \in 1..k : j \in 1..k+1 /\ j \in DOMAIN q
  OBVIOUS
<1>2. loc \in Slots /\ loc[1] = t
  BY <1>1 DEF LocationsOf, TableOf
<1>3. /\ IsDB(db) /\ EntriesFit(db.entries)
      /\ AllColumns(db.entries)
  BY ComparedAreColumns DEF UpdatedSoFar, SessionsInv, TypeOK
<1>4. /\ db.rows[loc] # NoRow => rows[loc] # NoRow /\ RowStays(db.rows[loc], rows[loc], t)
      /\ db.rows[loc] # NoRow /\ ~TransformsThrow(trans) =>
            /\ Fits(row, t) /\ WriterOf(row) = WriterOf(db.rows[loc])
            /\ PlainClients => HasPlainKeys(row, t)
  <2> HIDE DEF loc, row
  <2>1. db.rows[loc] # NoRow => rows[loc] # NoRow /\ RowStays(db.rows[loc], rows[loc], t)
    BY <1>2 DEF UpdatedSoFar
  <2>2. ASSUME db.rows[loc] # NoRow, ~TransformsThrow(trans)
        PROVE  /\ Fits(row, t) /\ WriterOf(row) = WriterOf(db.rows[loc])
               /\ PlainClients => HasPlainKeys(row, t)
    <3>1. Fits(db.rows[loc], t) /\ (PlainClients => HasPlainKeys(db.rows[loc], t))
      BY <2>1, <2>2 DEF RowStays
    <3>2. row = Stored(Transformed(db.rows[loc], trans), Columns[t])
      BY <1>2 DEF row
    <3> QED
      BY <2>2, <3>1, <3>2, UpdatedFits
  <2> QED
    BY <2>1, <2>2
<1>5. /\ IsDB(new) /\ EntriesFit(new.entries)
      /\ DOMAIN new.entries = DOMAIN db.entries
      /\ NoneLeft(db.rows, db.entries, new.rows, new.entries)
      /\ \/ /\ db.thrown \/ db.rows[loc] = NoRow
            /\ new = [rows |-> db.rows, entries |-> db.entries, thrown |-> TRUE]
         \/ /\ ~db.thrown /\ db.rows[loc] # NoRow /\ TransformsThrow(trans)
            /\ new.rows = db.rows /\ new.thrown
            /\ LostAt(db.rows, db.entries, new.rows, new.entries, loc)
         \/ /\ ~db.thrown /\ db.rows[loc] # NoRow /\ ~TransformsThrow(trans)
            /\ new.rows = [db.rows EXCEPT ![loc] = row]
            /\ ~new.thrown
            /\ NoneLost(db.rows, db.entries, new.rows, new.entries)
  <2>1. row = Stored(Transformed(db.rows[loc], trans), Columns[loc[1]])
    OBVIOUS
  <2> HIDE DEF loc, row
  <2> QED
    BY <1>2, <1>3, <1>4, <2>1, UpdateRowIs
<1> HIDE DEF new, row
<1>6. NoneLeft(rows, entries, new.rows, new.entries)
  BY <1>5, LostAndLeft DEF UpdatedSoFar
<1>7. \A l \in Slots : db.rows[l] = rows[l] \/ \E j \in 1..k+1 : q[j] = l
  BY <1>1 DEF UpdatedSoFar
<1>8. CASE /\ db.thrown \/ db.rows[loc] = NoRow
           /\ new = [rows |-> db.rows, entries |-> db.entries, thrown |-> TRUE]
  <2>1. new.rows = db.rows /\ new.entries = db.entries /\ new.thrown
    BY <1>8
  <2> QED
    BY <1>3, <1>5, <1>7, <2>1 DEF UpdatedSoFar, new
<1>9. CASE /\ ~db.thrown /\ db.rows[loc] # NoRow /\ TransformsThrow(trans)
           /\ new.rows = db.rows /\ new.thrown
           /\ LostAt(db.rows, db.entries, new.rows, new.entries, loc)
  <2>1. k = 0 /\ db.rows = rows /\ db.entries = entries /\ q[1] = loc
    BY <1>9 DEF UpdatedSoFar
  <2>2. rows[q[1]] # NoRow /\ LostAt(rows, entries, new.rows, new.entries, q[1])
    BY <1>9, <2>1
  <2> QED
    BY <1>3, <1>5, <1>6, <1>7, <1>9, <2>1, <2>2 DEF UpdatedSoFar, new
<1>10. CASE /\ ~db.thrown /\ db.rows[loc] # NoRow /\ ~TransformsThrow(trans)
            /\ new.rows = [db.rows EXCEPT ![loc] = row]
            /\ ~new.thrown
            /\ NoneLost(db.rows, db.entries, new.rows, new.entries)
  <2>1. \A l \in Slots : new.rows[l] = IF l = loc THEN row ELSE db.rows[l]
    BY <1>3, <1>10 DEF IsDB
  <2>2. NoneLost(rows, entries, new.rows, new.entries)
    BY <1>10, LostAndLeft DEF UpdatedSoFar
  <2>3. RowStays(row, rows[loc], t) /\ rows[loc] # NoRow
    BY <1>4, <1>10, FittingIsARow DEF RowStays
  <2>4. ASSUME NEW l \in Slots
        PROVE  /\ rows[l] = NoRow => new.rows[l] = NoRow
               /\ rows[l] # NoRow => RowStays(new.rows[l], rows[l], l[1])
               /\ new.rows[l] = rows[l] \/ \E j \in 1..k+1 : q[j] = l
    <3>1. CASE l = loc
      <4>1. new.rows[l] = row /\ l[1] = t /\ q[k+1] = l
        BY <1>2, <2>1, <3>1
      <4> QED
        BY <1>1, <2>3, <3>1, <4>1
    <3>2. CASE l # loc
      BY <1>7, <2>1, <3>2 DEF UpdatedSoFar
    <3> QED
      BY <3>1, <3>2
  <2> QED
    BY <1>5, <1>6, <1>10, <2>2, <2>4 DEF UpdatedSoFar, new
<1> QED
  BY <1>5, <1>8, <1>9, <1>10

LEMMA UpdateLeaves ==
    ASSUME SessionsInv, NEW t \in Tables, NEW trans \in UpdatedColumns,
           NEW q, Len(q) \in Nat, DOMAIN q = 1..Len(q), \A j \in DOMAIN q : q[j] \in LocationsOf(t)
    PROVE  UpdatedSoFar(AllUpdated(q, trans), q, Len(q), trans)
<1> DEFINE n == Len(q)
<1>1. PICK after :
        /\ after = [i \in 0..n |-> IF i = 0 THEN Now ELSE UpdateRow(after[i-1], q[i], trans)]
        /\ AllUpdated(q, trans) = after[n]
  BY UpdateRuns
<1> DEFINE K == {k \in 0..n : UpdatedSoFar(after[k], q, k, trans)}
<1>2. after[0] = Now /\ \A k \in 0..n-1 : after[k+1] = UpdateRow(after[k], q[k+1], trans)
  <2>1. \A k \in 0..n-1 : k + 1 \in 0..n /\ k + 1 # 0 /\ (k + 1) - 1 = k
    OBVIOUS
  <2>2. 0 \in 0..n
    OBVIOUS
  <2> HIDE DEF n
  <2> QED
    BY <1>1, <2>1, <2>2
<1>3. UpdatedSoFar(Now, q, 0, trans)
  <2>1. Now.rows = rows /\ Now.entries = entries /\ Now.thrown = FALSE
    BY DEF Now
  <2>2. EntriesFit(entries)
    BY DEF EntriesFit, SessionsInv, TypeOK
  <2>3. \A l \in Slots : rows[l] # NoRow => RowStays(rows[l], rows[l], l[1])
    BY DEF RowStays, SessionsInv, TypeOK, TableOf
  <2> QED
    BY <2>1, <2>2, <2>3, NowIsDB, LostAndLeft DEF UpdatedSoFar
<1>4. 0 \in K
  BY <1>2, <1>3
<1>5. ASSUME NEW k \in 0..n-1, k \in K PROVE k + 1 \in K
  <2>1. UpdatedSoFar(after[k], q, k, trans)
    BY <1>5
  <2>2. UpdatedSoFar(UpdateRow(after[k], q[k+1], trans), q, k + 1, trans)
    BY <2>1, OneMoreIsUpdated
  <2>3. after[k+1] = UpdateRow(after[k], q[k+1], trans) /\ k + 1 \in 0..n
    BY <1>2
  <2> QED
    BY <2>2, <2>3
<1>6. K = 0..n
  <2>1. K \in SUBSET (0..n)
    OBVIOUS
  <2> HIDE DEF K
  <2> QED
    BY <1>4, <1>5, <2>1, InductionUpTo
<1>7. n \in K
  BY <1>6
<1> QED
  BY <1>1, <1>7

-----------------------------------------------------------------------------
(* Every step keeps the inductive invariant, taken apart into what it says *)
(* of the rows, of the indexes and of the transactions.                    *)

RowFits(row, t, n) ==
    /\ row \in Seq(Fields) /\ Fits(row, t) /\ WriterOf(row) \in 0..n-1
    /\ PlainClients => HasPlainKeys(row, t)

RowsFit(r, n) ==
    /\ r = [loc \in Slots |-> r[loc]]
    /\ \A loc \in Slots : r[loc] = NoRow \/ RowFits(r[loc], loc[1], n)

IndexesFit(e) ==
    /\ e = [i \in DOMAIN e |-> e[i]]
    /\ DOMAIN e \subseteq Tables \X {d[1] : d \in Comparisons}
    /\ EntriesFit(e)

TxnsFit ==
    /\ nextTxnID \in 0..MaxTxn
    /\ activeTxns \subseteq 0..nextTxnID-1
    /\ snapshot \in [TxnIDs -> SUBSET TxnIDs]
    /\ insertHistory \in [TxnIDs -> Seq(Slots)]
    /\ alive \in BOOLEAN
    /\ \A x, y \in activeTxns : y < x => y \in snapshot[x]

LEMMA RowsFitIs ==
    ASSUME NEW r, NEW n
    PROVE  RowsFit(r, n) <=>
              /\ r \in [Slots -> Seq(Fields) \union {NoRow}]
              /\ \A loc \in Slots : r[loc] # NoRow =>
                    Fits(r[loc], TableOf(loc)) /\ WriterOf(r[loc]) \in 0..n-1
              /\ PlainClients =>
                    \A loc \in Slots : r[loc] # NoRow => HasPlainKeys(r[loc], TableOf(loc))
<1>1. ASSUME RowsFit(r, n)
      PROVE  /\ r \in [Slots -> Seq(Fields) \union {NoRow}]
             /\ \A loc \in Slots : r[loc] # NoRow =>
                    Fits(r[loc], TableOf(loc)) /\ WriterOf(r[loc]) \in 0..n-1
             /\ PlainClients =>
                    \A loc \in Slots : r[loc] # NoRow => HasPlainKeys(r[loc], TableOf(loc))
  BY <1>1 DEF RowsFit, RowFits, TableOf
<1>2. ASSUME r \in [Slots -> Seq(Fields) \union {NoRow}],
             \A loc \in Slots : r[loc] # NoRow =>
                    Fits(r[loc], TableOf(loc)) /\ WriterOf(r[loc]) \in 0..n-1,
             PlainClients =>
                    \A loc \in Slots : r[loc] # NoRow => HasPlainKeys(r[loc], TableOf(loc))
      PROVE  RowsFit(r, n)
  BY <1>2 DEF RowsFit, RowFits, TableOf
<1> QED
  BY <1>1, <1>2

LEMMA InvHasParts ==
    SessionsInv <=> RowsFit(rows, nextTxnID) /\ IndexesFit(entries) /\ TxnsFit
<1>1. SessionsInv <=>
        /\ /\ rows \in [Slots -> Seq(Fields) \union {NoRow}]
           /\ \A loc \in Slots : rows[loc] # NoRow =>
                 Fits(rows[loc], TableOf(loc)) /\ WriterOf(rows[loc]) \in 0..nextTxnID-1
           /\ PlainClients =>
                 \A loc \in Slots : rows[loc] # NoRow => HasPlainKeys(rows[loc], TableOf(loc))
        /\ IndexesFit(entries) /\ TxnsFit
  BY DEF SessionsInv, TypeOK, IndexesFit, EntriesFit, TxnsFit
<1> QED
  BY <1>1, RowsFitIs

LEMMA InvHasPartsNext ==
    SessionsInv' <=> RowsFit(rows', nextTxnID') /\ IndexesFit(entries') /\ TxnsFit'
<1>1. SessionsInv' <=>
        /\ /\ rows' \in [Slots -> Seq(Fields) \union {NoRow}]
           /\ \A loc \in Slots : rows'[loc] # NoRow =>
                 Fits(rows'[loc], TableOf(loc)) /\ WriterOf(rows'[loc]) \in 0..nextTxnID'-1
           /\ PlainClients =>
                 \A loc \in Slots : rows'[loc] # NoRow => HasPlainKeys(rows'[loc], TableOf(loc))
        /\ IndexesFit(entries') /\ TxnsFit'
  BY DEF SessionsInv, TypeOK, IndexesFit, EntriesFit, TxnsFit
<1> QED
  BY <1>1, RowsFitIs

LEMMA FewerRowsFit ==
    ASSUME NEW r, NEW n, RowsFit(r, n), NEW r2, r2 = [loc \in Slots |-> r2[loc]],
           \A loc \in Slots : r2[loc] = NoRow \/ r2[loc] = r[loc]
    PROVE  RowsFit(r2, n)
  BY DEF RowsFit

LEMMA InvAtFirst == Init => SessionsInv
<1> SUFFICES ASSUME Init PROVE SessionsInv
  OBVIOUS
<1>1. RowsFit(rows, nextTxnID)
  BY DEF Init, RowsFit
<1>2. IndexesFit(entries)
  <2>1. entries = << >> /\ DOMAIN entries = {}
    BY DEF Init
  <2>2. entries = [i \in DOMAIN entries |-> entries[i]]
    BY DEF Init
  <2> QED
    BY <2>1, <2>2 DEF IndexesFit, EntriesFit
<1>3. TxnsFit
  BY BoundsAssumption DEF Init, TxnsFit, TxnIDs
<1> QED
  BY <1>1, <1>2, <1>3, InvHasParts

LEMMA BeginKeepsInv == ASSUME SessionsInv, Begin PROVE SessionsInv'
<1>1. RowsFit(rows, nextTxnID) /\ IndexesFit(entries) /\ TxnsFit
  BY InvHasParts
<1>2. rows' = rows /\ entries' = entries /\ nextTxnID' = nextTxnID + 1
  BY DEF Begin, tables
<1>3. TxnsFit'
  BY <1>1, BoundsAssumption DEF Begin, TxnsFit, TxnIDs
<1>4. RowsFit(rows, nextTxnID + 1)
  <2>1. \A row, t : RowFits(row, t, nextTxnID) => RowFits(row, t, nextTxnID + 1)
    BY <1>1 DEF RowFits, TxnsFit
  <2> QED
    BY <1>1, <2>1 DEF RowsFit
<1> QED
  BY <1>1, <1>2, <1>3, <1>4, InvHasPartsNext

LEMMA CommitKeepsInv == ASSUME SessionsInv, NEW x \in TxnIDs, Commit(x) PROVE SessionsInv'
<1>1. RowsFit(rows, nextTxnID) /\ IndexesFit(entries) /\ TxnsFit
  BY InvHasParts
<1>2. rows' = rows /\ entries' = entries /\ nextTxnID' = nextTxnID
  BY DEF Commit, tables
<1>3. TxnsFit'
  BY <1>1 DEF Commit, TxnsFit
<1> QED
  BY <1>1, <1>2, <1>3, InvHasPartsNext

LEMMA AbortKeepsInv == ASSUME SessionsInv, NEW x \in TxnIDs, Abort(x) PROVE SessionsInv'
<1>1. RowsFit(rows, nextTxnID) /\ IndexesFit(entries) /\ TxnsFit
  BY InvHasParts
<1>2. entries' = entries /\ nextTxnID' = nextTxnID
  BY DEF Abort
<1>3. RowsFit(rows', nextTxnID)
  <2>1. rows' = DeleteBackward(rows, insertHistory[x], DOMAIN insertHistory[x])
    BY DEF Abort
  <2> QED
    BY <1>1, <2>1, FewerRowsFit DEF DeleteBackward
<1>4. TxnsFit'
  BY <1>1 DEF Abort, TxnsFit, TxnIDs
<1> QED
  BY <1>1, <1>2, <1>3, <1>4, InvHasPartsNext

LEMMA NoChangeKeepsInv ==
    ASSUME SessionsInv, UNCHANGED <<tables, txns>>, alive' \in BOOLEAN PROVE SessionsInv'
<1>1. RowsFit(rows, nextTxnID) /\ IndexesFit(entries) /\ TxnsFit
  BY InvHasParts
<1>2. rows' = rows /\ entries' = entries /\ nextTxnID' = nextTxnID
  BY DEF tables, txns
<1>3. TxnsFit'
  BY <1>1 DEF TxnsFit, txns
<1> QED
  BY <1>1, <1>2, <1>3, InvHasPartsNext

(* An Insert leaves everything as it is, or the row of x with its entries  *)
(* is at a location that was free.                                         *)
Arrives(row, loc, x) ==
    /\ rows[loc] = NoRow /\ Fits(row, loc[1]) /\ WriterOf(row) = x
    /\ PlainClients => HasPlainKeys(row, loc[1])
    /\ rows' = [rows EXCEPT ![loc] = row] /\ entries' = Grown(entries, row, loc)

LEMMA InsertIs ==
    ASSUME SessionsInv, NEW x \in activeTxns, NEW t \in Tables, NEW raws \in InsertedRows,
           Insert(x, t, raws)
    PROVE  /\ reply'.call = "Insert" /\ UNCHANGED <<nextTxnID, activeTxns, snapshot>>
           /\ \/ UNCHANGED <<rows, entries, insertHistory>> /\ alive' \in BOOLEAN
              \/ \E loc \in LocationsOf(t) : \E row :
                    /\ Arrives(row, loc, x)
                    /\ insertHistory' = [insertHistory EXCEPT ![x] = Append(@, loc)]
                    /\ UNCHANGED alive
<1> DEFINE raw == RawRow(x, raws)
           columns == Columns[t]
           row == Stored(Build(raw, columns), columns)
<1>1. \/ Throws("Insert") \/ Dies("Insert")
      \/ /\ ~BuildAssertFails(raw, columns) /\ ~BuildThrows(raw, columns)
         /\ ~StoreCrashes(Build(raw, columns), columns)
         /\ \E loc \in LocationsOf(t) \intersect FreeSlots(rows) :
                   /\ Becomes(Entered(Now, row, loc))
                   /\ insertHistory' = [insertHistory EXCEPT ![x] = Append(@, loc)]
                   /\ reply' = Outcome("Insert", "ok")
                   /\ UNCHANGED <<nextTxnID, activeTxns, snapshot, alive>>
  BY DEF Insert
<1>2. alive \in BOOLEAN /\ x \in Nat
  BY DEF SessionsInv, TypeOK
<1>3. CASE Throws("Insert")
  BY <1>2, <1>3 DEF Throws, Outcome, tables, txns
<1>4. CASE Dies("Insert")
  BY <1>2, <1>4 DEF Dies, Outcome, tables, txns
<1>5. ASSUME ~BuildAssertFails(raw, columns), ~BuildThrows(raw, columns),
             ~StoreCrashes(Build(raw, columns), columns),
             NEW loc \in LocationsOf(t) \intersect FreeSlots(rows),
             Becomes(Entered(Now, row, loc)),
             insertHistory' = [insertHistory EXCEPT ![x] = Append(@, loc)],
             reply' = Outcome("Insert", "ok"),
             UNCHANGED <<nextTxnID, activeTxns, snapshot, alive>>
      PROVE  reply'.call = "Insert" /\ loc[1] = t /\ Arrives(row, loc, x)
  <2>1. Fits(row, t) /\ WriterOf(row) = x /\ (PlainClients => HasPlainKeys(row, t))
    BY <1>2, <1>5, InsertedFits
  <2>2. rows[loc] = NoRow /\ loc[1] = t
    BY <1>5 DEF FreeSlots, LocationsOf, TableOf
  <2>3. WithEntries(Now, row, loc) = Grown(entries, row, loc)
    BY DEF WithEntries, Grown, Now, TableOf
  <2>4. rows' = [rows EXCEPT ![loc] = row] /\ entries' = Grown(entries, row, loc)
    <3> HIDE DEF row
    <3>1. Entered(Now, row, loc) = [Now EXCEPT !.rows[loc] = row, !.entries = Grown(entries, row, loc)]
      BY <2>3 DEF Entered
    <3> QED
      BY <1>5, <3>1 DEF Becomes, Now
  <2>5. reply'.call = "Insert"
    BY <1>5 DEF Outcome
  <2> HIDE DEF row
  <2> QED
    BY <2>1, <2>2, <2>4, <2>5 DEF Arrives
<1> HIDE DEF raw, columns, row
<1> QED
  BY <1>1, <1>3, <1>4, <1>5

LEMMA InsertKeepsInv ==
    ASSUME SessionsInv, NEW x \in activeTxns, NEW t \in Tables, NEW raws \in InsertedRows,
           Insert(x, t, raws)
    PROVE  SessionsInv'
<1>1. RowsFit(rows, nextTxnID) /\ IndexesFit(entries) /\ TxnsFit
  BY InvHasParts
<1>2. CASE UNCHANGED <<rows, entries, insertHistory>> /\ alive' \in BOOLEAN
  BY <1>2, InsertIs, NoChangeKeepsInv DEF tables, txns
<1>3. ASSUME NEW loc \in LocationsOf(t), NEW row, Arrives(row, loc, x),
             insertHistory' = [insertHistory EXCEPT ![x] = Append(@, loc)], UNCHANGED alive
      PROVE  SessionsInv'
  <2>1. nextTxnID' = nextTxnID /\ activeTxns' = activeTxns /\ snapshot' = snapshot
    BY InsertIs
  <2>2. loc \in Slots
    BY DEF LocationsOf
  <2>3. RowsFit(rows', nextTxnID)
    <3>1. \A l \in Slots : rows'[l] = IF l = loc THEN row ELSE rows[l]
      BY <1>1, <1>3, <2>2 DEF RowsFit, Arrives
    <3>2. RowFits(row, loc[1], nextTxnID)
      BY <1>1, <1>3 DEF Arrives, RowFits, Fits, TxnsFit
    <3>3. rows' = [l \in Slots |-> rows'[l]]
      BY <1>1, <1>3 DEF RowsFit, Arrives
    <3> QED
      BY <1>1, <3>1, <3>2, <3>3 DEF RowsFit
  <2>4. IndexesFit(entries')
    <3>1. row # NoRow
      BY <1>3, FittingIsARow DEF Arrives
    <3>2. /\ BagsIn(entries) /\ rows = [l \in Slots |-> rows[l]] /\ rows[loc] = NoRow
          /\ EntriesFit(entries) /\ Fits(row, loc[1])
          /\ DOMAIN entries \subseteq Tables \X {d[1] : d \in Comparisons}
      BY <1>1, <1>3 DEF BagsIn, IndexesFit, EntriesFit, RowsFit, Arrives
    <3>3. /\ BagsIn(entries')
          /\ \A i \in DOMAIN entries :
                DOMAIN entries'[i] \subseteq DOMAIN entries[i] \union {Entry(i, row, loc)}
          /\ \A i \in DOMAIN entries : i[1] # loc[1] => entries'[i] = entries[i]
      BY <1>3, <2>2, <3>1, <3>2, RowEnters DEF Arrives
    <3>4. DOMAIN entries' = DOMAIN entries /\ entries' = [i \in DOMAIN entries' |-> entries'[i]]
      BY <1>3 DEF Arrives, Grown
    <3>5. EntriesFit(entries')
      <4>1. \A i \in DOMAIN entries : i[1] # loc[1] => DOMAIN entries'[i] \subseteq DOMAIN entries[i]
        BY <3>3
      <4> QED
        BY <2>2, <3>2, <3>3, <3>4, <4>1, EntriesStillFit, ComparedAreColumns, SMTT(30)
    <3> QED
      BY <3>2, <3>4, <3>5 DEF IndexesFit
  <2>5. TxnsFit'
    <3>1. x \in TxnIDs /\ insertHistory \in [TxnIDs -> Seq(Slots)]
      BY <1>1, BoundsAssumption DEF TxnsFit, TxnIDs
    <3>2. Append(insertHistory[x], loc) \in Seq(Slots)
      BY <2>2, <3>1
    <3>3. insertHistory' \in [TxnIDs -> Seq(Slots)]
      BY <1>3, <3>1, <3>2
    <3> QED
      BY <1>1, <1>3, <2>1, <3>3 DEF TxnsFit
  <2> QED
    BY <2>1, <2>3, <2>4, <2>5, InvHasPartsNext
<1> QED
  BY <1>2, <1>3, InsertIs

(* A Delete or an Update dies in its search, or ends with what its loop    *)
(* over the locations found leaves.                                        *)
Ends(call, t, cond, found, db) ==
    /\ rows' = db.rows /\ entries' = db.entries
    /\ reply' = [call |-> call, end |-> IF db.thrown THEN "exception" ELSE "ok",
                 table |-> t, cond |-> cond, found |-> found]
    /\ UNCHANGED <<txns, alive>>

LEMMA DeleteIs ==
    ASSUME SessionsInv, NEW t \in Tables, NEW cond \in Conditions_(t), Delete(t, cond)
    PROVE  \/ Dies("Delete")
           \/ \E found \in Searches(t, NoTxn, cond) : \E db :
                 Ends("Delete", t, cond, found, db) /\ DeletedSoFar(db, found, Len(found))
<1>1. \/ Dies("Delete")
      \/ \E found \in Searches(t, NoTxn, cond) : Ends("Delete", t, cond, found, AllDeleted(found))
  BY DEF Delete, Changed, Becomes, Ends
<1>2. ASSUME NEW found \in Searches(t, NoTxn, cond)
      PROVE  DeletedSoFar(AllDeleted(found), found, Len(found))
  <2>1. found \in Seq(LocationsOf(t)) /\ Len(found) \in Nat /\ DOMAIN found = 1..Len(found)
    BY SearchesFind
  <2>2. \A j \in DOMAIN found : found[j] \in Slots
    BY <2>1 DEF LocationsOf
  <2> QED
    BY <2>1, <2>2, NowIsDB, DeletionLeaves
<1> QED
  BY <1>1, <1>2

LEMMA UpdateIs ==
    ASSUME SessionsInv, NEW t \in Tables, NEW cond \in Conditions_(t),
           NEW trans \in UpdatedColumns, Update(t, cond, trans)
    PROVE  \/ Dies("Update")
           \/ \E found \in Searches(t, NoTxn, cond) : \E db :
                 Ends("Update", t, cond, found, db) /\ UpdatedSoFar(db, found, Len(found), trans)
<1>1. \/ Dies("Update")
      \/ \E found \in Searches(t, NoTxn, cond) : Ends("Update", t, cond, found, AllUpdated(found, trans))
  BY DEF Update, Changed, Becomes, Ends
<1>2. ASSUME NEW found \in Searches(t, NoTxn, cond)
      PROVE  UpdatedSoFar(AllUpdated(found, trans), found, Len(found), trans)
  <2>1. found \in Seq(LocationsOf(t)) /\ Len(found) \in Nat /\ DOMAIN found = 1..Len(found)
    BY SearchesFind
  <2>2. \A j \in DOMAIN found : found[j] \in LocationsOf(t)
    BY <2>1
  <2> QED
    BY <2>1, <2>2, UpdateLeaves
<1> QED
  BY <1>1, <1>2

LEMMA DeadOrRefused ==
    ASSUME SessionsInv, NEW call, Throws(call) \/ Dies(call)
    PROVE  /\ SessionsInv' /\ rows' = rows /\ entries' = entries
           /\ UNCHANGED txns /\ reply'.call = call /\ "cond" \notin DOMAIN reply'
<1>1. UNCHANGED <<tables, txns>> /\ alive' \in BOOLEAN
  BY DEF Throws, Dies, SessionsInv, TypeOK
<1>2. reply'.call = call /\ "cond" \notin DOMAIN reply'
  <2>1. \E end : reply' = [call |-> call, end |-> end]
    BY DEF Throws, Dies, Outcome
  <2> QED
    BY <2>1
<1> QED
  BY <1>1, <1>2, NoChangeKeepsInv DEF tables

LEMMA DeleteKeepsInv ==
    ASSUME SessionsInv, NEW t \in Tables, NEW cond \in Conditions_(t), Delete(t, cond)
    PROVE  SessionsInv'
<1>1. RowsFit(rows, nextTxnID) /\ IndexesFit(entries) /\ TxnsFit
  BY InvHasParts
<1>2. ASSUME NEW found \in Searches(t, NoTxn, cond), NEW db,
             Ends("Delete", t, cond, found, db), DeletedSoFar(db, found, Len(found))
      PROVE  SessionsInv'
  <2>1. rows' = db.rows /\ entries' = db.entries /\ UNCHANGED <<txns, alive>>
    BY <1>2 DEF Ends
  <2>2. RowsFit(db.rows, nextTxnID)
    <3>1. db.rows = [l \in Slots |-> db.rows[l]]
      BY <1>2 DEF DeletedSoFar, IsDB
    <3>2. \A l \in Slots : db.rows[l] = NoRow \/ db.rows[l] = rows[l]
      BY <1>2 DEF DeletedSoFar
    <3> QED
      BY <1>1, <3>1, <3>2, FewerRowsFit
  <2>3. IndexesFit(db.entries)
    <3>1. /\ DOMAIN db.entries = DOMAIN entries /\ BagsIn(db.entries)
          /\ \A i \in DOMAIN entries : DOMAIN db.entries[i] \subseteq DOMAIN entries[i]
          /\ db.entries = [i \in DOMAIN db.entries |-> db.entries[i]]
      BY <1>2 DEF DeletedSoFar, IsDB
    <3>2. EntriesFit(entries)
      BY <1>1 DEF IndexesFit
    <3>3. EntriesFit(db.entries)
      BY <3>1, <3>2, FewerStillFit
    <3> QED
      BY <1>1, <3>1, <3>3 DEF IndexesFit
  <2>4. TxnsFit' /\ nextTxnID' = nextTxnID
    BY <1>1, <2>1 DEF TxnsFit, txns
  <2> QED
    BY <2>1, <2>2, <2>3, <2>4, InvHasPartsNext
<1> QED
  BY <1>2, DeleteIs, DeadOrRefused

LEMMA UpdateKeepsInv ==
    ASSUME SessionsInv, NEW t \in Tables, NEW cond \in Conditions_(t),
           NEW trans \in UpdatedColumns, Update(t, cond, trans)
    PROVE  SessionsInv'
<1>1. RowsFit(rows, nextTxnID) /\ IndexesFit(entries) /\ TxnsFit
  BY InvHasParts
<1>2. ASSUME NEW found \in Searches(t, NoTxn, cond), NEW db,
             Ends("Update", t, cond, found, db), UpdatedSoFar(db, found, Len(found), trans)
      PROVE  SessionsInv'
  <2>1. rows' = db.rows /\ entries' = db.entries /\ UNCHANGED <<txns, alive>>
    BY <1>2 DEF Ends
  <2>2. RowsFit(db.rows, nextTxnID)
    <3>1. db.rows = [l \in Slots |-> db.rows[l]]
      BY <1>2 DEF UpdatedSoFar, IsDB
    <3>2. ASSUME NEW l \in Slots PROVE db.rows[l] = NoRow \/ RowFits(db.rows[l], l[1], nextTxnID)
      <4>1. CASE rows[l] = NoRow
        BY <1>2, <4>1 DEF UpdatedSoFar
      <4>2. CASE rows[l] # NoRow
        <5>1. RowStays(db.rows[l], rows[l], l[1])
          BY <1>2, <4>2 DEF UpdatedSoFar
        <5>2. RowFits(rows[l], l[1], nextTxnID)
          BY <1>1, <4>2 DEF RowsFit
        <5> QED
          BY <5>1, <5>2 DEF RowStays, RowFits, Fits
      <4> QED
        BY <4>1, <4>2
    <3> QED
      BY <3>1, <3>2 DEF RowsFit
  <2>3. IndexesFit(db.entries)
    BY <1>1, <1>2 DEF IndexesFit, UpdatedSoFar, IsDB
  <2>4. TxnsFit' /\ nextTxnID' = nextTxnID
    BY <1>1, <2>1 DEF TxnsFit, txns
  <2> QED
    BY <2>1, <2>2, <2>3, <2>4, InvHasPartsNext
<1> QED
  BY <1>2, UpdateIs, DeadOrRefused

(* An index that is created holds an entry for each row, once.             *)
LEMMA CreateIndexIs ==
    ASSUME NEW t \in Tables, NEW c, CreateIndex(t, c)
    PROVE  \/ Throws("CreateIndex")
           \/ /\ rows' = rows /\ UNCHANGED <<txns, alive>> /\ reply'.call = "CreateIndex"
              /\ <<t, c>> \notin DOMAIN entries
              /\ DOMAIN entries' = DOMAIN entries \union {<<t, c>>}
              /\ entries' = [i \in DOMAIN entries' |-> entries'[i]]
              /\ \A i \in DOMAIN entries : entries'[i] = entries[i]
              /\ entries'[<<t, c>>] = [f \in DueSet(rows, <<t, c>>) |-> 1]
<1>1. CASE Throws("CreateIndex")
  BY <1>1
<1>2. CASE ~IsIndex(t, c) /\ ~Throws("CreateIndex")
  <2>1. reply' = Outcome("CreateIndex", "ok") /\ UNCHANGED <<rows, txns, alive>>
    BY <1>2 DEF CreateIndex
  <2>2. entries' = [i \in DOMAIN entries \union {<<t, c>>} |->
                        IF i = <<t, c>> THEN Indexed(t, c) ELSE entries[i]]
    BY <1>2 DEF CreateIndex
  <2>3. <<t, c>> \notin DOMAIN entries
    BY <1>2 DEF IsIndex
  <2>4. Indexed(t, c) = [f \in DueSet(rows, <<t, c>>) |-> 1]
    BY DEF Indexed, DueSet, SetToBag
  <2>5. reply'.call = "CreateIndex"
    BY <2>1 DEF Outcome
  <2> QED
    BY <2>1, <2>2, <2>3, <2>4, <2>5
<1> QED
  BY <1>1, <1>2 DEF CreateIndex

LEMMA DueIsFinite ==
    ASSUME NEW r, NEW i PROVE IsFiniteSet(DueSet(r, i))
<1> DEFINE S == {l \in Slots : l[1] = i[1] /\ r[l] # NoRow}
           f == [l \in S |-> Entry(i, r[l], l)]
<1>1. IsFiniteSet(S)
  BY SlotsAssumption, FS_Subset
<1>2. f \in Surjection(S, DueSet(r, i))
  BY DEF Surjection, DueSet, LocationsOf, TableOf
<1> QED
  BY <1>1, <1>2, FS_Surjection

LEMMA CreateIndexKeepsInv ==
    ASSUME SessionsInv, NEW t \in Tables, NEW c \in {d[1] : d \in Comparisons}, CreateIndex(t, c)
    PROVE  SessionsInv'
<1>1. RowsFit(rows, nextTxnID) /\ IndexesFit(entries) /\ TxnsFit
  BY InvHasParts
<1>2. CASE Throws("CreateIndex")
  BY <1>2, DeadOrRefused
<1>3. CASE ~Throws("CreateIndex")
  <2> DEFINE index == <<t, c>>
  <2>1. /\ rows' = rows /\ UNCHANGED <<txns, alive>>
        /\ DOMAIN entries' = DOMAIN entries \union {index}
        /\ entries' = [i \in DOMAIN entries' |-> entries'[i]]
        /\ \A i \in DOMAIN entries : entries'[i] = entries[i]
        /\ entries'[index] = [f \in DueSet(rows, index) |-> 1]
    BY <1>3, CreateIndexIs
  <2>2. index \in Tables \X {d[1] : d \in Comparisons} /\ index[1] = t
    OBVIOUS
  <2> HIDE DEF index
  <2>3. /\ IsABag(entries'[index]) /\ IsFiniteSet(DOMAIN entries'[index])
        /\ DOMAIN entries'[index] \subseteq Fields \X LocationsOf(t)
    <3>1. IsABag(entries'[index])
      BY <2>1 DEF IsABag
    <3>2. ASSUME NEW f \in DueSet(rows, index) PROVE f \in Fields \X LocationsOf(t)
      <4>1. PICK l \in Slots : l[1] = t /\ rows[l] # NoRow /\ f = Entry(index, rows[l], l)
        BY <2>2, <3>2, IsDue
      <4>2. Fits(rows[l], t)
        BY <1>1, <4>1 DEF RowsFit, RowFits
      <4>3. IsColumn(index)
        BY <2>2, ComparedColumns DEF IsColumn
      <4> QED
        BY <2>2, <4>1, <4>2, <4>3, EntryFits
    <3> QED
      BY <2>1, <3>1, <3>2, DueIsFinite
  <2>4. IndexesFit(entries')
    BY <1>1, <2>1, <2>2, <2>3 DEF IndexesFit, EntriesFit
  <2>5. TxnsFit' /\ nextTxnID' = nextTxnID
    BY <1>1, <2>1 DEF TxnsFit, txns
  <2> QED
    BY <1>1, <2>1, <2>4, <2>5, InvHasPartsNext
<1> QED
  BY <1>2, <1>3

LEMMA DropIndexIs ==
    ASSUME NEW t \in Tables, NEW c, DropIndex(t, c)
    PROVE  \/ Throws("DropIndex") \/ Dies("DropIndex")
           \/ /\ rows' = rows /\ UNCHANGED <<txns, alive>> /\ reply'.call = "DropIndex"
              /\ entries' = [i \in DOMAIN entries \ {<<t, c>>} |-> entries[i]]
<1>1. \/ Throws("DropIndex") \/ Dies("DropIndex")
      \/ /\ entries' = [i \in DOMAIN entries \ {<<t, c>>} |-> entries[i]]
         /\ reply' = Outcome("DropIndex", "ok") /\ UNCHANGED <<rows, txns, alive>>
  BY DEF DropIndex
<1>2. Outcome("DropIndex", "ok").call = "DropIndex"
  BY DEF Outcome
<1> QED
  BY <1>1, <1>2

LEMMA DropIndexKeepsInv ==
    ASSUME SessionsInv, NEW t \in Tables, NEW c, DropIndex(t, c)
    PROVE  SessionsInv'
<1>1. RowsFit(rows, nextTxnID) /\ IndexesFit(entries) /\ TxnsFit
  BY InvHasParts
<1>2. CASE Throws("DropIndex") \/ Dies("DropIndex")
  BY <1>2, DeadOrRefused
<1>3. CASE /\ rows' = rows /\ UNCHANGED <<txns, alive>>
           /\ entries' = [i \in DOMAIN entries \ {<<t, c>>} |-> entries[i]]
  <2>1. IndexesFit(entries')
    BY <1>1, <1>3 DEF IndexesFit, EntriesFit
  <2>2. TxnsFit' /\ nextTxnID' = nextTxnID
    BY <1>1, <1>3 DEF TxnsFit, txns
  <2> QED
    BY <1>1, <1>3, <2>1, <2>2, InvHasPartsNext
<1> QED
  BY <1>2, <1>3, DropIndexIs

(* The calls of the clients, and nothing else, change the state.           *)
LEMMA InvIsInductive == ASSUME SessionsInv, [Next]_vars PROVE SessionsInv'
<1>1. CASE Begin
  BY <1>1, BeginKeepsInv
<1>2. ASSUME NEW x \in TxnIDs, Commit(x) PROVE SessionsInv'
  BY <1>2, CommitKeepsInv
<1>3. ASSUME NEW x \in TxnIDs, Abort(x) PROVE SessionsInv'
  BY <1>3, AbortKeepsInv
<1>4. ASSUME NEW t \in Tables, NEW raws \in InsertedRows, NEW x \in activeTxns, Insert(x, t, raws)
      PROVE  SessionsInv'
  BY <1>4, InsertKeepsInv
<1>5. ASSUME NEW t \in Tables, NEW cond \in Conditions_(t), Delete(t, cond) PROVE SessionsInv'
  BY <1>5, DeleteKeepsInv
<1>6. ASSUME NEW t \in Tables, NEW cond \in Conditions_(t), NEW trans \in UpdatedColumns,
             Update(t, cond, trans)
      PROVE  SessionsInv'
  BY <1>6, UpdateKeepsInv
<1>7. ASSUME NEW t \in Tables, NEW c \in {d[1] : d \in Comparisons}, CreateIndex(t, c)
      PROVE  SessionsInv'
  BY <1>7, CreateIndexKeepsInv
<1>8. ASSUME NEW t \in Tables, NEW c \in {d[1] : d \in Comparisons}, DropIndex(t, c)
      PROVE  SessionsInv'
  BY <1>8, DropIndexKeepsInv
<1>9. CASE UNCHANGED vars
  BY <1>9, NoChangeKeepsInv DEF vars, SessionsInv, TypeOK
<1> QED
  BY <1>1, <1>2, <1>3, <1>4, <1>5, <1>6, <1>7, <1>8, <1>9 DEF Next

LEMMA SessionsHold == Spec => []SessionsInv
<1>1. SessionsInv /\ [Next]_<<vars, damaged>> => SessionsInv'
  BY InvIsInductive
<1> QED
  BY <1>1, InvAtFirst, PTL DEF Spec, InitSessions

(* Tables, indexes and transactions keep their types: every row has a      *)
(* field of its type for each column and the id of a transaction that has  *)
(* begun, after any sequence of Insert, Delete, Update (instance.cc:85-210)*)
(* and Abort.                                                              *)
THEOREM SessionsAreTyped == Spec => []TypeOK
<1>1. SessionsInv => TypeOK
  BY DEF SessionsInv
<1> QED
  BY <1>1, SessionsHold, PTL

-----------------------------------------------------------------------------
(* Entries and rows *)

LEMMA NoneIsNewNow ==
    ASSUME SessionsInv, SessionsInv'
    PROVE  /\ NoneLost(rows, entries, rows', entries') => Missing' \subseteq Missing
           /\ NoneLeft(rows, entries, rows', entries') => Stale' \subseteq Stale
<1>1. BagsIn(entries) /\ BagsIn(entries')
  BY DEF SessionsInv, TypeOK, BagsIn
<1> QED
  BY <1>1, NoneIsNew, WhatIsMissing, WhatIsMissingNext

EntriesStep ==
    /\ ~(Missing' \subseteq Missing) =>
            reply'.call = "Update" /\ reply'.end = "exception" /\ rows' = rows
    /\ ~(Stale' \subseteq Stale) => reply'.call = "Abort"

(* What an index lacks or has too much of after a step, it did before, or  *)
(* the step was seen to damage it there.                                   *)
DamageStep ==
    \A i \in DOMAIN entries' : \A f :
        Lacks(rows', entries', i, f) \/ Exceeds(rows', entries', i, f) =>
            /\ i \in DOMAIN entries
            /\ \/ Lacks(rows, entries, i, f) \/ Exceeds(rows, entries, i, f)
               \/ <<i, f[2]>> \in NewlyDamaged

IndexStep == EntriesStep /\ DamageStep

LEMMA NothingIsDamaged ==
    ASSUME SessionsInv, SessionsInv', NoneLost(rows, entries, rows', entries'),
           NoneLeft(rows, entries, rows', entries')
    PROVE  IndexStep
<1>1. EntriesStep
  BY NoneIsNewNow DEF EntriesStep
<1>2. DamageStep
  BY DEF DamageStep, NoneLost, NoneLeft
<1> QED
  BY <1>1, <1>2 DEF IndexStep

LEMMA NoChangeLeavesEntries ==
    ASSUME SessionsInv, SessionsInv', rows' = rows, entries' = entries PROVE IndexStep
  BY NothingIsDamaged, LostAndLeft

LEMMA AbortLeavesEntries ==
    ASSUME SessionsInv, NEW x \in TxnIDs, Abort(x) PROVE IndexStep
<1>1. RowsFit(rows, nextTxnID)
  BY InvHasParts
<1>2. /\ entries' = entries /\ reply'.call = "Abort"
      /\ rows' = DeleteBackward(rows, insertHistory[x], DOMAIN insertHistory[x])
  BY DEF Abort, Outcome
<1>3. \A l \in Slots : rows'[l] # NoRow => rows'[l] = rows[l]
  BY <1>2 DEF DeleteBackward
<1>4. NoneLost(rows, entries, rows', entries')
  <2>1. ASSUME NEW i, NEW f, f \in DueSet(rows', i) PROVE f \in DueSet(rows, i)
    BY <1>3, <2>1, IsDue
  <2> QED
    BY <1>2, <2>1 DEF NoneLost, Lacks
<1>5. ASSUME NEW i \in DOMAIN entries, NEW f, Exceeds(rows', entries', i, f), ~Exceeds(rows, entries, i, f)
      PROVE  <<i, f[2]>> \in NewlyDamaged
  <2>1. f \in DueSet(rows, i) /\ f \notin DueSet(rows', i)
    BY <1>2, <1>5 DEF Exceeds
  <2>2. PICK l \in Slots : l[1] = i[1] /\ rows[l] # NoRow /\ f = Entry(i, rows[l], l) /\ f[2] = l
    BY <2>1, IsDue
  <2>3. rows'[l] # rows[l]
    BY <2>1, <2>2, IsDue
  <2>4. l \in BrokenOff
    BY <1>2, <2>3 DEF BrokenOff
  <2> QED
    BY <2>2, <2>4 DEF NewlyDamaged, TableOf
<1>6. DamageStep
  BY <1>2, <1>4, <1>5 DEF DamageStep, NoneLost
<1>7. EntriesStep
  BY <1>2, <1>4, AbortKeepsInv, NoneIsNewNow DEF EntriesStep
<1> QED
  BY <1>6, <1>7 DEF IndexStep

LEMMA InsertLeavesEntries ==
    ASSUME SessionsInv, NEW x \in activeTxns, NEW t \in Tables, NEW raws \in InsertedRows,
           Insert(x, t, raws)
    PROVE  IndexStep
<1>1. SessionsInv'
  BY InsertKeepsInv
<1>2. CASE UNCHANGED <<rows, entries, insertHistory>>
  BY <1>1, <1>2, NoChangeLeavesEntries
<1>3. ASSUME NEW loc \in LocationsOf(t), NEW row, Arrives(row, loc, x) PROVE IndexStep
  <2>1. loc \in Slots /\ BagsIn(entries) /\ rows = [l \in Slots |-> rows[l]]
    BY DEF LocationsOf, SessionsInv, TypeOK, BagsIn
  <2>2. row # NoRow
    BY <1>3, FittingIsARow DEF Arrives
  <2>3. NoneLost(rows, entries, rows', entries') /\ NoneLeft(rows, entries, rows', entries')
    BY <1>3, <2>1, <2>2, RowEnters DEF Arrives
  <2> QED
    BY <1>1, <2>3, NothingIsDamaged
<1> QED
  BY <1>2, <1>3, InsertIs

LEMMA DeleteLeavesEntries ==
    ASSUME SessionsInv, NEW t \in Tables, NEW cond \in Conditions_(t), Delete(t, cond)
    PROVE  IndexStep
<1>1. SessionsInv'
  BY DeleteKeepsInv
<1>2. CASE Dies("Delete")
  BY <1>1, <1>2, DeadOrRefused, NoChangeLeavesEntries
<1>3. ASSUME NEW found \in Searches(t, NoTxn, cond), NEW db,
             Ends("Delete", t, cond, found, db), DeletedSoFar(db, found, Len(found))
      PROVE  IndexStep
  <2>1. NoneLost(rows, entries, rows', entries') /\ NoneLeft(rows, entries, rows', entries')
    BY <1>3 DEF Ends, DeletedSoFar
  <2> QED
    BY <1>1, <2>1, NothingIsDamaged
<1> QED
  BY <1>2, <1>3, DeleteIs

LEMMA UpdateLeavesEntries ==
    ASSUME SessionsInv, NEW t \in Tables, NEW cond \in Conditions_(t),
           NEW trans \in UpdatedColumns, Update(t, cond, trans)
    PROVE  IndexStep
<1>1. SessionsInv'
  BY UpdateKeepsInv
<1>2. CASE Dies("Update")
  BY <1>1, <1>2, DeadOrRefused, NoChangeLeavesEntries
<1>3. ASSUME NEW found \in Searches(t, NoTxn, cond), NEW db,
             Ends("Update", t, cond, found, db), UpdatedSoFar(db, found, Len(found), trans)
      PROVE  IndexStep
  <2>1. rows' = db.rows /\ entries' = db.entries
    BY <1>3 DEF Ends
  <2>2. NoneLeft(rows, entries, rows', entries')
    BY <1>3, <2>1 DEF UpdatedSoFar
  <2>3. CASE NoneLost(rows, entries, rows', entries')
    BY <1>1, <2>2, <2>3, NothingIsDamaged
  <2>4. CASE /\ db.thrown /\ TransformsThrow(trans) /\ Len(found) > 0 /\ rows[found[1]] # NoRow
             /\ LostAt(rows, entries, db.rows, db.entries, found[1])
    <3>1. /\ rows' = rows /\ DOMAIN entries' = DOMAIN entries
          /\ reply'.call = "Update" /\ reply'.end = "exception" /\ reply'.found = found
      BY <1>3, <2>1, <2>4 DEF UpdatedSoFar, Ends
    <3>2. found \in Seq(LocationsOf(t)) /\ Head(found) = found[1]
      BY SearchesFind
    <3>3. Head(found) \in BrokenOff
      BY <2>4, <3>1, <3>2 DEF BrokenOff
    <3>4. Head(found) \in LocationsOf(t)
      BY <2>4, <3>2
    <3>5. \A i \in DOMAIN entries : i[1] = found[1][1] => <<i, found[1]>> \in NewlyDamaged
      BY <3>2, <3>3 DEF NewlyDamaged, TableOf
    <3>6. DamageStep
      BY <2>1, <2>2, <2>4, <3>5 DEF DamageStep, LostAt, NoneLeft
    <3> QED
      BY <1>1, <2>2, <3>1, <3>6, NoneIsNewNow DEF EntriesStep, IndexStep
  <2> QED
    BY <1>3, <2>1, <2>3, <2>4 DEF UpdatedSoFar
<1> QED
  BY <1>2, <1>3, UpdateIs

LEMMA CreateIndexLeavesEntries ==
    ASSUME SessionsInv, NEW t \in Tables, NEW c \in {d[1] : d \in Comparisons}, CreateIndex(t, c)
    PROVE  IndexStep
<1>1. SessionsInv'
  BY CreateIndexKeepsInv
<1>2. CASE Throws("CreateIndex")
  BY <1>1, <1>2, DeadOrRefused, NoChangeLeavesEntries
<1>3. CASE ~Throws("CreateIndex")
  <2> DEFINE index == <<t, c>>
  <2>1. /\ rows' = rows /\ index \notin DOMAIN entries
        /\ DOMAIN entries' = DOMAIN entries \union {index}
        /\ \A i \in DOMAIN entries : entries'[i] = entries[i]
        /\ entries'[index] = [f \in DueSet(rows, index) |-> 1]
    BY <1>3, CreateIndexIs
  <2> HIDE DEF index
  <2>2. \A f : ~Lacks(rows', entries', index, f) /\ ~Exceeds(rows', entries', index, f)
    BY <2>1 DEF Lacks, Exceeds
  <2>3. \A i \in DOMAIN entries : \A f :
            /\ Lacks(rows', entries', i, f) => Lacks(rows, entries, i, f)
            /\ Exceeds(rows', entries', i, f) => Exceeds(rows, entries, i, f)
    BY <2>1 DEF Lacks, Exceeds
  <2>4. NoneLost(rows, entries, rows', entries') /\ NoneLeft(rows, entries, rows', entries')
    BY <2>1, <2>2, <2>3 DEF NoneLost, NoneLeft
  <2> QED
    BY <1>1, <2>4, NothingIsDamaged
<1> QED
  BY <1>2, <1>3

LEMMA DropIndexLeavesEntries ==
    ASSUME SessionsInv, NEW t \in Tables, NEW c, DropIndex(t, c) PROVE IndexStep
<1>1. SessionsInv'
  BY DropIndexKeepsInv
<1>2. CASE Throws("DropIndex") \/ Dies("DropIndex")
  BY <1>1, <1>2, DeadOrRefused, NoChangeLeavesEntries
<1>3. CASE rows' = rows /\ entries' = [i \in DOMAIN entries \ {<<t, c>>} |-> entries[i]]
  <2>1. NoneLost(rows, entries, rows', entries') /\ NoneLeft(rows, entries, rows', entries')
    BY <1>3 DEF NoneLost, NoneLeft, Lacks, Exceeds
  <2> QED
    BY <1>1, <2>1, NothingIsDamaged
<1> QED
  BY <1>2, <1>3, DropIndexIs

LEMMA IndexesStep == ASSUME SessionsInv, Next PROVE IndexStep
<1>1. CASE Begin
  BY <1>1, BeginKeepsInv, NoChangeLeavesEntries DEF Begin, tables
<1>2. ASSUME NEW x \in TxnIDs, Commit(x) PROVE IndexStep
  BY <1>2, CommitKeepsInv, NoChangeLeavesEntries DEF Commit, tables
<1>3. ASSUME NEW x \in TxnIDs, Abort(x) PROVE IndexStep
  BY <1>3, AbortLeavesEntries
<1>4. ASSUME NEW t \in Tables, NEW raws \in InsertedRows, NEW x \in activeTxns, Insert(x, t, raws)
      PROVE  IndexStep
  BY <1>4, InsertLeavesEntries
<1>5. ASSUME NEW t \in Tables, NEW cond \in Conditions_(t), Delete(t, cond) PROVE IndexStep
  BY <1>5, DeleteLeavesEntries
<1>6. ASSUME NEW t \in Tables, NEW cond \in Conditions_(t), NEW trans \in UpdatedColumns,
             Update(t, cond, trans)
      PROVE  IndexStep
  BY <1>6, UpdateLeavesEntries
<1>7. ASSUME NEW t \in Tables, NEW c \in {d[1] : d \in Comparisons}, CreateIndex(t, c)
      PROVE  IndexStep
  BY <1>7, CreateIndexLeavesEntries
<1>8. ASSUME NEW t \in Tables, NEW c \in {d[1] : d \in Comparisons}, DropIndex(t, c)
      PROVE  IndexStep
  BY <1>8, DropIndexLeavesEntries
<1> QED
  BY <1>1, <1>2, <1>3, <1>4, <1>5, <1>6, <1>7, <1>8 DEF Next

(* A row loses an index entry only to an Update that throws between the    *)
(* deletion of the old entry and the insertion of the new one              *)
(* (instance.cc:195-209) and has changed no row; an entry is left without  *)
(* its row only by an Abort, which knows no indexes.                       *)
THEOREM EntriesFollow == Spec => EntriesFollowRows
<1>1. SessionsInv /\ [Next]_<<vars, damaged>> => [EntriesStep]_vars
  BY IndexesStep DEF IndexStep
<1>2. [EntriesStep]_vars <=>
        [/\ ~(Missing' \subseteq Missing) =>
                reply'.call = "Update" /\ reply'.end = "exception" /\ rows' = rows
         /\ ~(Stale' \subseteq Stale) => reply'.call = "Abort"]_vars
  BY DEF EntriesStep
<1> QED
  BY <1>1, <1>2, SessionsHold, PTL DEF Spec, InitSessions, EntriesFollowRows

-----------------------------------------------------------------------------
(* Searches *)

(* A comparison asks for the field at its position only.                   *)
LEMMA KeyMatches ==
    ASSUME NEW x \in PlainInts, NEW v \in PlainLiterals, NEW operate \in Operators,
           NEW row, NEW pos, row[pos] = <<"INT", x, 0>>, NEW t, NEW c
    PROVE  /\ Match(Comparison(pos, operate, v), row) <=> Compares(NumberOf(row[pos]), operate, v)
           /\ operate # "<>" =>
                 LET cond == IndexedComparison(t, c, pos, "INT", operate, v)
                 IN  InRange(row[pos], cond.low, cond.high) <=> Compares(NumberOf(row[pos]), operate, v)
<1> DEFINE one == <<Field("INT", Whole(x))>>
           low == LowOf(operate, v)
           high == HighOf(operate, v)
<1>1. one[1] = <<"INT", x, 0>> /\ NumberOf(row[pos]) = Whole(x)
  BY DEF Field, Whole, NumberOf
<1>2. /\ Match(Comparison(1, operate, v), one) <=> Compares(Whole(x), operate, v)
      /\ operate # "<>" =>
            (InRange(one[1], IndexedComparison(1, 1, 1, "INT", operate, v).low,
                             IndexedComparison(1, 1, 1, "INT", operate, v).high)
                <=> Compares(Whole(x), operate, v))
  BY IntsCompareAsSQLSays DEF ComparesLikeSQL
<1> HIDE DEF one, low, high
<1>3. RangeMatches(RangeCondition(pos, low, high), row) <=> RangeMatches(RangeCondition(1, low, high), one)
  BY <1>1 DEF RangeMatches, RangeCondition, TypeOf, NumberOf
<1>4. Match(Comparison(pos, operate, v), row) <=> Match(Comparison(1, operate, v), one)
  <2>1. CASE operate = "<>"
    <3>1. \A p : Comparison(p, operate, v) = [type |-> "NOT", cond |-> RangeCondition(p, low, high)]
      BY <2>1 DEF Comparison, NotCondition, low, high
    <3>2. \A p : /\ Comparison(p, operate, v).type = "NOT"
                 /\ Comparison(p, operate, v).cond = RangeCondition(p, low, high)
      BY <3>1
    <3>3. \A p, r : Match(Comparison(p, operate, v), r) <=> ~RangeMatches(RangeCondition(p, low, high), r)
      BY <3>2 DEF Match
    <3> QED
      BY <1>3, <3>3
  <2>2. CASE operate # "<>"
    <3>1. \A p : Comparison(p, operate, v) = RangeCondition(p, low, high)
      BY <2>2 DEF Comparison, low, high
    <3>2. \A p : RangeCondition(p, low, high).type = "RANGE"
      BY DEF RangeCondition
    <3> QED
      BY <1>3, <3>1, <3>2 DEF Match
  <2> QED
    BY <2>1, <2>2
<1>5. ASSUME operate # "<>"
      PROVE  /\ IndexedComparison(t, c, pos, "INT", operate, v).low =
                    IndexedComparison(1, 1, 1, "INT", operate, v).low
             /\ IndexedComparison(t, c, pos, "INT", operate, v).high =
                    IndexedComparison(1, 1, 1, "INT", operate, v).high
  BY <1>5 DEF IndexedComparison, IndexCondition
<1> QED
  BY <1>1, <1>2, <1>4, <1>5

LEMMA RowsCompare ==
    ASSUME SessionsInv, PlainClients, NEW t \in Tables, NEW d \in Comparisons,
           NEW l \in LocationsOf(t), rows[l] # NoRow, NEW pos, pos = GetPos(t, d[1])
    PROVE  /\ AndMatches(<<Comparison(pos, d[2], d[3])>>, rows[l]) <=>
                    Compares(NumberOf(rows[l][pos]), d[2], d[3])
           /\ d[2] # "<>" =>
                 LET cond == IndexedComparison(t, d[1], pos, "INT", d[2], d[3])
                 IN  InRange(rows[l][pos], cond.low, cond.high) <=>
                        Compares(NumberOf(rows[l][pos]), d[2], d[3])
<1>1. d[2] \in Operators /\ d[3] \in PlainLiterals
  BY ClientsAssumption DEF PlainClients
<1>2. l \in Slots /\ TableOf(l) = t
  BY DEF LocationsOf
<1>3. rows[l][pos] \in {"INT"} \X PlainInts \X {0}
  BY <1>2 DEF SessionsInv, HasPlainKeys
<1>4. PICK x \in PlainInts : rows[l][pos] = <<"INT", x, 0>>
  BY <1>3
<1>5. /\ Match(Comparison(pos, d[2], d[3]), rows[l]) <=> Compares(NumberOf(rows[l][pos]), d[2], d[3])
      /\ d[2] # "<>" =>
             LET cond == IndexedComparison(t, d[1], pos, "INT", d[2], d[3])
             IN  InRange(rows[l][pos], cond.low, cond.high) <=>
                    Compares(NumberOf(rows[l][pos]), d[2], d[3])
  BY <1>1, <1>4, KeyMatches
<1>6. AndMatches(<<Comparison(pos, d[2], d[3])>>, rows[l]) <=> Match(Comparison(pos, d[2], d[3]), rows[l])
  BY DEF AndMatches
<1> QED
  BY <1>5, <1>6

(* A sequence counts what it holds at most once.                           *)
LEMMA TimesOnce ==
    ASSUME NEW q, NEW l, AtMostOnce(q, l)
    PROVE  Times(q, l) = IF l \in ToSet(q) THEN 1 ELSE 0
<1> DEFINE places == {k \in DOMAIN q : q[k] = l}
<1>1. CASE l \in ToSet(q)
  <2>1. PICK k \in DOMAIN q : q[k] = l
    BY <1>1 DEF ToSet
  <2>2. places = {k}
    BY <2>1 DEF AtMostOnce
  <2> HIDE DEF places
  <2>3. Cardinality(places) = 1
    BY <2>2, FS_Singleton
  <2> QED
    BY <1>1, <2>3 DEF Times, places
<1>2. CASE l \notin ToSet(q)
  <2>1. places = {}
    BY <1>2 DEF ToSet
  <2> HIDE DEF places
  <2>2. Cardinality(places) = 0
    BY <2>1, FS_EmptySet
  <2> QED
    BY <1>2, <2>2 DEF Times, places
<1> QED
  BY <1>1, <1>2

(* Where no call has damaged an index it holds one entry for each row.     *)
DamageInv ==
    \A i \in DOMAIN entries : \A f :
        Lacks(rows, entries, i, f) \/ Exceeds(rows, entries, i, f) => <<i, f[2]>> \in damaged

LEMMA DamageAtFirst == InitSessions => DamageInv
  BY DEF InitSessions, Init, DamageInv

LEMMA NextIsObserved == Next => Observed
  BY DEF Next

LEMMA DamageIsSeen ==
    ASSUME SessionsInv, DamageInv, [Next]_<<vars, damaged>>
    PROVE  DamageInv'
<1>1. CASE Next
  <2>1. DamageStep /\ Observed
    BY <1>1, IndexesStep, NextIsObserved DEF IndexStep
  <2>2. ASSUME NEW i \in DOMAIN entries', NEW f, Lacks(rows', entries', i, f) \/ Exceeds(rows', entries', i, f)
        PROVE  <<i, f[2]>> \in damaged'
    <3>1. <<i, f[2]>> \in damaged \union NewlyDamaged
      BY <2>1, <2>2 DEF DamageStep, DamageInv
    <3>2. <<i, f[2]>>[1] \in DOMAIN entries'
      OBVIOUS
    <3> QED
      BY <2>1, <3>1, <3>2 DEF Observed
  <2> QED
    BY <2>2 DEF DamageInv, Lacks, Exceeds, DueSet, Entry
<1>2. CASE UNCHANGED <<vars, damaged>>
  BY <1>2 DEF vars, tables, DamageInv, Lacks, Exceeds, DueSet, Entry
<1> QED
  BY <1>1, <1>2

LEMMA DamageIsKnown == Spec => []DamageInv
<1>1. SessionsInv /\ DamageInv /\ [Next]_<<vars, damaged>> => DamageInv'
  BY DamageIsSeen
<1> QED
  BY <1>1, DamageAtFirst, SessionsHold, PTL DEF Spec, InitSessions

(* At an undamaged location the index has the entry of the row, once, and  *)
(* nothing when there is no row.                                           *)
LEMMA EntryOfRow ==
    ASSUME SessionsInv, DamageInv, NEW i \in DOMAIN entries, NEW l \in LocationsOf(i[1]),
           <<i, l>> \notin damaged
    PROVE  /\ OneAt(entries[i], l)
           /\ \A f \in DOMAIN entries[i] : f[2] = l => rows[l] # NoRow /\ f = Entry(i, rows[l], l)
           /\ rows[l] # NoRow => Entry(i, rows[l], l) \in DOMAIN entries[i]
<1>1. IsABag(entries[i])
  BY DEF SessionsInv, TypeOK
<1>2. \A f \in DOMAIN entries[i] : entries[i][f] \in Nat /\ entries[i][f] > 0
  BY <1>1 DEF IsABag
<1>3. ASSUME NEW f \in DOMAIN entries[i], f[2] = l
      PROVE  rows[l] # NoRow /\ f = Entry(i, rows[l], l) /\ entries[i][f] = 1
  <2>1. f \in DueSet(rows, i) /\ ~(entries[i][f] > 1)
    BY <1>3 DEF DamageInv, Exceeds
  <2>2. rows[l] # NoRow /\ f = Entry(i, rows[l], l)
    BY <1>3, <2>1, IsDue
  <2> QED
    BY <1>2, <2>1, <2>2
<1>4. ASSUME rows[l] # NoRow PROVE Entry(i, rows[l], l) \in DOMAIN entries[i]
  <2>1. Entry(i, rows[l], l) \in DueSet(rows, i)
    BY <1>4 DEF DueSet
  <2>2. Entry(i, rows[l], l)[2] = l
    BY DEF Entry
  <2> QED
    BY <2>1, <2>2 DEF DamageInv, Lacks
<1> QED
  BY <1>3, <1>4 DEF OneAt

LEMMA IndexAndScanAgree ==
    ASSUME SessionsInv, DamageInv, PlainClients, NEW t \in Tables,
           NEW d \in Comparisons, IsIndex(t, d[1]), d[2] # "<>",
           NEW pos, pos = GetPos(t, d[1]),
           NEW c, c = IndexedComparison(t, d[1], pos, "INT", d[2], d[3]),
           NEW scan, scan = Scanned(t, NoTxn, <<Comparison(pos, d[2], d[3])>>),
           NEW q \in Ranges(c)
    PROVE  \/ \A l \in LocationsOf(t) : <<<<t, d[1]>>, l>> \notin damaged => Times(q, l) = Times(scan, l)
           \/ /\ q = << >>
              /\ \A l \in LocationsOf(t) :
                    <<<<t, d[1]>>, l>> \notin damaged /\ l \in ToSet(scan) => rows[l][pos] # c.low
<1> DEFINE i == <<t, d[1]>>
           whole == {l \in LocationsOf(t) : <<<<t, d[1]>>, l>> \notin damaged}
<1>1. c.table = t /\ c.column = d[1]
  BY DEF IndexedComparison, IndexCondition
<1>2. i \in DOMAIN entries /\ <<c.table, c.column>> = i /\ i[1] = t /\ i[2] = d[1]
  BY <1>1 DEF IsIndex
<1>3. /\ IsABag(entries[i]) /\ IsFiniteSet(DOMAIN entries[i])
      /\ DOMAIN entries[i] \subseteq Fields \X LocationsOf(t)
  BY <1>2 DEF SessionsInv, TypeOK
<1>4. \A row, l : Entry(i, row, l)[1] = row[pos] /\ Entry(i, row, l)[2] = l
  BY DEF Entry
<1>5. /\ IsInjective(scan)
      /\ \A l \in LocationsOf(t) :
            l \in ToSet(scan) <=> rows[l] # NoRow /\ InRange(rows[l][pos], c.low, c.high)
  <2>1. IsInjective(scan) /\ ToSet(scan) =
            {l \in LocationsOf(t) : rows[l] # NoRow /\ AndMatches(<<Comparison(pos, d[2], d[3])>>, rows[l])}
    BY ScannedLists
  <2> QED
    BY <2>1, RowsCompare
<1>6. \A l \in whole : l \in LocationsOf(i[1]) /\ <<i, l>> \notin damaged
  BY <1>2
<1> HIDE DEF i, whole
<1>7. \A l \in whole :
        /\ OneAt(entries[i], l)
        /\ \A f \in DOMAIN entries[i] : f[2] = l => rows[l] # NoRow /\ f = Entry(i, rows[l], l)
        /\ rows[l] # NoRow => Entry(i, rows[l], l) \in DOMAIN entries[i]
  BY <1>2, <1>6, EntryOfRow
<1>8. /\ \A l \in ToSet(q) : \E e \in DOMAIN entries[i] : e[2] = l /\ InRange(e[1], c.low, c.high)
      /\ \A l : OneAt(entries[i], l) => AtMostOnce(q, l)
      /\ \/ /\ q = << >>
            /\ \A e \in DOMAIN entries[i] : InRange(e[1], c.low, c.high) => e[1] # c.low
         \/ \A e \in DOMAIN entries[i] : InRange(e[1], c.low, c.high) => e[2] \in ToSet(q)
  BY <1>2, <1>3, RangesList
<1>9. CASE \A e \in DOMAIN entries[i] : InRange(e[1], c.low, c.high) => e[2] \in ToSet(q)
  <2>1. ASSUME NEW l \in whole PROVE Times(q, l) = Times(scan, l)
    <3>1. AtMostOnce(q, l) /\ AtMostOnce(scan, l)
      BY <1>5, <1>7, <1>8 DEF AtMostOnce, IsInjective
    <3>2. ASSUME l \in ToSet(q) PROVE l \in ToSet(scan)
      <4>1. PICK e \in DOMAIN entries[i] : e[2] = l /\ InRange(e[1], c.low, c.high)
        BY <1>8, <3>2
      <4>2. rows[l] # NoRow /\ e[1] = rows[l][pos]
        BY <1>4, <1>7, <4>1
      <4> QED
        BY <1>2, <1>5, <1>6, <4>1, <4>2
    <3>3. ASSUME l \in ToSet(scan) PROVE l \in ToSet(q)
      <4>1. rows[l] # NoRow /\ InRange(rows[l][pos], c.low, c.high)
        BY <1>2, <1>5, <1>6, <3>3
      <4> QED
        BY <1>4, <1>7, <1>9, <4>1
    <3> QED
      BY <3>1, <3>2, <3>3, TimesOnce
  <2> QED
    BY <2>1 DEF whole, i
<1>10. CASE q = << >> /\ \A e \in DOMAIN entries[i] : InRange(e[1], c.low, c.high) => e[1] # c.low
  <2>1. ASSUME NEW l \in whole \intersect ToSet(scan) PROVE rows[l][pos] # c.low
    <3>1. rows[l] # NoRow /\ InRange(rows[l][pos], c.low, c.high)
      BY <1>2, <1>5, <1>6
    <3> QED
      BY <1>4, <1>7, <1>10, <3>1
  <2> QED
    BY <1>10, <2>1 DEF whole, i
<1> QED
  BY <1>8, <1>9, <1>10 DEF whole, i

(* After any calls, a client that compares plain ints gets the same rows,  *)
(* each as often, from an index (IsIndex, a Range and no look at the row,  *)
(* instance.cc:123-154) as from a scan, wherever no Abort has taken a row  *)
(* away and no Update has broken off (instance.cc:195-209), but for a      *)
(* Range that gives up.                                                    *)
THEOREM IndexesFindRows == ASSUME PlainClients PROVE Spec => []IndexesFindWhatScansFind
<1>1. SessionsInv /\ DamageInv => IndexesFindWhatScansFind
  <2> SUFFICES ASSUME SessionsInv, DamageInv, NEW t \in Tables,
                      NEW d \in {e \in Comparisons : IsIndex(t, e[1]) /\ e[2] # "<>"}
               PROVE  LET pos   == GetPos(t, d[1])
                          cond  == IndexedComparison(t, d[1], pos, "INT", d[2], d[3])
                          scan  == Scanned(t, NoTxn, <<Comparison(pos, d[2], d[3])>>)
                          whole == {loc \in LocationsOf(t) : <<<<t, d[1]>>, loc>> \notin damaged}
                      IN  \A q \in Ranges(cond) :
                            \/ \A loc \in whole : Times(q, loc) = Times(scan, loc)
                            \/ q = << >> /\ \A loc \in whole \intersect ToSet(scan) : rows[loc][pos] # cond.low
    BY DEF IndexesFindWhatScansFind
  <2> DEFINE pos == GetPos(t, d[1])
             cond == IndexedComparison(t, d[1], pos, "INT", d[2], d[3])
             scan == Scanned(t, NoTxn, <<Comparison(pos, d[2], d[3])>>)
             whole == {loc \in LocationsOf(t) : <<<<t, d[1]>>, loc>> \notin damaged}
  <2>1. ASSUME NEW q \in Ranges(cond)
        PROVE  \/ \A loc \in whole : Times(q, loc) = Times(scan, loc)
               \/ q = << >> /\ \A loc \in whole \intersect ToSet(scan) : rows[loc][pos] # cond.low
    <3>1. \/ \A loc \in LocationsOf(t) : <<<<t, d[1]>>, loc>> \notin damaged => Times(q, loc) = Times(scan, loc)
          \/ /\ q = << >>
             /\ \A loc \in LocationsOf(t) :
                    <<<<t, d[1]>>, loc>> \notin damaged /\ loc \in ToSet(scan) => rows[loc][pos] # cond.low
      BY <2>1, IndexAndScanAgree
    <3> HIDE DEF pos, cond, scan
    <3> QED
      BY <3>1
  <2> QED
    BY <2>1
<1> QED
  BY <1>1, SessionsHold, DamageIsKnown, PTL

-----------------------------------------------------------------------------
(* What Delete and Update change *)

ChangeStep ==
    reply'.call \in {"Delete", "Update"} /\ "cond" \in DOMAIN reply' =>
        /\ \A loc \in Slots : rows'[loc] # rows[loc] =>
                \/ TableOf(loc) = reply'.table /\ Holds(reply'.cond, rows[loc])
                \/ loc \in LocationsIn(Stale)
        /\ reply'.call = "Delete" /\ reply'.cond.index = << >> =>
                \A loc \in LocationsOf(reply'.table) :
                    rows'[loc] # NoRow => ~Holds(reply'.cond, rows'[loc])

LEMMA FoundIsHeldOrStale ==
    ASSUME SessionsInv, NEW t \in Tables, NEW cond \in Conditions_(t),
           NEW found \in Searches(t, NoTxn, cond), NEW j \in DOMAIN found, NEW l, l = found[j]
    PROVE  \/ TableOf(l) = t /\ Holds(cond, rows[l])
           \/ l \in LocationsIn(Stale)
<1>1. l \in LocationsOf(t) /\ l \in ToSet(found)
  BY SearchesFind DEF ToSet
<1>2. TableOf(l) = t
  BY <1>1 DEF LocationsOf
<1>3. CASE \E i \in DOMAIN entries : \E f : f[2] = l /\ Exceeds(rows, entries, i, f)
  <2>0. PICK i \in DOMAIN entries : \E f : f[2] = l /\ Exceeds(rows, entries, i, f)
    BY <1>3
  <2>1. PICK f : f[2] = l /\ Exceeds(rows, entries, i, f)
    BY <2>0
  <2>2. BagsIn(entries)
    BY DEF SessionsInv, TypeOK, BagsIn
  <2>3. <<i, f>> \in Stale
    BY <2>1, <2>2, WhatIsMissing, MissingIsLacked
  <2>4. <<i, f>>[2][2] = l
    BY <2>1
  <2> QED
    BY <2>3, <2>4 DEF LocationsIn
<1> QED
  BY <1>1, <1>2, <1>3, SearchesFind

LEMMA DeleteFollows ==
    ASSUME SessionsInv, NEW t \in Tables, NEW cond \in Conditions_(t), Delete(t, cond)
    PROVE  ChangeStep
<1>1. CASE Dies("Delete")
  BY <1>1, DeadOrRefused DEF ChangeStep
<1>2. ASSUME NEW found \in Searches(t, NoTxn, cond), NEW db,
             Ends("Delete", t, cond, found, db), DeletedSoFar(db, found, Len(found))
      PROVE  ChangeStep
  <2>1. rows' = db.rows /\ reply'.call = "Delete" /\ reply'.table = t /\ reply'.cond = cond
    BY <1>2 DEF Ends
  <2>2. found \in Seq(LocationsOf(t)) /\ Len(found) \in Nat /\ DOMAIN found = 1..Len(found)
    BY SearchesFind
  <2>3. ASSUME NEW l \in Slots, rows'[l] # rows[l]
        PROVE  \/ TableOf(l) = t /\ Holds(cond, rows[l])
               \/ l \in LocationsIn(Stale)
    <3>1. PICK j \in 1..Len(found) : found[j] = l
      BY <1>2, <2>1, <2>3 DEF DeletedSoFar
    <3> QED
      BY <2>2, <3>1, FoundIsHeldOrStale
  <2>4. ASSUME cond.index = << >>, NEW l \in LocationsOf(t), rows'[l] # NoRow, Holds(cond, rows'[l])
        PROVE  FALSE
    <3>1. /\ IsInjective(found)
          /\ \A m \in LocationsOf(t) : m \in ToSet(found) <=> rows[m] # NoRow /\ Holds(cond, rows[m])
      BY <2>4, SearchesFind
    <3>2. AllThere(found)
      <4>1. \A j \in DOMAIN found : found[j] \in LocationsOf(t) /\ found[j] \in ToSet(found)
        BY <2>2 DEF ToSet
      <4> QED
        BY <3>1, <4>1 DEF AllThere
    <3>3. \A j \in DOMAIN found : rows'[found[j]] = NoRow
      BY <1>2, <2>1, <2>2, <3>2 DEF DeletedSoFar
    <3>4. rows'[l] = rows[l]
      BY <1>2, <2>1, <2>4 DEF DeletedSoFar, LocationsOf
    <3>5. l \in ToSet(found)
      BY <2>4, <3>1, <3>4
    <3> QED
      BY <2>4, <3>3, <3>5 DEF ToSet
  <2> QED
    BY <2>1, <2>3, <2>4 DEF ChangeStep
<1> QED
  BY <1>1, <1>2, DeleteIs

LEMMA UpdateFollows ==
    ASSUME SessionsInv, NEW t \in Tables, NEW cond \in Conditions_(t),
           NEW trans \in UpdatedColumns, Update(t, cond, trans)
    PROVE  ChangeStep
<1>1. CASE Dies("Update")
  BY <1>1, DeadOrRefused DEF ChangeStep
<1>2. ASSUME NEW found \in Searches(t, NoTxn, cond), NEW db,
             Ends("Update", t, cond, found, db), UpdatedSoFar(db, found, Len(found), trans)
      PROVE  ChangeStep
  <2>1. rows' = db.rows /\ reply'.call = "Update" /\ reply'.table = t /\ reply'.cond = cond
    BY <1>2 DEF Ends
  <2>2. found \in Seq(LocationsOf(t)) /\ Len(found) \in Nat /\ DOMAIN found = 1..Len(found)
    BY SearchesFind
  <2>3. ASSUME NEW l \in Slots, rows'[l] # rows[l]
        PROVE  \/ TableOf(l) = t /\ Holds(cond, rows[l])
               \/ l \in LocationsIn(Stale)
    <3>1. PICK j \in 1..Len(found) : found[j] = l
      BY <1>2, <2>1, <2>3 DEF UpdatedSoFar
    <3> QED
      BY <2>2, <3>1, FoundIsHeldOrStale
  <2> QED
    BY <2>1, <2>3 DEF ChangeStep
<1> QED
  BY <1>1, <1>2, UpdateIs

(* A Delete or an Update touches the rows its condition holds for, a       *)
(* Delete that scans all of them, and otherwise only what a stale entry    *)
(* of an Abort points at, whatever row has taken that slot since           *)
(* (instance.cc:156-210).                                                  *)
THEOREM ChangesFollow == Spec => ChangesFollowTheCondition
<1>1. SessionsInv /\ [Next]_<<vars, damaged>> => [ChangeStep]_vars
  <2> SUFFICES ASSUME SessionsInv, Next PROVE ChangeStep
    OBVIOUS
  <2>1. CASE Begin
    BY <2>1 DEF Begin, Outcome, ChangeStep
  <2>2. ASSUME NEW x \in TxnIDs, Commit(x) PROVE ChangeStep
    BY <2>2 DEF Commit, Outcome, ChangeStep
  <2>3. ASSUME NEW x \in TxnIDs, Abort(x) PROVE ChangeStep
    <3>1. reply'.call = "Abort"
      BY <2>3 DEF Abort, Outcome
    <3> QED
      BY <3>1 DEF ChangeStep
  <2>4. ASSUME NEW t \in Tables, NEW raws \in InsertedRows, NEW x \in activeTxns, Insert(x, t, raws)
        PROVE  ChangeStep
    BY <2>4, InsertIs DEF ChangeStep
  <2>5. ASSUME NEW t \in Tables, NEW cond \in Conditions_(t), Delete(t, cond) PROVE ChangeStep
    BY <2>5, DeleteFollows
  <2>6. ASSUME NEW t \in Tables, NEW cond \in Conditions_(t), NEW trans \in UpdatedColumns,
               Update(t, cond, trans)
        PROVE  ChangeStep
    BY <2>6, UpdateFollows
  <2>7. ASSUME NEW t \in Tables, NEW c \in {d[1] : d \in Comparisons}, CreateIndex(t, c)
        PROVE  ChangeStep
    BY <2>7, CreateIndexIs, DeadOrRefused DEF ChangeStep
  <2>8. ASSUME NEW t \in Tables, NEW c \in {d[1] : d \in Comparisons}, DropIndex(t, c)
        PROVE  ChangeStep
    BY <2>8, DropIndexIs, DeadOrRefused DEF ChangeStep
  <2> QED
    BY <2>1, <2>2, <2>3, <2>4, <2>5, <2>6, <2>7, <2>8 DEF Next
<1>2. [ChangeStep]_vars <=>
        [reply'.call \in {"Delete", "Update"} /\ "cond" \in DOMAIN reply' =>
            /\ \A loc \in Slots : rows'[loc] # rows[loc] =>
                    \/ TableOf(loc) = reply'.table /\ Holds(reply'.cond, rows[loc])
                    \/ loc \in LocationsIn(Stale)
            /\ reply'.call = "Delete" /\ reply'.cond.index = << >> =>
                    \A loc \in LocationsOf(reply'.table) :
                        rows'[loc] # NoRow => ~Holds(reply'.cond, rows'[loc])]_vars
  BY DEF ChangeStep
<1> QED
  BY <1>1, <1>2, SessionsHold, PTL DEF Spec, InitSessions, ChangesFollowTheCondition

-----------------------------------------------------------------------------
(* What transactions see *)

ViewStep ==
    reply'.call \notin {"Delete", "Abort"} =>
        \A x \in activeTxns \intersect activeTxns' : SeenOfOthers(x)' = SeenOfOthers(x)

(* The rows keep their places and their writers.                           *)
LEMMA SameWritersSameViews ==
    ASSUME \A l \in Slots : /\ rows'[l] = NoRow <=> rows[l] = NoRow
                            /\ rows[l] # NoRow => WriterOf(rows'[l]) = WriterOf(rows[l]),
           \A x \in activeTxns \intersect activeTxns' : snapshot'[x] = snapshot[x]
    PROVE  ViewStep
<1> SUFFICES ASSUME NEW x \in activeTxns \intersect activeTxns'
             PROVE  SeenOfOthers(x)' = SeenOfOthers(x)
  BY DEF ViewStep
<1>1. \A u : Visible(x, u)' <=> Visible(x, u)
  BY DEF Visible
<1> QED
  BY <1>1 DEF SeenOfOthers

(* A row that comes is its writer's, who is in the snapshot of everyone    *)
(* that began after it and is still active.                                *)
LEMMA NewRowIsHidden ==
    ASSUME SessionsInv, NEW y \in activeTxns, NEW loc \in Slots, NEW row,
           Arrives(row, loc, y), UNCHANGED <<activeTxns, snapshot>>
    PROVE  ViewStep
<1> SUFFICES ASSUME NEW x \in activeTxns PROVE SeenOfOthers(x)' = SeenOfOthers(x)
  BY DEF ViewStep
<1>1. \A l \in Slots : rows'[l] = IF l = loc THEN row ELSE rows[l]
  BY DEF Arrives, SessionsInv, TypeOK
<1>2. \A u : /\ Visible(x, u)' <=> Visible(x, u)
             /\ u \in activeTxns /\ u # x => ~Visible(x, u)
  BY DEF Visible, SessionsInv
<1>3. loc \notin SeenOfOthers(x)
  BY DEF SeenOfOthers, Arrives
<1>4. loc \notin SeenOfOthers(x)'
  BY <1>1, <1>2 DEF SeenOfOthers, Arrives
<1>5. \A l \in Slots : l # loc => (l \in SeenOfOthers(x)' <=> l \in SeenOfOthers(x))
  BY <1>1, <1>2 DEF SeenOfOthers
<1> QED
  BY <1>3, <1>4, <1>5 DEF SeenOfOthers

LEMMA UpdateKeepsViews ==
    ASSUME SessionsInv, NEW t \in Tables, NEW cond \in Conditions_(t),
           NEW trans \in UpdatedColumns, Update(t, cond, trans)
    PROVE  ViewStep
<1>1. CASE Dies("Update")
  BY <1>1, DeadOrRefused, SameWritersSameViews DEF txns
<1>2. ASSUME NEW found \in Searches(t, NoTxn, cond), NEW db,
             Ends("Update", t, cond, found, db), UpdatedSoFar(db, found, Len(found), trans)
      PROVE  ViewStep
  <2>1. rows' = db.rows /\ UNCHANGED txns
    BY <1>2 DEF Ends
  <2>2. \A l \in Slots : /\ rows'[l] = NoRow <=> rows[l] = NoRow
                         /\ rows[l] # NoRow => WriterOf(rows'[l]) = WriterOf(rows[l])
    BY <1>2, <2>1 DEF UpdatedSoFar, RowStays
  <2> QED
    BY <2>1, <2>2, SameWritersSameViews DEF txns
<1> QED
  BY <1>1, <1>2, UpdateIs

(* Only Delete, which asks no transaction, and Abort, over slots that have *)
(* been used again, change what an active transaction sees of the others:  *)
(* Update writes in place and keeps the writer (instance.cc:186-210), and  *)
(* a new row is of a transaction that the others do not see yet            *)
(* (transaction.cc, visible).                                              *)
THEOREM ViewsAreKept == Spec => UpdatesKeepViews
<1>1. SessionsInv /\ [Next]_<<vars, damaged>> => [ViewStep]_vars
  <2> SUFFICES ASSUME SessionsInv, Next PROVE ViewStep
    OBVIOUS
  <2>1. CASE Begin
    <3>1. rows' = rows /\ \A x \in activeTxns : snapshot'[x] = snapshot[x]
      BY <2>1 DEF Begin, tables, SessionsInv, TypeOK, TxnIDs
    <3> QED
      BY <3>1, SameWritersSameViews
  <2>2. ASSUME NEW x \in TxnIDs, Commit(x) PROVE ViewStep
    <3>1. rows' = rows /\ snapshot' = snapshot
      BY <2>2 DEF Commit, tables
    <3> QED
      BY <3>1, SameWritersSameViews
  <2>3. ASSUME NEW x \in TxnIDs, Abort(x) PROVE ViewStep
    <3>1. reply'.call = "Abort"
      BY <2>3 DEF Abort, Outcome
    <3> QED
      BY <3>1 DEF ViewStep
  <2>4. ASSUME NEW t \in Tables, NEW raws \in InsertedRows, NEW y \in activeTxns, Insert(y, t, raws)
        PROVE  ViewStep
    <3>1. UNCHANGED <<activeTxns, snapshot>>
      BY <2>4, InsertIs
    <3>2. CASE UNCHANGED rows
      BY <3>1, <3>2, SameWritersSameViews
    <3>3. ASSUME NEW loc \in LocationsOf(t), NEW row, Arrives(row, loc, y) PROVE ViewStep
      BY <3>1, <3>3, NewRowIsHidden DEF LocationsOf
    <3> QED
      BY <2>4, <3>2, <3>3, InsertIs
  <2>5. ASSUME NEW t \in Tables, NEW cond \in Conditions_(t), Delete(t, cond) PROVE ViewStep
    <3>1. reply'.call = "Delete"
      BY <2>5, DeleteIs, DeadOrRefused DEF Ends
    <3> QED
      BY <3>1 DEF ViewStep
  <2>6. ASSUME NEW t \in Tables, NEW cond \in Conditions_(t), NEW trans \in UpdatedColumns,
               Update(t, cond, trans)
        PROVE  ViewStep
    BY <2>6, UpdateKeepsViews
  <2>7. ASSUME NEW t \in Tables, NEW c \in {d[1] : d \in Comparisons}, CreateIndex(t, c)
        PROVE  ViewStep
    <3>1. rows' = rows /\ UNCHANGED txns
      BY <2>7, CreateIndexIs, DeadOrRefused
    <3> QED
      BY <3>1, SameWritersSameViews DEF txns
  <2>8. ASSUME NEW t \in Tables, NEW c \in {d[1] : d \in Comparisons}, DropIndex(t, c)
        PROVE  ViewStep
    <3>1. rows' = rows /\ UNCHANGED txns
      BY <2>8, DropIndexIs, DeadOrRefused
    <3> QED
      BY <3>1, SameWritersSameViews DEF txns
  <2> QED
    BY <2>1, <2>2, <2>3, <2>4, <2>5, <2>6, <2>7, <2>8 DEF Next
<1>2. [ViewStep]_vars <=>
        [reply'.call \notin {"Delete", "Abort"} =>
            \A x \in activeTxns \intersect activeTxns' : SeenOfOthers(x)' = SeenOfOthers(x)]_vars
  BY DEF ViewStep
<1> QED
  BY <1>1, <1>2, SessionsHold, PTL DEF Spec, InitSessions, UpdatesKeepViews
-----------------------------------------------------------------------------
(* The lines of clients (Query): what a WHERE with literals asks of a row. *)

IsLiteral(c) == c.operate \in Operators /\ c.expression.value \in RawTexts /\ ~stodThrows(c.expression.value)

LEMMA LiteralsArePlain ==
    ASSUME PlainLines, NEW c \in Compared, IsLiteral(c), NEW v, v = stod(c.expression.value)
    PROVE  v \in PlainLiterals /\ v \in Numbers /\ PlusEpsilon(v) \in Numbers
<1>1. v \in PlainLiterals
  BY DEF PlainLines, IsLiteral
<1>2. v \in Numbers
  BY <1>1, LiteralsAreNumbers
<1>3. PlusEpsilon(v) \in Numbers
  BY <1>2, UnitAssumption DEF Numbers, PlusEpsilon
<1> QED
  BY <1>1, <1>2, <1>3

(* The interval of an operator holds the doubles that compare, but those   *)
(* within EPOSILO of the literal.                                          *)
LEMMA FloatsCompare ==
    ASSUME PlainLines, NEW c \in Compared, IsLiteral(c), NEW v, v = stod(c.expression.value),
           NEW operate \in Operators \ {"<>"}, NEW x \in Numbers, IsPlainFloat(x)
    PROVE  (AtMost(LowOf(operate, v), x) /\ Below(x, HighOf(operate, v))) <=> Compares(x, operate, v)
<1> DEFINE next == PlusEpsilon(v)
<1>1. v \in Numbers /\ next \in Numbers
  BY LiteralsArePlain
<1>2. AtMost(DBL_MIN, x) /\ Below(x, DBL_MAX) /\ (Below(v, x) => AtMost(next, x))
  BY DEF IsPlainFloat
<1>3. Below(v, next)
  BY <1>1, UnitAssumption DEF PlusEpsilon, Below, Numbers
<1> HIDE DEF next
<1>4. /\ AtMost(next, x) <=> Below(v, x)
      /\ Below(x, next) <=> AtMost(x, v)
      /\ AtMost(v, x) /\ AtMost(x, v) <=> x = v
  BY <1>1, <1>2, <1>3 DEF Below, AtMost, Numbers
<1>5. CASE operate = "<"
  BY <1>2, <1>5 DEF LowOf, HighOf, Compares
<1>6. CASE operate = "<="
  BY <1>2, <1>4, <1>6 DEF LowOf, HighOf, Compares, next
<1>7. CASE operate = "="
  BY <1>2, <1>4, <1>7 DEF LowOf, HighOf, Compares, next
<1>8. CASE operate = ">="
  BY <1>2, <1>4, <1>8 DEF LowOf, HighOf, Compares, next
<1>9. CASE operate = ">"
  BY <1>2, <1>4, <1>9 DEF LowOf, HighOf, Compares, next
<1> QED
  BY <1>5, <1>6, <1>7, <1>8, <1>9 DEF Operators

(* A condition on a number, and the range of keys an index is asked for.   *)
LEMMA FieldMatches ==
    ASSUME PlainLines, NEW c \in Compared, IsLiteral(c), NEW v, v = stod(c.expression.value),
           NEW row, NEW pos, row[pos] \in Fields, IsPlainField(row[pos]), TypeOf(row[pos]) \in NumericTypes
    PROVE  Match(Comparison(pos, c.operate, v), row) <=> Compares(NumberOf(row[pos]), c.operate, v)
<1> DEFINE x == row[pos]
           low == LowOf(c.operate, v)
           high == HighOf(c.operate, v)
<1>0. c.operate \in Operators /\ v \in PlainLiterals
  BY LiteralsArePlain DEF IsLiteral
<1>1. CASE TypeOf(x) = "INT"
  <2>1. x = <<"INT", x[2], 0>> /\ x[2] \in PlainInts
    BY <1>1 DEF IsPlainField, Fields, TypeOf
  <2> HIDE DEF x
  <2> QED
    BY <1>0, <2>1, KeyMatches DEF x
<1>2. CASE TypeOf(x) = "FLOAT"
  <2>1. NumberOf(x) \in Numbers /\ IsPlainFloat(NumberOf(x))
    BY <1>2 DEF IsPlainField, Fields, TypeOf, NumberOf, Numbers
  <2>2. RangeMatches(RangeCondition(pos, low, high), row) <=>
            AtMost(low, NumberOf(x)) /\ Below(NumberOf(x), high)
    BY <1>2 DEF RangeMatches, RangeCondition
  <2>3. CASE c.operate = "<>"
    <3>1. Comparison(pos, c.operate, v) = NotCondition(RangeCondition(pos, low, high))
      BY <2>3 DEF Comparison
    <3>2. LowOf("=", v) = low /\ HighOf("=", v) = high
      BY <2>3 DEF LowOf, HighOf
    <3> HIDE DEF low, high, x
    <3>3. RangeMatches(RangeCondition(pos, low, high), row) <=> Compares(NumberOf(x), "=", v)
      <4>1. "=" \in Operators \ {"<>"}
        BY DEF Operators
      <4> QED
        BY <2>1, <2>2, <3>2, <4>1, FloatsCompare
    <3>4. Match(Comparison(pos, c.operate, v), row) <=> ~RangeMatches(RangeCondition(pos, low, high), row)
      BY <3>1 DEF Match, NotCondition
    <3>5. Compares(NumberOf(x), c.operate, v) <=> ~Compares(NumberOf(x), "=", v)
      BY <2>3 DEF Compares
    <3> QED
      BY <3>3, <3>4, <3>5 DEF x
  <2>4. CASE c.operate # "<>"
    <3>1. Comparison(pos, c.operate, v) = RangeCondition(pos, low, high)
      BY <2>4 DEF Comparison
    <3>2. RangeCondition(pos, low, high).type = "RANGE"
      BY DEF RangeCondition
    <3> HIDE DEF x
    <3>3. AtMost(low, NumberOf(x)) /\ Below(NumberOf(x), high) <=> Compares(NumberOf(x), c.operate, v)
      BY <1>0, <2>1, <2>4, FloatsCompare
    <3> HIDE DEF low, high
    <3> QED
      BY <2>2, <3>1, <3>2, <3>3 DEF Match, x
  <2> QED
    BY <2>3, <2>4
<1> QED
  BY <1>1, <1>2 DEF NumericTypes

(* The keys an index is asked for are those that compare, for "=" the one  *)
(* key that the range begins with.                                         *)
LEMMA KeysCompare ==
    ASSUME PlainLines, NEW c \in Compared, IsLiteral(c), c.operate # "<>",
           NEW v, v = stod(c.expression.value),
           NEW x \in Fields, IsPlainField(x), TypeOf(x) \in NumericTypes, NEW t, NEW col, NEW pos,
           NEW cond, cond = IndexedComparison(t, col, pos, TypeOf(x), c.operate, v)
    PROVE  /\ InRange(x, cond.low, cond.high) <=> Compares(NumberOf(x), c.operate, v)
           /\ c.operate = "=" /\ InRange(x, cond.low, cond.high) => x = cond.low
<1> DEFINE low == LowOf(c.operate, v)
           high == HighOf(c.operate, v)
           row == [p \in {pos} |-> x]
<1>0. c.operate \in Operators /\ v \in PlainLiterals /\ v \in Numbers
  BY LiteralsArePlain DEF IsLiteral
<1>1. CASE TypeOf(x) = "INT"
  <2>1. x = <<"INT", x[2], 0>> /\ x[2] \in PlainInts
    BY <1>1 DEF IsPlainField, Fields, TypeOf
  <2>2. InRange(x, cond.low, cond.high) <=> Compares(NumberOf(x), c.operate, v)
    <3>1. row[pos] = x
      OBVIOUS
    <3> HIDE DEF row
    <3> QED
      BY <1>0, <1>1, <2>1, <3>1, KeyMatches
  <2>3. ASSUME c.operate = "=", InRange(x, cond.low, cond.high) PROVE x = cond.low
    <3>1. v = <<x[2], 0>>
      BY <2>1, <2>2, <2>3 DEF Compares, NumberOf
    <3>2. cond.low = Field("INT", Whole(IntMin(v)))
      BY <1>1, <2>3 DEF IndexedComparison, IndexCondition, LowOf
    <3>3. IntMin(v) = x[2]
      BY <2>1, <3>1, IntAssumption DEF IntMin, Below, Whole, ceil, ToInt, PlainInts
    <3> QED
      BY <2>1, <3>2, <3>3 DEF Field, Whole
  <2> QED
    BY <2>2, <2>3
<1>2. CASE TypeOf(x) = "FLOAT"
  <2>1. /\ NumberOf(x) \in Numbers /\ IsPlainFloat(NumberOf(x))
        /\ x = <<"FLOAT", NumberOf(x)[1], NumberOf(x)[2]>>
    BY <1>2 DEF IsPlainField, Fields, TypeOf, NumberOf, Numbers
  <2>2. cond.low = Field("FLOAT", low) /\ cond.high = Field("FLOAT", high)
    BY <1>2 DEF IndexedComparison, IndexCondition
  <2>3. low \in Numbers /\ high \in Numbers
    <3>1. PlusEpsilon(v) \in Numbers /\ DBL_MIN \in Numbers /\ DBL_MAX \in Numbers
      BY LiteralsArePlain, UnitAssumption, IntAssumption DEF Numbers, DBL_MIN, DBL_MAX
    <3> QED
      BY <1>0, <3>1 DEF LowOf, HighOf, Operators
  <2> HIDE DEF low, high
  <2>4. NumberOf(cond.low) = low /\ NumberOf(cond.high) = high
    BY <2>2, <2>3 DEF NumberOf, Field, Numbers
  <2>5. AtMost(low, NumberOf(x)) /\ Below(NumberOf(x), high) <=> Compares(NumberOf(x), c.operate, v)
    BY <1>0, <2>1, FloatsCompare DEF low, high
  <2>6. InRange(x, cond.low, cond.high) <=> Compares(NumberOf(x), c.operate, v)
    BY <2>4, <2>5 DEF InRange
  <2>7. ASSUME c.operate = "=", InRange(x, cond.low, cond.high) PROVE x = cond.low
    <3>1. NumberOf(x) = v /\ low = v
      BY <2>6, <2>7 DEF Compares, LowOf, low
    <3> QED
      BY <2>1, <2>2, <3>1 DEF Field
  <2> QED
    BY <2>6, <2>7
<1> QED
  BY <1>1, <1>2 DEF NumericTypes

-----------------------------------------------------------------------------
(* A scan with the conditions of a WHERE *)

AsScan(c) == Comparison(GetPos(c.column.table, c.column.column), c.operate, stod(c.expression.value))

(* What the parser lets through for table t, and no stod throws at.        *)
IsAsked(c, t) ==
    /\ c \in Compared /\ IsLiteral(c)
    /\ c.column.table = t
    /\ GetPos(t, c.column.column) \in DOMAIN Columns[t]
    /\ Columns[t][GetPos(t, c.column.column)].name = c.column.column

IsAskedFor(conds, t, where, P) ==
    /\ Len(conds) \in Nat /\ DOMAIN conds = 1..Len(conds)
    /\ \A i \in P : IsAsked(where[i], t)
    /\ \A j \in DOMAIN conds : \E i \in P : conds[j] = AsScan(where[i])
    /\ \A i \in P : \E j \in DOMAIN conds : conds[j] = AsScan(where[i])

Agrees(row, t, c) ==
    Compares(NumberOf(row[GetPos(t, c.column.column)]), c.operate, stod(c.expression.value))

LEMMA OneMatches ==
    ASSUME PlainLines, NEW t \in Tables, NEW row, Fits(row, t), IsPlainRow(row, t),
           NEW c, IsAsked(c, t), ~AssertFails(AsScan(c), row)
    PROVE  Match(AsScan(c), row) <=> Agrees(row, t, c)
<1> DEFINE pos == GetPos(t, c.column.column)
           v == stod(c.expression.value)
<1>1. /\ c \in Compared /\ IsLiteral(c) /\ pos \in DOMAIN Columns[t]
      /\ IsCompared(t, Columns[t][pos].name) /\ AsScan(c) = Comparison(pos, c.operate, v)
  BY DEF IsAsked, IsCompared, AsScan
<1> HIDE DEF pos, v
<1>2. /\ row[pos] \in Fields /\ TypeOf(row[pos]) = Columns[t][pos].type
      /\ TypeOf(row[pos]) \in FieldTypes /\ IsPlainField(row[pos])
  BY <1>1, ColumnsAre DEF Fits, IsPlainRow
<1>3. TypeOf(row[pos]) # "STRING"
  <2> DEFINE range == RangeCondition(pos, LowOf(c.operate, v), HighOf(c.operate, v))
  <2>1. range.type = "RANGE" /\ range.pos = pos
    BY DEF RangeCondition
  <2>2. AsScan(c) = IF c.operate = "<>" THEN NotCondition(range) ELSE range
    BY <1>1 DEF Comparison
  <2> HIDE DEF range
  <2>3. NotCondition(range).type = "NOT" /\ NotCondition(range).cond = range
    BY DEF NotCondition
  <2>4. (IF AsScan(c).type = "NOT" THEN AsScan(c).cond ELSE AsScan(c)) = range
    BY <2>1, <2>2, <2>3
  <2> QED
    BY <2>1, <2>4 DEF AssertFails
<1>4. TypeOf(row[pos]) \in NumericTypes
  BY <1>2, <1>3 DEF FieldTypes, NumericTypes
<1> QED
  BY <1>1, <1>2, <1>4, FieldMatches DEF Agrees, pos, v

(* A row matches when the comparisons hold for its fields.  A comparison   *)
(* with a string is not looked at behind one that does not match.          *)
LEMMA RowMatches ==
    ASSUME PlainLines, NEW t \in Tables, NEW row, Fits(row, t), IsPlainRow(row, t),
           NEW where, NEW P, NEW conds, IsAskedFor(conds, t, where, P), ~AndAssertFails(conds, row)
    PROVE  AndMatches(conds, row) <=> \A i \in P : Agrees(row, t, where[i])
<1> DEFINE Bad == {j \in DOMAIN conds : ~Match(conds[j], row) \/ AssertFails(conds[j], row)}
<1>1. CASE Bad = {}
  <2>1. \A j \in DOMAIN conds : Match(conds[j], row) /\ ~AssertFails(conds[j], row)
    BY <1>1
  <2>2. \A i \in P : Agrees(row, t, where[i])
    BY <2>1, OneMatches DEF IsAskedFor
  <2> QED
    BY <2>1, <2>2 DEF AndMatches
<1>2. CASE Bad # {}
  <2>1. Len(conds) \in Nat /\ Bad \in SUBSET (0..Len(conds))
    BY DEF IsAskedFor
  <2>2. PICK j \in Bad : \A k \in Bad : j <= k
    <3> HIDE DEF Bad
    <3> QED
      BY <1>2, <2>1, LeastExists
  <2>3. j \in DOMAIN conds /\ \A k \in 1..j-1 : k \in DOMAIN conds /\ k \notin Bad
    BY <2>1, <2>2 DEF IsAskedFor
  <2>4. ~AssertFails(conds[j], row)
    BY <2>3 DEF AndAssertFails
  <2>5. ~Match(conds[j], row)
    BY <2>2, <2>4
  <2>6. PICK i \in P : conds[j] = AsScan(where[i])
    BY <2>3 DEF IsAskedFor
  <2>7. ~Agrees(row, t, where[i])
    BY <2>4, <2>5, <2>6, OneMatches DEF IsAskedFor
  <2> QED
    BY <2>3, <2>5, <2>7 DEF AndMatches
<1> QED
  BY <1>1, <1>2

ListsAll(s, S) == s \in Seq(S) /\ \A x \in S : \E j \in DOMAIN s : s[j] = x

(* FlattenSeq joins the sequences one by one. *)
LEMMA FlattenIs ==
    ASSUME NEW ss, Len(ss) \in Nat, Len(ss) # 0
    PROVE  \E f : IsJoining(f, ss, Len(ss)) /\ FlattenSeq(ss) = f[Len(ss)]
<1> DEFINE f == CHOOSE f : IsJoining(f, ss, Len(ss))
<1>1. IsJoining(f, ss, Len(ss))
  BY JoiningExists
<1>2. FlattenSeq(ss) = f[Len(ss)]
  BY DEF FlattenSeq, IsJoining
<1> QED
  BY <1>1, <1>2, Zenon

(* What is joined of sequences with one element, or none.                  *)
IsPicked(ss, n, P, c) ==
    /\ ss = [i \in 1..n |-> ss[i]] /\ Len(ss) = n
    /\ \A i \in 1..n : ss[i] = IF i \in P THEN <<c[i]>> ELSE << >>

LEMMA JoinedIs ==
    ASSUME NEW n \in Nat, NEW P \in SUBSET (1..n), NEW c, NEW ss, IsPicked(ss, n, P, c)
    PROVE  ListsAll(FlattenSeq(ss), {c[i] : i \in P})
<1> DEFINE Has(s, k) ==
              /\ Len(s) \in Nat /\ s = [j \in 1..Len(s) |-> s[j]]
              /\ \A j \in 1..Len(s) : \E i \in P : i <= k /\ s[j] = c[i]
              /\ \A i \in P : i <= k => \E j \in 1..Len(s) : s[j] = c[i]
<1>0. Len(ss) = n /\ \A i \in 1..n : ss[i] = IF i \in P THEN <<c[i]>> ELSE << >>
  BY DEF IsPicked
<1>1. CASE n = 0
  <2>1. Len(ss) = 0 /\ P = {} /\ 1..n = {}
    BY <1>0, <1>1
  <2>2. FlattenSeq(ss) = ss
    BY <2>1 DEF FlattenSeq
  <2>3. ss \in Seq({c[i] : i \in P})
    BY <1>1, <2>1 DEF IsPicked
  <2> QED
    BY <2>1, <2>2, <2>3 DEF ListsAll
<1>2. CASE n # 0
  <2>1. PICK f : IsJoining(f, ss, n) /\ FlattenSeq(ss) = f[n]
    BY <1>0, <1>2, FlattenIs
  <2> DEFINE m == n - 1
             K == {k \in 0..m : Has(f[k+1], k + 1)}
  <2>2. m \in Nat /\ m + 1 = n /\ 1 \in 1..n
    BY <1>2
  <2>3. \A k \in 1..n : f[k] = IF k = 1 THEN ss[k] ELSE f[k-1] \o ss[k]
    BY <2>1 DEF IsJoining
  <2>4. 0 \in K
    <3>1. f[1] = ss[1]
      BY <2>2, <2>3
    <3>2. CASE 1 \in P
      <4>1. f[1] = <<c[1]>>
        BY <1>0, <2>2, <3>1, <3>2
      <4>2. \A i \in P : i <= 1 => i = 1
        OBVIOUS
      <4>3. Has(f[1], 1)
        BY <3>2, <4>1, <4>2
      <4> HIDE DEF Has
      <4> QED
        BY <2>2, <4>3
    <3>3. CASE 1 \notin P
      <4>1. f[1] = << >>
        BY <1>0, <2>2, <3>1, <3>3
      <4>2. \A i \in P : ~(i <= 1)
        BY <3>3
      <4>3. Has(f[1], 1)
        BY <4>1, <4>2
      <4> HIDE DEF Has
      <4> QED
        BY <2>2, <4>3
    <3> QED
      BY <3>2, <3>3
  <2>5. ASSUME NEW k \in 0..m-1, k \in K PROVE k + 1 \in K
    <3> DEFINE s == f[k+1]  l == k + 2
    <3>1. Has(s, k + 1) /\ l \in 1..n /\ l # 1 /\ l - 1 = k + 1 /\ (k + 1) + 1 = l /\ k + 1 \in 0..m
      BY <2>2, <2>5
    <3>2. f[l] = s \o ss[l]
      BY <2>3, <3>1
    <3> HIDE DEF s, l
    <3>3. Has(f[l], l)
      <4>1. CASE l \notin P
        <5>1. f[l] = s
          <6>1. ss[l] = << >> /\ s = [j \in 1..Len(s) |-> s[j]] /\ Len(s) \in Nat
            BY <1>0, <3>1, <4>1
          <6>2. s \in Seq({s[j] : j \in 1..Len(s)})
            BY <6>1
          <6>3. \A e : e = << >> => s \o e = s
            BY <6>1, <6>2
          <6> HIDE DEF Has
          <6> QED
            BY <3>2, <6>1, <6>3
        <5>2. \A i \in P : i <= l <=> i <= k + 1
          BY <3>1, <4>1
        <5>3. Has(s, l)
          BY <3>1, <5>2
        <5> HIDE DEF Has
        <5> QED
          BY <5>1, <5>3
      <4>2. CASE l \in P
        <5>1. ss[l] = <<c[l]>>
          BY <1>0, <3>1, <4>2
        <5>2. /\ Len(s) \in Nat
              /\ f[l] = [j \in 1..Len(s)+1 |-> IF j = Len(s) + 1 THEN c[l] ELSE s[j]]
              /\ Len(f[l]) = Len(s) + 1
          <6>1. s = [j \in 1..Len(s) |-> s[j]] /\ Len(s) \in Nat
            BY <3>1
          <6>2. s \in Seq({s[j] : j \in 1..Len(s)})
            BY <6>1
          <6>3. \A x : /\ s \o <<x>> = [j \in 1..Len(s)+1 |-> IF j = Len(s) + 1 THEN x ELSE s[j]]
                      /\ Len(s \o <<x>>) = Len(s) + 1
            BY <6>1, <6>2
          <6> HIDE DEF Has
          <6> QED
            BY <3>2, <5>1, <6>1, <6>3
        <5>3. f[l][Len(s)+1] = c[l] /\ \A j \in 1..Len(s) : f[l][j] = s[j] /\ j \in 1..Len(s)+1
          BY <5>2
        <5>4. ASSUME NEW j \in 1..Len(f[l]) PROVE \E i \in P : i <= l /\ f[l][j] = c[i]
          <6>1. CASE j = Len(s) + 1
            BY <3>1, <4>2, <5>3, <6>1
          <6>2. CASE j # Len(s) + 1
            <7>1. j \in 1..Len(s)
              BY <5>2, <6>2
            <7>2. PICK i \in P : i <= k + 1 /\ s[j] = c[i]
              BY <3>1, <7>1
            <7>3. i <= l
              BY <3>1, <7>2
            <7> QED
              BY <5>3, <7>1, <7>2, <7>3
          <6> QED
            BY <6>1, <6>2
        <5>5. ASSUME NEW i \in P, i <= l PROVE \E j \in 1..Len(f[l]) : f[l][j] = c[i]
          <6>1. CASE i = l
            BY <5>2, <5>3, <6>1
          <6>2. CASE i # l
            <7>1. i <= k + 1
              BY <3>1, <5>5, <6>2
            <7>2. PICK j \in 1..Len(s) : s[j] = c[i]
              BY <3>1, <7>1
            <7> QED
              BY <5>2, <5>3, <7>2
          <6> QED
            BY <6>1, <6>2
        <5>6. Len(f[l]) \in Nat /\ f[l] = [j \in 1..Len(f[l]) |-> f[l][j]]
          BY <5>2
        <5> QED
          BY <5>4, <5>5, <5>6
      <4> QED
        BY <4>1, <4>2
    <3> HIDE DEF Has
    <3> QED
      BY <3>1, <3>3
  <2>6. K = 0..m
    <3>1. K \in SUBSET (0..m)
      OBVIOUS
    <3> HIDE DEF K, m
    <3> QED
      BY <2>2, <2>4, <2>5, <3>1, InductionUpTo
  <2>7. Has(f[n], n)
    <3>1. m \in 0..m
      BY <2>2
    <3> HIDE DEF Has, m
    <3>2. Has(f[m+1], m + 1)
      BY <2>6, <3>1
    <3> QED
      BY <2>2, <3>2
  <2>8. \A i \in P : i <= n
    OBVIOUS
  <2> DEFINE s == f[n]
  <2>9. Has(s, n) /\ FlattenSeq(ss) = s
    BY <2>1, <2>7
  <2> HIDE DEF s
  <2>10. DOMAIN s = 1..Len(s) /\ s \in Seq({c[i] : i \in P})
    <3>1. Len(s) \in Nat /\ s = [j \in 1..Len(s) |-> s[j]]
      BY <2>9
    <3>2. \A j \in 1..Len(s) : s[j] \in {c[i] : i \in P}
      BY <2>9
    <3> HIDE DEF Has
    <3> QED
      BY <3>1, <3>2
  <2>11. \A i \in P : \E j \in DOMAIN s : s[j] = c[i]
    BY <2>8, <2>9, <2>10
  <2> HIDE DEF Has
  <2> QED
    BY <2>9, <2>10, <2>11 DEF ListsAll
<1> QED
  BY <1>1, <1>2

(* A WHERE of the parser. *)
IsWhere(where) ==
    /\ Len(where) \in Nat /\ DOMAIN where = 1..Len(where)
    /\ \A i \in DOMAIN where :
          /\ IsComparison(where[i])
          /\ ~ComparesColumns(where[i]) => where[i] \in Compared

LEMMA VisitedIs ==
    ASSUME NEW where, IsWhere(where), NEW P \in SUBSET DOMAIN where, NEW conds, conds = Visited(where, P)
    PROVE  ListsAll(conds, {ConditionOf(where[i]) : i \in P})
<1> DEFINE n == Len(where)
           c == [i \in 1..n |-> ConditionOf(where[i])]
           ss == [i \in 1..n |-> IF i \in P THEN <<c[i]>> ELSE << >>]
<1>1. n \in Nat /\ DOMAIN where = 1..n /\ P \in SUBSET (1..n)
  BY DEF IsWhere
<1>2. \A i \in 1..n : c[i] = ConditionOf(where[i])
  OBVIOUS
<1>3. conds = FlattenSeq(ss)
  <2>1. ss = [i \in DOMAIN where |-> IF i \in P THEN <<ConditionOf(where[i])>> ELSE << >>]
    BY <1>1
  <2> HIDE DEF ss
  <2> QED
    BY <2>1 DEF Visited
<1> HIDE DEF c, n
<1>4. IsPicked(ss, n, P, c)
  BY <1>1 DEF IsPicked
<1> HIDE DEF ss
<1>5. ListsAll(conds, {c[i] : i \in P})
  BY <1>1, <1>3, <1>4, JoinedIs
<1>6. {c[i] : i \in P} = {ConditionOf(where[i]) : i \in P}
  BY <1>1, <1>2
<1> QED
  BY <1>5, <1>6

LEMMA AskedIs ==
    ASSUME NEW where, IsWhere(where), ~WhereThrows(where), NEW t \in Tables, NEW i \in On(t, where)
    PROVE  /\ IsAsked(where[i], t)
           /\ i \notin ByIndex(t, where) => ConditionOf(where[i]) = AsScan(where[i])
<1> DEFINE c == where[i]
           col == c.column.column
<1>1. i \in DOMAIN where /\ ~ComparesColumns(c) /\ c.column.table = t
  BY DEF On
<1>2. IsComparison(c) /\ c \in Compared /\ ~stodThrows(c.expression.value)
  BY <1>1 DEF IsWhere, WhereThrows
<1> HIDE DEF c
<1>3. IsLiteral(c)
  BY <1>1, <1>2 DEF IsComparison, IsLiteral
<1>4. \E p \in DOMAIN Columns[t] : Columns[t][p].name = col
  BY <1>1, <1>2 DEF IsComparison, IsName
<1>5. GetPos(t, col) \in DOMAIN Columns[t] /\ Columns[t][GetPos(t, col)].name = col
  BY <1>4 DEF GetPos
<1>6. ASSUME i \notin ByIndex(t, where) PROVE ConditionOf(c) = AsScan(c)
  <2>1. IsIndex(t, col) => c.operate = "<>"
    BY <1>6 DEF ByIndex, c
  <2>2. CASE ~IsIndex(t, col)
    BY <1>1, <2>2 DEF ConditionOf, AsScan
  <2>3. CASE IsIndex(t, col)
    BY <1>1, <2>1, <2>3 DEF ConditionOf, AsScan, IndexedComparison
  <2> QED
    BY <2>2, <2>3
<1> QED
  BY <1>1, <1>2, <1>3, <1>5, <1>6 DEF IsAsked, c

(* Without an answer from an index the conditions go to the scan.          *)
LEMMA ScanIsAsked ==
    ASSUME NEW where, IsWhere(where), ~WhereThrows(where), NEW t \in Tables,
           NEW cond, cond = ConditionsOn(t, where)
    PROVE  /\ IsAskedFor(cond.other, t, where, On(t, where) \ ByIndex(t, where))
           /\ cond.index = << >> <=> ByIndex(t, where) = {}
<1> DEFINE P == On(t, where) \ ByIndex(t, where)
           Q == ByIndex(t, where)
<1>1. P \in SUBSET DOMAIN where /\ Q \in SUBSET DOMAIN where
  BY DEF On, ByIndex
<1>2. cond.other = Visited(where, P) /\ cond.index = Visited(where, Q)
  BY DEF ConditionsOn
<1>3. ListsAll(cond.other, {ConditionOf(where[i]) : i \in P})
  <2> HIDE DEF P
  <2> QED
    BY <1>1, <1>2, VisitedIs
<1>4. ListsAll(cond.index, {ConditionOf(where[i]) : i \in Q})
  <2> HIDE DEF Q
  <2> QED
    BY <1>1, <1>2, VisitedIs
<1>5. \A i \in P : IsAsked(where[i], t) /\ ConditionOf(where[i]) = AsScan(where[i])
  BY AskedIs
<1>6. IsAskedFor(cond.other, t, where, P)
  <2> DEFINE conds == cond.other
  <2> HIDE DEF P, conds
  <2>1. /\ Len(conds) \in Nat /\ DOMAIN conds = 1..Len(conds)
        /\ \A j \in DOMAIN conds : conds[j] \in {ConditionOf(where[i]) : i \in P}
    BY <1>3 DEF conds, ListsAll
  <2>2. \A i \in P : \E j \in DOMAIN conds : conds[j] = ConditionOf(where[i])
    BY <1>3 DEF conds, ListsAll
  <2> QED
    BY <1>5, <2>1, <2>2 DEF IsAskedFor, conds
<1>7. cond.index = << >> <=> Q = {}
  <2> DEFINE conds == cond.index
  <2> HIDE DEF Q, conds
  <2>1. ASSUME Q = {} PROVE conds = << >>
    <3>1. conds \in Seq({})
      BY <1>4, <2>1 DEF conds, ListsAll
    <3> QED
      BY <3>1
  <2>2. conds = << >> => Q = {}
    BY <1>4 DEF conds, ListsAll
  <2> QED
    BY <2>1, <2>2 DEF conds
<1> QED
  BY <1>6, <1>7

-----------------------------------------------------------------------------
(* What holds while lines are visited: rows are as a page gives them back, *)
(* no index has an entry without its row, and what is left of a line is    *)
(* what the parser makes.                                                  *)

IsRow(row, t) ==
    /\ Fits(row, t) /\ Stored(row, Columns[t]) = row
    /\ PlainLines => IsPlainRow(row, t)

RowsAreStored(r) ==
    /\ r = [loc \in Slots |-> r[loc]]
    /\ \A loc \in Slots : r[loc] = NoRow \/ IsRow(r[loc], loc[1])

IndexesAreTyped(e) ==
    /\ e = [i \in DOMAIN e |-> e[i]]
    /\ EntriesFit(e) /\ AllColumns(e)
    /\ \A i \in DOMAIN e : i = <<i[1], i[2]>> /\ GetType(i[1], i[2]) \in NumericTypes

NoneStale(r, e) == \A i \in DOMAIN e : \A f : ~Exceeds(r, e, i, f)

IsToVisit(s) ==
    \/ s \in Statements
    \/ s.kind \in {"add index", "drop index"} /\ IsStatement(s)

LineIsLeft(line) == line \in Seq(ToSet(line)) /\ \A k \in DOMAIN line : IsToVisit(line[k])

TablesInv == RowsAreStored(rows) /\ IndexesAreTyped(entries) /\ NoneStale(rows, entries)
LinesInv == TablesInv /\ LineIsLeft(pending)

(* Every entry is of a row, and a row has one. *)
LEMMA OneEntryEach ==
    ASSUME TablesInv, NEW i \in DOMAIN entries
    PROVE  /\ OneEach(entries[i])
           /\ \A f \in DOMAIN entries[i] : \E l \in LocationsOf(i[1]) :
                 rows[l] # NoRow /\ f = Entry(i, rows[l], l) /\ f[2] = l
<1>1. IsABag(entries[i]) /\ \A f : ~Exceeds(rows, entries, i, f)
  BY DEF TablesInv, IndexesAreTyped, EntriesFit, NoneStale
<1>2. ASSUME NEW f \in DOMAIN entries[i] PROVE f \in DueSet(rows, i) /\ entries[i][f] = 1
  <2>1. entries[i][f] \in Nat /\ entries[i][f] > 0
    BY <1>1 DEF IsABag
  <2> QED
    BY <1>1, <2>1 DEF Exceeds
<1>3. ASSUME NEW f \in DOMAIN entries[i]
      PROVE  \E l \in LocationsOf(i[1]) : rows[l] # NoRow /\ f = Entry(i, rows[l], l) /\ f[2] = l
  <2>1. PICK l \in Slots : l[1] = i[1] /\ rows[l] # NoRow /\ f = Entry(i, rows[l], l) /\ f[2] = l
    BY <1>2, IsDue
  <2> QED
    BY <2>1 DEF LocationsOf, TableOf
<1>4. \A f, g \in DOMAIN entries[i] : f[2] = g[2] => f = g
  BY <1>3
<1> QED
  BY <1>2, <1>3, <1>4 DEF OneEach

-----------------------------------------------------------------------------
(* What a search finds: locations with rows, each once. *)

IsFound(q, t) ==
    /\ q \in Seq(LocationsOf(t)) /\ Len(q) \in Nat /\ DOMAIN q = 1..Len(q)
    /\ AllThere(q)

HasKey(cond, row) == InRange(row[GetPos(cond.table, cond.column)], cond.low, cond.high)

(* An index may miss rows with keys other than the least one it asks for.  *)
MayMiss(cond, t) ==
    \E l \in LocationsOf(t) :
        /\ rows[l] # NoRow /\ HasKey(cond, rows[l])
        /\ rows[l][GetPos(cond.table, cond.column)] # cond.low

LEMMA RangeFinds ==
    ASSUME TablesInv, NEW i \in DOMAIN entries, NEW cond, <<cond.table, cond.column>> = i,
           NEW found \in Ranges(cond)
    PROVE  /\ IsFound(found, i[1])
           /\ IsWhole(i) =>
                 \/ \A l \in LocationsOf(i[1]) : l \in ToSet(found) <=> rows[l] # NoRow /\ HasKey(cond, rows[l])
                 \/ found = << >> /\ MayMiss(cond, i[1])
<1> DEFINE t == i[1]  pos == GetPos(cond.table, cond.column)
<1>1. /\ IsABag(entries[i]) /\ IsFiniteSet(DOMAIN entries[i])
      /\ DOMAIN entries[i] \subseteq Fields \X LocationsOf(t) /\ i = <<i[1], i[2]>>
  BY DEF TablesInv, IndexesAreTyped, EntriesFit
<1>2. cond.table = t /\ cond.column = i[2] /\ pos = GetPos(i[1], i[2])
  BY <1>1
<1>3. /\ OneEach(entries[i])
      /\ \A f \in DOMAIN entries[i] : \E l \in LocationsOf(t) :
            rows[l] # NoRow /\ f = <<rows[l][pos], l>>
  <2>1. \A l : Entry(i, rows[l], l) = <<rows[l][pos], l>>
    BY <1>2 DEF Entry
  <2> QED
    BY <2>1, OneEntryEach
<1>4. /\ found \in Seq(LocationsOf(t)) /\ Len(found) \in Nat /\ DOMAIN found = 1..Len(found)
      /\ \A l \in ToSet(found) : \E e \in DOMAIN entries[i] : e[2] = l /\ InRange(e[1], cond.low, cond.high)
      /\ IsInjective(found)
      /\ \/ /\ found = << >>
            /\ \A e \in DOMAIN entries[i] : InRange(e[1], cond.low, cond.high) => e[1] # cond.low
         \/ \A e \in DOMAIN entries[i] : InRange(e[1], cond.low, cond.high) => e[2] \in ToSet(found)
  BY <1>1, <1>3, RangesList
<1> HIDE DEF pos, t
<1>5. \A l \in ToSet(found) : rows[l] # NoRow /\ InRange(rows[l][pos], cond.low, cond.high)
  BY <1>3, <1>4
<1>6. IsFound(found, t)
  <2>1. \A k \in DOMAIN found : found[k] \in ToSet(found)
    BY DEF ToSet
  <2> QED
    BY <1>4, <1>5, <2>1 DEF IsFound, AllThere
<1>7. ASSUME IsWhole(i)
      PROVE  \/ \A l \in LocationsOf(t) : l \in ToSet(found) <=> rows[l] # NoRow /\ HasKey(cond, rows[l])
             \/ found = << >> /\ MayMiss(cond, t)
  <2>1. ASSUME NEW l \in LocationsOf(t), rows[l] # NoRow PROVE <<rows[l][pos], l>> \in DOMAIN entries[i]
    <3>1. entries[i] = [f \in DueSet(rows, i) |-> 1]
      BY <1>7 DEF IsWhole, Indexed, DueSet, SetToBag, t
    <3>2. Entry(i, rows[l], l) = <<rows[l][pos], l>>
      BY <1>2 DEF Entry
    <3>3. Entry(i, rows[l], l) \in DueSet(rows, i)
      BY <2>1 DEF DueSet, t
    <3> QED
      BY <3>1, <3>2, <3>3
  <2>2. CASE \A e \in DOMAIN entries[i] : InRange(e[1], cond.low, cond.high) => e[2] \in ToSet(found)
    <3>1. ASSUME NEW l \in LocationsOf(t), rows[l] # NoRow, HasKey(cond, rows[l]) PROVE l \in ToSet(found)
      <4> DEFINE e == <<rows[l][pos], l>>
      <4>1. e \in DOMAIN entries[i] /\ e[2] = l /\ InRange(e[1], cond.low, cond.high)
        BY <2>1, <3>1 DEF HasKey, pos
      <4> QED
        BY <2>2, <4>1
    <3> QED
      BY <1>5, <3>1 DEF HasKey, pos
  <2>3. CASE /\ found = << >>
             /\ \A e \in DOMAIN entries[i] : InRange(e[1], cond.low, cond.high) => e[1] # cond.low
    <3>1. ToSet(found) = {}
      BY <2>3 DEF ToSet
    <3>2. ASSUME NEW l \in LocationsOf(t), rows[l] # NoRow, HasKey(cond, rows[l]) PROVE MayMiss(cond, t)
      <4> DEFINE e == <<rows[l][pos], l>>
      <4>1. e \in DOMAIN entries[i] /\ InRange(e[1], cond.low, cond.high)
        BY <2>1, <3>2 DEF HasKey, pos
      <4>2. rows[l][pos] # cond.low
        BY <2>3, <4>1
      <4> QED
        BY <3>2, <4>2 DEF MayMiss, pos
    <3> QED
      BY <2>3, <3>1, <3>2
  <2> QED
    BY <1>4, <2>2, <2>3
<1> QED
  BY <1>6, <1>7 DEF t

(* set_intersection of locations that are there once.                      *)
LEMMA IntersectionIs ==
    ASSUME NEW t \in Tables, NEW a, NEW b, IsFound(a, t), IsFound(b, t),
           NEW q, q = Intersection(a, b)
    PROVE  IsFound(q, t) /\ ToSet(q) = ToSet(a) \intersect ToSet(b)
<1> DEFINE D == ToSet(a) \intersect ToSet(b)
           both == {p \in (ToSet(a) \X DOMAIN a) :
                       p[2] <= Times(a, p[1]) /\ p[2] <= Times(b, p[1])}
           Before(m, n) == m[1][2] < n[1][2] \/ (m[1][2] = n[1][2] /\ m[2] < n[2])
           AreSorted(p) == \A i, j \in DOMAIN p : i < j => Before(p[i], p[j])
           s == InOrder(D)
           p0 == [i \in 1..Len(s) |-> <<s[i], 1>>]
           p1 == CHOOSE p \in SetToSeqs(both) : AreSorted(p)
<1>1. D \in SUBSET LocationsOf(t)
  BY DEF IsFound, ToSet
<1>2. ASSUME NEW c, IsFound(c, t), NEW x
      PROVE  /\ x \in ToSet(c) => Times(c, x) = 1
             /\ x \notin ToSet(c) => Times(c, x) = 0
  <2> DEFINE K == {i \in DOMAIN c : c[i] = x}
  <2>1. ASSUME x \in ToSet(c) PROVE Cardinality(K) = 1
    <3>1. PICK i \in DOMAIN c : c[i] = x
      BY <2>1 DEF ToSet
    <3>2. K = {i}
      BY <1>2, <3>1 DEF IsFound, AllThere, IsInjective
    <3> QED
      BY <3>2, FS_Singleton
  <2>2. ASSUME x \notin ToSet(c) PROVE Cardinality(K) = 0
    <3>1. K = {}
      BY <2>2 DEF ToSet
    <3> QED
      BY <3>1, FS_EmptySet
  <2> HIDE DEF K
  <2>3. Times(c, x) = Cardinality(K)
    BY DEF Times, K
  <2> QED
    BY <2>1, <2>2, <2>3
<1>3. both = D \X {1}
  <2>1. DOMAIN a = 1..Len(a) /\ Len(a) \in Nat
    BY DEF IsFound
  <2>2. ASSUME NEW x \in D PROVE <<x, 1>> \in both
    <3>1. Times(a, x) = 1 /\ Times(b, x) = 1 /\ x \in ToSet(a)
      BY <1>2
    <3>2. 1 \in DOMAIN a
      <4>1. DOMAIN a # {}
        BY <3>1 DEF ToSet
      <4> QED
        BY <2>1, <4>1
    <3> QED
      BY <3>1, <3>2
  <2>3. ASSUME NEW x \in ToSet(a), NEW k \in DOMAIN a, k <= Times(a, x), k <= Times(b, x)
        PROVE  x \in D /\ k = 1
    <3>1. k \in Nat /\ k >= 1 /\ Times(a, x) = 1
      BY <1>2, <2>1, <2>3
    <3>2. x \in ToSet(b)
      <4> SUFFICES ASSUME x \notin ToSet(b) PROVE FALSE
        OBVIOUS
      <4>1. Times(b, x) = 0
        BY <1>2
      <4> QED
        BY <2>3, <3>1, <4>1
    <3> QED
      BY <2>3, <3>1, <3>2
  <2> HIDE DEF D
  <2> QED
    BY <2>2, <2>3
<1> HIDE DEF D
<1>4. /\ s \in Seq(D) /\ Len(s) \in Nat /\ DOMAIN s = 1..Len(s) /\ IsInjective(s) /\ ToSet(s) = D
      /\ s \in SetToSeqs(D) /\ \A i, j \in DOMAIN s : i < j => s[i][2] < s[j][2]
  BY <1>1, InOrderLists
<1>5. IsFiniteSet(D) /\ Len(s) = Cardinality(D)
  <2>1. IsFiniteSet(D)
    BY <1>1, SlotsAssumption, FS_Subset DEF LocationsOf
  <2> HIDE DEF s
  <2> QED
    BY <1>4, <2>1, SeqsList
<1> HIDE DEF s, both
<1>6. IsFiniteSet(both) /\ Cardinality(both) = Cardinality(D)
  <2> DEFINE f == [x \in D |-> <<x, 1>>]
  <2>1. f \in Bijection(D, both)
    <3>1. f \in [D -> both] /\ \A x, y \in D : f[x] = f[y] => x = y
      BY <1>3
    <3>2. \A y \in both : \E x \in D : f[x] = y
      BY <1>3
    <3> HIDE DEF f
    <3> QED
      BY <3>1, <3>2 DEF Bijection, Injection, Surjection, IsInjective
  <2> HIDE DEF f
  <2>2. ExistsBijection(D, both)
    BY <2>1 DEF ExistsBijection
  <2> QED
    BY <1>5, <2>2, FS_Bijection
<1>7. p0 \in SetToSeqs(both) /\ AreSorted(p0)
  <2>1. \A i \in 1..Len(s) : s[i] \in D
    BY <1>4
  <2>2. p0 \in [1..Len(s) -> both]
    BY <1>3, <2>1
  <2>3. \A i, j \in 1..Len(s) : i # j => p0[i] # p0[j]
    BY <1>4 DEF IsInjective
  <2>4. AreSorted(p0)
    BY <1>4
  <2> HIDE DEF p0, AreSorted
  <2> QED
    BY <1>5, <1>6, <2>2, <2>3, <2>4 DEF SetToSeqs
<1> HIDE DEF p0, AreSorted
<1>8. p1 \in SetToSeqs(both)
  BY <1>7
<1>9. q = [i \in DOMAIN p1 |-> p1[i][1]]
  <2>1. q = [i \in DOMAIN p1 |-> p1[i][1]]
    BY DEF Intersection, p1, AreSorted, Before, both
  <2> QED
    BY <2>1
<1> HIDE DEF p1
<1>10. /\ p1 \in Seq(both) /\ Len(p1) \in Nat /\ DOMAIN p1 = 1..Len(p1)
       /\ IsInjective(p1) /\ ToSet(p1) = both
  BY <1>6, <1>8, SeqsList
<1>11. \A i \in DOMAIN p1 : p1[i] = <<q[i], 1>> /\ q[i] \in D
  BY <1>3, <1>9, <1>10
<1>12. q \in Seq(LocationsOf(t)) /\ Len(q) = Len(p1) /\ DOMAIN q = 1..Len(q)
  <2>1. \A i \in 1..Len(p1) : q[i] \in LocationsOf(t)
    BY <1>1, <1>10, <1>11
  <2> QED
    BY <1>9, <1>10, <2>1
<1>13. IsInjective(q)
  <2>1. ASSUME NEW i \in DOMAIN q, NEW j \in DOMAIN q, q[i] = q[j] PROVE i = j
    <3>1. i \in DOMAIN p1 /\ j \in DOMAIN p1
      BY <1>10, <1>12
    <3>2. p1[i] = p1[j]
      BY <1>11, <2>1, <3>1
    <3> QED
      BY <1>10, <3>1, <3>2 DEF IsInjective
  <2> QED
    BY <2>1 DEF IsInjective
<1>14. ToSet(q) = D
  <2>1. \A x \in D : <<x, 1>> \in ToSet(p1)
    BY <1>3, <1>10
  <2>2. \A x \in D : \E i \in DOMAIN p1 : p1[i] = <<x, 1>>
    BY <2>1 DEF ToSet
  <2>3. \A x \in D : \E i \in DOMAIN q : q[i] = x
    BY <1>10, <1>11, <1>12, <2>2
  <2> QED
    BY <1>10, <1>11, <1>12, <2>3 DEF ToSet
<1>15. \A i \in DOMAIN q : rows[q[i]] # NoRow
  <2>1. \A x \in D : rows[x] # NoRow
    BY DEF D, ToSet, IsFound, AllThere
  <2> QED
    BY <1>10, <1>11, <1>12, <2>1
<1> QED
  BY <1>10, <1>12, <1>13, <1>14, <1>15 DEF IsFound, AllThere, D

(* A search with index conditions intersects what their ranges return.     *)
LEMMA RangesRun ==
    ASSUME NEW t, NEW cond, cond.index # << >>, Len(Tail(cond.index)) \in Nat
    PROVE  \E after :
              /\ after = [i \in 0..Len(Tail(cond.index)) |->
                            IF i = 0 THEN Ranges(Head(cond.index))
                            ELSE Intersections(after[i-1], Tail(cond.index)[i])]
              /\ Searches(t, NoTxn, cond) = after[Len(Tail(cond.index))]
<1> DEFINE q == Tail(cond.index)
           start == Ranges(Head(cond.index))
           Runs(f, m) == f = [i \in 0..m |-> IF i = 0 THEN start ELSE Intersections(f[i-1], q[i])]
           K == {m \in 0..Len(q) : \E f : Runs(f, m)}
<1>5. Searches(t, NoTxn, cond) = (CHOOSE f : Runs(f, Len(q)))[Len(q)]
  BY Zenon DEF Searches, Loop
<1>0. Len(q) \in Nat
  OBVIOUS
<1> HIDE DEF q, start
<1>1. 0 \in K
  <2>1. Runs([i \in 0..0 |-> start], 0)
    OBVIOUS
  <2>2. 0 \in 0..Len(q)
    OBVIOUS
  <2> HIDE DEF Runs
  <2> QED
    BY <2>1, <2>2, <1>0
<1>2. ASSUME NEW k \in 0..Len(q)-1, k \in K PROVE k + 1 \in K
  <2>1. PICK f : Runs(f, k)
    BY <1>2
  <2> DEFINE g == [i \in 0..k+1 |-> IF i = k + 1 THEN Intersections(f[k], q[k+1]) ELSE f[i]]
  <2>2. \A i \in 0..k+1 : i # k + 1 => g[i] = f[i] /\ i \in 0..k
    OBVIOUS
  <2>3. ASSUME NEW i \in 0..k+1
        PROVE  g[i] = IF i = 0 THEN start ELSE Intersections(g[i-1], q[i])
    <3>1. i # 0 => i - 1 \in 0..k+1 /\ i - 1 # k + 1
      OBVIOUS
    <3>2. CASE i = k + 1
      BY <2>2, <3>1, <3>2
    <3>3. CASE i # k + 1
      BY <2>1, <2>2, <3>1, <3>3
    <3> QED
      BY <3>2, <3>3
  <2>4. g = [i \in 0..k+1 |-> g[i]]
    OBVIOUS
  <2> HIDE DEF g
  <2>5. Runs(g, k + 1)
    BY <2>3, <2>4
  <2>6. k + 1 \in 0..Len(q)
    BY <1>0
  <2> HIDE DEF Runs
  <2> QED
    BY <2>5, <2>6
<1>3. K = 0..Len(q)
  <2>1. K \in SUBSET (0..Len(q))
    OBVIOUS
  <2> HIDE DEF K, Runs
  <2> QED
    BY <1>0, <1>1, <1>2, <2>1, InductionUpTo
<1>4. Runs(CHOOSE f : Runs(f, Len(q)), Len(q))
  <2> HIDE DEF Runs
  <2>1. \E f : Runs(f, Len(q))
    <3>1. Len(q) \in 0..Len(q)
      BY <1>0
    <3> QED
      BY <1>3, <3>1
  <2> QED
    BY <2>1
<1> QED
  BY <1>4, <1>5 DEF q, start

(* An index condition on an index of t. *)
AsksIndex(c, t) == c.table = t /\ <<t, c.column>> \in DOMAIN entries

(* Indexes that have all rows find together the rows with keys in all      *)
(* their ranges, or one of them gives up.                                  *)
FindsAll(found, t, conds, m) ==
    /\ IsFound(found, t)
    /\ (\A j \in 1..m : IsWhole(<<t, conds[j].column>>)) =>
          \/ \A l \in LocationsOf(t) :
                l \in ToSet(found) <=> rows[l] # NoRow /\ \A j \in 1..m : HasKey(conds[j], rows[l])
          \/ found = << >> /\ \E j \in 1..m : MayMiss(conds[j], t)

LEMMA FirstFinds ==
    ASSUME TablesInv, NEW t \in Tables, NEW conds, AsksIndex(conds[1], t), NEW found \in Ranges(conds[1])
    PROVE  FindsAll(found, t, conds, 1)
<1> DEFINE c == conds[1]
           i == <<t, c.column>>
<1>1. i \in DOMAIN entries /\ <<c.table, c.column>> = i /\ i[1] = t
  BY DEF AsksIndex
<1>2. \A j : j \in 1..1 <=> j = 1
  OBVIOUS
<1> HIDE DEF c, i
<1>3. /\ IsFound(found, t)
      /\ IsWhole(i) =>
            \/ \A l \in LocationsOf(t) : l \in ToSet(found) <=> rows[l] # NoRow /\ HasKey(c, rows[l])
            \/ found = << >> /\ MayMiss(c, t)
  <2>1. found \in Ranges(c)
    BY DEF c
  <2> QED
    BY <1>1, <2>1, RangeFinds
<1> QED
  BY <1>2, <1>3 DEF FindsAll, c, i

LEMMA NoneInEmpty == ASSUME NEW t, NEW q, IsFound(q, t), ToSet(q) = {} PROVE q = << >>
<1>1. Len(q) \in Nat /\ DOMAIN q = 1..Len(q) /\ q \in Seq(LocationsOf(t))
  BY DEF IsFound
<1>2. \A i : i \notin DOMAIN q
  BY DEF ToSet
<1>3. Len(q) = 0
  BY <1>1, <1>2
<1> QED
  BY <1>1, <1>3

LEMMA NextFinds ==
    ASSUME TablesInv, NEW t \in Tables, NEW conds, NEW m \in Nat, m > 0, AsksIndex(conds[m+1], t),
           NEW a, FindsAll(a, t, conds, m), NEW b \in Ranges(conds[m+1]), NEW q, q = Intersection(a, b)
    PROVE  FindsAll(q, t, conds, m + 1)
<1> DEFINE c == conds[m+1]
           i == <<t, c.column>>
           All(s, n) == \A l \in LocationsOf(t) :
                            l \in ToSet(s) <=> rows[l] # NoRow /\ \A j \in 1..n : HasKey(conds[j], rows[l])
<1>1. i \in DOMAIN entries /\ <<c.table, c.column>> = i /\ i[1] = t
  BY DEF AsksIndex
<1>2. \A j : j \in 1..m+1 <=> j \in 1..m \/ j = m + 1
  OBVIOUS
<1> HIDE DEF c, i
<1>3. /\ IsFound(b, t)
      /\ IsWhole(i) =>
            \/ \A l \in LocationsOf(t) : l \in ToSet(b) <=> rows[l] # NoRow /\ HasKey(c, rows[l])
            \/ b = << >> /\ MayMiss(c, t)
  <2>1. b \in Ranges(c)
    BY DEF c
  <2> QED
    BY <1>1, <2>1, RangeFinds
<1>4. IsFound(q, t) /\ ToSet(q) = ToSet(a) \intersect ToSet(b)
  <2>1. IsFound(a, t)
    BY DEF FindsAll
  <2> QED
    BY <1>3, <2>1, IntersectionIs
<1>5. ASSUME \A j \in 1..m+1 : IsWhole(<<t, conds[j].column>>)
      PROVE  All(q, m + 1) \/ (q = << >> /\ \E j \in 1..m+1 : MayMiss(conds[j], t))
  <2>1. IsWhole(i)
    BY <1>2, <1>5 DEF c, i
  <2>2. All(a, m) \/ (a = << >> /\ \E j \in 1..m : MayMiss(conds[j], t))
    BY <1>2, <1>5 DEF FindsAll
  <2>3. CASE a = << >> \/ b = << >>
    <3>1. ToSet(q) = {}
      <4>1. ToSet(<< >>) = {}
        BY DEF ToSet
      <4> QED
        BY <1>4, <2>3, <4>1
    <3>2. q = << >>
      BY <1>4, <3>1, NoneInEmpty
    <3>3. CASE (\E j \in 1..m : MayMiss(conds[j], t)) \/ MayMiss(c, t)
      BY <1>2, <3>2, <3>3 DEF c
    <3>4. CASE All(a, m) /\ \A l \in LocationsOf(t) : l \in ToSet(b) <=> rows[l] # NoRow /\ HasKey(c, rows[l])
      <4>1. All(q, m + 1)
        BY <1>2, <1>4, <3>4 DEF c
      <4> QED
        BY <4>1
    <3> HIDE DEF All
    <3> QED
      BY <1>3, <2>1, <2>2, <3>3, <3>4
  <2>4. CASE a # << >> /\ b # << >>
    <3>1. All(a, m) /\ \A l \in LocationsOf(t) : l \in ToSet(b) <=> rows[l] # NoRow /\ HasKey(c, rows[l])
      BY <1>3, <2>1, <2>2, <2>4
    <3>2. All(q, m + 1)
      BY <1>2, <1>4, <3>1 DEF c
    <3> QED
      BY <3>2
  <2> QED
    BY <2>3, <2>4
<1> QED
  BY <1>4, <1>5 DEF FindsAll

LEMMA IndexesFind ==
    ASSUME TablesInv, NEW t \in Tables, NEW cond, NEW conds, conds = cond.index,
           conds \in Seq(ToSet(conds)), conds # << >>, \A j \in DOMAIN conds : AsksIndex(conds[j], t),
           NEW found \in Searches(t, NoTxn, cond)
    PROVE  FindsAll(found, t, conds, Len(conds))
<1> DEFINE q == Tail(conds)
           start == Ranges(Head(conds))
<1>1. /\ Len(conds) \in Nat /\ Len(conds) > 0 /\ DOMAIN conds = 1..Len(conds)
      /\ Len(q) = Len(conds) - 1 /\ Head(conds) = conds[1]
      /\ \A k \in 1..Len(q) : q[k] = conds[k+1]
  OBVIOUS
<1> HIDE DEF q, start
<1>2. PICK after : /\ after = [k \in 0..Len(q) |-> IF k = 0 THEN start ELSE Intersections(after[k-1], q[k])]
                   /\ Searches(t, NoTxn, cond) = after[Len(q)]
  <2>1. Len(Tail(cond.index)) \in Nat /\ cond.index # << >>
    BY <1>1 DEF q
  <2> QED
    BY <2>1, RangesRun DEF q, start
<1>3. after[0] = start /\ \A k \in 0..Len(q)-1 : after[k+1] = Intersections(after[k], conds[k+2])
  <2>1. ASSUME NEW k \in 0..Len(q)-1 PROVE after[k+1] = Intersections(after[k], conds[k+2])
    <3>1. k + 1 \in 0..Len(q) /\ k + 1 # 0 /\ k + 1 - 1 = k /\ q[k+1] = conds[k+2]
      BY <1>1
    <3> QED
      BY <1>2, <3>1
  <2>2. 0 \in 0..Len(q)
    BY <1>1
  <2> QED
    BY <1>2, <2>1, <2>2
<1> DEFINE K == {k \in 0..Len(q) : \A a \in after[k] : FindsAll(a, t, conds, k + 1)}
<1>4. 0 \in K
  <2>1. ASSUME NEW a \in after[0] PROVE FindsAll(a, t, conds, 1)
    <3>1. a \in Ranges(conds[1]) /\ 1 \in DOMAIN conds
      BY <1>1, <1>3 DEF start
    <3> QED
      BY <3>1, FirstFinds
  <2>2. 0 \in 0..Len(q) /\ 0 + 1 = 1
    BY <1>1
  <2> QED
    BY <2>1, <2>2
<1>5. ASSUME NEW k \in 0..Len(q)-1, k \in K PROVE k + 1 \in K
  <2>1. k + 1 \in Nat /\ k + 1 > 0 /\ (k + 1) + 1 = k + 2 /\ k + 1 \in 0..Len(q) /\ k + 2 \in DOMAIN conds
    BY <1>1
  <2>2. ASSUME NEW x \in after[k+1] PROVE FindsAll(x, t, conds, k + 2)
    <3>1. PICK a \in after[k], b \in Ranges(conds[k+2]) : x = Intersection(a, b)
      <4>1. x \in Intersections(after[k], conds[k+2])
        BY <1>3, <2>2
      <4> QED
        BY <4>1 DEF Intersections
    <3>2. FindsAll(a, t, conds, k + 1)
      BY <1>5
    <3>3. AsksIndex(conds[k+2], t)
      BY <2>1
    <3> DEFINE m == k + 1
    <3>4. m \in Nat /\ m > 0 /\ m + 1 = k + 2 /\ FindsAll(a, t, conds, m)
      BY <2>1, <3>2
    <3> HIDE DEF m
    <3>5. FindsAll(x, t, conds, m + 1)
      BY <3>1, <3>3, <3>4, NextFinds
    <3> QED
      BY <3>4, <3>5
  <2> QED
    BY <2>1, <2>2
<1>6. K = 0..Len(q)
  <2>1. K \in SUBSET (0..Len(q)) /\ Len(q) \in Nat
    BY <1>1
  <2> HIDE DEF K
  <2> QED
    BY <1>4, <1>5, <2>1, InductionUpTo
<1>7. Len(q) \in K /\ Len(q) + 1 = Len(conds)
  <2>1. Len(q) \in 0..Len(q) /\ Len(q) + 1 = Len(conds)
    BY <1>1
  <2> HIDE DEF K
  <2> QED
    BY <1>6, <2>1
<1> QED
  BY <1>2, <1>7

-----------------------------------------------------------------------------
(* What the WHERE of a line finds *)

LEMMA SelectedIs ==
    ASSUME NEW t, NEW where, NEW P, NEW l
    PROVE  l \in Selected(t, where, P) <=>
              l \in LocationsOf(t) /\ rows[l] # NoRow /\ \A i \in P : Agrees(rows[l], t, where[i])
BY DEF Selected, Agrees

LEMMA RowsAre ==
    ASSUME TablesInv, NEW t \in Tables, NEW l \in LocationsOf(t), rows[l] # NoRow
    PROVE  l \in Slots /\ l[1] = t /\ IsRow(rows[l], t)
BY DEF TablesInv, RowsAreStored, LocationsOf, TableOf

LEMMA ScanFinds ==
    ASSUME TablesInv, NEW where, IsWhere(where), ~WhereThrows(where), NEW t \in Tables,
           NEW cond, cond = ConditionsOn(t, where), ~SearchAssertFails(t, cond),
           ByIndex(t, where) = {}, NEW found \in Searches(t, NoTxn, cond)
    PROVE  /\ IsFound(found, t)
           /\ PlainLines => ToSet(found) = Selected(t, where, On(t, where))
<1>1. cond.index = << >> /\ IsAskedFor(cond.other, t, where, On(t, where))
  <2>1. On(t, where) \ ByIndex(t, where) = On(t, where)
    OBVIOUS
  <2> QED
    BY <2>1, ScanIsAsked
<1>2. found = Scanned(t, NoTxn, cond.other)
  <2>1. Searches(t, NoTxn, cond) = {Scanned(t, NoTxn, cond.other)}
    BY <1>1 DEF Searches, Loop
  <2> QED
    BY <2>1
<1>3. /\ found \in Seq(LocationsOf(t)) /\ Len(found) \in Nat /\ DOMAIN found = 1..Len(found)
      /\ IsInjective(found)
      /\ ToSet(found) = {l \in LocationsOf(t) : rows[l] # NoRow /\ AndMatches(cond.other, rows[l])}
  BY <1>2, ScannedLists
<1>4. \A j \in DOMAIN found : rows[found[j]] # NoRow
  <2>1. \A j \in DOMAIN found : found[j] \in ToSet(found)
    BY DEF ToSet
  <2> QED
    BY <1>3, <2>1
<1>5. ASSUME PlainLines, NEW l \in LocationsOf(t), rows[l] # NoRow
      PROVE  AndMatches(cond.other, rows[l]) <=> \A i \in On(t, where) : Agrees(rows[l], t, where[i])
  <2>1. Fits(rows[l], t) /\ IsPlainRow(rows[l], t)
    BY <1>5, RowsAre DEF IsRow
  <2>2. ~AndAssertFails(cond.other, rows[l])
    BY <1>1, <1>5 DEF SearchAssertFails, ScanAssertFails
  <2> QED
    BY <1>1, <1>5, <2>1, <2>2, RowMatches
<1>6. ASSUME PlainLines PROVE ToSet(found) = Selected(t, where, On(t, where))
  <2>1. \A l : l \in ToSet(found) <=> l \in Selected(t, where, On(t, where))
    BY <1>3, <1>5, <1>6, SelectedIs
  <2> QED
    BY <2>1
<1> QED
  BY <1>3, <1>4, <1>6 DEF IsFound, AllThere

(* An index is asked for the keys that compare. *)
LEMMA KeysAgree ==
    ASSUME TablesInv, PlainLines, NEW where, IsWhere(where), ~WhereThrows(where), NEW t \in Tables,
           NEW i \in ByIndex(t, where), NEW c, c = where[i], NEW cond, cond = ConditionOf(c),
           NEW row, IsRow(row, t)
    PROVE  /\ HasKey(cond, row) <=> Agrees(row, t, c)
           /\ c.operate = "=" /\ HasKey(cond, row) => row[GetPos(cond.table, cond.column)] = cond.low
<1> DEFINE col == c.column.column
           pos == GetPos(t, col)
           v == stod(c.expression.value)
<1>1. i \in On(t, where) /\ IsIndex(t, col) /\ c.operate # "<>" /\ ~ComparesColumns(c)
  BY DEF ByIndex, On
<1>2. IsAsked(c, t)
  BY <1>1, AskedIs
<1>3. /\ c \in Compared /\ IsLiteral(c) /\ c.column.table = t /\ pos \in DOMAIN Columns[t]
      /\ IsCompared(t, Columns[t][pos].name)
  BY <1>2 DEF IsAsked, IsCompared
<1>4. cond = IndexedComparison(t, col, pos, GetType(t, col), c.operate, v)
  BY <1>1, <1>3 DEF ConditionOf
<1>5. cond.table = t /\ cond.column = col
  <2> HIDE DEF v, pos, col
  <2> QED
    BY <1>1, <1>4 DEF IndexedComparison, IndexCondition
<1>6. /\ row[pos] \in Fields /\ TypeOf(row[pos]) = GetType(t, col) /\ IsPlainField(row[pos])
  BY <1>3, ColumnsAre DEF IsRow, Fits, IsPlainRow, GetType
<1>7. GetType(t, col) \in NumericTypes
  <2>1. <<t, col>> \in DOMAIN entries
    BY <1>1 DEF IsIndex
  <2> HIDE DEF col
  <2> QED
    BY <2>1 DEF TablesInv, IndexesAreTyped
<1>8. HasKey(cond, row) <=> InRange(row[pos], cond.low, cond.high)
  BY <1>5 DEF HasKey
<1> HIDE DEF v, pos, col
<1>9. /\ InRange(row[pos], cond.low, cond.high) <=> Compares(NumberOf(row[pos]), c.operate, v)
      /\ c.operate = "=" /\ InRange(row[pos], cond.low, cond.high) => row[pos] = cond.low
  <2> DEFINE x == row[pos]
  <2>1. /\ x \in Fields /\ IsPlainField(x) /\ TypeOf(x) \in NumericTypes
        /\ cond = IndexedComparison(t, col, pos, TypeOf(x), c.operate, v)
    BY <1>4, <1>6, <1>7
  <2>2. v = stod(c.expression.value)
    BY DEF v
  <2> HIDE DEF x
  <2>3. /\ InRange(x, cond.low, cond.high) <=> Compares(NumberOf(x), c.operate, v)
        /\ c.operate = "=" /\ InRange(x, cond.low, cond.high) => x = cond.low
    BY <1>1, <1>3, <2>1, <2>2, KeysCompare
  <2> QED
    BY <2>3 DEF x
<1>10. Agrees(row, t, c) <=> Compares(NumberOf(row[pos]), c.operate, v)
  BY DEF Agrees, pos, v, col
<1>11. row[GetPos(cond.table, cond.column)] = row[pos]
  BY <1>5 DEF pos
<1> QED
  BY <1>8, <1>9, <1>10, <1>11

LEMMA IndexIsAsked ==
    ASSUME NEW where, IsWhere(where), ~WhereThrows(where), NEW t \in Tables,
           NEW i \in ByIndex(t, where)
    PROVE  /\ AsksIndex(ConditionOf(where[i]), t)
           /\ ConditionOf(where[i]).column = where[i].column.column
<1> DEFINE c == where[i]
           col == c.column.column
<1>1. IsIndex(t, col) /\ c.operate # "<>" /\ ~ComparesColumns(c) /\ c.column.table = t
  BY DEF ByIndex, On
<1> HIDE DEF c
<1>2. ConditionOf(c) = IndexedComparison(t, col, GetPos(t, col), GetType(t, col), c.operate, stod(c.expression.value))
  BY <1>1 DEF ConditionOf
<1>3. ConditionOf(c).table = t /\ ConditionOf(c).column = col
  BY <1>1, <1>2 DEF IndexedComparison, IndexCondition
<1> QED
  BY <1>1, <1>3 DEF AsksIndex, IsIndex, c

LEMMA IndexFinds ==
    ASSUME TablesInv, NEW where, IsWhere(where), ~WhereThrows(where), NEW t \in Tables,
           NEW cond, cond = ConditionsOn(t, where), NEW Q, Q = ByIndex(t, where), Q # {},
           NEW found \in Searches(t, NoTxn, cond)
    PROVE  /\ IsFound(found, t)
           /\ PlainLines /\ (\A i \in Q : IsWhole(<<t, where[i].column.column>>)) =>
                 \/ ToSet(found) = Selected(t, where, Q)
                 \/ found = << >> /\ \E i \in Q : where[i].operate # "="
<1> DEFINE conds == cond.index
<1>1. Q \in SUBSET DOMAIN where /\ cond.index = Visited(where, Q)
  BY DEF ByIndex, On, ConditionsOn
<1>2. ListsAll(conds, {ConditionOf(where[i]) : i \in Q})
  BY <1>1, VisitedIs
<1>3. conds # << >>
  BY ScanIsAsked
<1> HIDE DEF conds
<1>4. /\ \A j \in DOMAIN conds : \E i \in Q : conds[j] = ConditionOf(where[i])
      /\ \A i \in Q : \E j \in DOMAIN conds : conds[j] = ConditionOf(where[i])
      /\ conds \in Seq(ToSet(conds)) /\ Len(conds) \in Nat /\ DOMAIN conds = 1..Len(conds)
  <2>1. /\ Len(conds) \in Nat /\ DOMAIN conds = 1..Len(conds)
        /\ conds \in Seq({ConditionOf(where[i]) : i \in Q})
        /\ \A j \in DOMAIN conds : conds[j] \in {ConditionOf(where[i]) : i \in Q}
    BY <1>2 DEF ListsAll
  <2>2. conds \in Seq(ToSet(conds))
    <3>1. \A j \in 1..Len(conds) : conds[j] \in ToSet(conds)
      BY <2>1 DEF ToSet
    <3> QED
      BY <2>1, <3>1
  <2>3. \A i \in Q : \E j \in DOMAIN conds : conds[j] = ConditionOf(where[i])
    BY <1>2 DEF ListsAll
  <2> QED
    BY <2>1, <2>2, <2>3
<1>5. \A j \in DOMAIN conds : AsksIndex(conds[j], t)
  BY <1>4, IndexIsAsked
<1>6. FindsAll(found, t, conds, Len(conds))
  BY <1>3, <1>4, <1>5, IndexesFind DEF conds
<1>7. ASSUME PlainLines, \A i \in Q : IsWhole(<<t, where[i].column.column>>)
      PROVE  \/ ToSet(found) = Selected(t, where, Q)
             \/ found = << >> /\ \E i \in Q : where[i].operate # "="
  <2>1. \A j \in 1..Len(conds) : IsWhole(<<t, conds[j].column>>)
    <3>1. ASSUME NEW j \in 1..Len(conds) PROVE IsWhole(<<t, conds[j].column>>)
      <4>1. PICK i \in Q : conds[j] = ConditionOf(where[i])
        BY <1>4
      <4>2. conds[j].column = where[i].column.column
        BY <4>1, IndexIsAsked
      <4>3. <<t, conds[j].column>> = <<t, where[i].column.column>>
        BY <4>2
      <4>4. IsWhole(<<t, where[i].column.column>>)
        BY <1>7
      <4> QED
        BY <4>3, <4>4
    <3> QED
      BY <3>1
  <2>2. CASE \A l \in LocationsOf(t) : l \in ToSet(found) <=>
                rows[l] # NoRow /\ \A j \in 1..Len(conds) : HasKey(conds[j], rows[l])
    <3>1. ASSUME NEW l \in LocationsOf(t), rows[l] # NoRow
          PROVE  (\A j \in 1..Len(conds) : HasKey(conds[j], rows[l])) <=>
                    \A i \in Q : Agrees(rows[l], t, where[i])
      <4>1. IsRow(rows[l], t)
        BY <3>1, RowsAre
      <4>2. \A i \in Q : HasKey(ConditionOf(where[i]), rows[l]) <=> Agrees(rows[l], t, where[i])
        BY <1>7, <4>1, KeysAgree
      <4> QED
        BY <1>4, <4>2
    <3>2. \A l \in ToSet(found) : l \in LocationsOf(t)
      BY <1>6 DEF FindsAll, IsFound, ToSet
    <3>3. \A l : l \in ToSet(found) <=> l \in Selected(t, where, Q)
      BY <2>2, <3>1, <3>2, SelectedIs
    <3> QED
      BY <3>3
  <2>3. CASE found = << >> /\ \E j \in 1..Len(conds) : MayMiss(conds[j], t)
    <3>1. PICK i \in Q : MayMiss(ConditionOf(where[i]), t)
      BY <1>4, <2>3
    <3> DEFINE c == ConditionOf(where[i])
    <3>2. PICK l \in LocationsOf(t) :
              rows[l] # NoRow /\ HasKey(c, rows[l]) /\ rows[l][GetPos(c.table, c.column)] # c.low
      BY <3>1 DEF MayMiss
    <3>3. IsRow(rows[l], t)
      BY <3>2, RowsAre
    <3> HIDE DEF c
    <3>4. c = ConditionOf(where[i])
      BY DEF c
    <3>5. where[i].operate # "="
      BY <1>7, <3>2, <3>3, <3>4, KeysAgree
    <3> QED
      BY <2>3, <3>5
  <2> QED
    BY <1>6, <2>1, <2>2, <2>3 DEF FindsAll
<1> QED
  BY <1>6, <1>7 DEF FindsAll

-----------------------------------------------------------------------------
(* What the loop of Update leaves of rows that are there, each once: all   *)
(* are updated, or none, when a Transform throws.                          *)

UpdatedRow(l, trans) == Stored(Transformed(rows[l], trans), Columns[l[1]])

UpdatedExactly(db, q, k, trans) ==
    /\ IsDB(db) /\ EntriesFit(db.entries)
    /\ DOMAIN db.entries = DOMAIN entries
    /\ NoneLeft(rows, entries, db.rows, db.entries)
    /\ db.thrown => TransformsThrow(trans)
    /\ TransformsThrow(trans) => db.rows = rows /\ (k > 0 => db.thrown)
    /\ ~TransformsThrow(trans) =>
          \A l \in Slots :
              db.rows[l] = IF \E j \in 1..k : q[j] = l THEN UpdatedRow(l, trans) ELSE rows[l]

LEMMA UpdatedRowFits ==
    ASSUME NEW t \in Tables, NEW trans, TransformsFit(trans, t), NEW l, l[1] = t, Fits(rows[l], t)
    PROVE  Fits(UpdatedRow(l, trans), t)
<1> DEFINE row == Transformed(rows[l], trans)
<1>1. \A i \in DOMAIN Columns[t] : row[i] \in Fields /\ TypeOf(row[i]) = Columns[t][i].type
  BY TransformedFits
<1> HIDE DEF row
<1>2. Fits(Stored(row, Columns[t]), t)
  BY <1>1, StoredFits
<1> QED
  BY <1>2 DEF UpdatedRow, row

LEMMA OneMoreIsExact ==
    ASSUME TablesInv, NEW t \in Tables, NEW trans, TransformsFit(trans, t),
           NEW q, IsFound(q, t), NEW k \in 0..Len(q)-1, NEW db, UpdatedExactly(db, q, k, trans)
    PROVE  UpdatedExactly(UpdateRow(db, q[k+1], trans), q, k + 1, trans)
<1> DEFINE loc == q[k+1]
           new == UpdateRow(db, loc, trans)
           row == Stored(Transformed(db.rows[loc], trans), Columns[loc[1]])
<1>1. /\ Len(q) \in Nat /\ DOMAIN q = 1..Len(q) /\ k + 1 \in DOMAIN q /\ k + 1 > 0
      /\ \A j \in 1..k : j \in DOMAIN q /\ j # k + 1
      /\ \A j : j \in 1..k+1 <=> j \in 1..k \/ j = k + 1
  BY DEF IsFound
<1>2. loc \in LocationsOf(t) /\ loc \in Slots /\ loc[1] = t /\ rows[loc] # NoRow
  BY <1>1 DEF IsFound, AllThere, LocationsOf, TableOf
<1>3. \A j \in 1..k : q[j] # loc
  BY <1>1 DEF IsFound, AllThere, IsInjective
<1>4. IsDB(db) /\ EntriesFit(db.entries) /\ AllColumns(db.entries)
  BY DEF UpdatedExactly, TablesInv, IndexesAreTyped, AllColumns
<1>5. db.rows[loc] = rows[loc]
  BY <1>2, <1>3 DEF UpdatedExactly
<1>6. row = UpdatedRow(loc, trans) /\ Fits(row, loc[1])
  <2> HIDE DEF loc
  <2>1. row = UpdatedRow(loc, trans)
    BY <1>5 DEF UpdatedRow
  <2>2. Fits(rows[loc], t)
    BY <1>2, RowsAre DEF IsRow
  <2> HIDE DEF row
  <2> QED
    BY <1>2, <2>1, <2>2, UpdatedRowFits
<1>7. /\ IsDB(new) /\ EntriesFit(new.entries)
      /\ DOMAIN new.entries = DOMAIN db.entries
      /\ NoneLeft(db.rows, db.entries, new.rows, new.entries)
      /\ \/ /\ db.thrown \/ db.rows[loc] = NoRow
            /\ new = [rows |-> db.rows, entries |-> db.entries, thrown |-> TRUE]
         \/ /\ TransformsThrow(trans)
            /\ new.rows = db.rows /\ new.thrown
         \/ /\ ~db.thrown /\ db.rows[loc] # NoRow /\ ~TransformsThrow(trans)
            /\ new.rows = [db.rows EXCEPT ![loc] = row]
            /\ ~new.thrown
            /\ NoneLost(db.rows, db.entries, new.rows, new.entries)
  <2>1. row = Stored(Transformed(db.rows[loc], trans), Columns[loc[1]])
    OBVIOUS
  <2> HIDE DEF loc, row
  <2> QED
    BY <1>2, <1>4, <1>6, <2>1, UpdateRowIs
<1> HIDE DEF new, row
<1>8. NoneLeft(rows, entries, new.rows, new.entries) /\ DOMAIN new.entries = DOMAIN entries
  BY <1>7, LostAndLeft DEF UpdatedExactly
<1>9. CASE TransformsThrow(trans)
  <2>1. new.rows = rows /\ new.thrown
    <3>1. db.rows = rows
      BY <1>9 DEF UpdatedExactly
    <3>2. CASE new = [rows |-> db.rows, entries |-> db.entries, thrown |-> TRUE]
      BY <3>1, <3>2
    <3> QED
      BY <1>7, <1>9, <3>1, <3>2
  <2> QED
    BY <1>7, <1>8, <1>9, <2>1 DEF UpdatedExactly, new
<1>10. CASE ~TransformsThrow(trans)
  <2>1. ~db.thrown /\ new.rows = [db.rows EXCEPT ![loc] = row] /\ ~new.thrown
    <3>1. ~db.thrown /\ db.rows[loc] # NoRow
      BY <1>2, <1>5, <1>10 DEF UpdatedExactly
    <3> QED
      BY <1>7, <1>10, <3>1
  <2>2. \A l \in Slots : new.rows[l] = IF l = loc THEN row ELSE db.rows[l]
    BY <1>4, <2>1 DEF IsDB
  <2>3. ASSUME NEW l \in Slots
        PROVE  new.rows[l] = IF \E j \in 1..k+1 : q[j] = l THEN UpdatedRow(l, trans) ELSE rows[l]
    <3>1. CASE l = loc
      BY <1>1, <1>6, <2>2, <3>1
    <3>2. CASE l # loc
      <4>1. (\E j \in 1..k+1 : q[j] = l) <=> \E j \in 1..k : q[j] = l
        BY <1>1, <3>2
      <4>2. db.rows[l] = IF \E j \in 1..k : q[j] = l THEN UpdatedRow(l, trans) ELSE rows[l]
        BY <1>10 DEF UpdatedExactly
      <4> QED
        BY <2>2, <3>2, <4>1, <4>2
    <3> QED
      BY <3>1, <3>2
  <2> QED
    BY <1>7, <1>8, <1>10, <2>1, <2>3 DEF UpdatedExactly, new
<1> QED
  BY <1>9, <1>10

LEMMA TablesAreDB == ASSUME TablesInv PROVE IsDB(Now)
<1>1. rows = [l \in Slots |-> rows[l]] /\ BagsIn(entries) /\ entries = [i \in DOMAIN entries |-> entries[i]]
  BY DEF TablesInv, RowsAreStored, IndexesAreTyped, EntriesFit, BagsIn
<1> QED
  BY <1>1 DEF IsDB, Now

LEMMA UpdateIsExact ==
    ASSUME TablesInv, NEW t \in Tables, NEW trans, TransformsFit(trans, t), NEW q, IsFound(q, t)
    PROVE  UpdatedExactly(AllUpdated(q, trans), q, Len(q), trans)
<1> DEFINE n == Len(q)
<1>0. n \in Nat
  BY DEF IsFound
<1>1. PICK after :
        /\ after = [i \in 0..n |-> IF i = 0 THEN Now ELSE UpdateRow(after[i-1], q[i], trans)]
        /\ AllUpdated(q, trans) = after[n]
  BY <1>0, UpdateRuns
<1> DEFINE K == {k \in 0..n : UpdatedExactly(after[k], q, k, trans)}
<1>2. after[0] = Now /\ \A k \in 0..n-1 : after[k+1] = UpdateRow(after[k], q[k+1], trans)
  <2> HIDE DEF n
  <2>1. \A k \in 0..n-1 : k + 1 \in 0..n /\ k + 1 # 0 /\ (k + 1) - 1 = k
    BY <1>0
  <2>2. 0 \in 0..n
    BY <1>0
  <2> QED
    BY <1>1, <2>1, <2>2
<1>3. UpdatedExactly(Now, q, 0, trans)
  <2>1. Now.rows = rows /\ Now.entries = entries /\ Now.thrown = FALSE
    BY DEF Now
  <2>2. EntriesFit(entries) /\ IsDB(Now)
    BY TablesAreDB DEF TablesInv, IndexesAreTyped
  <2>3. \A l : ~\E j \in 1..0 : q[j] = l
    OBVIOUS
  <2>4. NoneLeft(rows, entries, rows, entries)
    BY LostAndLeft
  <2> QED
    BY <2>1, <2>2, <2>3, <2>4 DEF UpdatedExactly
<1>4. 0 \in K
  BY <1>0, <1>2, <1>3
<1>5. ASSUME NEW k \in 0..n-1, k \in K PROVE k + 1 \in K
  <2>1. UpdatedExactly(after[k], q, k, trans)
    BY <1>5
  <2>2. UpdatedExactly(UpdateRow(after[k], q[k+1], trans), q, k + 1, trans)
    BY <2>1, OneMoreIsExact
  <2>3. after[k+1] = UpdateRow(after[k], q[k+1], trans) /\ k + 1 \in 0..n
    BY <1>0, <1>2
  <2> QED
    BY <2>2, <2>3
<1>6. K = 0..n
  <2>1. K \in SUBSET (0..n)
    OBVIOUS
  <2> HIDE DEF K, n
  <2> QED
    BY <1>0, <1>4, <1>5, <2>1, InductionUpTo
<1>7. n \in K
  BY <1>0, <1>6
<1> QED
  BY <1>1, <1>7

-----------------------------------------------------------------------------
(* What an UPDATE of a line makes of a row *)

LEMMA StatementsAre ==
    ASSUME NEW s \in Statements
    PROVE  /\ IsStatement(s)
           /\ s.kind \in {"select", "delete", "update"} => IsWhere(s.where)
<1>1. IsStatement(s)
  <2>1. PICK read \in Range(Parsed) : read.at # 0 /\ s \in ToSet(read.tree)
    BY DEF Statements
  <2> QED
    BY <2>1, LinesAssumption
<1>2. ASSUME s.kind \in {"select", "delete", "update"} PROVE IsWhere(s.where)
  <2> DEFINE where == s.where
  <2>1. where \in Seq(ToSet(where)) /\ \A c \in ToSet(where) : IsComparison(c)
    BY <1>1, <1>2 DEF IsStatement
  <2>2. \A c \in ToSet(where) : ~ComparesColumns(c) => c \in Compared
    BY <1>2 DEF Compared
  <2> HIDE DEF where
  <2>3. \A i \in DOMAIN where : where[i] \in ToSet(where)
    BY DEF ToSet
  <2> QED
    BY <2>1, <2>2, <2>3 DEF IsWhere, where
<1> QED
  BY <1>1, <1>2

LEMMA PositionIs ==
    ASSUME NEW t \in Tables, NEW c, IsName(t, c)
    PROVE  /\ GetPos(t, c) \in DOMAIN Columns[t]
           /\ \A i \in DOMAIN Columns[t] : GetPos(t, c) = i <=> c = Columns[t][i].name
<1>1. \E i \in DOMAIN Columns[t] : Columns[t][i].name = c
  BY DEF IsName
<1>2. GetPos(t, c) \in DOMAIN Columns[t] /\ Columns[t][GetPos(t, c)].name = c
  BY <1>1 DEF GetPos
<1>3. \A i, j \in DOMAIN Columns[t] : Columns[t][i].name = Columns[t][j].name => i = j
  BY ColumnsAssumption
<1> QED
  BY <1>2, <1>3

(* The Transforms are those that SET says. *)
AreSets(trans, s, t) ==
    /\ TransformsFit(trans, t) /\ DOMAIN trans = DOMAIN s.set
    /\ \A k \in DOMAIN s.set :
          /\ s.set[k] \in ToSet(s.set)
          /\ trans[k].raw = s.set[k].value /\ trans[k].type = GetType(t, s.set[k].column)
          /\ \A i \in DOMAIN Columns[t] : trans[k].pos = i <=> s.set[k].column = Columns[t][i].name

LEMMA TransformsAre ==
    ASSUME NEW s \in Statements, s.kind = "update", s.table \in Tables, NEW trans, trans = TransformsOf(s)
    PROVE  AreSets(trans, s, s.table)
<1> DEFINE t == s.table
           set == s.set
<1>1. /\ set \in Seq(ToSet(set))
      /\ \A x \in ToSet(set) : IsName(t, x.column) /\ x.value \in RawTexts
  BY StatementsAre DEF IsStatement
<1>2. trans = [i \in DOMAIN set |-> [pos |-> GetPos(t, set[i].column), type |-> GetType(t, set[i].column),
                                     raw |-> set[i].value]]
  BY DEF TransformsOf
<1>3. t \in Tables
  OBVIOUS
<1> HIDE DEF t, set
<1>4. /\ DOMAIN trans = DOMAIN set
      /\ \A k \in DOMAIN set : trans[k] = [pos |-> GetPos(t, set[k].column),
                                          type |-> GetType(t, set[k].column), raw |-> set[k].value]
  BY <1>2
<1>5. ASSUME NEW k \in DOMAIN set
      PROVE  /\ set[k] \in ToSet(set) /\ set[k].value \in RawTexts
             /\ GetPos(t, set[k].column) \in DOMAIN Columns[t]
             /\ \A i \in DOMAIN Columns[t] : GetPos(t, set[k].column) = i <=> set[k].column = Columns[t][i].name
  <2>1. set[k] \in ToSet(set)
    BY DEF ToSet
  <2>2. IsName(t, set[k].column) /\ set[k].value \in RawTexts
    BY <1>1, <2>1
  <2> QED
    BY <1>3, <2>1, <2>2, PositionIs
<1>6. ASSUME NEW k \in DOMAIN set
      PROVE  /\ trans[k].pos = GetPos(t, set[k].column) /\ trans[k].type = GetType(t, set[k].column)
             /\ trans[k].raw = set[k].value
  BY <1>4
<1>7. trans \in Seq(ToSet(trans))
  <2>1. Len(set) \in Nat /\ DOMAIN set = 1..Len(set)
    BY <1>1
  <2>2. trans = [i \in 1..Len(set) |-> trans[i]]
    BY <1>2, <2>1
  <2>3. \A i \in 1..Len(set) : trans[i] \in ToSet(trans)
    BY <1>4, <2>1 DEF ToSet
  <2>4. trans \in [1..Len(set) -> ToSet(trans)]
    BY <2>2, <2>3
  <2> QED
    BY <2>1, <2>4
<1>8. TransformsFit(trans, t)
  BY <1>4, <1>5, <1>6, <1>7 DEF TransformsFit, GetType
<1> QED
  BY <1>4, <1>5, <1>6, <1>8 DEF AreSets, t, set

(* A field is stored as its column holds it, and comes back the same.      *)
StoredField(x, column) ==
    IF column.type = "STRING" /\ x[2] > column.size THEN Field("STRING", Whole(column.size)) ELSE x

LEMMA StoredFieldIs ==
    ASSUME NEW column, column.type \in FieldTypes, column.size \in Nat
    PROVE  /\ \A x \in Fields : StoredField(StoredField(x, column), column) = StoredField(x, column)
           /\ \A raw \in RawTexts :
                 StoredField(FieldOf(raw, column.type), column) = AsColumn(raw, column)
           /\ column.type # "STRING" => \A x : StoredField(x, column) = x
<1>1. CASE column.type # "STRING"
  BY <1>1 DEF StoredField, AsColumn
<1>2. CASE column.type = "STRING"
  <2>1. ASSUME NEW x \in Fields PROVE StoredField(StoredField(x, column), column) = StoredField(x, column)
    BY <1>2 DEF StoredField, Field, Whole
  <2>2. ASSUME NEW raw \in RawTexts
        PROVE  StoredField(FieldOf(raw, column.type), column) = AsColumn(raw, column)
    <3> DEFINE n == Unquoted(raw)
    <3>1. n \in Int
      BY DEF Unquoted, RawTexts
    <3>2. FieldOf(raw, column.type) = <<"STRING", n, 0>>
      BY <1>2 DEF FieldOf, Field, Whole
    <3> HIDE DEF n
    <3>3. Min({n, column.size}) = IF n > column.size THEN column.size ELSE n
      BY <3>1 DEF Min
    <3> QED
      BY <1>2, <3>1, <3>2, <3>3 DEF StoredField, AsColumn, Field, Whole
  <2> QED
    BY <1>2, <2>1, <2>2
<1> QED
  BY <1>1, <1>2

LEMMA StoredIs ==
    ASSUME NEW t \in Tables, NEW row, NEW i \in DOMAIN Columns[t]
    PROVE  Stored(row, Columns[t])[i] = StoredField(row[i], Columns[t][i])
BY DEF Stored, StoredField

(* The fields of an updated row: what SET says, and the old ones.          *)
SetsOf(s, t, i) == {k \in DOMAIN s.set : s.set[k].column = Columns[t][i].name}

HasSets(row, old, s, t) ==
    \A i \in DOMAIN Columns[t] :
        IF SetsOf(s, t, i) = {} THEN row[i] = old[i]
        ELSE \E k \in SetsOf(s, t, i) : row[i] = AsColumn(s.set[k].value, Columns[t][i])

LEMMA UpdatedRowIs ==
    ASSUME NEW s \in Statements, s.kind = "update", NEW t \in Tables, t = s.table,
           NEW trans, trans = TransformsOf(s), ~TransformsThrow(trans),
           NEW l, l[1] = t, IsRow(rows[l], t), NEW row, row = UpdatedRow(l, trans)
    PROVE  /\ IsRow(row, t)
           /\ HasSets(row, rows[l], s, t)
<1> DEFINE new == Transformed(rows[l], trans)
           old == rows[l]
<1>1. /\ TransformsFit(trans, t) /\ DOMAIN trans = DOMAIN s.set
      /\ \A k \in DOMAIN s.set :
            /\ s.set[k] \in ToSet(s.set)
            /\ trans[k].raw = s.set[k].value /\ trans[k].type = GetType(t, s.set[k].column)
            /\ \A i \in DOMAIN Columns[t] : trans[k].pos = i <=> s.set[k].column = Columns[t][i].name
  <2>1. AreSets(trans, s, s.table)
    BY TransformsAre
  <2> QED
    BY <2>1 DEF AreSets
<1>2. /\ Fits(old, t) /\ \A i \in DOMAIN Columns[t] : StoredField(old[i], Columns[t][i]) = old[i]
      /\ PlainLines => IsPlainRow(old, t)
  BY StoredIs DEF IsRow
<1>3. row = Stored(new, Columns[t])
  BY DEF UpdatedRow
<1> HIDE DEF old
<1>4. ASSUME NEW i \in DOMAIN Columns[t]
      PROVE  /\ new[i] \in Fields
             /\ \/ SetsOf(s, t, i) = {} /\ new[i] = old[i]
                \/ \E k \in SetsOf(s, t, i) : new[i] = FieldOf(trans[k].raw, Columns[t][i].type)
  <2>1. /\ new[i] \in Fields
        /\ \/ /\ \A k \in DOMAIN trans : trans[k].pos # i
              /\ new[i] = old[i]
           \/ \E k \in DOMAIN trans :
                 trans[k].pos = i /\ new[i] = FieldOf(trans[k].raw, Columns[t][i].type)
    BY <1>1, <1>2, TransformedFits DEF old
  <2> HIDE DEF new
  <2>2. \A k \in DOMAIN trans : k \in SetsOf(s, t, i) <=> trans[k].pos = i
    BY <1>1 DEF SetsOf
  <2>3. SetsOf(s, t, i) \subseteq DOMAIN trans
    BY <1>1 DEF SetsOf
  <2> QED
    BY <2>1, <2>2, <2>3
<1>5. Fits(row, t)
  BY <1>1, <1>2, UpdatedRowFits DEF old
<1> HIDE DEF new
<1>6. \A i \in DOMAIN Columns[t] :
          row[i] = StoredField(new[i], Columns[t][i]) /\ Columns[t][i].type \in FieldTypes
            /\ Columns[t][i].size \in Nat
  BY <1>3, StoredIs, ColumnsAre
<1>7. Stored(row, Columns[t]) = row
  <2>1. Stored(row, Columns[t]) = [i \in DOMAIN Columns[t] |-> StoredField(row[i], Columns[t][i])]
    BY DEF Stored, StoredField
  <2>2. \A i \in DOMAIN Columns[t] : StoredField(row[i], Columns[t][i]) = row[i]
    BY <1>4, <1>6, StoredFieldIs
  <2>3. row = [i \in DOMAIN Columns[t] |-> row[i]]
    BY <1>3 DEF Stored
  <2>4. [i \in DOMAIN Columns[t] |-> StoredField(row[i], Columns[t][i])] = [i \in DOMAIN Columns[t] |-> row[i]]
    BY <2>2
  <2> QED
    BY <2>1, <2>3, <2>4
<1>8. ASSUME NEW i \in DOMAIN Columns[t]
      PROVE  IF SetsOf(s, t, i) = {} THEN row[i] = old[i]
             ELSE \E k \in SetsOf(s, t, i) : row[i] = AsColumn(s.set[k].value, Columns[t][i])
  <2>1. CASE SetsOf(s, t, i) = {}
    BY <1>2, <1>4, <1>6, <2>1
  <2>2. CASE SetsOf(s, t, i) # {}
    <3>1. PICK k \in SetsOf(s, t, i) : new[i] = FieldOf(trans[k].raw, Columns[t][i].type)
      BY <1>4, <2>2
    <3>2. trans[k].raw = s.set[k].value /\ trans[k].raw \in RawTexts
      BY <1>1 DEF SetsOf, TransformsFit
    <3>3. row[i] = AsColumn(trans[k].raw, Columns[t][i])
      BY <1>6, <3>1, <3>2, StoredFieldIs
    <3> QED
      BY <2>2, <3>2, <3>3
  <2> QED
    BY <2>1, <2>2
<1>9. ASSUME PlainLines, NEW i \in DOMAIN Columns[t], IsCompared(t, Columns[t][i].name)
      PROVE  IsPlainField(row[i])
  <2>1. CASE Columns[t][i].type = "STRING"
    <3>1. TypeOf(row[i]) = "STRING"
      BY <1>5, <2>1 DEF Fits
    <3> QED
      BY <3>1 DEF IsPlainField
  <2>2. CASE Columns[t][i].type # "STRING"
    <3>1. row[i] = new[i]
      BY <1>6, <2>2, StoredFieldIs
    <3>2. CASE new[i] = old[i]
      BY <1>2, <1>9, <3>1, <3>2 DEF IsPlainRow
    <3>3. ASSUME NEW k \in SetsOf(s, t, i), new[i] = FieldOf(trans[k].raw, Columns[t][i].type)
          PROVE  IsPlainField(row[i])
      <4> DEFINE x == s.set[k]
                 type == GetType(t, x.column)
      <4>1. /\ k \in DOMAIN s.set /\ x \in ToSet(s.set) /\ x.column = Columns[t][i].name
            /\ k \in DOMAIN trans /\ trans[k].raw = x.value /\ trans[k].type = type
        BY <1>1 DEF SetsOf
      <4>2. type = Columns[t][i].type
        <5>1. trans[k].pos = i
          BY <1>1, <4>1
        <5>2. trans[k].type = Columns[t][trans[k].pos].type
          BY <1>1, <4>1 DEF TransformsFit
        <5> QED
          BY <4>1, <5>1, <5>2
      <4> HIDE DEF type
      <4>3. ~FieldThrows(x.value, type)
        BY <4>1 DEF TransformsThrow
      <4>4. IsPlainField(FieldOf(x.value, type))
        <5>1. s \in {u \in Statements : u.kind = "update"}
          OBVIOUS
        <5>2. s.table \in Tables /\ IsCompared(s.table, x.column)
          BY <1>9, <4>1
        <5>3. FieldThrows(x.value, GetType(s.table, x.column))
                \/ IsPlainField(FieldOf(x.value, GetType(s.table, x.column)))
          BY <1>9, <4>1, <5>1, <5>2 DEF PlainLines
        <5> QED
          BY <4>3, <5>3 DEF type
      <4> QED
        BY <3>1, <3>3, <4>1, <4>2, <4>4
    <3> QED
      BY <1>4, <3>2, <3>3
  <2> QED
    BY <2>1, <2>2
<1> QED
  BY <1>5, <1>7, <1>8, <1>9 DEF IsRow, IsPlainRow, HasSets, old

-----------------------------------------------------------------------------
(* The rows of a SELECT *)

(* What a sequence lists once has as many places in it as elements.        *)
LEMMA PlacesOf ==
    ASSUME NEW q, Len(q) \in Nat, DOMAIN q = 1..Len(q), IsInjective(q), NEW T \in SUBSET ToSet(q),
           NEW I, I = {i \in DOMAIN q : q[i] \in T}
    PROVE  IsFiniteSet(I) /\ Cardinality(T) = Cardinality(I)
<1> DEFINE f == [i \in I |-> q[i]]
<1>1. IsFiniteSet(I)
  <2>1. IsFiniteSet(1..Len(q))
    BY FS_Interval
  <2> QED
    BY <2>1, FS_Subset
<1>2. f \in Bijection(I, T)
  <2>1. f \in [I -> T] /\ \A i, j \in I : f[i] = f[j] => i = j
    BY DEF IsInjective
  <2>2. \A x \in T : \E i \in I : f[i] = x
    BY DEF ToSet
  <2> HIDE DEF f
  <2> QED
    BY <2>1, <2>2 DEF Bijection, Injection, Surjection, IsInjective
<1> HIDE DEF f
<1>3. ExistsBijection(I, T)
  BY <1>2 DEF ExistsBijection
<1> QED
  BY <1>1, <1>3, FS_Bijection

LEMMA AnswerIs ==
    ASSUME NEW t, NEW q, IsFound(q, t), NEW left, left = [i \in DOMAIN q |-> rows[q[i]]]
    PROVE  /\ NoRow \notin ToSet(left)
           /\ AreRowsAt(left, ToSet(q))
           /\ q = << >> => left = << >>
<1>1. Len(q) \in Nat /\ DOMAIN q = 1..Len(q) /\ IsInjective(q) /\ \A i \in DOMAIN q : rows[q[i]] # NoRow
  BY DEF IsFound, AllThere
<1>2. DOMAIN left = DOMAIN q /\ Len(left) = Len(q) /\ \A i \in DOMAIN q : left[i] = rows[q[i]]
  BY <1>1
<1>3. NoRow \notin ToSet(left)
  BY <1>1, <1>2 DEF ToSet
<1>4. Len(left) = Cardinality(ToSet(q))
  <2>1. ToSet(q) \in SUBSET ToSet(q) /\ 1..Len(q) = {i \in DOMAIN q : q[i] \in ToSet(q)}
    BY <1>1 DEF ToSet
  <2>2. Cardinality(ToSet(q)) = Cardinality(1..Len(q))
    BY <1>1, <2>1, PlacesOf
  <2>3. ASSUME NEW n \in Nat PROVE Cardinality(1..n) = n
    <3>1. Cardinality(1..n) = IF 1 > n THEN 0 ELSE n - 1 + 1
      BY FS_Interval
    <3> QED
      BY <3>1
  <2>4. Cardinality(1..Len(q)) = Len(q)
    BY <1>1, <2>3
  <2> QED
    BY <1>2, <2>2, <2>4
<1>5. ASSUME NEW row PROVE Times(left, row) = Cardinality({loc \in ToSet(q) : rows[loc] = row})
  <2> DEFINE T == {loc \in ToSet(q) : rows[loc] = row}
             I == {i \in DOMAIN q : q[i] \in T}
  <2>1. I = {i \in DOMAIN left : left[i] = row}
    BY <1>2 DEF ToSet
  <2>2. T \in SUBSET ToSet(q)
    OBVIOUS
  <2>3. I = {i \in DOMAIN q : q[i] \in T}
    OBVIOUS
  <2> HIDE DEF I, T
  <2>4. Cardinality(T) = Cardinality(I)
    BY <1>1, <2>2, <2>3, PlacesOf
  <2> QED
    BY <2>1, <2>4 DEF Times, T
<1>6. AreRowsAt(left, ToSet(q))
  BY <1>4, <1>5 DEF AreRowsAt
<1>7. q = << >> => left = << >>
  BY <1>2
<1> QED
  BY <1>3, <1>6, <1>7

-----------------------------------------------------------------------------
(* Every visit keeps what holds of the tables and of the rest of the line. *)

LEMMA FunctionIsSeq == ASSUME NEW S, NEW n \in Nat, NEW q \in [1..n -> S] PROVE q \in Seq(S)
OBVIOUS

LEMMA LongerIsNotEmpty == ASSUME NEW S, NEW q \in Seq(S), Len(q) > 1 PROVE q # << >> /\ Tail(q) # << >>
<1>1. q # << >>
  OBVIOUS
<1> DEFINE p == Tail(q)
<1>2. p \in Seq(S) /\ Len(p) > 0
  BY <1>1
<1> HIDE DEF p
<1>3. p # << >>
  BY <1>2
<1> QED
  BY <1>1, <1>3 DEF p

LEMMA OwnElements == ASSUME NEW S, NEW q \in Seq(S) PROVE q \in Seq(ToSet(q))
<1>1. Len(q) \in Nat /\ DOMAIN q = 1..Len(q)
  OBVIOUS
<1>2. \A k \in 1..Len(q) : q[k] \in ToSet(q)
  BY <1>1 DEF ToSet
<1> QED
  BY <1>1, <1>2

LEMMA HeadAndTail ==
    ASSUME NEW q, q \in Seq(ToSet(q)), q # << >>
    PROVE  /\ Len(q) \in Nat /\ Len(q) > 0 /\ DOMAIN q = 1..Len(q)
           /\ Head(q) = q[1] /\ Head(q) \in ToSet(q)
           /\ Tail(q) \in Seq(ToSet(Tail(q))) /\ ToSet(Tail(q)) \subseteq ToSet(q)
           /\ Len(Tail(q)) = Len(q) - 1 /\ DOMAIN Tail(q) = 1..Len(q)-1
           /\ \A k \in 1..Len(q)-1 : Tail(q)[k] = q[k+1] /\ k + 1 \in DOMAIN q
<1>1. ASSUME NEW S, q \in Seq(S)
      PROVE  /\ Len(q) \in Nat /\ Len(q) > 0 /\ DOMAIN q = 1..Len(q)
             /\ Head(q) = q[1] /\ Head(q) \in S
             /\ Tail(q) \in Seq(S)
             /\ Len(Tail(q)) = Len(q) - 1 /\ DOMAIN Tail(q) = 1..Len(q)-1
             /\ \A k \in 1..Len(q)-1 : Tail(q)[k] = q[k+1] /\ k + 1 \in DOMAIN q
  <2> DEFINE tail == Tail(q)
  <2>1. Len(q) \in Nat /\ Len(q) > 0 /\ DOMAIN q = 1..Len(q) /\ Head(q) = q[1] /\ Head(q) \in S
    BY <1>1
  <2>2. tail \in Seq(S) /\ Len(tail) = Len(q) - 1
    BY <1>1
  <2>3. \A k \in 1..Len(q)-1 : tail[k] = q[k+1]
    BY <1>1
  <2> HIDE DEF tail
  <2>4. DOMAIN tail = 1..Len(q)-1
    BY <2>2
  <2> QED
    BY <2>1, <2>2, <2>3, <2>4 DEF tail
<1> DEFINE S == ToSet(q)
           tail == Tail(q)
<1>2. q \in Seq(S)
  OBVIOUS
<1> HIDE DEF S, tail
<1>3. tail \in Seq(S)
  BY <1>1, <1>2 DEF tail
<1>4. tail \in Seq(ToSet(tail)) /\ ToSet(tail) \subseteq S
  <2>1. tail \in Seq(ToSet(tail))
    BY <1>3, OwnElements
  <2>2. \A k \in DOMAIN tail : tail[k] \in S
    BY <1>3
  <2> QED
    BY <2>1, <2>2 DEF ToSet
<1>5. /\ Len(q) \in Nat /\ Len(q) > 0 /\ DOMAIN q = 1..Len(q)
      /\ Head(q) = q[1] /\ Head(q) \in S
      /\ Len(Tail(q)) = Len(q) - 1 /\ DOMAIN Tail(q) = 1..Len(q)-1
      /\ \A k \in 1..Len(q)-1 : Tail(q)[k] = q[k+1] /\ k + 1 \in DOMAIN q
  BY <1>1, <1>2
<1> QED
  BY <1>4, <1>5 DEF S, tail

LEMMA HeadIsToVisit ==
    ASSUME NEW line, LineIsLeft(line), line # << >>
    PROVE  IsToVisit(Head(line))
<1>1. line \in Seq(ToSet(line)) /\ \A k \in DOMAIN line : IsToVisit(line[k])
  BY DEF LineIsLeft
<1>2. Head(line) = line[1] /\ 1 \in DOMAIN line
  <2>1. Head(line) = line[1] /\ Len(line) \in Nat /\ Len(line) > 0 /\ DOMAIN line = 1..Len(line)
    BY <1>1, HeadAndTail
  <2> QED
    BY <2>1
<1> QED
  BY <1>1, <1>2

LEMMA TailIsLeft ==
    ASSUME NEW line, LineIsLeft(line), line # << >>
    PROVE  LineIsLeft(Tail(line))
<1>1. line \in Seq(ToSet(line)) /\ \A k \in DOMAIN line : IsToVisit(line[k])
  BY DEF LineIsLeft
<1>2. /\ Tail(line) \in Seq(ToSet(Tail(line))) /\ DOMAIN Tail(line) = 1..Len(line)-1
      /\ \A k \in 1..Len(line)-1 : Tail(line)[k] = line[k+1] /\ k + 1 \in DOMAIN line
  BY <1>1, HeadAndTail
<1>3. \A k \in DOMAIN Tail(line) : IsToVisit(Tail(line)[k])
  BY <1>1, <1>2
<1> QED
  BY <1>2, <1>3 DEF LineIsLeft

LEMMA NothingIsLeft == LineIsLeft(<< >>)
BY DEF LineIsLeft, ToSet

LEMMA ReadIsLeft ==
    ASSUME NEW read \in Range(Parsed), read.at # 0
    PROVE  LineIsLeft(read.tree)
<1>1. read.tree \in Seq(ToSet(read.tree)) /\ \A s \in ToSet(read.tree) : s \in Statements
  BY LinesAssumption DEF Statements
<1>2. \A k \in DOMAIN read.tree : read.tree[k] \in ToSet(read.tree)
  BY DEF ToSet
<1> QED
  BY <1>1, <1>2 DEF LineIsLeft, IsToVisit

(* An index to make or to drop is of a column that its table has.          *)
LEMMA IndexIsOfColumn ==
    ASSUME NEW s, IsToVisit(s), s.kind \in {"add index", "drop index"}
    PROVE  /\ IsStatement(s)
           /\ s.columns \in Seq(ToSet(s.columns)) /\ s.columns # << >>
           /\ s.table \in Tables =>
                 /\ IsColumn(<<s.table, Head(s.columns)>>)
                 /\ GetType(s.table, Head(s.columns)) \in NumericTypes
<1>1. IsStatement(s)
  BY StatementsAre DEF IsToVisit
<1> DEFINE q == s.columns
<1>2. /\ q \in Seq(ToSet(q)) /\ q # << >>
      /\ \A c \in ToSet(q) :
            IsName(s.table, c) /\ (s.table \in Tables => GetType(s.table, c) \in NumericTypes)
  BY <1>1 DEF IsStatement
<1> HIDE DEF q
<1>3. Head(q) \in ToSet(q)
  BY <1>2, HeadAndTail
<1>4. s.table \in Tables => IsColumn(<<s.table, Head(q)>>) /\ GetType(s.table, Head(q)) \in NumericTypes
  BY <1>2, <1>3, PositionIs DEF IsColumn
<1> QED
  BY <1>1, <1>2, <1>4 DEF q

LEMMA OneColumnLess ==
    ASSUME NEW s, IsToVisit(s), s.kind \in {"add index", "drop index"}, Len(s.columns) > 1,
           NEW r, r = [s EXCEPT !.columns = Tail(@)]
    PROVE  IsToVisit(r)
<1> DEFINE q == s.columns
           p == Tail(q)
<1>1. /\ s = [kind |-> s.kind, table |-> s.table, columns |-> q]
      /\ q \in Seq(ToSet(q))
      /\ \A c \in ToSet(q) :
            IsName(s.table, c) /\ (s.table \in Tables => GetType(s.table, c) \in NumericTypes)
  BY IndexIsOfColumn DEF IsStatement
<1>2. ASSUME NEW k, NEW t, NEW c, s = [kind |-> k, table |-> t, columns |-> c]
      PROVE  /\ r = [kind |-> k, table |-> t, columns |-> Tail(c)]
             /\ s.kind = k /\ s.table = t /\ s.columns = c
  BY <1>2
<1> HIDE DEF q
<1>3. /\ r = [kind |-> s.kind, table |-> s.table, columns |-> p]
      /\ r.kind = s.kind /\ r.table = s.table /\ r.columns = p
  BY <1>1, <1>2
<1>4. p \in Seq(ToSet(p)) /\ ToSet(p) \subseteq ToSet(q) /\ p # << >>
  <2>1. Len(q) > 1
    BY DEF q
  <2>2. q # << >> /\ p # << >>
    BY <1>1, <2>1, LongerIsNotEmpty
  <2>3. p \in Seq(ToSet(p)) /\ ToSet(p) \subseteq ToSet(q)
    BY <1>1, <2>2, HeadAndTail
  <2> QED
    BY <2>2, <2>3
<1> HIDE DEF p
<1>5. r.kind = s.kind /\ r.table = s.table /\ r.columns = p
  BY <1>3
<1>6. IsStatement(r)
  <2>1. r = [kind |-> r.kind, table |-> r.table, columns |-> r.columns]
    BY <1>3, <1>5
  <2>2. /\ r.columns \in Seq(ToSet(r.columns)) /\ r.columns # << >>
        /\ \A c \in ToSet(r.columns) :
              IsName(r.table, c) /\ (r.table \in Tables => GetType(r.table, c) \in NumericTypes)
    BY <1>1, <1>4, <1>5
  <2>3. r.kind \in {"add index", "drop index"}
    BY <1>5
  <2> QED
    BY <2>1, <2>2, <2>3 DEF IsStatement
<1> QED
  BY <1>5, <1>6 DEF IsToVisit

LEMMA NextColumnIsLeft ==
    ASSUME LineIsLeft(pending), pending # << >>, Head(pending).kind \in {"add index", "drop index"}
    PROVE  LineIsLeft(NextColumn)
<1> DEFINE s == Head(pending)
           r == [s EXCEPT !.columns = Tail(@)]
           q == [pending EXCEPT ![1].columns = Tail(@)]
<1>1. CASE ~alive'
  BY <1>1, NothingIsLeft DEF NextColumn
<1>2. CASE alive' /\ ~(Len(s.columns) > 1)
  <2>1. NextColumn = Tail(pending)
    BY <1>2 DEF NextColumn
  <2> QED
    BY <2>1, TailIsLeft
<1>3. CASE alive' /\ Len(s.columns) > 1
  <2>1. NextColumn = q
    BY <1>3 DEF NextColumn
  <2>2. /\ pending \in Seq(ToSet(pending)) /\ Len(pending) \in Nat /\ Len(pending) > 0
        /\ DOMAIN pending = 1..Len(pending) /\ s = pending[1]
    <3>1. pending \in Seq(ToSet(pending))
      BY DEF LineIsLeft
    <3> QED
      BY <3>1, HeadAndTail
  <2>3. IsToVisit(r)
    <3>1. IsToVisit(s)
      BY HeadIsToVisit
    <3> HIDE DEF s
    <3> QED
      BY <1>3, <3>1, OneColumnLess DEF s
  <2>4. /\ DOMAIN q = 1..Len(pending)
        /\ \A k \in 1..Len(pending) : q[k] = IF k = 1 THEN r ELSE pending[k]
    BY <2>2
  <2>5. \A k \in DOMAIN q : IsToVisit(q[k])
    BY <2>2, <2>3, <2>4 DEF LineIsLeft
  <2>6. q \in Seq(ToSet(pending) \union {r})
    <3>1. q = [k \in 1..Len(pending) |-> q[k]]
      BY <2>2
    <3>2. \A k \in 1..Len(pending) : q[k] \in ToSet(pending) \union {r}
      BY <2>2, <2>4 DEF ToSet
    <3> DEFINE T == ToSet(pending) \union {r}
    <3> HIDE DEF q, T
    <3>3. q \in [1..Len(pending) -> T]
      BY <3>1, <3>2 DEF T
    <3>4. q \in Seq(T)
      <4>1. Len(pending) \in Nat
        BY <2>2
      <4> QED
        BY <3>3, <4>1, FunctionIsSeq
    <3> QED
      BY <3>4 DEF T
  <2> HIDE DEF q
  <2>7. q \in Seq(ToSet(q))
    BY <2>6, OwnElements
  <2> QED
    BY <2>1, <2>5, <2>7 DEF LineIsLeft
<1> QED
  BY <1>1, <1>2, <1>3

-----------------------------------------------------------------------------
(* The statements that change rows *)

(* The rows and entries that a loop leaves. *)
Leaves(db) == rows' = db.rows /\ entries' = db.entries

LEMMA StillTables ==
    ASSUME TablesInv, NEW db, IsDB(db), EntriesFit(db.entries), DOMAIN db.entries = DOMAIN entries,
           NoneLeft(rows, entries, db.rows, db.entries),
           \A l \in Slots : db.rows[l] = NoRow \/ IsRow(db.rows[l], l[1]), Leaves(db)
    PROVE  TablesInv'
<1>1. RowsAreStored(db.rows)
  BY DEF IsDB, RowsAreStored
<1>2. IndexesAreTyped(db.entries)
  BY DEF IsDB, TablesInv, IndexesAreTyped, AllColumns
<1>3. NoneStale(db.rows, db.entries)
  BY DEF TablesInv, NoneStale, NoneLeft
<1> QED
  BY <1>1, <1>2, <1>3 DEF TablesInv, Leaves

LEMMA SameTables == ASSUME TablesInv, rows' = rows, entries' = entries PROVE TablesInv'
BY DEF TablesInv

(* What a statement searches its table for. *)
SearchedBy(s, found) ==
    /\ s.table \in Tables /\ ~WhereThrows(s.where)
    /\ ~SearchAssertFails(s.table, ConditionsOn(s.table, s.where))
    /\ found \in Searches(s.table, NoTxn, ConditionsOn(s.table, s.where))

LEMMA WhereFinds ==
    ASSUME TablesInv, NEW s, IsWhere(s.where), NEW found, SearchedBy(s, found)
    PROVE  IsFound(found, s.table)
<1> DEFINE cond == ConditionsOn(s.table, s.where)
           Q == ByIndex(s.table, s.where)
<1>1. CASE Q = {}
  BY <1>1, ScanFinds DEF SearchedBy
<1>2. CASE Q # {}
  BY <1>2, IndexFinds DEF SearchedBy
<1> QED
  BY <1>1, <1>2

LEMMA StatementAtHead ==
    ASSUME LinesInv, pending # << >>, NEW s, s = Head(pending), s.kind \in {"select", "delete", "update"}
    PROVE  s \in Statements /\ IsWhere(s.where)
<1>1. IsToVisit(s)
  BY HeadIsToVisit DEF LinesInv
<1>2. s \in Statements
  BY <1>1 DEF IsToVisit
<1> QED
  BY <1>2, StatementsAre

LEMMA ThrowsOrDies ==
    ASSUME NEW call, Throws(call) \/ Dies(call)
    PROVE  rows' = rows /\ entries' = entries /\ reply'.end # "ok"
<1>1. rows' = rows /\ entries' = entries /\ reply' \in {Outcome(call, "exception"), Outcome(call, "dead")}
  BY DEF Throws, Dies, tables
<1> QED
  BY <1>1 DEF Outcome

LEMMA DeleteStatementIs ==
    ASSUME LinesInv, DeleteStatement, NEW s, s = Head(pending)
    PROVE  /\ s \in Statements /\ IsWhere(s.where) /\ s.kind = "delete" /\ pending # << >>
           /\ pending' \in {<< >>, Tail(pending)}
           /\ \/ rows' = rows /\ entries' = entries /\ reply'.end # "ok"
              \/ /\ reply'.end = "ok"
                 /\ \E found : \E db :
                       /\ SearchedBy(s, found) /\ Leaves(db)
                       /\ IsFound(found, s.table) /\ DeletedSoFar(db, found, Len(found))
<1> DEFINE t == s.table
           cond == ConditionsOn(t, s.where)
           NoChange == rows' = rows /\ entries' = entries /\ reply'.end # "ok"
<1>1. s.kind = "delete" /\ pending # << >>
  BY DEF DeleteStatement, Statement
<1>2. s \in Statements /\ IsWhere(s.where)
  BY <1>1, StatementAtHead
<1>3. \/ Aborts("Delete") \/ Crashes("Delete")
      \/ ~WhereThrows(s.where) /\ Delete(t, cond) /\ pending' = Rest
  BY DEF DeleteStatement
<1>4. pending' \in {<< >>, Tail(pending)}
  BY <1>3 DEF Aborts, Crashes, Rest
<1>5. CASE Aborts("Delete") \/ Crashes("Delete")
  BY <1>1, <1>2, <1>4, <1>5, ThrowsOrDies DEF Aborts, Crashes
<1>6. CASE ~WhereThrows(s.where) /\ Delete(t, cond)
  <2>1. \/ Throws("Delete") \/ Dies("Delete")
        \/ /\ t \in Tables /\ ~SearchAssertFails(t, cond)
           /\ \E found \in Searches(t, NoTxn, cond) : Changed("Delete", t, cond, found, AllDeleted(found))
    BY <1>6 DEF Delete
  <2>2. CASE Throws("Delete") \/ Dies("Delete")
    BY <1>1, <1>2, <1>4, <2>2, ThrowsOrDies
  <2>3. ASSUME t \in Tables, ~SearchAssertFails(t, cond),
               NEW found \in Searches(t, NoTxn, cond), Changed("Delete", t, cond, found, AllDeleted(found))
        PROVE  /\ reply'.end = "ok"
               /\ \E db : /\ SearchedBy(s, found) /\ Leaves(db)
                          /\ IsFound(found, t) /\ DeletedSoFar(db, found, Len(found))
    <3> DEFINE db == AllDeleted(found)
    <3>1. SearchedBy(s, found)
      BY <1>6, <2>3 DEF SearchedBy
    <3>2. IsFound(found, t)
      BY <1>2, <3>1, WhereFinds DEF LinesInv
    <3>3. DeletedSoFar(db, found, Len(found))
      <4>1. Len(found) \in Nat /\ DOMAIN found = 1..Len(found) /\ \A j \in DOMAIN found : found[j] \in Slots
        BY <3>2 DEF IsFound, LocationsOf
      <4>2. IsDB(Now)
        BY TablesAreDB DEF LinesInv
      <4> QED
        BY <4>1, <4>2, DeletionLeaves
    <3>4. rows' = db.rows /\ entries' = db.entries
          /\ reply'.end = IF db.thrown THEN "exception" ELSE "ok"
      BY <2>3 DEF Changed, Becomes
    <3> HIDE DEF db
    <3>5. ~db.thrown
      BY <3>2, <3>3 DEF IsFound, DeletedSoFar
    <3> QED
      BY <3>1, <3>2, <3>3, <3>4, <3>5 DEF Leaves
  <2> QED
    BY <1>1, <1>2, <1>4, <2>1, <2>2, <2>3
<1> QED
  BY <1>3, <1>5, <1>6

LEMMA UpdateStatementIs ==
    ASSUME LinesInv, UpdateStatement, NEW s, s = Head(pending), NEW trans, trans = TransformsOf(s)
    PROVE  /\ s \in Statements /\ IsWhere(s.where) /\ s.kind = "update" /\ pending # << >>
           /\ pending' \in {<< >>, Tail(pending)}
           /\ \/ rows' = rows /\ entries' = entries /\ reply'.end # "ok"
              \/ \E found : \E db :
                    /\ SearchedBy(s, found) /\ Leaves(db)
                    /\ reply'.end = IF db.thrown THEN "exception" ELSE "ok"
                    /\ IsFound(found, s.table) /\ UpdatedExactly(db, found, Len(found), trans)
<1> DEFINE t == s.table
           cond == ConditionsOn(t, s.where)
<1>1. s.kind = "update" /\ pending # << >>
  BY DEF UpdateStatement, Statement
<1>2. s \in Statements /\ IsWhere(s.where)
  BY <1>1, StatementAtHead
<1>3. \/ Aborts("Update") \/ Crashes("Update")
      \/ ~WhereThrows(s.where) /\ Update(t, cond, trans) /\ pending' = Rest
  BY DEF UpdateStatement
<1>4. pending' \in {<< >>, Tail(pending)}
  BY <1>3 DEF Aborts, Crashes, Rest
<1>5. CASE Aborts("Update") \/ Crashes("Update")
  BY <1>1, <1>2, <1>4, <1>5, ThrowsOrDies DEF Aborts, Crashes
<1>6. CASE ~WhereThrows(s.where) /\ Update(t, cond, trans)
  <2>1. \/ Throws("Update") \/ Dies("Update")
        \/ /\ t \in Tables /\ ~SearchAssertFails(t, cond)
           /\ \E found \in Searches(t, NoTxn, cond) : Changed("Update", t, cond, found, AllUpdated(found, trans))
    BY <1>6 DEF Update
  <2>2. CASE Throws("Update") \/ Dies("Update")
    BY <1>1, <1>2, <1>4, <2>2, ThrowsOrDies
  <2>3. ASSUME t \in Tables, ~SearchAssertFails(t, cond),
               NEW found \in Searches(t, NoTxn, cond), Changed("Update", t, cond, found, AllUpdated(found, trans))
        PROVE  \E db : /\ SearchedBy(s, found) /\ Leaves(db)
                       /\ reply'.end = IF db.thrown THEN "exception" ELSE "ok"
                       /\ IsFound(found, t) /\ UpdatedExactly(db, found, Len(found), trans)
    <3> DEFINE db == AllUpdated(found, trans)
    <3>1. SearchedBy(s, found)
      BY <1>6, <2>3 DEF SearchedBy
    <3>2. IsFound(found, t)
      BY <1>2, <3>1, WhereFinds DEF LinesInv
    <3>3. UpdatedExactly(db, found, Len(found), trans)
      <4>1. TransformsFit(trans, t)
        <5>1. AreSets(trans, s, t)
          BY <1>1, <1>2, <2>3, TransformsAre
        <5> QED
          BY <5>1 DEF AreSets
      <4> QED
        BY <2>3, <3>2, <4>1, UpdateIsExact DEF LinesInv
    <3>4. rows' = db.rows /\ entries' = db.entries
          /\ reply'.end = IF db.thrown THEN "exception" ELSE "ok"
      BY <2>3 DEF Changed, Becomes
    <3> HIDE DEF db
    <3> QED
      BY <3>1, <3>2, <3>3, <3>4 DEF Leaves
  <2> QED
    BY <1>1, <1>2, <1>4, <2>1, <2>2, <2>3
<1> QED
  BY <1>3, <1>5, <1>6

LEMMA DeletedTables ==
    ASSUME TablesInv, NEW q, NEW db, DeletedSoFar(db, q, Len(q)), Leaves(db)
    PROVE  TablesInv'
<1>1. \A l \in Slots : db.rows[l] = NoRow \/ IsRow(db.rows[l], l[1])
  BY DEF DeletedSoFar, TablesInv, RowsAreStored
<1>2. IsDB(db) /\ EntriesFit(db.entries)
  <2>1. IsDB(db) /\ EntriesFit(entries) /\ BagsIn(db.entries)
    BY DEF DeletedSoFar, TablesInv, IndexesAreTyped, IsDB
  <2> QED
    BY <2>1, FewerStillFit DEF DeletedSoFar
<1> QED
  BY <1>1, <1>2, StillTables DEF DeletedSoFar

(* The rows that an UPDATE of a line leaves. *)
LEMMA UpdatedRowsAre ==
    ASSUME TablesInv, NEW s \in Statements, s.kind = "update", NEW trans, trans = TransformsOf(s),
           NEW q, IsFound(q, s.table), s.table \in Tables, ~TransformsThrow(trans),
           NEW l \in Slots, NEW j \in DOMAIN q, q[j] = l, NEW row, row = UpdatedRow(l, trans)
    PROVE  /\ l[1] = s.table /\ IsRow(row, s.table)
           /\ HasSets(row, rows[l], s, s.table)
<1> DEFINE t == s.table
<1>1. t \in Tables /\ t = s.table
  OBVIOUS
<1>2. l \in LocationsOf(t) /\ rows[l] # NoRow
  BY DEF IsFound, AllThere
<1> HIDE DEF t
<1>3. l[1] = t /\ IsRow(rows[l], t)
  BY <1>1, <1>2, RowsAre
<1>4. IsRow(row, t) /\ HasSets(row, rows[l], s, t)
  BY <1>1, <1>3, UpdatedRowIs
<1> QED
  BY <1>3, <1>4 DEF t

LEMMA UpdatedTables ==
    ASSUME TablesInv, NEW s \in Statements, s.kind = "update", NEW trans, trans = TransformsOf(s),
           NEW q, IsFound(q, s.table), s.table \in Tables,
           NEW db, UpdatedExactly(db, q, Len(q), trans), Leaves(db)
    PROVE  TablesInv'
<1>0. \A l \in Slots : rows[l] = NoRow \/ IsRow(rows[l], l[1])
  BY DEF TablesInv, RowsAreStored
<1>1. ASSUME NEW l \in Slots PROVE db.rows[l] = NoRow \/ IsRow(db.rows[l], l[1])
  <2>1. CASE TransformsThrow(trans)
    BY <1>0, <2>1 DEF UpdatedExactly
  <2>2. CASE ~TransformsThrow(trans) /\ ~\E j \in 1..Len(q) : q[j] = l
    BY <1>0, <2>2 DEF UpdatedExactly
  <2>3. CASE ~TransformsThrow(trans) /\ \E j \in 1..Len(q) : q[j] = l
    <3>1. PICK j \in DOMAIN q : q[j] = l
      BY <2>3 DEF IsFound
    <3>2. db.rows[l] = UpdatedRow(l, trans)
      BY <2>3 DEF UpdatedExactly
    <3>3. l[1] = s.table /\ IsRow(UpdatedRow(l, trans), s.table)
      BY <2>3, <3>1, UpdatedRowsAre
    <3> QED
      BY <3>2, <3>3
  <2> QED
    BY <2>1, <2>2, <2>3
<1> QED
  BY <1>1, StillTables DEF UpdatedExactly

LEMMA AddedIndex ==
    ASSUME LinesInv, AddIndex PROVE TablesInv'
<1> DEFINE s == Head(pending)
           t == s.table
           c == Head(s.columns)
           index == <<t, c>>
<1>1. CreateIndex(t, c) /\ s.kind = "add index" /\ pending # << >>
  BY DEF AddIndex, Statement
<1>2. TablesInv /\ IsToVisit(s)
  BY <1>1, HeadIsToVisit DEF LinesInv
<1> HIDE DEF s
<1>3. t \in Tables => IsColumn(index) /\ GetType(t, c) \in NumericTypes
  BY <1>1, <1>2, IndexIsOfColumn
<1> HIDE DEF t, c
<1>4. CASE Throws("CreateIndex")
  BY <1>2, <1>4, ThrowsOrDies, SameTables
<1>5. CASE t \in Tables /\ ~Throws("CreateIndex")
  <2>1. /\ rows' = rows
        /\ index \notin DOMAIN entries
        /\ DOMAIN entries' = DOMAIN entries \union {index}
        /\ entries' = [i \in DOMAIN entries' |-> entries'[i]]
        /\ \A i \in DOMAIN entries : entries'[i] = entries[i]
        /\ entries'[index] = [f \in DueSet(rows, index) |-> 1]
    BY <1>1, <1>5, CreateIndexIs
  <2>2. index = <<index[1], index[2]>> /\ index[1] = t /\ index[2] = c
    OBVIOUS
  <2> HIDE DEF index
  <2>3. DOMAIN entries'[index] = DueSet(rows, index) /\ \A f \in DueSet(rows, index) : entries'[index][f] = 1
    BY <2>1
  <2>4. /\ IsABag(entries'[index]) /\ IsFiniteSet(DOMAIN entries'[index])
        /\ DOMAIN entries'[index] \subseteq Fields \X LocationsOf(t)
    <3>1. IsABag(entries'[index])
      BY <2>1 DEF IsABag
    <3>2. ASSUME NEW f \in DueSet(rows, index) PROVE f \in Fields \X LocationsOf(t)
      <4>1. PICK l \in Slots : l[1] = t /\ rows[l] # NoRow /\ f = Entry(index, rows[l], l)
        BY <2>2, <3>2, IsDue
      <4>2. Fits(rows[l], t)
        BY <1>2, <4>1 DEF TablesInv, RowsAreStored, IsRow
      <4> QED
        BY <1>3, <1>5, <2>2, <4>1, <4>2, EntryFits
    <3> QED
      BY <2>3, <3>1, <3>2, DueIsFinite
  <2>5. EntriesFit(entries')
    BY <1>2, <2>1, <2>2, <2>4 DEF TablesInv, IndexesAreTyped, EntriesFit
  <2>6. IndexesAreTyped(entries')
    BY <1>2, <1>3, <1>5, <2>1, <2>2, <2>5 DEF TablesInv, IndexesAreTyped, AllColumns
  <2>7. NoneStale(rows, entries')
    BY <1>2, <2>1, <2>3 DEF TablesInv, NoneStale, Exceeds
  <2> QED
    BY <1>2, <2>1, <2>6, <2>7 DEF TablesInv
<1>6. t \in Tables \/ Throws("CreateIndex")
  BY <1>1 DEF CreateIndex
<1> QED
  BY <1>4, <1>5, <1>6

LEMMA DroppedIndex ==
    ASSUME LinesInv, DropIndexStatement PROVE TablesInv'
<1> DEFINE t == Head(pending).table
           c == Head(Head(pending).columns)
<1>1. DropIndex(t, c) /\ TablesInv
  BY DEF DropIndexStatement, LinesInv
<1> HIDE DEF t, c
<1>2. CASE Throws("DropIndex") \/ Dies("DropIndex")
  BY <1>1, <1>2, ThrowsOrDies, SameTables
<1>3. CASE t \in Tables /\ rows' = rows /\ entries' = [i \in DOMAIN entries \ {<<t, c>>} |-> entries[i]]
  <2>1. IndexesAreTyped(entries')
    BY <1>1, <1>3 DEF TablesInv, IndexesAreTyped, EntriesFit, AllColumns
  <2>2. NoneStale(rows, entries')
    BY <1>1, <1>3 DEF TablesInv, NoneStale, Exceeds
  <2> QED
    BY <1>1, <1>3, <2>1, <2>2 DEF TablesInv
<1>4. t \in Tables \/ Throws("DropIndex")
  BY <1>1 DEF DropIndex
<1> QED
  BY <1>1, <1>2, <1>3, <1>4, DropIndexIs

(* Without a transaction nothing is inserted. *)
LEMMA InsertStatementIs ==
    ASSUME InsertStatement PROVE rows' = rows /\ entries' = entries /\ reply'.end # "ok"
<1>1. Throws("Insert") \/ Dies("Insert")
  BY DEF InsertStatement, Insert
<1> QED
  BY <1>1, ThrowsOrDies

LEMMA LinesAtFirst == ASSUME InitQuery PROVE LinesInv
<1>1. rows \in RowsOf /\ entries = << >> /\ pending = << >>
  BY DEF InitQuery
<1>2. RowsAreStored(rows)
  <2>1. /\ rows \in [Slots -> Seq(Fields) \union {NoRow}]
        /\ \A loc \in Slots : rows[loc] # NoRow =>
              Fits(rows[loc], TableOf(loc)) /\ Stored(rows[loc], Columns[TableOf(loc)]) = rows[loc]
    BY <1>1, RowsAssumption
  <2>2. PlainLines => \A loc \in Slots : rows[loc] # NoRow => IsPlainRow(rows[loc], TableOf(loc))
    BY <1>1 DEF PlainLines
  <2>3. rows = [loc \in Slots |-> rows[loc]]
    BY <2>1
  <2> QED
    BY <2>1, <2>2, <2>3 DEF RowsAreStored, IsRow, TableOf
<1>3. DOMAIN entries = {} /\ entries = [i \in DOMAIN entries |-> entries[i]]
  BY <1>1
<1>4. IndexesAreTyped(entries) /\ NoneStale(rows, entries)
  BY <1>3 DEF IndexesAreTyped, EntriesFit, AllColumns, NoneStale
<1>5. LineIsLeft(pending)
  BY <1>1, NothingIsLeft
<1> QED
  BY <1>2, <1>4, <1>5 DEF LinesInv, TablesInv

LEMMA LinesStep == ASSUME LinesInv, [NextQuery]_allVars PROVE LinesInv'
<1>0. TablesInv /\ LineIsLeft(pending)
  BY DEF LinesInv
<1>1. CASE UNCHANGED allVars
  <2>1. rows' = rows /\ entries' = entries /\ pending' = pending
    BY <1>1 DEF allVars, vars, tables
  <2> QED
    BY <1>0, <2>1, SameTables DEF LinesInv
<1>2. CASE ReadLine
  <2>1. rows' = rows /\ entries' = entries
    BY <1>2 DEF ReadLine, tables
  <2>2. PICK read \in Range(Parsed) : pending' = IF read.at = 0 THEN << >> ELSE read.tree
    BY <1>2 DEF ReadLine
  <2>3. LineIsLeft(pending')
    BY <2>2, ReadIsLeft, NothingIsLeft
  <2> QED
    BY <1>0, <2>1, <2>3, SameTables DEF LinesInv
<1>3. CASE Skip
  <2>1. rows' = rows /\ entries' = entries /\ pending' = Tail(pending) /\ pending # << >>
    BY <1>3 DEF Skip, Statement, vars, tables
  <2>2. LineIsLeft(pending')
    BY <1>0, <2>1, TailIsLeft
  <2> QED
    BY <1>0, <2>1, <2>2, SameTables DEF LinesInv
<1>4. CASE Select
  <2>1. pending # << >>
    BY <1>4 DEF Select, Statement
  <2>2. rows' = rows /\ entries' = entries /\ pending' \in {<< >>, Tail(pending)}
    BY <1>4 DEF Select, SelectFrom, Aborts, Crashes, Answers, Throws, Dies, tables
  <2>3. LineIsLeft(pending')
    BY <1>0, <2>1, <2>2, TailIsLeft, NothingIsLeft
  <2> QED
    BY <1>0, <2>2, <2>3, SameTables DEF LinesInv
<1>5. CASE DeleteStatement
  <2> DEFINE s == Head(pending)
  <2>1. /\ pending # << >> /\ pending' \in {<< >>, Tail(pending)}
        /\ \/ rows' = rows /\ entries' = entries
           \/ \E found : \E db : Leaves(db) /\ DeletedSoFar(db, found, Len(found))
    BY <1>5, DeleteStatementIs
  <2>2. LineIsLeft(pending')
    BY <1>0, <2>1, TailIsLeft, NothingIsLeft
  <2>3. TablesInv'
    BY <1>0, <2>1, SameTables, DeletedTables
  <2> QED
    BY <2>2, <2>3 DEF LinesInv
<1>6. CASE UpdateStatement
  <2> DEFINE s == Head(pending)
             trans == TransformsOf(s)
  <2>1. /\ s \in Statements /\ s.kind = "update"
        /\ pending # << >> /\ pending' \in {<< >>, Tail(pending)}
        /\ \/ rows' = rows /\ entries' = entries
           \/ \E found : \E db :
                 /\ SearchedBy(s, found) /\ Leaves(db) /\ IsFound(found, s.table)
                 /\ UpdatedExactly(db, found, Len(found), trans)
    BY <1>6, UpdateStatementIs
  <2>2. LineIsLeft(pending')
    BY <1>0, <2>1, TailIsLeft, NothingIsLeft
  <2>3. TablesInv'
    <3>1. CASE rows' = rows /\ entries' = entries
      BY <1>0, <3>1, SameTables
    <3>2. ASSUME NEW found, NEW db, SearchedBy(s, found), Leaves(db), IsFound(found, s.table),
                 UpdatedExactly(db, found, Len(found), trans)
          PROVE  TablesInv'
      <4>1. s.table \in Tables
        BY <3>2 DEF SearchedBy
      <4> HIDE DEF s
      <4> QED
        BY <1>0, <2>1, <3>2, <4>1, UpdatedTables
    <3> QED
      BY <2>1, <3>1, <3>2
  <2> QED
    BY <2>2, <2>3 DEF LinesInv
<1>7. CASE InsertStatement
  <2>1. rows' = rows /\ entries' = entries /\ pending # << >> /\ pending' \in {<< >>, Tail(pending)}
    BY <1>7, InsertStatementIs DEF InsertStatement, Statement, Rest
  <2>2. LineIsLeft(pending')
    BY <1>0, <2>1, TailIsLeft, NothingIsLeft
  <2> QED
    BY <1>0, <2>1, <2>2, SameTables DEF LinesInv
<1>8. CASE AddIndex \/ DropIndexStatement
  <2>1. /\ pending # << >> /\ Head(pending).kind \in {"add index", "drop index"}
        /\ pending' = NextColumn
    BY <1>8 DEF AddIndex, DropIndexStatement, Statement
  <2>2. LineIsLeft(pending')
    BY <1>0, <2>1, NextColumnIsLeft
  <2>3. TablesInv'
    BY <1>8, AddedIndex, DroppedIndex
  <2> QED
    BY <2>2, <2>3 DEF LinesInv
<1> QED
  BY <1>1, <1>2, <1>3, <1>4, <1>5, <1>6, <1>7, <1>8 DEF NextQuery, Visit

LEMMA LinesHold == SpecQuery => []LinesInv
<1>1. InitQuery => LinesInv
  BY LinesAtFirst
<1>2. LinesInv /\ [NextQuery]_allVars => LinesInv'
  BY LinesStep
<1> QED
  BY <1>1, <1>2, PTL DEF SpecQuery

-----------------------------------------------------------------------------
(* DELETE and UPDATE of a line *)

(* The statements whose WHERE is answered by a scan of their own table.    *)
IsScanned(s) == On(s.table, s.where) = DOMAIN s.where /\ ByIndex(s.table, s.where) = {}

SelectedBy(s) == Selected(s.table, s.where, DOMAIN s.where)

LEMMA ScanSelects ==
    ASSUME TablesInv, PlainLines, NEW s, IsWhere(s.where), IsScanned(s), NEW found, SearchedBy(s, found)
    PROVE  ToSet(found) = SelectedBy(s)
<1> DEFINE cond == ConditionsOn(s.table, s.where)
<1>1. /\ s.table \in Tables /\ ~WhereThrows(s.where) /\ ~SearchAssertFails(s.table, cond)
      /\ found \in Searches(s.table, NoTxn, cond)
  BY DEF SearchedBy
<1>2. ByIndex(s.table, s.where) = {} /\ On(s.table, s.where) = DOMAIN s.where
  BY DEF IsScanned
<1>3. ToSet(found) = Selected(s.table, s.where, On(s.table, s.where))
  BY <1>1, <1>2, ScanFinds
<1> QED
  BY <1>2, <1>3 DEF SelectedBy

LEMMA DeleteStatementExact ==
    ASSUME LinesInv, PlainLines, DeleteStatement, NEW s, s = Head(pending), IsScanned(s),
           reply'.end = "ok", NEW l \in Slots
    PROVE  rows'[l] = IF l \in SelectedBy(s) THEN NoRow ELSE rows[l]
<1>1. IsWhere(s.where)
  BY DeleteStatementIs
<1>2. PICK found : \E db :
        /\ SearchedBy(s, found) /\ Leaves(db)
        /\ IsFound(found, s.table) /\ DeletedSoFar(db, found, Len(found))
  BY DeleteStatementIs
<1>3. PICK db : Leaves(db) /\ DeletedSoFar(db, found, Len(found))
  BY <1>2
<1>4. ToSet(found) = SelectedBy(s)
  BY <1>1, <1>2, ScanSelects DEF LinesInv
<1>5. l \in ToSet(found) <=> \E j \in 1..Len(found) : found[j] = l
  BY <1>2 DEF IsFound, ToSet
<1>6. \/ db.rows[l] = rows[l]
      \/ db.rows[l] = NoRow /\ \E j \in 1..Len(found) : found[j] = l
  BY <1>3 DEF DeletedSoFar
<1>7. \A j \in 1..Len(found) : db.rows[found[j]] = NoRow
  BY <1>2, <1>3 DEF IsFound, DeletedSoFar
<1> QED
  BY <1>3, <1>4, <1>5, <1>6, <1>7 DEF Leaves

LEMMA UpdateStatementExact ==
    ASSUME LinesInv, UpdateStatement, NEW s, s = Head(pending)
    PROVE  /\ reply'.end # "ok" => rows' = rows
           /\ PlainLines /\ IsScanned(s) /\ reply'.end = "ok" =>
                 \A l \in Slots : IF l \in SelectedBy(s) THEN HasSets(rows'[l], rows[l], s, s.table)
                                  ELSE rows'[l] = rows[l]
<1> DEFINE trans == TransformsOf(s)
<1>1. /\ s \in Statements /\ IsWhere(s.where) /\ s.kind = "update"
      /\ \/ rows' = rows /\ reply'.end # "ok"
         \/ \E found : \E db :
               /\ SearchedBy(s, found) /\ Leaves(db)
               /\ reply'.end = IF db.thrown THEN "exception" ELSE "ok"
               /\ IsFound(found, s.table) /\ UpdatedExactly(db, found, Len(found), trans)
  BY UpdateStatementIs
<1>2. ASSUME NEW found, NEW db, SearchedBy(s, found), Leaves(db),
             reply'.end = IF db.thrown THEN "exception" ELSE "ok",
             IsFound(found, s.table), UpdatedExactly(db, found, Len(found), trans)
      PROVE  /\ reply'.end # "ok" => rows' = rows
             /\ PlainLines /\ IsScanned(s) /\ reply'.end = "ok" =>
                   \A l \in Slots : IF l \in SelectedBy(s) THEN HasSets(rows'[l], rows[l], s, s.table)
                                    ELSE rows'[l] = rows[l]
  <2>1. /\ db.thrown => TransformsThrow(trans)
        /\ TransformsThrow(trans) => db.rows = rows /\ (Len(found) > 0 => db.thrown)
        /\ ~TransformsThrow(trans) =>
              \A l \in Slots :
                  db.rows[l] = IF \E j \in 1..Len(found) : found[j] = l THEN UpdatedRow(l, trans)
                               ELSE rows[l]
    BY <1>2 DEF UpdatedExactly
  <2>2. reply'.end # "ok" => db.thrown
    BY <1>2
  <2>3. rows' = db.rows
    BY <1>2 DEF Leaves
  <2> HIDE DEF trans
  <2>4. ASSUME PlainLines, IsScanned(s), reply'.end = "ok", NEW l \in Slots
        PROVE  IF l \in SelectedBy(s) THEN HasSets(rows'[l], rows[l], s, s.table)
               ELSE rows'[l] = rows[l]
    <3>1. ToSet(found) = SelectedBy(s)
      BY <1>1, <1>2, <2>4, ScanSelects DEF LinesInv
    <3>2. l \in ToSet(found) <=> \E j \in 1..Len(found) : found[j] = l
      BY <1>2 DEF IsFound, ToSet
    <3>3. CASE TransformsThrow(trans)
      <4>1. ~db.thrown
        BY <1>2, <2>4
      <4>2. ~\E j \in 1..Len(found) : found[j] = l
        BY <1>2, <2>1, <3>3, <4>1 DEF IsFound
      <4> QED
        BY <2>1, <2>3, <3>1, <3>2, <3>3, <4>2
    <3>4. CASE ~TransformsThrow(trans) /\ l \notin SelectedBy(s)
      BY <2>1, <2>3, <2>4, <3>1, <3>2, <3>4
    <3>5. CASE ~TransformsThrow(trans) /\ l \in SelectedBy(s)
      <4>1. PICK j \in DOMAIN found : found[j] = l
        BY <1>2, <3>1, <3>2, <3>5 DEF IsFound
      <4>2. rows'[l] = UpdatedRow(l, trans)
        BY <2>1, <2>3, <2>4, <3>1, <3>2, <3>5
      <4>3. s.table \in Tables /\ TablesInv
        BY <1>2 DEF SearchedBy, LinesInv
      <4>4. HasSets(UpdatedRow(l, trans), rows[l], s, s.table)
        BY <1>1, <1>2, <2>4, <3>5, <4>1, <4>3, UpdatedRowsAre DEF trans
      <4> QED
        BY <3>5, <4>2, <4>4
    <3> QED
      BY <3>3, <3>4, <3>5
  <2> QED
    BY <2>1, <2>2, <2>3, <2>4
<1> HIDE DEF trans
<1> QED
  BY <1>1, <1>2

(* The statement at the head of the line is the one that is visited.       *)
LEMMA VisitIsOfHead ==
    ASSUME NextQuery, pending # << >>
    PROVE  /\ Head(pending).kind = "delete" => DeleteStatement
           /\ Head(pending).kind = "update" => UpdateStatement
           /\ Head(pending).kind = "select" => Select
BY DEF NextQuery, Visit, ReadLine, Skip, Select, DeleteStatement, UpdateStatement, InsertStatement,
       AddIndex, DropIndexStatement, Statement

ChangeOfLine ==
    Statement("delete") \/ Statement("update") =>
        LET s == Head(pending)
        IN  /\ reply'.end # "ok" => rows' = rows
            /\ reply'.end = "ok" /\ On(s.table, s.where) = DOMAIN s.where /\ ByIndex(s.table, s.where) = {} =>
                    \A loc \in Slots :
                        IF loc \notin Selected(s.table, s.where, DOMAIN s.where)
                        THEN rows'[loc] = rows[loc]
                        ELSE IF s.kind = "delete" THEN rows'[loc] = NoRow
                        ELSE \A i \in DOMAIN Columns[s.table] :
                                LET sets == {k \in DOMAIN s.set : s.set[k].column = Columns[s.table][i].name}
                                IN  IF sets = {} THEN rows'[loc][i] = rows[loc][i]
                                    ELSE \E k \in sets :
                                            rows'[loc][i] = AsColumn(s.set[k].value, Columns[s.table][i])

LEMMA ChangeIsExact == ASSUME LinesInv, PlainLines, NextQuery PROVE ChangeOfLine
<1> DEFINE s == Head(pending)
<1>1. CASE Statement("delete")
  <2>1. DeleteStatement /\ s.kind = "delete"
    BY <1>1, VisitIsOfHead DEF Statement
  <2>2. reply'.end # "ok" => rows' = rows
    BY <2>1, DeleteStatementIs
  <2>3. ASSUME reply'.end = "ok", IsScanned(s), NEW l \in Slots
        PROVE  rows'[l] = IF l \in SelectedBy(s) THEN NoRow ELSE rows[l]
    BY <2>1, <2>3, DeleteStatementExact
  <2> QED
    BY <2>1, <2>2, <2>3 DEF ChangeOfLine, IsScanned, SelectedBy
<1>2. CASE Statement("update")
  <2>1. UpdateStatement /\ s.kind = "update"
    BY <1>2, VisitIsOfHead DEF Statement
  <2>2. /\ reply'.end # "ok" => rows' = rows
        /\ IsScanned(s) /\ reply'.end = "ok" =>
              \A l \in Slots : IF l \in SelectedBy(s) THEN HasSets(rows'[l], rows[l], s, s.table)
                               ELSE rows'[l] = rows[l]
    BY <2>1, UpdateStatementExact
  <2> QED
    BY <2>1, <2>2 DEF ChangeOfLine, IsScanned, SelectedBy, HasSets, SetsOf
<1>3. CASE ~Statement("delete") /\ ~Statement("update")
  BY <1>3 DEF ChangeOfLine
<1> QED
  BY <1>1, <1>2, <1>3

(* A DELETE or UPDATE of a client's line changes the rows that SQL selects *)
(* with its comparisons, as SET says, and no other; one that fails changes *)
(* none (SystemVisitor.cc, visitDelete_from_table, visitUpdate_table).     *)
THEOREM LinesChangeExactly == ASSUME PlainLines PROVE SpecQuery => ChangesAreExact
<1>1. LinesInv /\ [NextQuery]_allVars => [ChangeOfLine]_allVars
  BY ChangeIsExact
<1>2. [ChangeOfLine]_allVars <=>
        [Statement("delete") \/ Statement("update") =>
            LET s == Head(pending)
            IN  /\ reply'.end # "ok" => rows' = rows
                /\ reply'.end = "ok" /\ On(s.table, s.where) = DOMAIN s.where /\ ByIndex(s.table, s.where) = {} =>
                        \A loc \in Slots :
                            IF loc \notin Selected(s.table, s.where, DOMAIN s.where)
                            THEN rows'[loc] = rows[loc]
                            ELSE IF s.kind = "delete" THEN rows'[loc] = NoRow
                            ELSE \A i \in DOMAIN Columns[s.table] :
                                    LET sets == {k \in DOMAIN s.set : s.set[k].column = Columns[s.table][i].name}
                                    IN  IF sets = {} THEN rows'[loc][i] = rows[loc][i]
                                        ELSE \E k \in sets :
                                                rows'[loc][i] = AsColumn(s.set[k].value, Columns[s.table][i])
        ]_allVars
  BY DEF ChangeOfLine
<1> QED
  BY <1>1, <1>2, LinesHold, PTL DEF SpecQuery, ChangesAreExact

-----------------------------------------------------------------------------
(* SELECT of a line *)

LEMMA OneTable ==
    ASSUME NEW q \in Seq(Int), Len(q) = 1
    PROVE  /\ DOMAIN q = {1} /\ Head(q) = q[1]
           /\ (CHOOSE i \in DOMAIN q : \A k \in DOMAIN q : q[i] <= q[k]) = 1
           /\ (CHOOSE i \in DOMAIN q : \A k \in DOMAIN q : q[k] <= q[i]) = 1
<1>1. DOMAIN q = {1} /\ Head(q) = q[1] /\ q[1] \in Int
  OBVIOUS
<1>2. q[1] <= q[1]
  BY <1>1
<1>3. \E i \in DOMAIN q : \A k \in DOMAIN q : q[i] <= q[k]
  BY <1>1, <1>2
<1>4. \E i \in DOMAIN q : \A k \in DOMAIN q : q[k] <= q[i]
  BY <1>1, <1>2
<1>5. \A i \in DOMAIN q : i = 1
  BY <1>1
<1> QED
  BY <1>1, <1>3, <1>4, <1>5

(* The answer to a SELECT of one table are the rows of one search.         *)
Shows(t, where, q) ==
    /\ t \in Tables /\ ~WhereThrows(where)
    /\ ~SearchAssertFails(t, ConditionsOn(t, where))
    /\ q \in Searches(t, NoTxn, ConditionsOn(t, where))
    /\ reply'.answer = [i \in DOMAIN q |-> rows[q[i]]]

LEMMA SelectIs ==
    ASSUME LinesInv, Select, NEW s, s = Head(pending), Len(s.tables) = 1, reply'.end = "ok",
           NEW t, t = Head(s.tables)
    PROVE  IsWhere(s.where) /\ \E q : Shows(t, s.where, q)
<1> DEFINE conds == [i \in DOMAIN s.tables |-> ConditionsOn(s.tables[i], s.where)]
           first == CHOOSE i \in DOMAIN s.tables : \A k \in DOMAIN s.tables : s.tables[i] <= s.tables[k]
           last  == CHOOSE i \in DOMAIN s.tables : \A k \in DOMAIN s.tables : s.tables[k] <= s.tables[i]
           fails == Failing(s, conds)
           Left(found) == [i \in DOMAIN found[first] |-> rows[found[first][i]]]
<1>1. pending # << >> /\ s.kind = "select"
  BY DEF Select, Statement
<1>2. IsWhere(s.where) /\ s.tables \in Seq(Int)
  BY <1>1, StatementAtHead, StatementsAre DEF IsStatement
<1>3. DOMAIN s.tables = {1} /\ t = s.tables[1] /\ first = 1 /\ last = 1
  BY <1>2, OneTable
<1>4. ~Aborts("Select") /\ ~Crashes("Select")
  BY ThrowsOrDies DEF Aborts, Crashes
<1>5. ~WhereThrows(s.where) /\ SelectFrom(s, conds, JoinConditions(s.where))
  BY <1>4 DEF Select
<1>6. fails = {} /\ \E found \in Found(s, conds) : Answers(Left(found))
  BY <1>3, <1>4, <1>5 DEF SelectFrom
<1>7. PICK found \in Found(s, conds) : Answers(Left(found))
  BY <1>6
<1>8. conds[1] = ConditionsOn(t, s.where)
  BY <1>3
<1> HIDE DEF conds
<1>9. t \in Tables /\ ~SearchAssertFails(t, conds[1])
  BY <1>3, <1>6 DEF Failing
<1>10. found[1] \in Searches(t, NoTxn, conds[1])
  BY <1>3, <1>7 DEF Found
<1>11. reply'.answer = [i \in DOMAIN found[1] |-> rows[found[1][i]]]
  <2>1. reply' = [call |-> "Select", end |-> "ok", answer |-> Left(found)]
    BY <1>7 DEF Answers
  <2>2. reply'.answer = Left(found)
    BY <2>1
  <2>3. first = 1
    BY <1>3
  <2> HIDE DEF first
  <2> QED
    BY <2>2, <2>3
<1>12. Shows(t, s.where, found[1])
  BY <1>5, <1>8, <1>9, <1>10, <1>11 DEF Shows
<1> QED
  BY <1>2, <1>12

AnswerOfLine ==
    Statement("select") /\ reply'.end = "ok" /\ Len(Head(pending).tables) = 1 =>
        LET s     == Head(pending)
            t     == Head(s.tables)
            index == ByIndex(t, s.where)
        IN  IF index = {} THEN AreRowsAt(reply'.answer, Selected(t, s.where, On(t, s.where)))
            ELSE (\A i \in index : IsWhole(<<t, s.where[i].column.column>>)) =>
                    \/ AreRowsAt(reply'.answer, Selected(t, s.where, index))
                    \/ reply'.answer = << >> /\ \E i \in index : s.where[i].operate # "="

LEMMA AnswerIsExact == ASSUME LinesInv, PlainLines, NextQuery PROVE AnswerOfLine
<1> SUFFICES ASSUME Statement("select"), reply'.end = "ok", Len(Head(pending).tables) = 1,
                    NEW s, s = Head(pending), NEW t, t = Head(s.tables),
                    NEW index, index = ByIndex(t, s.where)
             PROVE  IF index = {} THEN AreRowsAt(reply'.answer, Selected(t, s.where, On(t, s.where)))
                    ELSE (\A i \in index : IsWhole(<<t, s.where[i].column.column>>)) =>
                            \/ AreRowsAt(reply'.answer, Selected(t, s.where, index))
                            \/ reply'.answer = << >> /\ \E i \in index : s.where[i].operate # "="
  BY DEF AnswerOfLine
<1>1. Select
  BY VisitIsOfHead DEF Statement
<1>2. PICK q : Shows(t, s.where, q)
  BY <1>1, SelectIs
<1>3. IsWhere(s.where) /\ TablesInv
  BY <1>1, SelectIs DEF LinesInv
<1> DEFINE where == s.where
           cond == ConditionsOn(t, where)
<1>4. /\ t \in Tables /\ ~WhereThrows(where) /\ ~SearchAssertFails(t, cond)
      /\ q \in Searches(t, NoTxn, cond)
      /\ reply'.answer = [i \in DOMAIN q |-> rows[q[i]]]
  BY <1>2 DEF Shows
<1>5. ASSUME NEW found, IsFound(found, t), reply'.answer = [i \in DOMAIN found |-> rows[found[i]]]
      PROVE  AreRowsAt(reply'.answer, ToSet(found)) /\ (found = << >> => reply'.answer = << >>)
  BY <1>5, AnswerIs
<1> HIDE DEF where
<1>6. CASE index = {}
  <2>1. IsFound(q, t) /\ ToSet(q) = Selected(t, where, On(t, where))
    BY <1>3, <1>4, <1>6, ScanFinds DEF where
  <2>2. AreRowsAt(reply'.answer, ToSet(q))
    BY <1>4, <1>5, <2>1
  <2> QED
    BY <1>6, <2>1, <2>2 DEF where
<1>7. CASE index # {}
  <2>1. /\ IsFound(q, t)
        /\ (\A i \in index : IsWhole(<<t, where[i].column.column>>)) =>
              \/ ToSet(q) = Selected(t, where, index)
              \/ q = << >> /\ \E i \in index : where[i].operate # "="
    BY <1>3, <1>4, <1>7, IndexFinds DEF where
  <2>2. AreRowsAt(reply'.answer, ToSet(q)) /\ (q = << >> => reply'.answer = << >>)
    BY <1>4, <1>5, <2>1
  <2> QED
    BY <1>7, <2>1, <2>2 DEF where
<1> QED
  BY <1>6, <1>7

(* A SELECT of one table returns the rows that SQL selects with its        *)
(* comparisons, each as often as it is there; an index answers only its    *)
(* own comparisons, and may give up on more than one key (instance.cc:106).*)
THEOREM LinesAnswerExactly == ASSUME PlainLines PROVE SpecQuery => SelectAnswers
<1>1. LinesInv /\ [NextQuery]_allVars => [AnswerOfLine]_allVars
  BY AnswerIsExact
<1>2. [AnswerOfLine]_allVars <=>
        [Statement("select") /\ reply'.end = "ok" /\ Len(Head(pending).tables) = 1 =>
            LET s     == Head(pending)
                t     == Head(s.tables)
                index == ByIndex(t, s.where)
            IN  IF index = {} THEN AreRowsAt(reply'.answer, Selected(t, s.where, On(t, s.where)))
                ELSE (\A i \in index : IsWhole(<<t, s.where[i].column.column>>)) =>
                        \/ AreRowsAt(reply'.answer, Selected(t, s.where, index))
                        \/ reply'.answer = << >> /\ \E i \in index : s.where[i].operate # "="
        ]_allVars
  BY DEF AnswerOfLine
<1> QED
  BY <1>1, <1>2, LinesHold, PTL DEF SpecQuery, SelectAnswers
=============================================================================
