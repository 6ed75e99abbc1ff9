----------------------------- MODULE OrderProofs -----------------------------
(***************************************************************************)
(* Least and greatest numbers, which every "first" and "last" of the       *)
(* models is.  That a set of numbers has a least one takes the place of    *)
(* induction in the proofs.  Then sequences joined, and what a loop leaves *)
(* after n iterations, for any step: a module with loops has an INSTANCE   *)
(* for each.                                                               *)
(***************************************************************************)
EXTENDS Integers, Sequences, FiniteSetTheorems, TLAPS

CONSTANT Step(_)    \* one iteration of a loop, of which only Iterations speaks

(* A set of bounded numbers has a least one, by the finite sets 0..k-1. *)
LEMMA LeastExists ==
    ASSUME NEW n \in Nat, NEW K \in SUBSET (0..n), K # {}
    PROVE  \E k \in K : \A j \in K : k <= j
  <1> DEFINE Below(k) == 0..k-1
             T == {Below(k) : k \in K}
             N == 0..n
  <1>1. IsWellFoundedOn(StrictSubsetOrdering(N), FiniteSubsetsOf(N))
    BY FS_StrictSubsetOrderingWellFounded
  <1>2. FiniteSubsetsOf(N) = SUBSET N
    <2>1. IsFiniteSet(N)
      <3>1. 0 \in Int /\ n \in Int
        OBVIOUS
      <3> QED
        BY <3>1, FS_Interval
    <2> HIDE DEF N
    <2> QED
      BY <2>1, FS_FiniteSubsetsOfFinite
  <1>3. T \subseteq SUBSET N /\ T # {}
    <2>1. \A k \in K : Below(k) \subseteq N
      OBVIOUS
    <2> HIDE DEF Below, N
    <2> QED
      BY <2>1
  <1>4. PICK x \in T : \A y \in T : <<y, x>> \notin StrictSubsetOrdering(N)
    <2> HIDE DEF T, N
    <2> QED
      BY <1>1, <1>2, <1>3, WFMin
  <1>5. PICK k \in K : x = Below(k)
    BY <1>4
  <1>6. ASSUME NEW j \in K, j < k PROVE FALSE
    <2>1. Below(j) \subseteq Below(k) /\ j \in Below(k) /\ j \notin Below(j)
      BY <1>6
    <2>2. Below(j) \in SUBSET N /\ Below(k) \in SUBSET N
      BY <1>3
    <2>3. <<Below(j), Below(k)>> \in StrictSubsetOrdering(N)
      <3> HIDE DEF Below, N
      <3> QED
        BY <2>1, <2>2 DEF StrictSubsetOrdering
    <2> QED
      BY <2>3, <1>4, <1>5
  <1> QED
    BY <1>6

(* Induction over 0..n, for a set in the place of the formula.              *)
LEMMA InductionUpTo ==
    ASSUME NEW n \in Nat, NEW K \in SUBSET (0..n), 0 \in K,
           \A i \in 0..n-1 : i \in K => i + 1 \in K
    PROVE  K = 0..n
  <1> SUFFICES ASSUME K # 0..n PROVE FALSE
    OBVIOUS
  <1> DEFINE J == (0..n) \ K
  <1>1. J \in SUBSET (0..n) /\ J # {}
    OBVIOUS
  <1>2. PICK j \in J : \A i \in J : j <= i
    <2> HIDE DEF J
    <2> QED
      BY <1>1, LeastExists
  <1>3. j \in 1..n /\ j - 1 \in 0..n-1 /\ (j - 1) + 1 = j /\ ~(j <= j - 1)
    OBVIOUS
  <1>4. j - 1 \in 0..n /\ j - 1 \notin J
    BY <1>2, <1>3
  <1>5. j - 1 \in K
    BY <1>4
  <1> QED
    BY <1>3, <1>5

(* The least of some numbers, chosen as the models and Min do.             *)
LEMMA LeastChosen ==
    ASSUME NEW S \in SUBSET Nat, S # {}
    PROVE  LET least == CHOOSE x \in S : \A y \in S : x <= y
           IN  least \in S /\ \A y \in S : least <= y
  <1>1. PICK n \in S : TRUE
    OBVIOUS
  <1> DEFINE K == {x \in S : x <= n}
  <1>2. n \in Nat /\ K \in SUBSET (0..n) /\ K # {}
    <2>1. \A x \in S : x \in Nat
      OBVIOUS
    <2>2. n \in K
      BY <1>1, <2>1
    <2>3. \A x \in K : x \in 0..n
      BY <1>1, <2>1
    <2> HIDE DEF K
    <2> QED
      BY <1>1, <2>1, <2>2, <2>3
  <1>3. PICK k \in K : \A j \in K : k <= j
    <2> HIDE DEF K
    <2> QED
      BY <1>2, LeastExists
  <1>4. k \in S /\ \A y \in S : k <= y
    BY <1>1, <1>3
  <1> QED
    BY <1>4

(* The greatest, chosen as Max does. *)
LEMMA GreatestChosen ==
    ASSUME NEW n \in Nat, NEW S \in SUBSET (0..n), S # {}
    PROVE  LET greatest == CHOOSE x \in S : \A y \in S : x >= y
           IN  greatest \in S /\ \A y \in S : y <= greatest
  <1> DEFINE K == {n - x : x \in S}
  <1>1. K \in SUBSET (0..n) /\ K # {}
    <2>1. \A x \in S : n - x \in 0..n
      OBVIOUS
    <2>2. PICK x \in S : TRUE
      OBVIOUS
    <2>3. n - x \in K
      OBVIOUS
    <2>4. \A k \in K : k \in 0..n
      BY <2>1
    <2> HIDE DEF K
    <2> QED
      BY <2>3, <2>4
  <1>2. PICK k \in K : \A j \in K : k <= j
    <2> HIDE DEF K
    <2> QED
      BY <1>1, LeastExists
  <1>3. PICK x \in S : k = n - x
    BY <1>2
  <1>4. \A y \in S : x >= y
    <2> SUFFICES ASSUME NEW y \in S PROVE x >= y
      OBVIOUS
    <2>1. n - y \in K /\ x \in 0..n /\ y \in 0..n
      OBVIOUS
    <2> HIDE DEF K
    <2>2. n - x <= n - y
      BY <1>2, <1>3, <2>1
    <2> QED
      BY <2>1, <2>2
  <1> QED
    BY <1>4

(* A round from c on over 0..M-1 meets each number, and nothing but them.  *)
LEMMA RoundCovers ==
    ASSUME NEW M \in Nat \ {0}, NEW c \in 0..M-1
    PROVE  /\ \A k \in 0..M-1 : (c + k) % M \in 0..M-1
           /\ \A p \in 0..M-1 : \E k \in 0..M-1 : (c + k) % M = p
  <1>1. ASSUME NEW k \in 0..M-1 PROVE (c + k) % M \in 0..M-1
    <2>1. (c + k) \in Nat
      OBVIOUS
    <2> QED
      BY <2>1
  <1>2. ASSUME NEW p \in 0..M-1 PROVE \E k \in 0..M-1 : (c + k) % M = p
    <2>1. p % M = p /\ (p + M) % M = p
      OBVIOUS
    <2>2. CASE c <= p
      <3>1. p - c \in 0..M-1 /\ c + (p - c) = p
        BY <2>2
      <3> QED
        BY <2>1, <3>1
    <2>3. CASE p < c
      <3>1. p - c + M \in 0..M-1 /\ c + (p - c + M) = p + M
        BY <2>3
      <3> QED
        BY <2>1, <3>1
    <2> QED
      BY <2>2, <2>3
  <1> QED
    BY <1>1, <1>2

(* A strict total order, as the set of keys below each key.                *)
Ordered(below) ==
    /\ \A x \in DOMAIN below : below[x] \subseteq DOMAIN below \ {x}
    /\ \A x, y \in DOMAIN below : x = y \/ x \in below[y] \/ y \in below[x]
    /\ \A x, y \in DOMAIN below : x \in below[y] => below[x] \subseteq below[y]

(* The place of x in a list of all the keys: those below it come first. *)
Rank(below, x) == Cardinality(below[x]) + 1

(* The ranks of n keys are 1..n, each once: they are at most n, and grow   *)
(* along the order.                                                        *)
LEMMA Ranks ==
    ASSUME NEW below, IsFiniteSet(DOMAIN below), Ordered(below)
    PROVE  /\ Cardinality(DOMAIN below) \in Nat
           /\ \A x \in DOMAIN below : Rank(below, x) \in 1..Cardinality(DOMAIN below)
           /\ \A x, y \in DOMAIN below : x \in below[y] => Rank(below, x) < Rank(below, y)
           /\ \A x, y \in DOMAIN below : Rank(below, x) = Rank(below, y) => x = y
           /\ \A i \in 1..Cardinality(DOMAIN below) : \E x \in DOMAIN below : Rank(below, x) = i
<1> DEFINE D == DOMAIN below
           n == Cardinality(D)
<1>1. n \in Nat
  BY FS_CardinalityType
<1>2. ASSUME NEW x \in D
      PROVE  /\ IsFiniteSet(below[x]) /\ Cardinality(below[x]) \in Nat
             /\ Cardinality(below[x]) <= n - 1
  <2>1. IsFiniteSet(D \ {x}) /\ Cardinality(D \ {x}) = n - 1
    BY FS_RemoveElement
  <2>2. below[x] \in SUBSET (D \ {x})
    BY DEF Ordered
  <2>3. IsFiniteSet(below[x]) /\ Cardinality(below[x]) <= Cardinality(D \ {x})
    BY <2>1, <2>2, FS_Subset
  <2> QED
    BY <2>1, <2>3, FS_CardinalityType
<1>3. ASSUME NEW x \in D, NEW y \in D, x \in below[y]
      PROVE  Rank(below, x) < Rank(below, y)
  <2>1. IsFiniteSet(below[y] \ {x}) /\ Cardinality(below[y] \ {x}) = Cardinality(below[y]) - 1
    BY <1>2, <1>3, FS_RemoveElement
  <2>2. below[x] \in SUBSET (below[y] \ {x})
    BY <1>3 DEF Ordered
  <2>3. Cardinality(below[x]) <= Cardinality(below[y] \ {x})
    BY <2>1, <2>2, FS_Subset
  <2> QED
    BY <1>2, <2>1, <2>3 DEF Rank
<1>4. \A x \in D : Rank(below, x) \in 1..n
  BY <1>1, <1>2 DEF Rank
<1>5. ASSUME NEW x \in D, NEW y \in D, Rank(below, x) = Rank(below, y) PROVE x = y
  <2>1. x = y \/ x \in below[y] \/ y \in below[x]
    BY DEF Ordered
  <2>2. Rank(below, x) \in Nat
    BY <1>4
  <2> QED
    BY <1>3, <1>5, <2>1, <2>2
<1>6. \A i \in 1..n : \E x \in D : Rank(below, x) = i
  <2> DEFINE rank == [x \in D |-> Rank(below, x)]
  <2>1. rank \in Injection(D, 1..n)
    BY <1>4, <1>5 DEF Injection, IsInjective
  <2>2. IsFiniteSet(1..n) /\ Cardinality(1..n) = n
    <3>1. 1 \in Int /\ n \in Int
      BY <1>1
    <3>2. IsFiniteSet(1..n) /\ Cardinality(1..n) = IF 1 > n THEN 0 ELSE n - 1 + 1
      BY <3>1, FS_Interval
    <3> HIDE DEF n
    <3> QED
      BY <1>1, <3>2
  <2>3. rank \in Surjection(D, 1..n)
    BY <2>1, <2>2, FS_Injection
  <2> HIDE DEF n
  <2> QED
    BY <2>3 DEF Surjection
<1> QED
  BY <1>1, <1>3, <1>4, <1>5, <1>6

-----------------------------------------------------------------------------
(* Sequences of sequences, joined one by one. *)

IsJoining(f, ss, n) == f = [i \in 1..n |-> IF i = 1 THEN ss[i] ELSE f[i-1] \o ss[i]]

LEMMA JoiningExists ==
    ASSUME NEW ss, NEW n \in Nat
    PROVE  \E f : IsJoining(f, ss, n)
<1> DEFINE K == {k \in 0..n : \E f : IsJoining(f, ss, k)}
<1>1. 0 \in K
  <2> DEFINE f == [i \in {} |-> 0]
  <2>1. 1..0 = {}
    OBVIOUS
  <2>2. IsJoining(f, ss, 0)
    BY <2>1 DEF IsJoining
  <2> QED
    BY <2>2
<1>2. ASSUME NEW k \in 0..n-1, k \in K PROVE k + 1 \in K
  <2>1. PICK f : IsJoining(f, ss, k)
    BY <1>2
  <2> DEFINE next == IF k = 0 THEN ss[1] ELSE f[k] \o ss[k+1]
             g == [i \in 1..k+1 |-> IF i = k + 1 THEN next ELSE f[i]]
  <2>2. \A i \in 1..k+1 : i = k + 1 \/ (i \in 1..k /\ i # k + 1)
    OBVIOUS
  <2>3. ASSUME NEW i \in 1..k+1 PROVE g[i] = IF i = 1 THEN ss[i] ELSE g[i-1] \o ss[i]
    <3>1. CASE i = k + 1
      <4>1. g[i] = next
        BY <3>1
      <4>2. k # 0 => i # 1 /\ i - 1 = k /\ i - 1 \in 1..k+1 /\ i - 1 # k + 1
        BY <3>1
      <4>3. k # 0 => g[i-1] = f[k]
        BY <4>2
      <4> HIDE DEF g
      <4> QED
        BY <3>1, <4>1, <4>2, <4>3
    <3>2. CASE i \in 1..k /\ i # k + 1
      <4>1. g[i] = f[i]
        BY <3>2
      <4>2. i # 1 => i - 1 \in 1..k+1 /\ i - 1 # k + 1
        BY <3>2
      <4>3. i # 1 => g[i-1] = f[i-1]
        BY <4>2
      <4>4. f[i] = IF i = 1 THEN ss[i] ELSE f[i-1] \o ss[i]
        BY <2>1, <3>2, Zenon DEF IsJoining
      <4> HIDE DEF g
      <4> QED
        BY <4>1, <4>3, <4>4
    <3> QED
      BY <2>2, <3>1, <3>2
  <2>4. g = [i \in 1..k+1 |-> g[i]]
    OBVIOUS
  <2> HIDE DEF g
  <2>5. IsJoining(g, ss, k + 1)
    BY <2>3, <2>4, Zenon DEF IsJoining
  <2>6. k + 1 \in 0..n
    OBVIOUS
  <2> QED
    BY <2>5, <2>6
<1>3. K = 0..n
  <2>1. K \in SUBSET (0..n) /\ \A k \in 0..n-1 : k \in K => k + 1 \in K
    BY <1>2
  <2> HIDE DEF K
  <2> QED
    BY <1>1, <2>1, InductionUpTo
<1>4. n \in K
  BY <1>3
<1> QED
  BY <1>4

-----------------------------------------------------------------------------
(* BPTree's Loop of this step. *)
After(start, n) ==
    LET after[i \in 0..n] == IF i = 0 THEN {start} ELSE {Step(s) : s \in after[i-1]}
    IN  CHOOSE s \in after[n] : TRUE

IsRun(f, start, n) ==
    f = [i \in 0..n |-> IF i = 0 THEN {start} ELSE {Step(s) : s \in f[i-1]}]

(* Runs of every length exist: the next iteration goes on from the last. *)
LEMMA RunsExist ==
    ASSUME NEW start, NEW n \in Nat
    PROVE  \E f : IsRun(f, start, n)
<1> DEFINE K == {k \in 0..n : \E f : IsRun(f, start, k)}
<1>1. 0 \in K
  <2> DEFINE f == [i \in 0..0 |-> {start}]
  <2>1. IsRun(f, start, 0)
    BY DEF IsRun
  <2> QED
    BY <2>1
<1>2. ASSUME NEW k \in 0..n-1, k \in K PROVE k + 1 \in K
  <2>1. PICK f : IsRun(f, start, k)
    BY <1>2
  <2> DEFINE last == {Step(s) : s \in f[k]}
             g == [i \in 0..k+1 |-> IF i = k + 1 THEN last ELSE f[i]]
  <2>2. ASSUME NEW i \in 0..k+1
        PROVE  g[i] = IF i = 0 THEN {start} ELSE {Step(s) : s \in g[i-1]}
    <3>1. CASE i = k + 1
      <4>1. i # 0 /\ i - 1 = k /\ k \in 0..k+1 /\ k # k + 1
        BY <3>1
      <4>2. g[k] = f[k] /\ g[i] = last
        BY <3>1, <4>1
      <4> QED
        BY <4>1, <4>2
    <3>2. CASE i # k + 1 /\ i # 0
      <4>1. i \in 0..k /\ i - 1 \in 0..k+1 /\ i - 1 # k + 1
        BY <3>2
      <4>2. g[i] = f[i] /\ g[i-1] = f[i-1]
        BY <3>2, <4>1
      <4>3. f[i] = {Step(s) : s \in f[i-1]}
        BY <2>1, <3>2, <4>1 DEF IsRun
      <4> HIDE DEF g
      <4> QED
        BY <3>2, <4>2, <4>3
    <3>3. CASE i = 0
      <4>1. g[i] = f[0] /\ 0 \in 0..k
        BY <3>3
      <4>2. f[0] = {start}
        BY <2>1, <4>1 DEF IsRun
      <4> HIDE DEF g
      <4> QED
        BY <3>3, <4>1, <4>2
    <3> QED
      BY <3>1, <3>2, <3>3
  <2>3. g = [i \in 0..k+1 |-> g[i]]
    OBVIOUS
  <2>4. IsRun(g, start, k + 1)
    <3> HIDE DEF g
    <3> QED
      BY <2>2, <2>3 DEF IsRun
  <2>5. k + 1 \in 0..n
    OBVIOUS
  <2> HIDE DEF g
  <2> QED
    BY <2>4, <2>5
<1>3. K = 0..n
  <2>1. K \in SUBSET (0..n) /\ \A i \in 0..n-1 : i \in K => i + 1 \in K
    BY <1>2
  <2> HIDE DEF K
  <2> QED
    BY <1>1, <2>1, InductionUpTo
<1>4. n \in K
  BY <1>3
<1> QED
  BY <1>4

(* They agree as far as they go. *)
LEMMA RunsAgree ==
    ASSUME NEW start, NEW n \in Nat, NEW m \in n..n+1, NEW f, NEW g,
           IsRun(f, start, n), IsRun(g, start, m)
    PROVE  \A i \in 0..n : f[i] = g[i]
<1> DEFINE K == {i \in 0..n : f[i] = g[i]}
<1>1. 0 \in K
  BY DEF IsRun
<1>2. ASSUME NEW i \in 0..n-1, i \in K PROVE i + 1 \in K
  <2>1. i + 1 \in 0..n /\ i + 1 \in 0..m /\ i + 1 # 0 /\ (i + 1) - 1 = i
    OBVIOUS
  <2>2. f[i+1] = {Step(s) : s \in f[i]} /\ g[i+1] = {Step(s) : s \in g[i]}
    BY <2>1 DEF IsRun
  <2> QED
    BY <1>2, <2>1, <2>2
<1>3. K = 0..n
  <2>1. K \in SUBSET (0..n) /\ \A i \in 0..n-1 : i \in K => i + 1 \in K
    BY <1>2
  <2> HIDE DEF K
  <2> QED
    BY <1>1, <2>1, InductionUpTo
<1> QED
  BY <1>3

(* After no iteration nothing has changed, and one more iteration is one   *)
(* step from where the loop was.                                           *)
THEOREM Iterations ==
    ASSUME NEW start
    PROVE  /\ After(start, 0) = start
           /\ \A n \in Nat : After(start, n + 1) = Step(After(start, n))
<1> DEFINE Run(n) == CHOOSE f : IsRun(f, start, n)
<1>1. \A n \in Nat : IsRun(Run(n), start, n)
  <2> TAKE n \in Nat
  <2>1. \E f : IsRun(f, start, n)
    BY RunsExist
  <2> QED
    BY <2>1
<1>2. \A n \in Nat : After(start, n) = CHOOSE s \in Run(n)[n] : TRUE
  BY DEF After, IsRun
<1> HIDE DEF Run
<1> DEFINE K(m) == {i \in 0..m : \E s : Run(i)[i] = {s}}
<1>3. Run(0)[0] = {start}
  BY <1>1 DEF IsRun
<1>4. ASSUME NEW n \in Nat PROVE Run(n+1)[n+1] = {Step(s) : s \in Run(n)[n]}
  <2>1. IsRun(Run(n), start, n) /\ IsRun(Run(n+1), start, n + 1) /\ n + 1 \in n..n+1
    BY <1>1
  <2>2. Run(n)[n] = Run(n+1)[n]
    <3>1. n \in 0..n
      OBVIOUS
    <3> QED
      BY <2>1, <3>1, RunsAgree
  <2>3. n + 1 \in 0..n+1 /\ n + 1 # 0 /\ (n + 1) - 1 = n
    OBVIOUS
  <2>4. Run(n+1)[n+1] = {Step(s) : s \in Run(n+1)[n]}
    BY <2>1, <2>3 DEF IsRun
  <2> QED
    BY <2>2, <2>4
<1>5. ASSUME NEW m \in Nat PROVE \E s : Run(m)[m] = {s}
  <2>1. 0 \in K(m)
    BY <1>3
  <2>2. ASSUME NEW i \in 0..m-1, i \in K(m) PROVE i + 1 \in K(m)
    <3>1. PICK s : Run(i)[i] = {s}
      BY <2>2
    <3>2. Run(i+1)[i+1] = {Step(s)}
      BY <1>4, <3>1
    <3> QED
      BY <3>2
  <2>3. K(m) = 0..m
    <3>1. K(m) \in SUBSET (0..m) /\ \A i \in 0..m-1 : i \in K(m) => i + 1 \in K(m)
      BY <2>2
    <3> HIDE DEF K
    <3> QED
      BY <2>1, <3>1, InductionUpTo
  <2>4. m \in K(m)
    <3>1. m \in 0..m
      OBVIOUS
    <3> HIDE DEF K
    <3> QED
      BY <2>3, <3>1
  <2> QED
    BY <2>4
<1>6. After(start, 0) = start
  BY <1>2, <1>3
<1>7. ASSUME NEW n \in Nat PROVE After(start, n + 1) = Step(After(start, n))
  <2>1. PICK s : Run(n)[n] = {s}
    BY <1>5
  <2>2. Run(n+1)[n+1] = {Step(s)}
    BY <1>4, <2>1
  <2>3. After(start, n) = s
    BY <1>2, <2>1
  <2>4. After(start, n + 1) = Step(s)
    <3>1. n + 1 \in Nat
      OBVIOUS
    <3>2. After(start, n + 1) = CHOOSE t \in Run(n+1)[n+1] : TRUE
      BY <1>2, <3>1
    <3> QED
      BY <2>2, <3>2
  <2> QED
    BY <2>3, <2>4
<1> QED
  BY <1>6, <1>7
=============================================================================
