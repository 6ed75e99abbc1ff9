----------------------------- MODULE BPTreeShape ------------------------------
(***************************************************************************)
(* The B+ tree, for any capacities, keys, locations and rows.              *)
(***************************************************************************)
EXTENDS BPTree, SequenceTheorems, OrderProofs

-----------------------------------------------------------------------------
(* Entries in the order of their keys. *)

KeyedBy(E) == \A e \in E : e.key \in Int

Ascending(s) == \A i, j \in DOMAIN s : i < j => s[i].key < s[j].key

(* The entries of one part all come before those of another. *)
Below(S, T) == \A a \in S, b \in T : a.key < b.key

LEMMA RangeHas ==
    ASSUME NEW E, NEW s \in Seq(E)
    PROVE  /\ DOMAIN s = 1..Len(s) /\ Len(s) \in Nat
           /\ \A i \in 1..Len(s) : s[i] \in Range(s) /\ s[i] \in E
           /\ \A e \in Range(s) : e \in E /\ \E i \in 1..Len(s) : s[i] = e
           /\ s = << >> <=> Len(s) = 0
           /\ s = << >> <=> Range(s) = {}
  <1>2. \A i \in 1..Len(s) : s[i] \in E
    OBVIOUS
  <1>3. DOMAIN s = 1..Len(s) /\ Len(s) \in Nat
    OBVIOUS
  <1>4. s = << >> <=> Len(s) = 0
    OBVIOUS
  <1>5. Len(s) = 0 <=> 1..Len(s) = {}
    <2>1. Len(s) = 0 => \A i : i \notin 1..Len(s)
      OBVIOUS
    <2>2. Len(s) # 0 => 1 \in 1..Len(s)
      BY <1>3
    <2> QED
      BY <2>1, <2>2, Zenon
  <1>6. Range(s) = {} <=> DOMAIN s = {}
    BY DEF Range
  <1>7. /\ \A i \in 1..Len(s) : s[i] \in Range(s)
        /\ \A e \in Range(s) : \E i \in 1..Len(s) : s[i] = e
    BY <1>3 DEF Range
  <1> QED
    BY <1>2, <1>3, <1>4, <1>5, <1>6, <1>7

(* The places of two entries are in the order of their keys. *)
LEMMA KeyOrder ==
    ASSUME NEW E, KeyedBy(E), NEW s \in Seq(E), Ascending(s),
           NEW i \in 1..Len(s), NEW j \in 1..Len(s)
    PROVE  /\ s[i].key < s[j].key <=> i < j
           /\ s[i].key <= s[j].key <=> i <= j
           /\ s[i].key = s[j].key <=> i = j
  <1>1. s[i].key \in Int /\ s[j].key \in Int /\ DOMAIN s = 1..Len(s)
    BY RangeHas DEF KeyedBy
  <1>2. i < j => s[i].key < s[j].key
    BY <1>1 DEF Ascending
  <1>3. j < i => s[j].key < s[i].key
    BY <1>1 DEF Ascending
  <1> QED
    BY <1>1, <1>2, <1>3

(* No key is there twice. *)
LEMMA KeysDiffer ==
    ASSUME NEW E, KeyedBy(E), NEW s \in Seq(E), Ascending(s)
    PROVE  \A e, f \in Range(s) : e.key = f.key => e = f
  <1> SUFFICES ASSUME NEW e \in Range(s), NEW f \in Range(s), e.key = f.key PROVE e = f
    OBVIOUS
  <1>1. PICK i \in 1..Len(s) : s[i] = e
    BY RangeHas
  <1>2. PICK j \in 1..Len(s) : s[j] = f
    BY RangeHas
  <1>3. i = j
    BY <1>1, <1>2, KeyOrder
  <1> QED
    BY <1>1, <1>2, <1>3

LEMMA Cut ==
    ASSUME NEW E, KeyedBy(E), NEW s \in Seq(E), Ascending(s), NEW m \in 0..Len(s)
    PROVE  LET left  == SubSeq(s, 1, m)
               right == SubSeq(s, m + 1, Len(s))
           IN  /\ left \in Seq(E) /\ Len(left) = m /\ Ascending(left)
               /\ right \in Seq(E) /\ Len(right) = Len(s) - m /\ Ascending(right)
               /\ Range(left) = {s[i] : i \in 1..m}
               /\ Range(right) = {s[i] : i \in m+1..Len(s)}
               /\ Range(left) \union Range(right) = Range(s)
               /\ Below(Range(left), Range(right))
               /\ \A i \in 1..m : left[i] = s[i]
               /\ \A i \in 1..Len(s)-m : right[i] = s[m+i]
  <1> DEFINE left == SubSeq(s, 1, m)
             right == SubSeq(s, m + 1, Len(s))
  <1>0. Len(s) \in Nat /\ m \in Nat /\ m <= Len(s)
    BY RangeHas
  <1>1. /\ Len(s) \in Nat /\ m \in Nat /\ m <= Len(s) /\ DOMAIN s = 1..Len(s)
        /\ \A i \in 1..Len(s) : s[i] \in E
    BY <1>0, RangeHas
  <1>2. left \in Seq(E) /\ Len(left) = m /\ \A i \in 1..m : left[i] = s[i]
    <2>1. \A i \in 1..m : s[i] \in E
      BY <1>1
    <2>2. /\ left \in Seq(E) /\ Len(left) = (IF 1 <= m THEN m - 1 + 1 ELSE 0)
          /\ \A i \in 1..m-1+1 : left[i] = s[1+i-1]
      BY <1>1, <2>1, SubSeqProperties
    <2> HIDE DEF left
    <2> QED
      BY <1>1, <2>2
  <1>3. right \in Seq(E) /\ Len(right) = Len(s) - m /\ \A i \in 1..Len(s)-m : right[i] = s[m+i]
    <2>1. \A i \in m+1..Len(s) : s[i] \in E
      BY <1>1
    <2>2. /\ right \in Seq(E)
          /\ Len(right) = (IF m+1 <= Len(s) THEN Len(s) - (m+1) + 1 ELSE 0)
          /\ \A i \in 1..Len(s)-(m+1)+1 : right[i] = s[(m+1)+i-1]
      BY <1>1, <2>1, SubSeqProperties
    <2> HIDE DEF right
    <2>3. \A i \in 1..Len(s)-m : i \in 1..Len(s)-(m+1)+1 /\ (m+1)+i-1 = m+i
      BY <1>1
    <2>4. Len(right) = Len(s) - m
      <3>1. CASE m + 1 <= Len(s)
        <4>1. Len(right) = Len(s) - (m + 1) + 1
          BY <2>2, <3>1, Zenon
        <4> QED
          BY <1>1, <4>1
      <3>2. CASE ~(m + 1 <= Len(s))
        <4>1. Len(right) = 0
          BY <2>2, <3>2, Zenon
        <4>2. m = Len(s) /\ m \in Nat
          BY <1>0, <3>2
        <4> QED
          BY <4>1, <4>2
      <3> QED
        BY <3>1, <3>2
    <2> QED
      BY <2>2, <2>3, <2>4
  <1> HIDE DEF left, right
  <1>4. DOMAIN left = 1..m /\ DOMAIN right = 1..Len(s)-m
    BY <1>2, <1>3, RangeHas
  <1>5. Ascending(left)
    BY <1>1, <1>2, <1>4 DEF Ascending
  <1>6. Ascending(right)
    <2>1. ASSUME NEW i \in 1..Len(s)-m, NEW j \in 1..Len(s)-m, i < j
          PROVE  s[m+i].key < s[m+j].key
      <3>1. m + i \in 1..Len(s) /\ m + j \in 1..Len(s) /\ m + i < m + j
        BY <1>1, <2>1
      <3> QED
        BY <1>1, <3>1 DEF Ascending
    <2> QED
      BY <1>3, <1>4, <2>1 DEF Ascending
  <1>7. Range(left) = {s[i] : i \in 1..m}
    BY <1>2, <1>4 DEF Range
  <1>8. Range(right) = {s[i] : i \in m+1..Len(s)}
    <2>1. ASSUME NEW i \in m+1..Len(s) PROVE i - m \in 1..Len(s)-m /\ m + (i - m) = i
      BY <1>1
    <2>2. ASSUME NEW i \in 1..Len(s)-m PROVE m + i \in m+1..Len(s)
      BY <1>1
    <2>3. \A i \in m+1..Len(s) : s[i] = right[i-m]
      BY <1>3, <2>1
    <2>4. Range(right) = {right[i] : i \in 1..Len(s)-m}
      BY <1>4 DEF Range
    <2>5. ASSUME NEW e \in Range(right) PROVE e \in {s[i] : i \in m+1..Len(s)}
      BY <1>3, <2>2, <2>4
    <2>6. ASSUME NEW e \in {s[i] : i \in m+1..Len(s)} PROVE e \in Range(right)
      BY <2>1, <2>3, <2>4
    <2> QED
      BY <2>5, <2>6
  <1>9. Range(left) \union Range(right) = Range(s)
    <2>1. 1..Len(s) = (1..m) \union (m+1..Len(s))
      BY <1>1
    <2> QED
      BY <1>1, <1>7, <1>8, <2>1 DEF Range
  <1>10. Below(Range(left), Range(right))
    <2>1. \A i \in 1..m, j \in m+1..Len(s) : i \in 1..Len(s) /\ j \in 1..Len(s) /\ i < j
      BY <1>1
    <2> QED
      BY <1>1, <1>7, <1>8, <2>1 DEF Below, Ascending
  <1> QED
    BY <1>2, <1>3, <1>5, <1>6, <1>7, <1>8, <1>9, <1>10 DEF left, right

LEMMA Joined ==
    ASSUME NEW E, KeyedBy(E), NEW s \in Seq(E), NEW t \in Seq(E),
           Ascending(s), Ascending(t), Below(Range(s), Range(t))
    PROVE  /\ s \o t \in Seq(E) /\ Len(s \o t) = Len(s) + Len(t) /\ Ascending(s \o t)
           /\ Range(s \o t) = Range(s) \union Range(t)
  <1>1. /\ s \o t \in Seq(E) /\ Len(s \o t) = Len(s) + Len(t)
        /\ \A i \in 1..Len(s)+Len(t) :
            (s \o t)[i] = IF i <= Len(s) THEN s[i] ELSE t[i - Len(s)]
    BY ConcatProperties
  <1>2. Range(s \o t) = Range(s) \union Range(t)
    BY RangeConcatenation
  <1>3. /\ Len(s) \in Nat /\ Len(t) \in Nat /\ DOMAIN s = 1..Len(s) /\ DOMAIN t = 1..Len(t)
        /\ DOMAIN (s \o t) = 1..Len(s)+Len(t)
        /\ \A i \in 1..Len(s) : s[i] \in Range(s)
        /\ \A i \in 1..Len(t) : t[i] \in Range(t)
    BY <1>1, RangeHas
  <1>4. ASSUME NEW i \in 1..Len(s)+Len(t), NEW j \in 1..Len(s)+Len(t), i < j
        PROVE  (s \o t)[i].key < (s \o t)[j].key
    <2>1. CASE j <= Len(s)
      <3>1. i \in 1..Len(s) /\ j \in 1..Len(s) /\ (s \o t)[i] = s[i] /\ (s \o t)[j] = s[j]
        BY <1>1, <1>3, <1>4, <2>1
      <3> QED
        BY <1>3, <1>4, <3>1 DEF Ascending
    <2>2. CASE i <= Len(s) /\ ~(j <= Len(s))
      <3>1. i \in 1..Len(s) /\ j - Len(s) \in 1..Len(t)
        BY <1>3, <2>2
      <3>2. (s \o t)[i] = s[i] /\ (s \o t)[j] = t[j - Len(s)]
        BY <1>1, <2>2
      <3> QED
        BY <1>3, <3>1, <3>2 DEF Below
    <2>3. CASE ~(i <= Len(s)) /\ ~(j <= Len(s))
      <3>1. /\ i - Len(s) \in 1..Len(t) /\ j - Len(s) \in 1..Len(t)
            /\ i - Len(s) < j - Len(s)
        BY <1>3, <1>4, <2>3
      <3>2. (s \o t)[i] = t[i - Len(s)] /\ (s \o t)[j] = t[j - Len(s)]
        BY <1>1, <2>3
      <3> QED
        BY <1>3, <3>1, <3>2 DEF Ascending
    <2> QED
      BY <1>3, <1>4, <2>1, <2>2, <2>3
  <1>5. Ascending(s \o t)
    BY <1>3, <1>4 DEF Ascending
  <1> QED
    BY <1>1, <1>2, <1>5

LEMMA Single ==
    ASSUME NEW E, NEW e \in E
    PROVE  <<e>> \in Seq(E) /\ Len(<<e>>) = 1 /\ Ascending(<<e>>) /\ Range(<<e>>) = {e}
  BY DEF Ascending, Range

(* The first entry and the others, the last one and the others. *)
LEMMA Ends ==
    ASSUME NEW E, KeyedBy(E), NEW s \in Seq(E), Ascending(s), Len(s) # 0
    PROVE  /\ Head(s) = s[1] /\ s[1] \in E /\ s[1] \in Range(s)
           /\ Tail(s) \in Seq(E) /\ Len(Tail(s)) = Len(s) - 1 /\ Ascending(Tail(s))
           /\ Range(s) = {s[1]} \union Range(Tail(s)) /\ Below({s[1]}, Range(Tail(s)))
           /\ Last(s) \in E /\ Last(s) \in Range(s)
           /\ Front(s) \in Seq(E) /\ Len(Front(s)) = Len(s) - 1 /\ Ascending(Front(s))
           /\ Range(s) = Range(Front(s)) \union {Last(s)} /\ Below(Range(Front(s)), {Last(s)})
<1> DEFINE n == Len(s)
           m == n - 1
<1>1. n \in Nat /\ 1 \in 0..n /\ m \in 0..n /\ 1 \in 1..n /\ n \in 1..n /\ m + 1 = n /\ 1 + 1 = 2
  BY RangeHas
<1>2. s # << >> /\ s[1] \in E /\ s[n] \in E /\ s[1] \in Range(s) /\ s[n] \in Range(s)
  BY <1>1, RangeHas
<1>3. Tail(s) = SubSeq(s, 2, n) /\ Front(s) = SubSeq(s, 1, m) /\ Last(s) = s[n] /\ Head(s) = s[1]
  BY <1>2, TailIsSubSeq DEF Front, Last
<1> HIDE DEF m
<1>4. LET left  == SubSeq(s, 1, 1)
          right == SubSeq(s, 1 + 1, n)
      IN  /\ right \in Seq(E) /\ Len(right) = n - 1 /\ Ascending(right)
          /\ Range(left) = {s[i] : i \in 1..1}
          /\ Range(left) \union Range(right) = Range(s) /\ Below(Range(left), Range(right))
  BY <1>1, Cut
<1>5. LET left  == SubSeq(s, 1, m)
          right == SubSeq(s, m + 1, n)
      IN  /\ left \in Seq(E) /\ Len(left) = m /\ Ascending(left)
          /\ Range(right) = {s[i] : i \in m+1..n}
          /\ Range(left) \union Range(right) = Range(s) /\ Below(Range(left), Range(right))
  BY <1>1, Cut
<1>6. {s[i] : i \in 1..1} = {s[1]} /\ {s[i] : i \in m+1..n} = {s[n]}
  <2>1. m + 1 = n /\ n \in Nat
    BY <1>1
  <2>2. \A i : (i \in 1..1 <=> i = 1) /\ (i \in n..n <=> i = n)
    BY <2>1
  <2> HIDE DEF n
  <2> QED
    BY <2>1, <2>2
<1>7. /\ Tail(s) \in Seq(E) /\ Len(Tail(s)) = n - 1 /\ Ascending(Tail(s))
      /\ Range(s) = {s[1]} \union Range(Tail(s)) /\ Below({s[1]}, Range(Tail(s)))
  <2> DEFINE t == Tail(s)
  <2>1. t = SubSeq(s, 1 + 1, n)
    BY <1>1, <1>3
  <2> HIDE DEF t
  <2> QED
    BY <1>4, <1>6, <2>1 DEF t
<1>8. /\ Front(s) \in Seq(E) /\ Len(Front(s)) = n - 1 /\ Ascending(Front(s))
      /\ Range(s) = Range(Front(s)) \union {Last(s)} /\ Below(Range(Front(s)), {Last(s)})
  BY <1>3, <1>5, <1>6 DEF m
<1> QED
  BY <1>2, <1>3, <1>7, <1>8

(* A new entry between those with smaller keys and those with larger ones. *)
LEMMA Inserting ==
    ASSUME NEW E, KeyedBy(E), NEW s \in Seq(E), Ascending(s), NEW e \in E,
           NEW i \in 1..Len(s)+1,
           \A j \in 1..Len(s) : IF j < i THEN s[j].key < e.key ELSE e.key < s[j].key
    PROVE  /\ InsertAt(s, i, e) \in Seq(E) /\ Len(InsertAt(s, i, e)) = Len(s) + 1
           /\ Ascending(InsertAt(s, i, e))
           /\ Range(InsertAt(s, i, e)) = Range(s) \union {e}
  <1> DEFINE left == SubSeq(s, 1, i - 1)
             right == SubSeq(s, i, Len(s))
  <1>1. Len(s) \in Nat /\ i - 1 \in 0..Len(s) /\ (i - 1) + 1 = i
    BY RangeHas
  <1>2. /\ left \in Seq(E) /\ Len(left) = i - 1 /\ Ascending(left)
        /\ right \in Seq(E) /\ Len(right) = Len(s) - (i - 1) /\ Ascending(right)
        /\ Range(left) = {s[j] : j \in 1..i-1} /\ Range(right) = {s[j] : j \in i..Len(s)}
        /\ Range(left) \union Range(right) = Range(s)
        /\ Below(Range(left), Range(right))
    <2>1. PICK m \in 0..Len(s) : m = i - 1 /\ m + 1 = i
      BY <1>1
    <2>2. left = SubSeq(s, 1, m) /\ right = SubSeq(s, m + 1, Len(s))
      BY <2>1
    <2> HIDE DEF left, right
    <2> QED
      BY <2>1, <2>2, Cut
  <1> HIDE DEF left, right
  <1>3. <<e>> \in Seq(E) /\ Len(<<e>>) = 1 /\ Ascending(<<e>>) /\ Range(<<e>>) = {e}
    BY Single
  <1>4. Below(Range(left), Range(<<e>>)) /\ Below(Range(<<e>>), Range(right))
    <2>1. \A j \in 1..i-1 : s[j].key < e.key
      BY <1>1
    <2>2. \A j \in i..Len(s) : e.key < s[j].key
      BY <1>1
    <2> QED
      BY <1>2, <1>3, <2>1, <2>2 DEF Below
  <1> DEFINE most == left \o <<e>>
  <1>5. /\ most \in Seq(E) /\ Len(most) = Len(left) + 1 /\ Ascending(most)
        /\ Range(most) = Range(left) \union {e}
    <2> DEFINE one == <<e>>
    <2>1. /\ left \in Seq(E) /\ Ascending(left) /\ Below(Range(left), Range(one))
          /\ one \in Seq(E) /\ Ascending(one) /\ Len(one) = 1 /\ Range(one) = {e}
      BY <1>2, <1>3, <1>4
    <2>2. most = left \o one
      OBVIOUS
    <2> HIDE DEF one, most
    <2>3. /\ left \o one \in Seq(E) /\ Len(left \o one) = Len(left) + Len(one)
          /\ Ascending(left \o one) /\ Range(left \o one) = Range(left) \union Range(one)
      BY <2>1, Joined, ZenonT(40)
    <2> QED
      BY <2>1, <2>2, <2>3
  <1>6. Below(Range(most), Range(right))
    BY <1>2, <1>3, <1>4, <1>5 DEF Below
  <1> HIDE DEF most
  <1>7. /\ most \o right \in Seq(E) /\ Len(most \o right) = Len(most) + Len(right)
        /\ Ascending(most \o right) /\ Range(most \o right) = Range(most) \union Range(right)
    <2>1. /\ most \in Seq(E) /\ right \in Seq(E) /\ Ascending(most) /\ Ascending(right)
          /\ Below(Range(most), Range(right))
      BY <1>2, <1>5, <1>6
    <2> QED
      BY <2>1, Joined
  <1>8. InsertAt(s, i, e) = most \o right
    BY DEF InsertAt, most, left, right
  <1>9. Len(most \o right) = Len(s) + 1
    BY <1>1, <1>2, <1>5, <1>7
  <1>10. Range(most \o right) = Range(s) \union {e}
    BY <1>2, <1>5, <1>7
  <1> QED
    BY <1>7, <1>8, <1>9, <1>10

LEMMA Removing ==
    ASSUME NEW E, KeyedBy(E), NEW s \in Seq(E), Ascending(s), NEW i \in 1..Len(s)
    PROVE  /\ RemoveAt(s, i) \in Seq(E) /\ Len(RemoveAt(s, i)) = Len(s) - 1
           /\ Ascending(RemoveAt(s, i))
           /\ Range(RemoveAt(s, i)) = Range(s) \ {s[i]}
  <1> DEFINE left == SubSeq(s, 1, i - 1)
             right == SubSeq(s, i + 1, Len(s))
  <1>1. Len(s) \in Nat /\ i - 1 \in 0..Len(s) /\ i \in 0..Len(s) /\ (i - 1) + 1 = i
    BY RangeHas
  <1>2. /\ left \in Seq(E) /\ Len(left) = i - 1 /\ Ascending(left)
        /\ Range(left) = {s[j] : j \in 1..i-1}
    BY <1>1, Cut
  <1>3. /\ right \in Seq(E) /\ Len(right) = Len(s) - i /\ Ascending(right)
        /\ Range(right) = {s[j] : j \in i+1..Len(s)}
    BY <1>1, Cut
  <1> HIDE DEF left, right
  <1>4. Below(Range(left), Range(right))
    <2>1. \A j \in 1..i-1, k \in i+1..Len(s) : j \in 1..Len(s) /\ k \in 1..Len(s) /\ j < k
      BY <1>1
    <2>2. DOMAIN s = 1..Len(s)
      BY RangeHas
    <2> QED
      BY <1>2, <1>3, <2>1, <2>2 DEF Below, Ascending
  <1>5. /\ left \o right \in Seq(E) /\ Len(left \o right) = Len(left) + Len(right)
        /\ Ascending(left \o right) /\ Range(left \o right) = Range(left) \union Range(right)
    <2>1. /\ left \in Seq(E) /\ right \in Seq(E) /\ Ascending(left) /\ Ascending(right)
          /\ Below(Range(left), Range(right))
      BY <1>2, <1>3, <1>4
    <2> QED
      BY <2>1, Joined
  <1>6. RemoveAt(s, i) = left \o right
    BY DEF RemoveAt, left, right
  <1>7. Len(left \o right) = Len(s) - 1
    BY <1>1, <1>2, <1>3, <1>5
  <1>8. Range(left \o right) = Range(s) \ {s[i]}
    <2>1. ASSUME NEW j \in 1..Len(s), j # i PROVE s[j] # s[i]
      BY <2>1, KeyOrder
    <2>2. Range(s) = {s[j] : j \in 1..Len(s)}
      BY RangeEquality
    <2>3. \A j \in 1..Len(s) : j # i => j \in 1..i-1 \/ j \in i+1..Len(s)
      BY <1>1
    <2>4. \A j : j \in 1..i-1 \/ j \in i+1..Len(s) => j \in 1..Len(s) /\ j # i
      BY <1>1
    <2>5. ASSUME NEW e \in Range(s) \ {s[i]} PROVE e \in Range(left) \union Range(right)
      <3>1. PICK j \in 1..Len(s) : e = s[j]
        BY <2>2
      <3> QED
        BY <1>2, <1>3, <2>3, <3>1
    <2>6. ASSUME NEW e \in Range(left) \union Range(right) PROVE e \in Range(s) \ {s[i]}
      <3>1. PICK j : (j \in 1..i-1 \/ j \in i+1..Len(s)) /\ e = s[j]
        BY <1>2, <1>3
      <3>2. j \in 1..Len(s) /\ j # i
        BY <2>4, <3>1
      <3> QED
        BY <2>1, <2>2, <3>1, <3>2
    <2> QED
      BY <1>5, <2>5, <2>6
  <1> QED
    BY <1>5, <1>6, <1>7, <1>8

(* Another entry in the place of one, with a key between its neighbours'.  *)
IsReplaced(s, i, e, t) == t = [s EXCEPT ![i] = e]

LEMMA Replacing ==
    ASSUME NEW E, KeyedBy(E), NEW s \in Seq(E), Ascending(s), NEW e \in E, NEW i \in 1..Len(s),
           \A f \in Range(s) : /\ f.key < s[i].key => f.key < e.key
                               /\ s[i].key < f.key => e.key < f.key,
           NEW t, IsReplaced(s, i, e, t)
    PROVE  /\ t \in Seq(E) /\ Len(t) = Len(s) /\ Ascending(t)
           /\ Range(t) = (Range(s) \ {s[i]}) \union {e}
  <1>1. /\ t \in Seq(E) /\ Len(t) = Len(s)
        /\ \A j \in 1..Len(s) : t[j] = IF j = i THEN e ELSE s[j]
    BY ExceptSeq DEF IsReplaced
  <1>2. DOMAIN s = 1..Len(s) /\ DOMAIN t = 1..Len(s) /\ Len(s) \in Nat
    BY <1>1, RangeHas
  <1>3. Ascending(t)
    <2>1. ASSUME NEW j \in 1..Len(s), NEW k \in 1..Len(s), j < k PROVE t[j].key < t[k].key
      <3>1. s[j].key < s[k].key
        BY <1>2, <2>1 DEF Ascending
      <3>2. s[j] \in Range(s) /\ s[k] \in Range(s)
        BY RangeHas
      <3>3. j # k
        BY <2>1
      <3> QED
        BY <1>1, <3>1, <3>2, <3>3
    <2> QED
      BY <1>2, <2>1 DEF Ascending
  <1>4. Range(t) = (Range(s) \ {s[i]}) \union {e}
    <2>1. \A j \in 1..Len(s) : j # i => s[j] # s[i]
      BY KeyOrder
    <2>2. Range(s) = {s[j] : j \in 1..Len(s)} /\ Range(t) = {t[j] : j \in 1..Len(s)}
      <3>1. Range(s) = {s[j] : j \in 1..Len(s)}
        BY RangeEquality
      <3>2. Range(t) = {t[j] : j \in 1..Len(t)}
        BY <1>1, RangeEquality
      <3> QED
        BY <1>1, <3>1, <3>2
    <2>3. ASSUME NEW f \in Range(t) PROVE f \in (Range(s) \ {s[i]}) \union {e}
      BY <1>1, <2>1, <2>2
    <2>4. ASSUME NEW f \in (Range(s) \ {s[i]}) \union {e} PROVE f \in Range(t)
      BY <1>1, <2>1, <2>2
    <2> QED
      BY <2>3, <2>4
  <1> QED
    BY <1>1, <1>3, <1>4

(* The numbers of a set that holds all before them are counted. *)
LEMMA Counted ==
    ASSUME NEW n \in Nat, NEW S \in SUBSET (1..n), \A i \in S : \A j \in 1..i : j \in S
    PROVE  Cardinality(S) \in 0..n /\ S = 1..Cardinality(S)
  <1>1. CASE S = {}
    <2>1. Cardinality(S) = 0
      BY <1>1, FS_EmptySet
    <2>2. \A i : i \notin 1..0
      OBVIOUS
    <2> QED
      BY <1>1, <2>1, <2>2
  <1>2. CASE S # {}
    <2>1. S \in SUBSET (0..n)
      OBVIOUS
    <2>2. Max(S) \in S /\ \A j \in S : j <= Max(S)
      BY <1>2, <2>1, GreatestChosen DEF Max
    <2>3. Max(S) \in 1..n
      BY <2>2
    <2>4. S = 1..Max(S)
      <3>1. \A j \in S : j \in 1..Max(S)
        BY <2>2, <2>3
      <3>2. \A j \in 1..Max(S) : j \in S
        BY <2>2
      <3> QED
        BY <3>1, <3>2
    <2>5. Cardinality(1..Max(S)) = Max(S)
      <3>1. 1 \in Int /\ Max(S) \in Int /\ ~(1 > Max(S)) /\ Max(S) - 1 + 1 = Max(S)
        BY <2>3
      <3>2. Cardinality(1..Max(S)) = IF 1 > Max(S) THEN 0 ELSE Max(S) - 1 + 1
        BY <3>1, FS_Interval
      <3> QED
        BY <3>1, <3>2
    <2>6. Cardinality(S) = Max(S)
      BY <2>4, <2>5
    <2>7. Max(S) \in 0..n
      BY <2>3
    <2> QED
      BY <2>4, <2>6, <2>7
  <1> QED
    BY <1>1, <1>2

(* The two binary searches. *)
LEMMA Bounds ==
    ASSUME NEW E, KeyedBy(E), NEW n, n.entries \in Seq(E), Ascending(n.entries), NEW x \in Int
    PROVE  LET s == n.entries
               r == LowerBound(n, x)
               l == LessOrEqualBound(n, x)
           IN  /\ r \in 1..Len(s)+1 /\ \A i \in 1..Len(s) : s[i].key < x <=> i < r
               /\ l \in 0..Len(s) /\ \A i \in 1..Len(s) : s[i].key <= x <=> i <= l
  <1> DEFINE s == n.entries
             S == {i \in DOMAIN s : s[i].key < x}
             T == {i \in DOMAIN s : s[i].key <= x}
  <1>1. /\ DOMAIN s = 1..Len(s) /\ Len(s) \in Nat
        /\ \A i \in 1..Len(s) : s[i].key \in Int
    BY RangeHas DEF KeyedBy
  <1>2. ASSUME NEW i \in 1..Len(s), NEW j \in 1..i
        PROVE  j \in 1..Len(s) /\ s[j].key <= s[i].key
    <2>1. j \in 1..Len(s) /\ j <= i
      BY <1>1
    <2> QED
      BY <2>1, KeyOrder
  <1>3. \A i \in S : \A j \in 1..i : j \in S
    BY <1>1, <1>2
  <1>4. \A i \in T : \A j \in 1..i : j \in T
    BY <1>1, <1>2
  <1>5. Cardinality(S) \in 0..Len(s) /\ S = 1..Cardinality(S)
    <2>1. S \in SUBSET (1..Len(s))
      BY <1>1
    <2> HIDE DEF S
    <2> QED
      BY <1>1, <1>3, <2>1, Counted
  <1>6. Cardinality(T) \in 0..Len(s) /\ T = 1..Cardinality(T)
    <2>1. T \in SUBSET (1..Len(s))
      BY <1>1
    <2> HIDE DEF T
    <2> QED
      BY <1>1, <1>4, <2>1, Counted
  <1>7. LowerBound(n, x) = 1 + Cardinality(S) /\ LessOrEqualBound(n, x) = Cardinality(T)
    BY DEF LowerBound, LessOrEqualBound
  <1>8. \A i \in 1..Len(s) : (s[i].key < x <=> i \in S) /\ (s[i].key <= x <=> i \in T)
    BY <1>1
  <1> HIDE DEF S, T, s
  <1>9. \A i \in 1..Len(s) : /\ s[i].key < x <=> i < 1 + Cardinality(S)
                             /\ s[i].key <= x <=> i <= Cardinality(T)
    <2> TAKE i \in 1..Len(s)
    <2>1. i \in S <=> i < 1 + Cardinality(S)
      BY <1>1, <1>5
    <2>2. i \in T <=> i <= Cardinality(T)
      BY <1>1, <1>6
    <2> QED
      BY <1>8, <2>1, <2>2
  <1>10. 1 + Cardinality(S) \in 1..Len(s)+1
    BY <1>1, <1>5
  <1> QED
    BY <1>6, <1>7, <1>9, <1>10 DEF s
-----------------------------------------------------------------------------
(* The shape of a tree d with root r and nodes N.  Each node has a level   *)
(* and an upper limit of the keys under it, which the program does not     *)
(* keep.                                                                   *)

Ent(d, q) == Range(d[q].entries)

(* Keys are numbers, each once in a node. *)
Keyed(d, N) ==
    \A q \in N : \A e, f \in Ent(d, q) : e.key \in Int /\ (e.key = f.key => e = f)

(* The root is above all others, the leaves are at the bottom. *)
Ranked(d, r, N, level) ==
    /\ r \in N /\ d[r].parent = Null /\ Null \notin N
    /\ level \in [N -> Nat]
    /\ \A q \in N : d[q].leaf <=> level[q] = 0
    /\ \A q \in N \ {r} : level[q] < level[r]

(* Every node but the root has keys, and a father that knows it. *)
Fathered(d, r, N, level) ==
    \A q \in N \ {r} :
        /\ Ent(d, q) # {}
        /\ d[q].parent \in N /\ level[d[q].parent] # 0
        /\ \E e \in Ent(d, d[q].parent) : e.child = q

(* A child knows its father, and its keys are not below the father's. *)
Kids(d, N, level) ==
    \A q \in N : level[q] # 0 => \A e \in Ent(d, q) :
        /\ e.child \in N /\ d[e.child].parent = q /\ level[e.child] + 1 = level[q]
        /\ e.over = Null
        /\ \A h \in Ent(d, e.child) : e.key <= h.key

(* All keys of a node are below its limit, and the limit of a child is not *)
(* above the father's, nor above the father's key of a later child.        *)
Limited(d, N, level, hi) ==
    /\ hi \in [N -> Int]
    /\ \A q \in N : \A e \in Ent(d, q) :
        /\ e.key < hi[q]
        /\ level[q] # 0 => /\ hi[e.child] <= hi[q]
                           /\ \A f \in Ent(d, q) : e.key < f.key => hi[e.child] <= f.key

Shape(d, r, N, level, hi) ==
    /\ Keyed(d, N) /\ Ranked(d, r, N, level) /\ Fathered(d, r, N, level)
    /\ Kids(d, N, level) /\ Limited(d, N, level, hi)

(* A father knows a child once. *)
LEMMA OneEntry ==
    ASSUME NEW d, NEW r, NEW N, NEW level, NEW hi, Shape(d, r, N, level, hi)
    PROVE  /\ \A q \in N : level[q] # 0 =>
                \A e, f \in Ent(d, q) : e.child = f.child => e = f
           /\ \A q \in N : level[q] # 0 => \A e \in Ent(d, q) : e.child # r
           /\ \A p, q \in N : level[p] # 0 /\ level[q] # 0 =>
                \A e \in Ent(d, p), f \in Ent(d, q) : e.child = f.child => p = q /\ e = f
  <1>1. ASSUME NEW q \in N, level[q] # 0, NEW e \in Ent(d, q) PROVE e.child \in N \ {r}
    BY <1>1 DEF Shape, Kids, Ranked
  <1>2. ASSUME NEW q \in N, level[q] # 0, NEW e \in Ent(d, q), NEW f \in Ent(d, q),
               e.child = f.child, e.key < f.key
        PROVE  FALSE
    <2>1. PICK h \in Ent(d, f.child) : TRUE
      BY <1>1, <1>2 DEF Shape, Fathered
    <2>2. f.key <= h.key /\ h.key < hi[f.child] /\ hi[f.child] <= f.key
      BY <1>1, <1>2 DEF Shape, Kids, Limited
    <2>3. f.key \in Int /\ h.key \in Int /\ hi[f.child] \in Int
      BY <1>1, <1>2 DEF Shape, Keyed, Limited
    <2> QED
      BY <2>2, <2>3
  <1>3. ASSUME NEW q \in N, level[q] # 0, NEW e \in Ent(d, q), NEW f \in Ent(d, q),
               e.child = f.child
        PROVE  e = f
    <2>1. e.key \in Int /\ f.key \in Int /\ (e.key = f.key => e = f)
      BY DEF Shape, Keyed
    <2> QED
      BY <1>2, <1>3, <2>1
  <1>4. ASSUME NEW p \in N, NEW q \in N, level[p] # 0, level[q] # 0,
               NEW e \in Ent(d, p), NEW f \in Ent(d, q), e.child = f.child
        PROVE  p = q
    BY <1>4 DEF Shape, Kids
  <1> QED
    BY <1>1, <1>3, <1>4

(* The keys of two children are in the order of their father's, and so are *)
(* the limits.                                                             *)
LEMMA Neighbours ==
    ASSUME NEW d, NEW r, NEW N, NEW level, NEW hi, Shape(d, r, N, level, hi),
           NEW q \in N, level[q] # 0, NEW e \in Ent(d, q), NEW f \in Ent(d, q), e.key < f.key
    PROVE  /\ hi[e.child] <= f.key /\ f.key < hi[f.child] /\ hi[f.child] <= hi[q]
           /\ \A a \in Ent(d, e.child) : e.key <= a.key /\ a.key < f.key
  <1>1. e.child \in N \ {r} /\ f.child \in N \ {r}
    BY OneEntry DEF Shape, Kids
  <1>2. hi[e.child] \in Int /\ hi[f.child] \in Int /\ e.key \in Int /\ f.key \in Int /\ hi[q] \in Int
    BY <1>1 DEF Shape, Limited, Keyed
  <1>3. PICK h \in Ent(d, f.child) : TRUE
    BY <1>1 DEF Shape, Fathered
  <1>4. hi[e.child] <= f.key /\ f.key <= h.key /\ h.key < hi[f.child] /\ hi[f.child] <= hi[q]
    BY <1>1 DEF Shape, Limited, Kids
  <1>5. h.key \in Int
    BY <1>1 DEF Shape, Keyed
  <1>6. ASSUME NEW a \in Ent(d, e.child) PROVE e.key <= a.key /\ a.key < f.key
    <2>1. e.key <= a.key /\ a.key < hi[e.child] /\ a.key \in Int
      BY <1>1 DEF Shape, Kids, Limited, Keyed
    <2> QED
      BY <1>2, <1>4, <2>1
  <1> QED
    BY <1>2, <1>4, <1>5, <1>6
(* A node q splits: the entries B go to a new node, which the father gets  *)
(* to know by the first key of B.                                          *)
IsSplit(d, d2, r, N, level, hi, level2, hi2, q, f, new, A, B, b, known) ==
    /\ q \in N \ {r} /\ f = d[q].parent /\ new \notin N /\ new # Null
    /\ A # {} /\ A \union B = Ent(d, q) /\ Below(A, B)
    /\ b \in B /\ \A e \in B : b.key <= e.key
    /\ known.key = b.key /\ known.child = new /\ known.over = Null
    /\ \A p \in N \union {new} :
          Ent(d2, p) = IF p = q THEN A ELSE IF p = new THEN B
                       ELSE IF p = f THEN Ent(d, f) \union {known} ELSE Ent(d, p)
    /\ \A p \in N \union {new} : d2[p].leaf = IF p = new THEN d[q].leaf ELSE d[p].leaf
    /\ \A p \in N \union {new} :
          d2[p].parent = IF p = new THEN f
                         ELSE IF ~d[q].leaf /\ \E e \in B : e.child = p THEN new
                         ELSE d[p].parent
    /\ level2 \in [N \union {new} -> Nat] /\ hi2 \in [N \union {new} -> Int]
    /\ \A p \in N \union {new} :
          /\ level2[p] = IF p = new THEN level[q] ELSE level[p]
          /\ hi2[p] = IF p = q THEN b.key ELSE IF p = new THEN hi[q] ELSE hi[p]

LEMMA ShapeSplits ==
    ASSUME NEW d, NEW d2, NEW r, NEW N, NEW level, NEW hi, Shape(d, r, N, level, hi),
           NEW l, NEW lim, NEW q, NEW f, NEW new, NEW A, NEW B, NEW b, NEW known,
           IsSplit(d, d2, r, N, level, hi, l, lim, q, f, new, A, B, b, known)
    PROVE  Shape(d2, r, N \union {new}, l, lim)
<1> /\ q \in N \ {r} /\ f = d[q].parent /\ new \notin N /\ new # Null
    /\ A # {} /\ A \union B = Ent(d, q) /\ Below(A, B)
    /\ b \in B /\ \A e \in B : b.key <= e.key
    /\ known.key = b.key /\ known.child = new /\ known.over = Null
  BY DEF IsSplit
<1> /\ \A p \in N \union {new} :
          Ent(d2, p) = IF p = q THEN A ELSE IF p = new THEN B
                       ELSE IF p = f THEN Ent(d, f) \union {known} ELSE Ent(d, p)
    /\ \A p \in N \union {new} : d2[p].leaf = IF p = new THEN d[q].leaf ELSE d[p].leaf
    /\ \A p \in N \union {new} :
          d2[p].parent = IF p = new THEN f
                         ELSE IF ~d[q].leaf /\ \E e \in B : e.child = p THEN new
                         ELSE d[p].parent
  BY DEF IsSplit
<1> DEFINE M == N \union {new}
           level2 == [p \in M |-> IF p = new THEN level[q] ELSE level[p]]
           hi2 == [p \in M |-> IF p = q THEN b.key ELSE IF p = new THEN hi[q] ELSE hi[p]]
<1>1. /\ f \in N /\ f # new /\ q # new /\ level[f] # 0 /\ level[q] + 1 = level[f] /\ f # q
      /\ level[q] \in Nat /\ level[f] \in Nat
      /\ A \subseteq Ent(d, q) /\ B \subseteq Ent(d, q)
      /\ d[q].leaf <=> level[q] = 0
  <2>1. f \in N /\ level[f] # 0 /\ \E e \in Ent(d, f) : e.child = q
    BY DEF Shape, Fathered
  <2>2. level[q] + 1 = level[f] /\ level[q] \in Nat /\ level[f] \in Nat
    BY <2>1 DEF Shape, Kids, Ranked
  <2>3. d[q].leaf <=> level[q] = 0
    BY DEF Shape, Ranked
  <2> QED
    BY <2>1, <2>2, <2>3
<1>2. PICK g \in Ent(d, f) : g.child = q
  BY DEF Shape, Fathered
<1>3. \A p \in N : \A e \in Ent(d, p) : e.key \in Int
  BY DEF Shape, Keyed
<1>4. /\ b.key \in Int /\ g.key \in Int /\ hi[q] \in Int
      /\ g.key < b.key /\ b.key < hi[q]
      /\ \A e \in A : e.key \in Int /\ g.key <= e.key /\ e.key < b.key
      /\ \A e \in B : e.key \in Int /\ b.key <= e.key /\ e.key < hi[q]
  <2>1. b.key \in Int /\ g.key \in Int /\ hi[q] \in Int
    BY <1>1, <1>2, <1>3 DEF Shape, Limited
  <2>2. \A e \in A : e.key \in Int /\ g.key <= e.key /\ e.key < b.key
    BY <1>1, <1>2, <1>3 DEF Shape, Kids, Below
  <2>3. \A e \in B : e.key \in Int /\ b.key <= e.key /\ e.key < hi[q]
    BY <1>1, <1>3 DEF Shape, Limited
  <2>4. PICK a \in A : TRUE
    OBVIOUS
  <2> QED
    BY <2>1, <2>2, <2>3, <2>4
<1>5. \A e \in Ent(d, f) : e # g => (e.key < g.key \/ b.key < e.key)
  <2> SUFFICES ASSUME NEW e \in Ent(d, f), e # g PROVE e.key < g.key \/ b.key < e.key
    OBVIOUS
  <2>1. e.key \in Int /\ e.key # g.key
    BY <1>1, <1>2 DEF Shape, Keyed
  <2>2. g.key < e.key => hi[q] <= e.key
    BY <1>1, <1>2 DEF Shape, Limited
  <2> QED
    BY <1>4, <2>1, <2>2
<1>6. /\ Ent(d2, q) = A /\ Ent(d2, new) = B /\ Ent(d2, f) = Ent(d, f) \union {known}
      /\ \A p \in N \ {q, f} : Ent(d2, p) = Ent(d, p)
  BY <1>1
<1>7. \A p \in M : level2[p] \in Nat /\ hi2[p] \in Int /\ (d2[p].leaf <=> level2[p] = 0)
  BY <1>1, <1>4 DEF Shape, Ranked, Limited
<1>8. Keyed(d2, M)
  <2> SUFFICES ASSUME NEW p \in M, NEW x \in Ent(d2, p), NEW y \in Ent(d2, p)
               PROVE  x.key \in Int /\ (x.key = y.key => x = y)
    BY DEF Keyed
  <2>1. CASE p = q \/ p = new
    <3>1. x \in Ent(d, q) /\ y \in Ent(d, q)
      BY <1>1, <1>6, <2>1
    <3> QED
      BY <3>1 DEF Shape, Keyed
  <2>2. CASE p = f
    <3>1. \A e \in Ent(d, f) : e.key # known.key
      BY <1>1, <1>3, <1>4, <1>5
    <3>2. known.key \in Int
      BY <1>4
    <3>3. x \in Ent(d, f) \union {known} /\ y \in Ent(d, f) \union {known}
      BY <1>6, <2>2
    <3> QED
      BY <1>1, <3>1, <3>2, <3>3 DEF Shape, Keyed
  <2>3. CASE p \notin {q, new, f}
    BY <1>6, <2>3 DEF Shape, Keyed
  <2> QED
    BY <2>1, <2>2, <2>3
<1>9. Ranked(d2, r, M, level2)
  <2>1. d2[r].parent = Null /\ r \in M
    <3>1. r \in N /\ d[r].parent = Null
      BY DEF Shape, Ranked
    <3>2. r # new /\ ~(~d[q].leaf /\ \E e \in B : e.child = r)
      BY <1>1, <3>1, OneEntry
    <3> QED
      BY <3>1, <3>2
  <2>2. Null \notin M /\ level2 \in [M -> Nat] /\ \A p \in M : d2[p].leaf <=> level2[p] = 0
    BY <1>7 DEF Shape, Ranked
  <2>3. \A p \in M \ {r} : level2[p] < level2[r]
    BY <1>1 DEF Shape, Ranked
  <2> HIDE DEF level2, M
  <2> QED
    BY <2>1, <2>2, <2>3 DEF Ranked
<1>10. Fathered(d2, r, M, level2)
  <2> SUFFICES ASSUME NEW p \in M \ {r}
               PROVE  /\ Ent(d2, p) # {}
                      /\ d2[p].parent \in M /\ level2[d2[p].parent] # 0
                      /\ \E e \in Ent(d2, d2[p].parent) : e.child = p
    BY DEF Fathered
  <2>1. Ent(d2, p) # {}
    BY <1>1, <1>6 DEF Shape, Fathered
  <2>2. CASE p = new
    BY <1>1, <1>6, <2>1, <2>2
  <2>3. CASE p # new /\ ~d[q].leaf /\ \E e \in B : e.child = p
    BY <1>1, <1>6, <2>1, <2>3
  <2>4. CASE p # new /\ ~(~d[q].leaf /\ \E e \in B : e.child = p)
    <3>1. /\ d2[p].parent = d[p].parent /\ d[p].parent \in N /\ level[d[p].parent] # 0
          /\ \E e \in Ent(d, d[p].parent) : e.child = p
      BY <2>4 DEF Shape, Fathered
    <3>2. \E e \in Ent(d2, d[p].parent) : e.child = p
      <4>1. CASE d[p].parent = q
        BY <1>1, <1>6, <2>4, <3>1, <4>1
      <4>2. CASE d[p].parent # q
        BY <1>6, <3>1, <4>2
      <4> QED
        BY <4>1, <4>2
    <3> QED
      BY <2>1, <3>1, <3>2
  <2> QED
    BY <2>2, <2>3, <2>4
<1>11. Kids(d2, M, level2)
  <2> SUFFICES ASSUME NEW p \in M, level2[p] # 0, NEW e \in Ent(d2, p)
               PROVE  /\ e.child \in M /\ d2[e.child].parent = p
                      /\ level2[e.child] + 1 = level2[p] /\ e.over = Null
                      /\ \A h \in Ent(d2, e.child) : e.key <= h.key
    <3> HIDE DEF M, level2
    <3> QED
      BY DEF Kids
  <2>1. CASE e = known /\ p = f
    BY <1>1, <1>4, <1>6, <2>1
  <2>2. ASSUME NEW o \in N, level[o] # 0, e \in Ent(d, o), level2[p] = level[o],
               o = p \/ (o = q /\ p = new),
               p = q => e \in A, p = new => e \in B
        PROVE  /\ e.child \in M /\ d2[e.child].parent = p
               /\ level2[e.child] + 1 = level2[p] /\ e.over = Null
               /\ \A h \in Ent(d2, e.child) : e.key <= h.key
    <3>1. /\ e.child \in N /\ d[e.child].parent = o /\ level[e.child] + 1 = level[o]
          /\ e.over = Null /\ \A h \in Ent(d, e.child) : e.key <= h.key
      BY <2>2 DEF Shape, Kids
    <3>2. d2[e.child].parent = p
      <4>1. \A x \in B : x.child = e.child /\ ~d[q].leaf => o = q /\ x = e
        BY <1>1, <2>2, OneEntry
      <4>2. A \intersect B = {}
        BY <1>4
      <4> QED
        BY <1>1, <2>2, <3>1, <4>1, <4>2
    <3>3. \A h \in Ent(d2, e.child) : e.key <= h.key
      <4>1. CASE e.child # f
        BY <1>1, <1>6, <3>1, <4>1
      <4>2. CASE e.child = f
        <5>1. e.key <= g.key /\ e.key \in Int
          BY <1>2, <1>3, <2>2, <3>1, <4>2
        <5>2. e.key <= known.key
          BY <1>4, <5>1
        <5> QED
          BY <1>6, <3>1, <4>2, <5>2
      <4> QED
        BY <4>1, <4>2
    <3> QED
      BY <2>2, <3>1, <3>2, <3>3
  <2>3. CASE ~(e = known /\ p = f)
    <3>1. CASE p = new
      BY <1>1, <1>6, <2>2, <3>1
    <3>2. CASE p # new
      <4>1. p \in N /\ level2[p] = level[p] /\ e \in Ent(d, p) /\ (p = q => e \in A)
        BY <1>1, <1>6, <2>3, <3>2
      <4> QED
        BY <2>2, <3>2, <4>1
    <3> QED
      BY <3>1, <3>2
  <2> QED
    BY <2>1, <2>3
<1>12. Limited(d2, M, level2, hi2)
  <2>1. hi2 \in [M -> Int]
    BY <1>7
  <2>2. \A p \in N : hi2[p] <= hi[p] /\ (p # q => hi2[p] = hi[p]) /\ hi[p] \in Int
    BY <1>1, <1>4 DEF Shape, Limited
  <2>3. hi2[new] = hi[q] /\ hi2[q] = b.key
    BY <1>1
  <2> SUFFICES ASSUME NEW p \in M, NEW e \in Ent(d2, p)
               PROVE  /\ e.key < hi2[p]
                      /\ level2[p] # 0 =>
                           /\ hi2[e.child] <= hi2[p]
                           /\ \A x \in Ent(d2, p) : e.key < x.key => hi2[e.child] <= x.key
    BY <2>1 DEF Limited
  <2>4. CASE p = new
    <3>1. e \in B /\ e \in Ent(d, q) /\ e.key < hi[q] /\ level2[p] = level[q]
      BY <1>1, <1>4, <1>6, <2>4
    <3>2. ASSUME level[q] # 0
          PROVE  /\ hi2[e.child] <= hi[q]
                 /\ \A x \in B : e.key < x.key => hi2[e.child] <= x.key
      <4>1. e.child \in N /\ hi[e.child] <= hi[q] /\ hi[e.child] \in Int
        BY <3>1, <3>2 DEF Shape, Kids, Limited
      <4>2. \A x \in B : e.key < x.key => hi[e.child] <= x.key
        BY <1>1, <3>1, <3>2 DEF Shape, Limited
      <4>3. e.child # q
        BY <1>1, <3>1, <3>2 DEF Shape, Kids
      <4> QED
        BY <2>2, <4>1, <4>2, <4>3
    <3> QED
      BY <1>6, <2>3, <2>4, <3>1, <3>2
  <2>5. CASE p = q
    <3>1. e \in A /\ e \in Ent(d, q) /\ e.key < b.key /\ level2[p] = level[q]
      BY <1>1, <1>4, <1>6, <2>5
    <3>2. ASSUME level[q] # 0
          PROVE  /\ hi2[e.child] <= b.key
                 /\ \A x \in A : e.key < x.key => hi2[e.child] <= x.key
      <4>1. e.child \in N /\ hi[e.child] \in Int
        BY <3>1, <3>2 DEF Shape, Kids, Limited
      <4>2. \A x \in Ent(d, q) : e.key < x.key => hi[e.child] <= x.key
        BY <3>1, <3>2 DEF Shape, Limited
      <4>3. e.child # q
        BY <1>1, <3>1, <3>2 DEF Shape, Kids
      <4>4. hi[e.child] <= b.key
        BY <1>1, <3>1, <4>2
      <4> QED
        BY <1>1, <2>2, <4>1, <4>2, <4>3, <4>4
    <3> QED
      BY <1>6, <2>3, <2>5, <3>1, <3>2
  <2>6. CASE p = f
    <3>1. hi2[p] = hi[f] /\ level2[p] = level[f] /\ hi[f] \in Int
      BY <1>1, <2>2, <2>6
    <3>2. hi[q] <= hi[f] /\ \A x \in Ent(d, f) : b.key < x.key => hi[q] <= x.key
      <4>1. hi[q] <= hi[f] /\ \A x \in Ent(d, f) : g.key < x.key => hi[q] <= x.key
        BY <1>1, <1>2 DEF Shape, Limited
      <4> QED
        BY <1>1, <1>3, <1>4, <4>1
    <3>3. CASE e = known
      <4>1. e.key < hi[f] /\ hi2[e.child] = hi[q]
        BY <1>4, <2>3, <3>1, <3>2, <3>3
      <4>2. \A x \in Ent(d2, f) : e.key < x.key => hi2[e.child] <= x.key
        BY <1>4, <1>6, <3>2, <3>3, <4>1
      <4> QED
        BY <2>6, <3>1, <3>2, <4>1, <4>2
    <3>4. CASE e = g
      <4>1. e.child = q /\ hi2[e.child] = b.key
        BY <1>2, <2>3, <3>4
      <4>2. e.key < hi[f] /\ b.key <= hi[f]
        BY <1>1, <1>2, <1>4, <3>1, <3>2, <3>4
      <4>3. \A x \in Ent(d2, f) : e.key < x.key => b.key <= x.key
        <5> TAKE x \in Ent(d2, f)
        <5>1. x = known \/ (x \in Ent(d, f) /\ x.key \in Int)
          BY <1>1, <1>3, <1>6
        <5> QED
          BY <1>4, <1>5, <3>4, <5>1
      <4> QED
        BY <2>6, <3>1, <4>1, <4>2, <4>3
    <3>5. CASE e # known /\ e # g
      <4>1. e \in Ent(d, f) /\ e.key < hi[f] /\ e.key \in Int
        BY <1>1, <1>3, <1>6, <2>6, <3>5 DEF Shape, Limited
      <4>2. e.child \in N /\ e.child # q /\ hi2[e.child] = hi[e.child] /\ hi[e.child] \in Int
        BY <1>1, <1>2, <2>2, <3>5, <4>1, OneEntry DEF Shape, Kids
      <4>3. hi[e.child] <= hi[f] /\ \A x \in Ent(d, f) : e.key < x.key => hi[e.child] <= x.key
        BY <1>1, <4>1 DEF Shape, Limited
      <4>4. e.key < b.key => hi[e.child] <= b.key
        BY <1>2, <1>4, <1>5, <3>5, <4>1, <4>2, <4>3
      <4>5. \A x \in Ent(d2, f) : e.key < x.key => hi[e.child] <= x.key
        BY <1>6, <4>3, <4>4
      <4> QED
        BY <2>6, <3>1, <4>1, <4>2, <4>3, <4>5
    <3> QED
      BY <3>3, <3>4, <3>5
  <2>7. CASE p \notin {q, new, f}
    <3>1. p \in N /\ Ent(d2, p) = Ent(d, p) /\ hi2[p] = hi[p] /\ level2[p] = level[p]
      BY <1>6, <2>7
    <3>2. e.key < hi[p]
      BY <3>1 DEF Shape, Limited
    <3>3. ASSUME level[p] # 0
          PROVE  hi2[e.child] <= hi[p] /\ \A x \in Ent(d, p) : e.key < x.key => hi2[e.child] <= x.key
      <4>1. e.child \in N /\ d[e.child].parent = p
        BY <3>1, <3>3 DEF Shape, Kids
      <4>2. hi2[e.child] = hi[e.child]
        BY <2>2, <2>7, <4>1
      <4>3. hi[e.child] <= hi[p] /\ \A x \in Ent(d, p) : e.key < x.key => hi[e.child] <= x.key
        BY <3>1, <3>3 DEF Shape, Limited
      <4> QED
        BY <4>2, <4>3
    <3> QED
      BY <3>1, <3>2, <3>3
  <2> QED
    BY <2>4, <2>5, <2>6, <2>7
<1> HIDE DEF M, level2, hi2
<1>13. Shape(d2, r, M, level2, hi2)
  BY <1>8, <1>9, <1>10, <1>11, <1>12 DEF Shape
<1>14. l = level2 /\ lim = hi2
  BY DEF IsSplit, M, level2, hi2
<1> QED
  BY <1>13, <1>14 DEF M

(* Two children of f, the left one a and the right one b. *)
LEMMA Couple ==
    ASSUME NEW d, NEW r, NEW N, NEW level, NEW hi, Shape(d, r, N, level, hi),
           NEW f \in N, level[f] # 0, NEW gl \in Ent(d, f), NEW gr \in Ent(d, f),
           gl.key < gr.key, NEW a, a = gl.child, NEW b, b = gr.child
    PROVE  LET U == Ent(d, a) \union Ent(d, b)
           IN  /\ a \in N \ {r} /\ b \in N \ {r} /\ a # b /\ a # f /\ b # f
               /\ level[a] = level[b] /\ level[a] + 1 = level[f] /\ level[a] \in Nat
               /\ d[a].parent = f /\ d[b].parent = f
               /\ gl.key \in Int /\ gr.key \in Int /\ hi[a] \in Int /\ hi[b] \in Int /\ hi[f] \in Int
               /\ hi[a] <= gr.key /\ gr.key < hi[b] /\ hi[b] <= hi[f]
               /\ \A e \in Ent(d, a) : e.key < gr.key /\ gl.key <= e.key
               /\ \A e \in Ent(d, b) : gr.key <= e.key
               /\ Below(Ent(d, a), Ent(d, b))
               /\ \A e \in U : e.key \in Int /\ gl.key <= e.key /\ e.key < hi[b]
               /\ \A e, x \in U : e.key = x.key => e = x
               /\ level[a] # 0 => \A e \in U :
                    /\ e.child \in N /\ level[e.child] + 1 = level[a] /\ e.over = Null
                    /\ d[e.child].parent = (IF e \in Ent(d, a) THEN a ELSE b)
                    /\ hi[e.child] <= hi[b] /\ hi[e.child] \in Int
                    /\ \A x \in U : /\ e.key < x.key => hi[e.child] <= x.key
                                    /\ e.child = x.child => e = x
<1> DEFINE U == Ent(d, a) \union Ent(d, b)
<1>1. /\ a \in N \ {r} /\ b \in N \ {r} /\ level[a] = level[b] /\ level[a] + 1 = level[f]
      /\ level[a] \in Nat /\ d[a].parent = f /\ d[b].parent = f /\ a # f /\ b # f
  <2>1. /\ a \in N /\ b \in N /\ level[a] + 1 = level[f] /\ level[b] + 1 = level[f]
        /\ d[a].parent = f /\ d[b].parent = f
    BY DEF Shape, Kids
  <2>2. level[a] \in Nat /\ level[b] \in Nat
    BY <2>1 DEF Shape, Ranked
  <2>3. a # r /\ b # r
    BY OneEntry
  <2> QED
    BY <2>1, <2>2, <2>3
<1>2. gl.key \in Int /\ gr.key \in Int /\ hi[a] \in Int /\ hi[b] \in Int /\ hi[f] \in Int
  BY <1>1 DEF Shape, Keyed, Limited
<1>3. a # b
  <2>1. gl # gr
    BY <1>2
  <2> QED
    BY <2>1, OneEntry
<1>4. hi[a] <= gr.key /\ gr.key < hi[b] /\ hi[b] <= hi[f]
  BY Neighbours
<1>5. \A e \in Ent(d, a) : e.key \in Int /\ e.key < hi[a] /\ gl.key <= e.key
  BY <1>1 DEF Shape, Keyed, Limited, Kids
<1>6. \A e \in Ent(d, b) : e.key \in Int /\ e.key < hi[b] /\ gr.key <= e.key
  BY <1>1 DEF Shape, Keyed, Limited, Kids
<1>7. /\ \A e \in Ent(d, a) : e.key < gr.key
      /\ \A e \in U : e.key \in Int /\ gl.key <= e.key /\ e.key < hi[b]
  BY <1>2, <1>4, <1>5, <1>6
<1>8. Below(Ent(d, a), Ent(d, b))
  BY <1>2, <1>5, <1>6, <1>7 DEF Below
<1>9. ASSUME NEW e \in U, NEW x \in U, e.key = x.key PROVE e = x
  <2>1. \A p \in {a, b} : \A y, z \in Ent(d, p) : y.key = z.key => y = z
    BY <1>1 DEF Shape, Keyed
  <2>2. e \in Ent(d, a) <=> x \in Ent(d, a)
    BY <1>2, <1>5, <1>6, <1>7, <1>9
  <2> QED
    BY <1>9, <2>1, <2>2
<1>10. ASSUME level[a] # 0, NEW e \in U
       PROVE  /\ e.child \in N /\ level[e.child] + 1 = level[a] /\ e.over = Null
              /\ d[e.child].parent = (IF e \in Ent(d, a) THEN a ELSE b)
              /\ hi[e.child] <= hi[b] /\ hi[e.child] \in Int
              /\ \A x \in U : /\ e.key < x.key => hi[e.child] <= x.key
                              /\ e.child = x.child => e = x
  <2>1. /\ e.child \in N /\ level[e.child] + 1 = level[a] /\ e.over = Null
        /\ d[e.child].parent = (IF e \in Ent(d, a) THEN a ELSE b)
    BY <1>1, <1>10 DEF Shape, Kids
  <2>2. hi[e.child] \in Int
    BY <2>1 DEF Shape, Limited
  <2>3. CASE e \in Ent(d, a)
    <3>1. hi[e.child] <= hi[a] /\ \A x \in Ent(d, a) : e.key < x.key => hi[e.child] <= x.key
      BY <1>1, <1>10, <2>3 DEF Shape, Limited
    <3>2. hi[e.child] <= gr.key
      BY <1>2, <1>4, <2>2, <3>1
    <3>3. \A x \in Ent(d, b) : hi[e.child] <= x.key
      BY <1>2, <1>6, <2>2, <3>2
    <3>4. hi[e.child] <= hi[b]
      BY <1>2, <1>4, <2>2, <3>2
    <3> QED
      BY <1>1, <1>10, <2>1, <2>2, <3>1, <3>3, <3>4, OneEntry
  <2>4. CASE e \in Ent(d, b)
    <3>1. hi[e.child] <= hi[b] /\ \A x \in Ent(d, b) : e.key < x.key => hi[e.child] <= x.key
      BY <1>1, <1>10, <2>4 DEF Shape, Limited
    <3>2. \A x \in Ent(d, a) : ~(e.key < x.key)
      BY <1>2, <1>5, <1>6, <1>7, <2>4
    <3> QED
      BY <1>1, <1>10, <2>1, <2>2, <3>1, <3>2, OneEntry
  <2> QED
    BY <2>3, <2>4
<1> HIDE DEF U
<1> QED
  BY <1>1, <1>2, <1>3, <1>4, <1>5, <1>6, <1>7, <1>8, <1>9, <1>10 DEF U
(* Two neighbours under f share their entries anew, A to the left and B to *)
(* the right, and the father's key of the right one follows.               *)
IsLoan(d, d2, N, level, f, gl, gr, a, b, A, B, first, known) ==
    /\ f \in N /\ level[f] # 0 /\ gl \in Ent(d, f) /\ gr \in Ent(d, f)
    /\ gl.key < gr.key /\ \A x \in Ent(d, f) : x.key <= gl.key \/ gr.key <= x.key
    /\ a = gl.child /\ b = gr.child
    /\ A # {} /\ A \union B = Ent(d, a) \union Ent(d, b) /\ Below(A, B)
    /\ first \in B /\ \A e \in B : first.key <= e.key
    /\ known.key = first.key /\ known.child = b /\ known.over = Null
    /\ \A p \in N : Ent(d2, p) = IF p = a THEN A ELSE IF p = b THEN B
                    ELSE IF p = f THEN (Ent(d, f) \ {gr}) \union {known} ELSE Ent(d, p)
    /\ \A p \in N : d2[p].leaf = d[p].leaf
    /\ \A p \in N : d2[p].parent =
            IF level[a] # 0 /\ \E e \in A : e.child = p THEN a
            ELSE IF level[a] # 0 /\ \E e \in B : e.child = p THEN b ELSE d[p].parent

LEMMA ShapeLends ==
    ASSUME NEW d, NEW d2, NEW r, NEW N, NEW level, NEW hi, Shape(d, r, N, level, hi),
           NEW f, NEW gl, NEW gr, NEW a, NEW b, NEW A, NEW B, NEW first, NEW known,
           IsLoan(d, d2, N, level, f, gl, gr, a, b, A, B, first, known)
    PROVE  \E h : Shape(d2, r, N, level, h)
<1> /\ f \in N /\ level[f] # 0 /\ gl \in Ent(d, f) /\ gr \in Ent(d, f)
    /\ gl.key < gr.key /\ \A x \in Ent(d, f) : x.key <= gl.key \/ gr.key <= x.key
    /\ a = gl.child /\ b = gr.child
    /\ A # {} /\ A \union B = Ent(d, a) \union Ent(d, b) /\ Below(A, B)
    /\ first \in B /\ \A e \in B : first.key <= e.key
    /\ known.key = first.key /\ known.child = b /\ known.over = Null
  BY DEF IsLoan
<1> /\ \A p \in N : Ent(d2, p) = IF p = a THEN A ELSE IF p = b THEN B
                    ELSE IF p = f THEN (Ent(d, f) \ {gr}) \union {known} ELSE Ent(d, p)
    /\ \A p \in N : d2[p].leaf = d[p].leaf
    /\ \A p \in N : d2[p].parent =
            IF level[a] # 0 /\ \E e \in A : e.child = p THEN a
            ELSE IF level[a] # 0 /\ \E e \in B : e.child = p THEN b ELSE d[p].parent
  BY DEF IsLoan
<1> DEFINE U == Ent(d, a) \union Ent(d, b)
           hi2 == [hi EXCEPT ![a] = first.key]
<1>1. /\ a \in N \ {r} /\ b \in N \ {r} /\ a # b /\ a # f /\ b # f
      /\ level[a] = level[b] /\ level[a] + 1 = level[f] /\ level[a] \in Nat
      /\ d[a].parent = f /\ d[b].parent = f
      /\ gl.key \in Int /\ gr.key \in Int /\ hi[a] \in Int /\ hi[b] \in Int /\ hi[f] \in Int
      /\ hi[a] <= gr.key /\ gr.key < hi[b] /\ hi[b] <= hi[f]
  BY Couple
<1>2. /\ \A e \in U : e.key \in Int /\ gl.key <= e.key /\ e.key < hi[b]
      /\ \A e, x \in U : e.key = x.key => e = x
  BY Couple
<1>3. level[a] # 0 => \A e \in U :
        /\ e.child \in N /\ level[e.child] + 1 = level[a] /\ e.over = Null
        /\ d[e.child].parent = (IF e \in Ent(d, a) THEN a ELSE b)
        /\ hi[e.child] <= hi[b] /\ hi[e.child] \in Int
        /\ \A x \in U : /\ e.key < x.key => hi[e.child] <= x.key
                        /\ e.child = x.child => e = x
  BY Couple
<1>4. A \subseteq U /\ B \subseteq U /\ A \union B = U /\ U # {}
  OBVIOUS
<1>5. /\ first.key \in Int /\ gl.key < first.key /\ first.key < hi[b]
      /\ \A e \in A : e.key < first.key /\ e.key \in Int /\ gl.key <= e.key
      /\ \A e \in B : e.key \in Int /\ e.key < hi[b]
  <2>1. PICK e \in A : TRUE
    OBVIOUS
  <2>2. first \in U /\ e \in U /\ e.key < first.key
    BY <1>4 DEF Below
  <2>3. \A x \in A : x.key < first.key
    BY DEF Below
  <2>4. gl.key \in Int
    BY <1>1
  <2> HIDE DEF U
  <2>5. first.key \in Int /\ e.key \in Int /\ gl.key <= e.key /\ first.key < hi[b]
    BY <1>2, <2>2
  <2> QED
    BY <1>2, <1>4, <2>2, <2>3, <2>4, <2>5
<1>6. /\ Ent(d2, a) = A /\ Ent(d2, b) = B /\ Ent(d2, f) = (Ent(d, f) \ {gr}) \union {known}
      /\ \A p \in N \ {a, b, f} : Ent(d2, p) = Ent(d, p)
  BY <1>1
<1> HIDE DEF U
<1>7. /\ hi \in [N -> Int] /\ hi2 \in [N -> Int] /\ hi2[a] = first.key
      /\ \A p \in N : p # a => hi2[p] = hi[p]
  <2>1. hi \in [N -> Int]
    BY DEF Shape, Limited
  <2> QED
    BY <1>1, <1>5, <2>1
<1>8. \A x \in Ent(d, f) : /\ x.key \in Int /\ (x.key = gl.key => x = gl) /\ (x.key = gr.key => x = gr)
                           /\ x # gr => x.key # first.key
                           /\ x # gr /\ first.key < x.key => gr.key < x.key
                           /\ x # gr /\ x.key < first.key => x.key <= gl.key
  <2> TAKE x \in Ent(d, f)
  <2>1. x.key \in Int /\ (x.key = gl.key => x = gl) /\ (x.key = gr.key => x = gr)
    BY DEF Shape, Keyed
  <2>2. gr.key < x.key => hi[b] <= x.key
    BY DEF Shape, Limited
  <2> QED
    BY <1>1, <1>5, <2>1, <2>2
<1>9. Keyed(d2, N)
  <2> SUFFICES ASSUME NEW p \in N, NEW x \in Ent(d2, p), NEW y \in Ent(d2, p)
               PROVE  x.key \in Int /\ (x.key = y.key => x = y)
    BY DEF Keyed
  <2>1. CASE p = a \/ p = b
    BY <1>2, <1>4, <1>6, <2>1
  <2>2. CASE p = f
    <3>1. x \in Ent(d, f) \ {gr} \/ x = known
      BY <1>6, <2>2
    <3>2. y \in Ent(d, f) \ {gr} \/ y = known
      BY <1>6, <2>2
    <3>3. \A v, w \in Ent(d, f) : v.key = w.key => v = w
      BY DEF Shape, Keyed
    <3> QED
      BY <1>5, <1>8, <3>1, <3>2, <3>3
  <2>3. CASE p \notin {a, b, f}
    BY <1>6, <2>3 DEF Shape, Keyed
  <2> QED
    BY <2>1, <2>2, <2>3
<1>10. Ranked(d2, r, N, level)
  <2>1. d2[r].parent = d[r].parent
    <3>1. r \in N
      BY DEF Shape, Ranked
    <3>2. level[a] # 0 => \A e \in U : e.child # r
      BY <1>1, OneEntry DEF U
    <3> QED
      BY <1>4, <3>1, <3>2
  <2> QED
    BY <2>1 DEF Shape, Ranked
<1>11. Fathered(d2, r, N, level)
  <2> SUFFICES ASSUME NEW p \in N \ {r}
               PROVE  /\ Ent(d2, p) # {}
                      /\ d2[p].parent \in N /\ level[d2[p].parent] # 0
                      /\ \E e \in Ent(d2, d2[p].parent) : e.child = p
    BY DEF Fathered
  <2>1. Ent(d2, p) # {}
    BY <1>1, <1>6 DEF Shape, Fathered
  <2>2. CASE level[a] # 0 /\ \E e \in A : e.child = p
    BY <1>1, <1>6, <2>1, <2>2
  <2>3. CASE level[a] # 0 /\ (\E e \in B : e.child = p) /\ ~\E e \in A : e.child = p
    BY <1>1, <1>6, <2>1, <2>3
  <2>4. CASE ~(level[a] # 0 /\ \E e \in U : e.child = p)
    <3>1. /\ d2[p].parent = d[p].parent /\ d[p].parent \in N /\ level[d[p].parent] # 0
          /\ \E e \in Ent(d, d[p].parent) : e.child = p
      BY <1>4, <2>4 DEF Shape, Fathered
    <3>2. d[p].parent # a /\ d[p].parent # b
      BY <1>1, <2>4, <3>1 DEF U
    <3>3. \E e \in Ent(d2, d[p].parent) : e.child = p
      <4>1. CASE d[p].parent = f
        BY <1>6, <3>1, <4>1
      <4>2. CASE d[p].parent # f
        BY <1>6, <3>1, <3>2, <4>2
      <4> QED
        BY <4>1, <4>2
    <3> QED
      BY <2>1, <3>1, <3>3
  <2> QED
    BY <1>4, <2>2, <2>3, <2>4
<1>12. Kids(d2, N, level)
  <2> SUFFICES ASSUME NEW p \in N, level[p] # 0, NEW e \in Ent(d2, p)
               PROVE  /\ e.child \in N /\ d2[e.child].parent = p
                      /\ level[e.child] + 1 = level[p] /\ e.over = Null
                      /\ \A h \in Ent(d2, e.child) : e.key <= h.key
    BY DEF Kids
  <2>1. CASE p = a \/ p = b
    <3>1. /\ e \in U /\ level[a] # 0 /\ (e \in A <=> p = a) /\ (e \in B <=> p = b)
      <4>1. \A x : x \in A => x \notin B
        BY <1>5
      <4> QED
        BY <1>1, <1>4, <1>6, <2>1, <4>1
    <3>2. /\ e.child \in N /\ level[e.child] + 1 = level[a] /\ e.over = Null
          /\ \A x \in U : e.child = x.child => e = x
      BY <1>3, <3>1
    <3>3. d2[e.child].parent = p
      BY <1>4, <2>1, <3>1, <3>2
    <3>4. level[e.child] \in Nat /\ e.child # a /\ e.child # b /\ e.child # f
      BY <1>1, <3>2 DEF Shape, Ranked
    <3>5. \A h \in Ent(d, e.child) : e.key <= h.key
      <4>1. e \in Ent(d, a) \/ e \in Ent(d, b)
        BY <3>1 DEF U
      <4> QED
        BY <1>1, <3>1, <4>1 DEF Shape, Kids
    <3> QED
      BY <1>1, <1>6, <2>1, <3>1, <3>2, <3>3, <3>4, <3>5
  <2>2. CASE p = f /\ e = known
    <3>1. ~(level[a] # 0 /\ \E x \in U : x.child = b)
      BY <1>1, <1>3
    <3>2. d2[b].parent = f
      BY <1>1, <1>4, <3>1
    <3> QED
      BY <1>1, <1>6, <2>2, <3>2
  <2>3. CASE (p = f /\ e # known) \/ p \notin {a, b, f}
    <3>1. e \in Ent(d, p) /\ (p = f => e # gr)
      BY <1>6, <2>3
    <3>2. /\ e.child \in N /\ d[e.child].parent = p /\ level[e.child] + 1 = level[p]
          /\ e.over = Null /\ \A h \in Ent(d, e.child) : e.key <= h.key
      BY <3>1 DEF Shape, Kids
    <3>3. ~(level[a] # 0 /\ \E x \in U : x.child = e.child)
      BY <1>1, <1>3, <2>3, <3>2
    <3>4. d2[e.child].parent = p
      BY <1>4, <3>2, <3>3
    <3>5. e.child = a => e = gl /\ p = f
      BY <1>1, <3>1, <3>2, OneEntry
    <3>6. e.child # b
      BY <1>1, <3>1, <3>2, OneEntry
    <3>7. \A h \in Ent(d2, e.child) : e.key <= h.key
      <4>1. CASE e.child = a
        BY <1>5, <1>6, <3>5, <4>1
      <4>2. CASE e.child = f
        <5>1. \A h \in Ent(d, f) : e.key <= h.key
          BY <3>2, <4>2
        <5>2. e.key \in Int /\ e.key <= gl.key
          BY <3>1, <5>1 DEF Shape, Keyed
        <5>3. e.key <= known.key
          BY <1>1, <1>5, <5>2
        <5> QED
          BY <1>6, <4>2, <5>1, <5>3
      <4>3. CASE e.child \notin {a, f}
        BY <1>6, <3>2, <3>6, <4>3
      <4> QED
        BY <4>1, <4>2, <4>3
    <3> QED
      BY <3>2, <3>4, <3>7
  <2> QED
    BY <2>1, <2>2, <2>3
<1>13. Limited(d2, N, level, hi2)
  <2> SUFFICES ASSUME NEW p \in N, NEW e \in Ent(d2, p)
               PROVE  /\ e.key < hi2[p]
                      /\ level[p] # 0 =>
                           /\ hi2[e.child] <= hi2[p]
                           /\ \A x \in Ent(d2, p) : e.key < x.key => hi2[e.child] <= x.key
    <3> HIDE DEF hi2
    <3> QED
      BY <1>7 DEF Limited
  <2>1. \A c \in N : level[c] + 1 = level[a] => hi2[c] = hi[c]
    <3>1. \A c \in N : level[c] \in Nat
      BY DEF Shape, Ranked
    <3> QED
      BY <1>7, <3>1
  <2>2. CASE p = a
    <3>1. e \in A /\ e \in U /\ e.key < first.key /\ hi2[p] = first.key
      BY <1>4, <1>5, <1>6, <1>7, <2>2
    <3>2. ASSUME level[a] # 0
          PROVE  /\ hi2[e.child] <= first.key
                 /\ \A x \in A : e.key < x.key => hi2[e.child] <= x.key
      <4>1. hi2[e.child] = hi[e.child]
        BY <1>3, <2>1, <3>1, <3>2
      <4>2. first \in U
        BY <1>4
      <4> QED
        BY <1>3, <1>4, <3>1, <3>2, <4>1, <4>2
    <3> QED
      BY <1>6, <2>2, <3>1, <3>2
  <2>3. CASE p = b
    <3>1. e \in B /\ e \in U /\ e.key < hi[b] /\ hi2[p] = hi[b]
      BY <1>1, <1>4, <1>5, <1>6, <1>7, <2>3
    <3>2. ASSUME level[a] # 0
          PROVE  /\ hi2[e.child] <= hi[b]
                 /\ \A x \in B : e.key < x.key => hi2[e.child] <= x.key
      <4>1. hi2[e.child] = hi[e.child]
        BY <1>3, <2>1, <3>1, <3>2
      <4> QED
        BY <1>3, <1>4, <3>1, <3>2, <4>1
    <3> QED
      BY <1>1, <1>6, <2>3, <3>1, <3>2
  <2>4. CASE p = f
    <3>1. hi2[f] = hi[f] /\ hi2[b] = hi[b] /\ hi2[a] = first.key
      BY <1>1, <1>7
    <3>2. \A x \in Ent(d, f) : x # gr /\ first.key < x.key => hi[b] <= x.key
      <4>1. \A x \in Ent(d, f) : gr.key < x.key => hi[b] <= x.key
        BY DEF Shape, Limited
      <4> QED
        BY <1>8, <4>1
    <3>3. CASE e = known
      <4>1. e.key < hi[f]
        BY <1>1, <1>5, <3>3
      <4>2. \A x \in Ent(d2, f) : e.key < x.key => hi[b] <= x.key
        BY <1>5, <1>6, <3>2, <3>3
      <4> QED
        BY <1>1, <2>4, <3>1, <3>3, <4>1, <4>2
    <3>4. CASE e = gl /\ e # known
      <4>1. e.key < hi[f] /\ first.key <= hi[f]
        BY <1>1, <1>5, <3>4
      <4>2. \A x \in Ent(d2, f) : e.key < x.key => first.key <= x.key
        BY <1>1, <1>5, <1>6, <1>8, <3>4
      <4> QED
        BY <2>4, <3>1, <3>4, <4>1, <4>2
    <3>5. CASE e # gl /\ e # known
      <4>1. e \in Ent(d, f) /\ e # gr /\ e.key < hi[f] /\ e.key \in Int
        BY <1>6, <1>8, <2>4, <3>5 DEF Shape, Limited
      <4>2. /\ hi[e.child] <= hi[f] /\ e.child \in N
            /\ \A x \in Ent(d, f) : e.key < x.key => hi[e.child] <= x.key
        BY <4>1 DEF Shape, Limited, Kids
      <4>3. hi2[e.child] = hi[e.child] /\ hi[e.child] \in Int
        <5>1. e.child # a
          BY <3>5, <4>1, OneEntry
        <5> QED
          BY <1>7, <4>2, <5>1
      <4>4. e.key < first.key => hi[e.child] <= first.key
        <5>1. e.key < first.key => e.key < gl.key
          BY <1>1, <1>8, <3>5, <4>1
        <5> QED
          BY <1>1, <1>5, <4>2, <4>3, <5>1
      <4>5. \A x \in Ent(d2, f) : e.key < x.key => hi[e.child] <= x.key
        BY <1>6, <4>2, <4>4
      <4> QED
        BY <2>4, <3>1, <4>1, <4>2, <4>3, <4>5
    <3> QED
      BY <3>3, <3>4, <3>5
  <2>5. CASE p \notin {a, b, f}
    <3>1. Ent(d2, p) = Ent(d, p) /\ hi2[p] = hi[p]
      BY <1>6, <1>7, <2>5
    <3>2. e.key < hi[p]
      BY <3>1 DEF Shape, Limited
    <3>3. ASSUME level[p] # 0
          PROVE  hi2[e.child] <= hi[p] /\ \A x \in Ent(d, p) : e.key < x.key => hi2[e.child] <= x.key
      <4>1. e.child \in N /\ d[e.child].parent = p
        BY <3>1, <3>3 DEF Shape, Kids
      <4>2. hi2[e.child] = hi[e.child]
        BY <1>1, <1>7, <2>5, <4>1
      <4>3. hi[e.child] <= hi[p] /\ \A x \in Ent(d, p) : e.key < x.key => hi[e.child] <= x.key
        BY <3>1, <3>3 DEF Shape, Limited
      <4> QED
        BY <4>2, <4>3
    <3> QED
      BY <3>1, <3>2, <3>3
  <2> QED
    BY <2>2, <2>3, <2>4, <2>5
<1> HIDE DEF hi2
<1>14. Shape(d2, r, N, level, hi2)
  BY <1>9, <1>10, <1>11, <1>12, <1>13 DEF Shape
<1> QED
  BY <1>14
(* The left one of two neighbours under f takes in the right one. *)
IsMerge(d, d2, N, level, l, f, gl, gr, a, b) ==
    /\ f \in N /\ level[f] # 0 /\ gl \in Ent(d, f) /\ gr \in Ent(d, f)
    /\ gl.key < gr.key /\ \A x \in Ent(d, f) : x.key <= gl.key \/ gr.key <= x.key
    /\ a = gl.child /\ b = gr.child
    /\ \A p \in N \ {b} : Ent(d2, p) = IF p = a THEN Ent(d, a) \union Ent(d, b)
                          ELSE IF p = f THEN Ent(d, f) \ {gr} ELSE Ent(d, p)
    /\ \A p \in N \ {b} : d2[p].leaf = d[p].leaf
    /\ \A p \in N \ {b} : d2[p].parent =
            IF level[a] # 0 /\ \E e \in Ent(d, b) : e.child = p THEN a ELSE d[p].parent
    /\ l \in [N \ {b} -> Nat] /\ \A p \in N \ {b} : l[p] = level[p]

LEMMA ShapeMerges ==
    ASSUME NEW d, NEW d2, NEW r, NEW N, NEW level, NEW hi, Shape(d, r, N, level, hi),
           NEW l, NEW f, NEW gl, NEW gr, NEW a, NEW b,
           IsMerge(d, d2, N, level, l, f, gl, gr, a, b)
    PROVE  \E h : Shape(d2, r, N \ {b}, l, h)
<1> /\ f \in N /\ level[f] # 0 /\ gl \in Ent(d, f) /\ gr \in Ent(d, f)
    /\ gl.key < gr.key /\ \A x \in Ent(d, f) : x.key <= gl.key \/ gr.key <= x.key
    /\ a = gl.child /\ b = gr.child
  BY DEF IsMerge
<1> /\ \A p \in N \ {b} : Ent(d2, p) = IF p = a THEN Ent(d, a) \union Ent(d, b)
                          ELSE IF p = f THEN Ent(d, f) \ {gr} ELSE Ent(d, p)
    /\ \A p \in N \ {b} : d2[p].leaf = d[p].leaf
    /\ \A p \in N \ {b} : d2[p].parent =
            IF level[a] # 0 /\ \E e \in Ent(d, b) : e.child = p THEN a ELSE d[p].parent
  BY DEF IsMerge
<1> DEFINE U == Ent(d, a) \union Ent(d, b)
           M == N \ {b}
           level2 == [p \in M |-> level[p]]
           hi2 == [p \in M |-> IF p = a THEN hi[b] ELSE hi[p]]
<1>1. /\ a \in N \ {r} /\ b \in N \ {r} /\ a # b /\ a # f /\ b # f
      /\ level[a] = level[b] /\ level[a] + 1 = level[f] /\ level[a] \in Nat
      /\ d[a].parent = f /\ d[b].parent = f
      /\ gl.key \in Int /\ gr.key \in Int /\ hi[a] \in Int /\ hi[b] \in Int /\ hi[f] \in Int
      /\ hi[a] <= gr.key /\ gr.key < hi[b] /\ hi[b] <= hi[f]
  BY Couple
<1>2. /\ \A e \in U : e.key \in Int /\ gl.key <= e.key /\ e.key < hi[b]
      /\ \A e, x \in U : e.key = x.key => e = x
  BY Couple
<1>3. level[a] # 0 => \A e \in U :
        /\ e.child \in N /\ level[e.child] + 1 = level[a] /\ e.over = Null
        /\ d[e.child].parent = (IF e \in Ent(d, a) THEN a ELSE b)
        /\ hi[e.child] <= hi[b] /\ hi[e.child] \in Int
        /\ \A x \in U : /\ e.key < x.key => hi[e.child] <= x.key
                        /\ e.child = x.child => e = x
  BY Couple
<1>4. /\ Ent(d2, a) = U /\ Ent(d2, f) = Ent(d, f) \ {gr}
      /\ \A p \in M \ {a, f} : Ent(d2, p) = Ent(d, p)
  BY <1>1
<1>5. Ent(d, a) # {} /\ Ent(d, a) \subseteq U /\ Ent(d, b) \subseteq U
  BY <1>1 DEF Shape, Fathered
<1> HIDE DEF U
<1>6. /\ level \in [N -> Nat] /\ hi \in [N -> Int]
      /\ \A p \in M : /\ level2[p] = level[p] /\ level[p] \in Nat /\ hi[p] \in Int
                      /\ hi2[p] = IF p = a THEN hi[b] ELSE hi[p]
  BY DEF Shape, Limited, Ranked
<1>7. \A x \in Ent(d, f) : /\ x.key \in Int /\ (x.key = gl.key => x = gl) /\ (x.key = gr.key => x = gr)
                           /\ gl.key < x.key => gr.key <= x.key
  BY <1>1 DEF Shape, Keyed
<1>8. Keyed(d2, M)
  <2> SUFFICES ASSUME NEW p \in M, NEW x \in Ent(d2, p), NEW y \in Ent(d2, p)
               PROVE  x.key \in Int /\ (x.key = y.key => x = y)
    BY DEF Keyed
  <2>1. CASE p = a
    BY <1>2, <1>4, <2>1
  <2>2. CASE p # a
    <3>1. x \in Ent(d, p) /\ y \in Ent(d, p)
      BY <1>4, <2>2
    <3> QED
      BY <3>1 DEF Shape, Keyed
  <2> QED
    BY <2>1, <2>2
<1>9. Ranked(d2, r, M, level2)
  <2>1. r \in M /\ d2[r].parent = d[r].parent
    <3>1. r \in N
      BY DEF Shape, Ranked
    <3>2. level[a] # 0 => \A e \in Ent(d, b) : e.child # r
      BY <1>1, OneEntry
    <3> QED
      BY <1>1, <3>1, <3>2
  <2>2. level2 \in [M -> Nat]
    BY <1>6
  <2> HIDE DEF level2
  <2> QED
    BY <1>6, <2>1, <2>2 DEF Shape, Ranked
<1>10. Fathered(d2, r, M, level2)
  <2> SUFFICES ASSUME NEW p \in M \ {r}
               PROVE  /\ Ent(d2, p) # {}
                      /\ d2[p].parent \in M /\ level2[d2[p].parent] # 0
                      /\ \E e \in Ent(d2, d2[p].parent) : e.child = p
    <3> HIDE DEF M, level2
    <3> QED
      BY DEF Fathered
  <2>1. Ent(d2, p) # {}
    <3>1. gl \in Ent(d2, f)
      BY <1>1, <1>4
    <3> QED
      BY <1>1, <1>4, <1>5, <3>1 DEF Shape, Fathered
  <2>2. CASE level[a] # 0 /\ \E e \in Ent(d, b) : e.child = p
    BY <1>1, <1>4, <1>5, <1>6, <2>1, <2>2
  <2>3. CASE ~(level[a] # 0 /\ \E e \in Ent(d, b) : e.child = p)
    <3>1. /\ d2[p].parent = d[p].parent /\ d[p].parent \in N /\ level[d[p].parent] # 0
          /\ \E e \in Ent(d, d[p].parent) : e.child = p
      BY <2>3 DEF Shape, Fathered
    <3>2. d[p].parent # b
      BY <1>1, <2>3, <3>1
    <3>3. \E e \in Ent(d2, d[p].parent) : e.child = p
      <4>1. CASE d[p].parent = f
        BY <1>4, <3>1, <4>1
      <4>2. CASE d[p].parent # f
        BY <1>4, <1>5, <3>1, <3>2, <4>2
      <4> QED
        BY <4>1, <4>2
    <3> QED
      BY <1>6, <2>1, <3>1, <3>2, <3>3
  <2> QED
    BY <2>2, <2>3
<1>11. Kids(d2, M, level2)
  <2> SUFFICES ASSUME NEW p \in M, level[p] # 0, NEW e \in Ent(d2, p)
               PROVE  /\ e.child \in M /\ d2[e.child].parent = p
                      /\ level[e.child] + 1 = level[p] /\ e.over = Null
                      /\ \A h \in Ent(d2, e.child) : e.key <= h.key
    <3> HIDE DEF M, level2
    <3> QED
      BY <1>6 DEF Kids
  <2>1. CASE p = a
    <3>1. /\ e \in U /\ e.child \in N /\ level[e.child] + 1 = level[a] /\ e.over = Null
          /\ \A x \in U : e.child = x.child => e = x
      BY <1>3, <1>4, <2>1
    <3>2. e.child # a /\ e.child # b /\ e.child # f
      BY <1>1, <1>6, <3>1
    <3>3. d2[e.child].parent = a
      <4>1. CASE e \in Ent(d, b)
        BY <2>1, <3>1, <3>2, <4>1
      <4>2. CASE e \notin Ent(d, b)
        <5>1. e \in Ent(d, a)
          BY <3>1, <4>2 DEF U
        <5>2. d[e.child].parent = a
          BY <1>3, <2>1, <3>1, <5>1
        <5>3. ~\E x \in Ent(d, b) : x.child = e.child
          BY <1>5, <3>1, <4>2
        <5> QED
          BY <3>1, <3>2, <5>2, <5>3
      <4> QED
        BY <4>1, <4>2
    <3>4. \A h \in Ent(d, e.child) : e.key <= h.key
      <4>1. e \in Ent(d, a) \/ e \in Ent(d, b)
        BY <3>1 DEF U
      <4> QED
        BY <1>1, <2>1, <4>1 DEF Shape, Kids
    <3> QED
      BY <1>4, <2>1, <3>1, <3>2, <3>3, <3>4
  <2>2. CASE p # a
    <3>1. e \in Ent(d, p) /\ (p = f => e # gr)
      BY <1>4, <2>2
    <3>2. /\ e.child \in N /\ d[e.child].parent = p /\ level[e.child] + 1 = level[p]
          /\ e.over = Null /\ \A h \in Ent(d, e.child) : e.key <= h.key
      BY <3>1 DEF Shape, Kids
    <3>3. e.child # b
      BY <1>1, <3>1, <3>2, OneEntry
    <3>4. ~(level[a] # 0 /\ \E x \in Ent(d, b) : x.child = e.child)
      <4>1. level[a] # 0 => \A x \in Ent(d, b) : d[x.child].parent = b
        BY <1>1 DEF Shape, Kids
      <4> QED
        BY <3>2, <4>1
    <3>5. d2[e.child].parent = p
      BY <3>2, <3>3, <3>4
    <3>6. \A h \in Ent(d2, e.child) : e.key <= h.key
      <4>1. CASE e.child = a
        <5>1. e = gl
          BY <1>1, <3>1, <3>2, <4>1, OneEntry
        <5> QED
          BY <1>2, <1>4, <4>1, <5>1
      <4>2. CASE e.child = f
        BY <1>4, <3>2, <4>2
      <4>3. CASE e.child \notin {a, f}
        BY <1>4, <3>2, <3>3, <4>3
      <4> QED
        BY <4>1, <4>2, <4>3
    <3> QED
      BY <3>2, <3>3, <3>5, <3>6
  <2> QED
    BY <2>1, <2>2
<1>12. Limited(d2, M, level2, hi2)
  <2>1. hi2 \in [M -> Int]
    BY <1>1, <1>6
  <2> SUFFICES ASSUME NEW p \in M, NEW e \in Ent(d2, p)
               PROVE  /\ e.key < hi2[p]
                      /\ level[p] # 0 =>
                           /\ hi2[e.child] <= hi2[p]
                           /\ \A x \in Ent(d2, p) : e.key < x.key => hi2[e.child] <= x.key
    <3> HIDE DEF hi2, level2, M
    <3> QED
      BY <1>6, <2>1 DEF Limited
  <2>2. CASE p = a
    <3>1. e \in U /\ e.key < hi[b] /\ hi2[p] = hi[b]
      BY <1>2, <1>4, <1>6, <2>2
    <3>2. ASSUME level[a] # 0
          PROVE  /\ hi2[e.child] <= hi[b]
                 /\ \A x \in U : e.key < x.key => hi2[e.child] <= x.key
      <4>1. e.child \in N /\ e.child # a /\ e.child # b
        BY <1>1, <1>3, <1>6, <3>1, <3>2
      <4>2. hi2[e.child] = hi[e.child]
        BY <1>6, <4>1
      <4> QED
        BY <1>3, <3>1, <3>2, <4>2
    <3> QED
      BY <1>4, <2>2, <3>1, <3>2
  <2>3. CASE p # a
    <3>1. /\ e \in Ent(d, p) /\ Ent(d2, p) \subseteq Ent(d, p) /\ hi2[p] = hi[p] /\ e.key < hi[p]
          /\ p = f => e # gr /\ gr \notin Ent(d2, p)
      BY <1>1, <1>4, <1>6, <2>3 DEF Shape, Limited
    <3>2. ASSUME level[p] # 0
          PROVE  /\ hi2[e.child] <= hi[p]
                 /\ \A x \in Ent(d2, p) : e.key < x.key => hi2[e.child] <= x.key
      <4>1. e.child \in N /\ e.child # b
        BY <1>1, <3>1, <3>2, OneEntry DEF Shape, Kids
      <4>2. CASE e.child = a
        <5>1. e = gl /\ p = f /\ hi2[e.child] = hi[b]
          BY <1>1, <1>6, <3>1, <3>2, <4>2, OneEntry
        <5>2. \A x \in Ent(d, f) : gr.key < x.key => hi[b] <= x.key
          BY DEF Shape, Limited
        <5>3. \A x \in Ent(d2, p) : e.key < x.key => gr.key < x.key
          BY <1>1, <1>7, <3>1, <5>1
        <5> QED
          BY <1>1, <3>1, <5>1, <5>2, <5>3
      <4>3. CASE e.child # a
        <5>1. hi2[e.child] = hi[e.child]
          BY <1>6, <4>1, <4>3
        <5> QED
          BY <3>1, <3>2, <5>1 DEF Shape, Limited
      <4> QED
        BY <4>2, <4>3
    <3> QED
      BY <3>1, <3>2
  <2> QED
    BY <2>2, <2>3
<1> HIDE DEF M, hi2, level2
<1>13. Shape(d2, r, M, level2, hi2)
  BY <1>8, <1>9, <1>10, <1>11, <1>12 DEF Shape
<1>14. l = level2
  BY DEF IsMerge, M, level2
<1> QED
  BY <1>13, <1>14 DEF M
(* The root r gets a father f. *)
IsGrowth(d, d2, r, N, level, l, f, e) ==
    /\ f \notin N /\ f # Null /\ Ent(d, r) # {}
    /\ e.key \in Int /\ e.child = r /\ e.over = Null /\ \A h \in Ent(d, r) : e.key <= h.key
    /\ \A p \in N \union {f} : Ent(d2, p) = IF p = f THEN {e} ELSE Ent(d, p)
    /\ \A p \in N \union {f} : d2[p].leaf = IF p = f THEN FALSE ELSE d[p].leaf
    /\ \A p \in N \union {f} : d2[p].parent = IF p = f THEN Null
                                              ELSE IF p = r THEN f ELSE d[p].parent
    /\ l \in [N \union {f} -> Nat]
    /\ \A p \in N \union {f} : l[p] = IF p = f THEN level[r] + 1 ELSE level[p]

LEMMA ShapeGrows ==
    ASSUME NEW d, NEW d2, NEW r, NEW N, NEW level, NEW hi, Shape(d, r, N, level, hi),
           NEW l, NEW f, NEW e, IsGrowth(d, d2, r, N, level, l, f, e)
    PROVE  \E h : Shape(d2, f, N \union {f}, l, h)
<1> /\ f \notin N /\ f # Null /\ Ent(d, r) # {}
    /\ e.key \in Int /\ e.child = r /\ e.over = Null /\ \A h \in Ent(d, r) : e.key <= h.key
  BY DEF IsGrowth
<1> /\ \A p \in N \union {f} : Ent(d2, p) = IF p = f THEN {e} ELSE Ent(d, p)
    /\ \A p \in N \union {f} : d2[p].leaf = IF p = f THEN FALSE ELSE d[p].leaf
    /\ \A p \in N \union {f} : d2[p].parent = IF p = f THEN Null
                                              ELSE IF p = r THEN f ELSE d[p].parent
  BY DEF IsGrowth
<1> DEFINE M == N \union {f}
           level2 == [p \in M |-> IF p = f THEN level[r] + 1 ELSE level[p]]
           hi2 == [p \in M |-> IF p = f THEN hi[r] ELSE hi[p]]
<1>1. /\ r \in N /\ r # f /\ level \in [N -> Nat] /\ hi \in [N -> Int]
      /\ \A p \in N : level2[p] = level[p] /\ hi2[p] = hi[p] /\ level[p] \in Nat /\ hi[p] \in Int
      /\ level2[f] = level[r] + 1 /\ hi2[f] = hi[r] /\ level2[f] \in Nat /\ level2[f] # 0
      /\ \A p \in N : level[p] <= level[r]
      /\ level2 \in [M -> Nat] /\ hi2 \in [M -> Int]
  <2>1. r \in N /\ level \in [N -> Nat] /\ hi \in [N -> Int]
    BY DEF Shape, Ranked, Limited
  <2>2. \A p \in N : level[p] <= level[r]
    BY <2>1 DEF Shape, Ranked
  <2> QED
    BY <2>1, <2>2
<1> HIDE DEF M, level2, hi2
<1>2. \A p \in M : p \in N \/ p = f
  BY DEF M
<1>3. N \subseteq M /\ f \in M
  BY DEF M
<1>4. Ent(d2, f) = {e} /\ \A p \in N : Ent(d2, p) = Ent(d, p)
  OBVIOUS
<1>5. Keyed(d2, M)
  BY <1>2, <1>4 DEF Shape, Keyed
<1>6. Ranked(d2, f, M, level2)
  <2>1. d2[f].parent = Null /\ f \in M /\ Null \notin M
    BY <1>2, <1>3 DEF Shape, Ranked
  <2>2. \A p \in M : d2[p].leaf <=> level2[p] = 0
    BY <1>1, <1>2 DEF Shape, Ranked
  <2>3. \A p \in M \ {f} : level2[p] < level2[f]
    BY <1>1, <1>2
  <2> QED
    BY <1>1, <2>1, <2>2, <2>3 DEF Ranked
<1>7. Fathered(d2, f, M, level2)
  <2> SUFFICES ASSUME NEW p \in M \ {f}
               PROVE  /\ Ent(d2, p) # {}
                      /\ d2[p].parent \in M /\ level2[d2[p].parent] # 0
                      /\ \E x \in Ent(d2, d2[p].parent) : x.child = p
    BY DEF Fathered
  <2>1. CASE p = r
    BY <1>1, <1>3, <1>4, <2>1
  <2>2. CASE p # r
    BY <1>1, <1>2, <1>3, <1>4, <2>2 DEF Shape, Fathered
  <2> QED
    BY <2>1, <2>2
<1>8. Kids(d2, M, level2)
  <2> SUFFICES ASSUME NEW p \in M, level2[p] # 0, NEW x \in Ent(d2, p)
               PROVE  /\ x.child \in M /\ d2[x.child].parent = p
                      /\ level2[x.child] + 1 = level2[p] /\ x.over = Null
                      /\ \A h \in Ent(d2, x.child) : x.key <= h.key
    BY DEF Kids
  <2>1. CASE p = f
    BY <1>1, <1>3, <1>4, <2>1
  <2>2. CASE p # f
    <3>1. p \in N /\ level[p] # 0 /\ x \in Ent(d, p)
      BY <1>1, <1>2, <1>4, <2>2
    <3>2. x.child # r
      BY <3>1, OneEntry
    <3>3. /\ x.child \in N /\ d[x.child].parent = p /\ level[x.child] + 1 = level[p]
          /\ x.over = Null /\ \A h \in Ent(d, x.child) : x.key <= h.key
      BY <3>1 DEF Shape, Kids
    <3> QED
      BY <1>1, <1>3, <1>4, <3>1, <3>2, <3>3
  <2> QED
    BY <2>1, <2>2
<1>9. Limited(d2, M, level2, hi2)
  <2> SUFFICES ASSUME NEW p \in M, NEW x \in Ent(d2, p)
               PROVE  /\ x.key < hi2[p]
                      /\ level2[p] # 0 =>
                           /\ hi2[x.child] <= hi2[p]
                           /\ \A y \in Ent(d2, p) : x.key < y.key => hi2[x.child] <= y.key
    BY <1>1 DEF Limited
  <2>1. CASE p = f
    <3>1. PICK h \in Ent(d, r) : TRUE
      OBVIOUS
    <3>2. e.key <= h.key /\ h.key < hi[r] /\ h.key \in Int
      BY <1>1, <3>1 DEF Shape, Limited, Keyed
    <3> QED
      BY <1>1, <1>4, <2>1, <3>2
  <2>2. CASE p # f
    <3>1. p \in N /\ level2[p] = level[p] /\ x \in Ent(d, p)
      BY <1>1, <1>2, <1>4, <2>2
    <3>2. level[p] # 0 => x.child \in N
      BY <3>1 DEF Shape, Kids
    <3> QED
      BY <1>1, <1>4, <3>1, <3>2 DEF Shape, Limited
  <2> QED
    BY <2>1, <2>2
<1>10. Shape(d2, f, M, level2, hi2)
  BY <1>5, <1>6, <1>7, <1>8, <1>9 DEF Shape
<1>11. l = level2
  BY DEF IsGrowth, M, level2
<1> QED
  BY <1>10, <1>11 DEF M

(* The root r gives way to its only child. *)
IsLowering(d, d2, r, N, level, l, e, c) ==
    /\ Ent(d, r) = {e} /\ level[r] # 0 /\ c = e.child
    /\ \A p \in N \ {r} : Ent(d2, p) = Ent(d, p) /\ d2[p].leaf = d[p].leaf
    /\ \A p \in N \ {r} : d2[p].parent = IF p = c THEN Null ELSE d[p].parent
    /\ l \in [N \ {r} -> Nat] /\ \A p \in N \ {r} : l[p] = level[p]

LEMMA ShapeLowers ==
    ASSUME NEW d, NEW d2, NEW r, NEW N, NEW level, NEW hi, Shape(d, r, N, level, hi),
           NEW l, NEW e, NEW c, IsLowering(d, d2, r, N, level, l, e, c)
    PROVE  \E h : Shape(d2, c, N \ {r}, l, h)
<1> Ent(d, r) = {e} /\ level[r] # 0 /\ c = e.child
  BY DEF IsLowering
<1> /\ \A p \in N \ {r} : Ent(d2, p) = Ent(d, p) /\ d2[p].leaf = d[p].leaf
    /\ \A p \in N \ {r} : d2[p].parent = IF p = c THEN Null ELSE d[p].parent
  BY DEF IsLowering
<1> DEFINE M == N \ {r}
           level2 == [p \in M |-> level[p]]
           hi2 == [p \in M |-> hi[p]]
<1>1. /\ r \in N /\ level \in [N -> Nat] /\ hi \in [N -> Int]
      /\ \A p \in N : level[p] \in Nat /\ hi[p] \in Int
      /\ \A p \in M : level2[p] = level[p] /\ hi2[p] = hi[p]
      /\ level2 \in [M -> Nat] /\ hi2 \in [M -> Int]
      /\ M \subseteq N /\ r \notin M /\ \A p \in N : p # r => p \in M
  BY DEF Shape, Ranked, Limited
<1> HIDE DEF M, level2, hi2
<1>2. c \in M /\ d[c].parent = r /\ level[c] + 1 = level[r]
  BY <1>1, OneEntry DEF Shape, Kids
<1>3. \A p \in M : Ent(d2, p) = Ent(d, p) /\ d2[p].leaf = d[p].leaf
  BY <1>1
<1>4. \A p \in M : d2[p].parent = IF p = c THEN Null ELSE d[p].parent
  BY <1>1
<1>5. ASSUME NEW p \in M \ {c} PROVE d[p].parent # r
  BY <1>1 DEF Shape, Fathered
<1>6. Keyed(d2, M)
  BY <1>1, <1>3 DEF Shape, Keyed
<1>7. Ranked(d2, c, M, level2)
  <2>1. ASSUME NEW p \in M \ {c} PROVE level2[p] < level2[c]
    <3>1. d[p].parent \in N \ {r} /\ level[d[p].parent] # 0 /\ \E x \in Ent(d, d[p].parent) : x.child = p
      BY <1>1, <1>5 DEF Shape, Fathered
    <3>2. level[p] + 1 = level[d[p].parent] /\ level[d[p].parent] < level[r]
      BY <1>1, <3>1 DEF Shape, Kids, Ranked
    <3> QED
      BY <1>1, <1>2, <3>1, <3>2
  <2>2. \A p \in M : d2[p].leaf <=> level2[p] = 0
    BY <1>1, <1>3 DEF Shape, Ranked
  <2>3. Null \notin M
    BY <1>1 DEF Shape, Ranked
  <2> QED
    BY <1>1, <1>2, <1>4, <2>1, <2>2, <2>3 DEF Ranked
<1>8. Fathered(d2, c, M, level2)
  <2> SUFFICES ASSUME NEW p \in M \ {c}
               PROVE  /\ Ent(d2, p) # {}
                      /\ d2[p].parent \in M /\ level2[d2[p].parent] # 0
                      /\ \E x \in Ent(d2, d2[p].parent) : x.child = p
    BY DEF Fathered
  <2>1. /\ Ent(d, p) # {} /\ d[p].parent \in N /\ level[d[p].parent] # 0
        /\ \E x \in Ent(d, d[p].parent) : x.child = p
    BY <1>1 DEF Shape, Fathered
  <2>2. d[p].parent \in M
    BY <1>1, <1>5, <2>1
  <2> QED
    BY <1>1, <1>3, <1>4, <2>1, <2>2
<1>9. Kids(d2, M, level2)
  <2> SUFFICES ASSUME NEW p \in M, level2[p] # 0, NEW x \in Ent(d2, p)
               PROVE  /\ x.child \in M /\ d2[x.child].parent = p
                      /\ level2[x.child] + 1 = level2[p] /\ x.over = Null
                      /\ \A h \in Ent(d2, x.child) : x.key <= h.key
    BY DEF Kids
  <2>1. p \in N /\ level[p] # 0 /\ x \in Ent(d, p)
    BY <1>1, <1>3
  <2>2. x.child # r
    BY <2>1, OneEntry
  <2>3. /\ x.child \in N /\ d[x.child].parent = p /\ level[x.child] + 1 = level[p]
        /\ x.over = Null /\ \A h \in Ent(d, x.child) : x.key <= h.key
    BY <2>1 DEF Shape, Kids
  <2>4. x.child # c
    BY <1>1, <1>2, <2>3
  <2> QED
    BY <1>1, <1>3, <1>4, <2>1, <2>2, <2>3, <2>4
<1>10. Limited(d2, M, level2, hi2)
  <2> SUFFICES ASSUME NEW p \in M, NEW x \in Ent(d2, p)
               PROVE  /\ x.key < hi2[p]
                      /\ level2[p] # 0 =>
                           /\ hi2[x.child] <= hi2[p]
                           /\ \A y \in Ent(d2, p) : x.key < y.key => hi2[x.child] <= y.key
    BY <1>1 DEF Limited
  <2>1. p \in N /\ level2[p] = level[p] /\ x \in Ent(d, p) /\ hi2[p] = hi[p] /\ Ent(d2, p) = Ent(d, p)
    BY <1>1, <1>3
  <2>2. level[p] # 0 => x.child \in M
    BY <1>1, <2>1, OneEntry DEF Shape, Kids
  <2> QED
    BY <1>1, <2>1, <2>2 DEF Shape, Limited
<1>11. Shape(d2, c, M, level2, hi2)
  BY <1>6, <1>7, <1>8, <1>9, <1>10 DEF Shape
<1>12. l = level2
  BY DEF IsLowering, M, level2
<1> QED
  BY <1>11, <1>12 DEF M
(* The limit of the root may be raised. *)
LEMMA ShapeRaised ==
    ASSUME NEW d, NEW r, NEW N, NEW level, NEW hi, Shape(d, r, N, level, hi),
           NEW k \in Int
    PROVE  \E hi2 : Shape(d, r, N, level, hi2) /\ k < hi2[r]
<1> DEFINE h == IF hi[r] <= k THEN k + 1 ELSE hi[r]
           hi2 == [hi EXCEPT ![r] = h]
<1>0. h \in Int /\ hi[r] <= h /\ k < h
  BY DEF Shape, Ranked, Limited
<1> HIDE DEF h
<1>1. /\ r \in N /\ hi \in [N -> Int] /\ hi2 \in [N -> Int] /\ hi2[r] = h
      /\ \A p \in N : hi[p] \in Int /\ (p # r => hi2[p] = hi[p])
  BY <1>0 DEF Shape, Ranked, Limited
<1> HIDE DEF hi2
<1>2. Limited(d, N, level, hi2)
  <2> SUFFICES ASSUME NEW p \in N, NEW x \in Ent(d, p)
               PROVE  /\ x.key < hi2[p]
                      /\ level[p] # 0 =>
                           /\ hi2[x.child] <= hi2[p]
                           /\ \A y \in Ent(d, p) : x.key < y.key => hi2[x.child] <= y.key
    BY <1>1 DEF Limited
  <2>1. /\ x.key < hi[p] /\ x.key \in Int
        /\ level[p] # 0 => /\ hi[x.child] <= hi[p]
                           /\ \A y \in Ent(d, p) : x.key < y.key => hi[x.child] <= y.key
    BY DEF Shape, Limited, Keyed
  <2>2. hi[p] <= hi2[p] /\ hi2[p] \in Int /\ hi[p] \in Int
    BY <1>0, <1>1
  <2>3. level[p] # 0 => x.child \in N /\ x.child # r
    <3>1. level[p] # 0 => x.child # r
      BY OneEntry
    <3> QED
      BY <3>1 DEF Shape, Kids
  <2>4. level[p] # 0 => hi2[x.child] = hi[x.child] /\ hi[x.child] \in Int
    BY <1>1, <2>3
  <2> QED
    BY <2>1, <2>2, <2>4
<1>3. Shape(d, r, N, level, hi2)
  BY <1>2 DEF Shape
<1> QED
  BY <1>0, <1>1, <1>3

(* Other entries in a leaf p. *)
LEMMA ShapeLeaf ==
    ASSUME NEW d, NEW d2, NEW r, NEW N, NEW level, NEW hi, Shape(d, r, N, level, hi),
           NEW p \in N, level[p] = 0, NEW S, p # r => S # {},
           \A e, f \in S : e.key \in Int /\ (e.key = f.key => e = f),
           \A e \in S : e.key < hi[p],
           p # r => \A g \in Ent(d, d[p].parent) : g.child = p => \A e \in S : g.key <= e.key,
           \A q \in N : Ent(d2, q) = IF q = p THEN S ELSE Ent(d, q),
           \A q \in N : d2[q].leaf = d[q].leaf /\ d2[q].parent = d[q].parent
    PROVE  Shape(d2, r, N, level, hi)
<1>1. \A q \in N : level[q] # 0 => q # p /\ Ent(d2, q) = Ent(d, q)
  OBVIOUS
<1>2. Keyed(d2, N)
  BY DEF Shape, Keyed
<1>3. Ranked(d2, r, N, level)
  BY DEF Shape, Ranked
<1>4. Fathered(d2, r, N, level)
  <2> SUFFICES ASSUME NEW q \in N \ {r}
               PROVE  /\ Ent(d2, q) # {}
                      /\ d2[q].parent \in N /\ level[d2[q].parent] # 0
                      /\ \E x \in Ent(d2, d2[q].parent) : x.child = q
    BY DEF Fathered
  <2>1. /\ Ent(d, q) # {} /\ d[q].parent \in N /\ level[d[q].parent] # 0
        /\ \E x \in Ent(d, d[q].parent) : x.child = q
    BY DEF Shape, Fathered
  <2> QED
    BY <1>1, <2>1
<1>5. Kids(d2, N, level)
  <2> SUFFICES ASSUME NEW q \in N, level[q] # 0, NEW x \in Ent(d2, q)
               PROVE  /\ x.child \in N /\ d2[x.child].parent = q
                      /\ level[x.child] + 1 = level[q] /\ x.over = Null
                      /\ \A h \in Ent(d2, x.child) : x.key <= h.key
    BY DEF Kids
  <2>1. /\ x \in Ent(d, q) /\ x.child \in N /\ d[x.child].parent = q
        /\ level[x.child] + 1 = level[q]
        /\ x.over = Null /\ \A h \in Ent(d, x.child) : x.key <= h.key
    BY <1>1 DEF Shape, Kids
  <2>2. x.child # r
    BY <2>1, OneEntry
  <2> QED
    BY <2>1, <2>2
<1>6. Limited(d2, N, level, hi)
  BY <1>1 DEF Shape, Limited
<1> QED
  BY <1>2, <1>3, <1>4, <1>5, <1>6 DEF Shape

(* The way to x goes from q through its entry e, whose key is lowered to x *)
(* if it is larger; e's child then may hold x.                             *)
IsPassed(d, d2, r, N, level, hi, x, q, e, e2) ==
    /\ x \in Int /\ q \in N /\ level[q] # 0 /\ x < hi[q]
    /\ q # r => \A g \in Ent(d, d[q].parent) : g.child = q => g.key <= x
    /\ e \in Ent(d, q) /\ \A f \in Ent(d, q) : e.key < f.key => x < f.key
    /\ x < e.key => \A f \in Ent(d, q) : e.key <= f.key
    /\ e2.key = (IF x < e.key THEN x ELSE e.key) /\ e2.child = e.child /\ e2.over = Null
    /\ \A p \in N : Ent(d2, p) = IF p = q THEN (Ent(d, q) \ {e}) \union {e2} ELSE Ent(d, p)
    /\ \A p \in N : d2[p].leaf = d[p].leaf /\ d2[p].parent = d[p].parent

LEMMA ShapeFollowed ==
    ASSUME NEW d, NEW d2, NEW r, NEW N, NEW level, NEW hi, Shape(d, r, N, level, hi),
           NEW x, NEW q, NEW e, NEW e2, IsPassed(d, d2, r, N, level, hi, x, q, e, e2)
    PROVE  \E hi2 : Shape(d2, r, N, level, hi2) /\ x < hi2[e.child]
<1> /\ x \in Int /\ q \in N /\ level[q] # 0 /\ x < hi[q]
    /\ q # r => \A g \in Ent(d, d[q].parent) : g.child = q => g.key <= x
    /\ e \in Ent(d, q) /\ \A f \in Ent(d, q) : e.key < f.key => x < f.key
    /\ x < e.key => \A f \in Ent(d, q) : e.key <= f.key
  BY DEF IsPassed
<1> /\ e2.key = (IF x < e.key THEN x ELSE e.key) /\ e2.child = e.child /\ e2.over = Null
    /\ \A p \in N : Ent(d2, p) = IF p = q THEN (Ent(d, q) \ {e}) \union {e2} ELSE Ent(d, p)
    /\ \A p \in N : d2[p].leaf = d[p].leaf /\ d2[p].parent = d[p].parent
  BY DEF IsPassed
<1> DEFINE h == IF hi[e.child] <= x THEN x + 1 ELSE hi[e.child]
<1> h \in Int
  BY DEF Shape, Kids, Limited
<1> HIDE DEF h
<1> h = IF hi[e.child] <= x THEN x + 1 ELSE hi[e.child]
  BY DEF h
<1> DEFINE c == e.child
           hi2 == [hi EXCEPT ![c] = h]
<1>1. /\ c \in N /\ c # q /\ c # r /\ level[c] + 1 = level[q] /\ d[c].parent = q
      /\ \A a \in Ent(d, c) : e.key <= a.key
  <2>1. c \in N /\ level[c] + 1 = level[q] /\ level[c] \in Nat
    BY DEF Shape, Kids, Ranked
  <2> QED
    BY <2>1, OneEntry DEF Shape, Kids
<1>2. /\ hi \in [N -> Int] /\ hi2 \in [N -> Int] /\ hi2[c] = h
      /\ \A p \in N : hi[p] \in Int /\ hi2[p] \in Int /\ (p # c => hi2[p] = hi[p])
      /\ hi[c] <= h /\ x < h
  BY <1>1 DEF Shape, Limited
<1>3. /\ \A f \in Ent(d, q) : f.key \in Int /\ (f.key = e.key => f = e)
      /\ e2.key \in Int /\ e2.key <= x /\ e2.key <= e.key
      /\ \A f \in Ent(d, q) : f # e => f.key < e2.key \/ (e.key < f.key /\ x < f.key)
      /\ \A f \in Ent(d, q) : f.key < e2.key => f.key < e.key
      /\ h <= hi[q] /\ \A f \in Ent(d, q) : e.key < f.key => h <= f.key
  <2>1. \A f \in Ent(d, q) : f.key \in Int /\ (f.key = e.key => f = e)
    BY DEF Shape, Keyed
  <2>2. hi[c] <= hi[q] /\ \A f \in Ent(d, q) : e.key < f.key => hi[c] <= f.key
    BY DEF Shape, Limited
  <2> QED
    BY <1>1, <1>2, <2>1, <2>2
<1>4. \A p \in N \ {q} : Ent(d2, p) = Ent(d, p)
  OBVIOUS
<1>5. Ent(d2, q) = (Ent(d, q) \ {e}) \union {e2}
  OBVIOUS
<1> HIDE DEF hi2, c
<1>6. Keyed(d2, N)
  <2> SUFFICES ASSUME NEW p \in N, NEW y \in Ent(d2, p), NEW z \in Ent(d2, p)
               PROVE  y.key \in Int /\ (y.key = z.key => y = z)
    BY DEF Keyed
  <2>1. CASE p = q
    <3>1. \A f \in Ent(d, q) \ {e} : f.key # e2.key
      BY <1>3
    <3>2. \A f, g \in Ent(d, q) : f.key = g.key => f = g
      BY DEF Shape, Keyed
    <3> QED
      BY <1>3, <1>5, <2>1, <3>1, <3>2
  <2>2. CASE p # q
    BY <1>4, <2>2 DEF Shape, Keyed
  <2> QED
    BY <2>1, <2>2
<1>7. Ranked(d2, r, N, level)
  BY DEF Shape, Ranked
<1>8. Fathered(d2, r, N, level)
  <2> SUFFICES ASSUME NEW p \in N \ {r}
               PROVE  /\ Ent(d2, p) # {}
                      /\ d2[p].parent \in N /\ level[d2[p].parent] # 0
                      /\ \E y \in Ent(d2, d2[p].parent) : y.child = p
    BY DEF Fathered
  <2>1. /\ Ent(d, p) # {} /\ d[p].parent \in N /\ level[d[p].parent] # 0
        /\ \E y \in Ent(d, d[p].parent) : y.child = p
    BY DEF Shape, Fathered
  <2>2. CASE d[p].parent = q
    BY <1>4, <1>5, <2>1, <2>2
  <2>3. CASE d[p].parent # q
    BY <1>4, <1>5, <2>1, <2>3
  <2> QED
    BY <2>2, <2>3
<1>9. Kids(d2, N, level)
  <2> SUFFICES ASSUME NEW p \in N, level[p] # 0, NEW y \in Ent(d2, p)
               PROVE  /\ y.child \in N /\ d2[y.child].parent = p
                      /\ level[y.child] + 1 = level[p] /\ y.over = Null
                      /\ \A a \in Ent(d2, y.child) : y.key <= a.key
    BY DEF Kids
  <2>1. CASE y = e2 /\ p = q
    <3>1. \A a \in Ent(d, c) : e2.key <= a.key
      <4>1. \A a \in Ent(d, c) : a.key \in Int /\ e.key <= a.key
        BY <1>1 DEF Shape, Keyed
      <4> QED
        BY <1>3, <4>1
    <3> QED
      BY <1>1, <1>4, <2>1, <3>1 DEF c
  <2>2. CASE ~(y = e2 /\ p = q)
    <3>1. y \in Ent(d, p) /\ (p = q => y # e)
      BY <1>4, <1>5, <2>2
    <3>2. /\ y.child \in N /\ d[y.child].parent = p /\ level[y.child] + 1 = level[p]
          /\ y.over = Null /\ \A a \in Ent(d, y.child) : y.key <= a.key
      BY <3>1 DEF Shape, Kids
    <3>3. \A a \in Ent(d2, y.child) : y.key <= a.key
      <4>1. CASE y.child # q
        BY <1>4, <3>2, <4>1
      <4>2. CASE y.child = q
        <5>1. q # r /\ d[q].parent = p
          BY <3>1, <3>2, <4>2, OneEntry
        <5>2. y.key <= x /\ y.key <= e.key
          BY <3>1, <3>2, <4>2, <5>1
        <5>3. y.key <= e2.key
          BY <5>2
        <5> QED
          BY <1>5, <3>2, <4>2, <5>3
      <4> QED
        BY <4>1, <4>2
    <3> QED
      BY <3>2, <3>3
  <2> QED
    BY <2>1, <2>2
<1>10. Limited(d2, N, level, hi2)
  <2> SUFFICES ASSUME NEW p \in N, NEW y \in Ent(d2, p)
               PROVE  /\ y.key < hi2[p]
                      /\ level[p] # 0 =>
                           /\ hi2[y.child] <= hi2[p]
                           /\ \A z \in Ent(d2, p) : y.key < z.key => hi2[y.child] <= z.key
    BY <1>2 DEF Limited
  <2>1. CASE p = q
    <3>1. hi2[q] = hi[q]
      BY <1>1, <1>2
    <3>2. CASE y = e2
      <4>1. y.key < hi[q]
        BY <1>2, <1>3, <3>2
      <4>2. hi2[y.child] = h
        BY <1>2, <3>2 DEF c
      <4>3. \A z \in Ent(d2, q) : y.key < z.key => h <= z.key
        BY <1>3, <1>5, <3>2
      <4> QED
        BY <1>3, <2>1, <3>1, <4>1, <4>2, <4>3
    <3>3. CASE y # e2
      <4>1. y \in Ent(d, q) /\ y # e /\ y.key < hi[q]
        BY <1>5, <2>1, <3>3 DEF Shape, Limited
      <4>2. /\ y.child \in N /\ y.child # c /\ hi[y.child] <= hi[q]
            /\ \A z \in Ent(d, q) : y.key < z.key => hi[y.child] <= z.key
        BY <4>1, OneEntry DEF Shape, Kids, Limited, c
      <4>3. hi2[y.child] = hi[y.child] /\ hi[y.child] \in Int
        BY <1>2, <4>2
      <4>4. y.key < e2.key => hi[y.child] <= e2.key
        <5>1. CASE e2.key = e.key
          BY <4>2, <5>1
        <5>2. CASE e2.key # e.key
          BY <1>3, <4>1, <5>2
        <5> QED
          BY <5>1, <5>2
      <4> QED
        BY <1>5, <2>1, <3>1, <4>1, <4>2, <4>3, <4>4
    <3> QED
      BY <3>2, <3>3
  <2>2. CASE p # q
    <3>1. y \in Ent(d, p) /\ Ent(d2, p) = Ent(d, p) /\ y.key < hi[p] /\ y.key \in Int
      BY <1>4, <2>2 DEF Shape, Limited, Keyed
    <3>2. hi[p] <= hi2[p]
      BY <1>2
    <3>3. ASSUME level[p] # 0
          PROVE  hi2[y.child] <= hi2[p] /\ \A z \in Ent(d, p) : y.key < z.key => hi2[y.child] <= z.key
      <4>1. /\ y.child \in N /\ y.child # c /\ hi[y.child] <= hi[p]
            /\ \A z \in Ent(d, p) : y.key < z.key => hi[y.child] <= z.key
        BY <1>1, <2>2, <3>1, <3>3 DEF Shape, Kids, Limited
      <4>2. hi2[y.child] = hi[y.child] /\ hi[y.child] \in Int
        BY <1>2, <4>1
      <4> QED
        BY <1>2, <3>2, <4>1, <4>2
    <3>4. y.key < hi2[p]
      BY <1>2, <3>1, <3>2
    <3> QED
      BY <3>1, <3>3, <3>4
  <2> QED
    BY <2>1, <2>2
<1>11. Shape(d2, r, N, level, hi2)
  BY <1>6, <1>7, <1>8, <1>9, <1>10 DEF Shape
<1> QED
  BY <1>2, <1>11 DEF c
-----------------------------------------------------------------------------
(* Where a key can be. *)

(* The keys a node may have, from its father's key for it to its limit. *)
Covers(d, r, hi, p, x) ==
    /\ x < hi[p]
    /\ p # r => \A g \in Ent(d, d[p].parent) : g.child = p => g.key <= x

LEMMA KeysAreCovered ==
    ASSUME NEW d, NEW r, NEW N, NEW level, NEW hi, Shape(d, r, N, level, hi),
           NEW p \in N, NEW e \in Ent(d, p)
    PROVE  Covers(d, r, hi, p, e.key)
<1>1. e.key < hi[p]
  BY DEF Shape, Limited
<1>2. p # r => d[p].parent \in N /\ level[d[p].parent] # 0
  BY DEF Shape, Fathered
<1> QED
  BY <1>1, <1>2 DEF Covers, Shape, Kids

(* So may its father. *)
LEMMA FatherCovers ==
    ASSUME NEW d, NEW r, NEW N, NEW level, NEW hi, Shape(d, r, N, level, hi),
           NEW p \in N \ {r}, NEW x \in Int, Covers(d, r, hi, p, x)
    PROVE  /\ d[p].parent \in N /\ level[d[p].parent] = level[p] + 1
           /\ Covers(d, r, hi, d[p].parent, x)
           /\ \E g \in Ent(d, d[p].parent) : g.child = p /\ g.key <= x
<1> DEFINE f == d[p].parent
<1>1. f \in N /\ level[f] # 0
  BY DEF Shape, Fathered
<1>2. PICK g \in Ent(d, f) : g.child = p
  BY DEF Shape, Fathered
<1>3. g.key <= x /\ x < hi[p] /\ g.key \in Int
  BY <1>1, <1>2 DEF Covers, Shape, Keyed
<1>4. level[f] = level[p] + 1 /\ hi[p] <= hi[f] /\ hi[p] \in Int /\ hi[f] \in Int
  BY <1>1, <1>2 DEF Shape, Kids, Limited
<1>5. ASSUME f # r, NEW h \in Ent(d, d[f].parent), h.child = f PROVE h.key <= x
  <2>1. d[f].parent \in N /\ level[d[f].parent] # 0
    BY <1>1, <1>5 DEF Shape, Fathered
  <2>2. h.key <= g.key /\ h.key \in Int
    BY <1>2, <1>5, <2>1 DEF Shape, Kids, Keyed
  <2> QED
    BY <1>3, <2>2
<1>6. Covers(d, r, hi, f, x)
  BY <1>3, <1>4, <1>5 DEF Covers
<1> QED
  BY <1>1, <1>2, <1>3, <1>4, <1>6

(* No node of a level but p may have x. *)
OnlyAt(d, r, N, level, hi, l, p, x) ==
    \A q \in N : level[q] = l /\ q # p => ~Covers(d, r, hi, q, x)

(* The entry a search for x follows. *)
IsFollowed(S, e, x) ==
    /\ e \in S /\ \A f \in S : e.key < f.key => x < f.key
    /\ x < e.key => \A f \in S : e.key <= f.key

LEMMA OnlyUnder ==
    ASSUME NEW d, NEW r, NEW N, NEW level, NEW hi, Shape(d, r, N, level, hi),
           NEW x \in Int, NEW p \in N, level[p] # 0,
           OnlyAt(d, r, N, level, hi, level[p], p, x),
           NEW e, IsFollowed(Ent(d, p), e, x)
    PROVE  e.child \in N /\ level[e.child] + 1 = level[p]
           /\ OnlyAt(d, r, N, level, hi, level[e.child], e.child, x)
<1>1. e \in Ent(d, p) /\ e.child \in N /\ level[e.child] + 1 = level[p] /\ level[e.child] \in Nat
  BY DEF IsFollowed, Shape, Kids, Ranked
<1>2. ASSUME NEW q \in N, level[q] = level[e.child], q # e.child, Covers(d, r, hi, q, x)
      PROVE  FALSE
  <2>1. q # r
    BY <1>1, <1>2 DEF Shape, Ranked
  <2>2. /\ d[q].parent \in N /\ level[d[q].parent] = level[q] + 1
        /\ Covers(d, r, hi, d[q].parent, x)
        /\ \E g \in Ent(d, d[q].parent) : g.child = q /\ g.key <= x
    BY <1>2, <2>1, FatherCovers
  <2>3. d[q].parent = p
    BY <1>1, <1>2, <2>2 DEF OnlyAt
  <2>4. PICK g \in Ent(d, p) : g.child = q /\ g.key <= x
    BY <2>2, <2>3
  <2>5. g.key \in Int /\ e.key \in Int /\ (g.key = e.key => g = e)
    BY <1>1 DEF Shape, Keyed
  <2>6. CASE g.key < e.key
    <3>1. hi[q] <= e.key /\ hi[q] \in Int /\ x < hi[q]
      BY <1>1, <1>2, <2>4, <2>6 DEF Shape, Limited, Covers
    <3> QED
      BY <2>5, <2>6, <3>1 DEF IsFollowed
  <2>7. CASE e.key < g.key
    BY <2>4, <2>5, <2>7 DEF IsFollowed
  <2> QED
    BY <1>2, <2>4, <2>5, <2>6, <2>7
<1> QED
  BY <1>1, <1>2 DEF OnlyAt

(* Below the keys of the only node that may have x, nothing may have it. *)
LEMMA NoneUnder ==
    ASSUME NEW d, NEW r, NEW N, NEW level, NEW hi, Shape(d, r, N, level, hi),
           NEW x \in Int, NEW l \in Nat, l < level[r], NEW p,
           OnlyAt(d, r, N, level, hi, l + 1, p, x),
           p \in N => \A f \in Ent(d, p) : x < f.key
    PROVE  OnlyAt(d, r, N, level, hi, l, Null, x)
<1>1. ASSUME NEW q \in N, level[q] = l, Covers(d, r, hi, q, x) PROVE FALSE
  <2>1. q # r
    BY <1>1 DEF Shape, Ranked
  <2>2. /\ d[q].parent \in N /\ level[d[q].parent] = level[q] + 1
        /\ Covers(d, r, hi, d[q].parent, x)
        /\ \E g \in Ent(d, d[q].parent) : g.child = q /\ g.key <= x
    BY <1>1, <2>1, FatherCovers
  <2>3. d[q].parent = p
    BY <1>1, <2>2 DEF OnlyAt
  <2>4. PICK g \in Ent(d, p) : g.key <= x
    BY <2>2, <2>3
  <2>5. g.key \in Int
    BY <2>2, <2>3 DEF Shape, Keyed
  <2> QED
    BY <2>2, <2>3, <2>4, <2>5
<1> QED
  BY <1>1 DEF OnlyAt

(* Of two nodes of a level one is entirely before the other. *)
Before(d, r, hi, p, q) ==
    p # r /\ q # r /\ \A g \in Ent(d, d[q].parent) : g.child = q => hi[p] <= g.key

LEMMA Apart ==
    ASSUME NEW d, NEW r, NEW N, NEW level, NEW hi, Shape(d, r, N, level, hi)
    PROVE  \A p, q \in N : level[p] = level[q] /\ p # q =>
              Before(d, r, hi, p, q) \/ Before(d, r, hi, q, p)
<1> DEFINE n == level[r]
           K == {i \in 0..n : \A p, q \in N : level[p] = n - i /\ level[q] = n - i /\ p # q =>
                    Before(d, r, hi, p, q) \/ Before(d, r, hi, q, p)}
<1>1. n \in Nat /\ \A p \in N : level[p] \in Nat /\ level[p] <= n
  BY DEF Shape, Ranked
<1>2. 0 \in K
  <2>1. \A p \in N : level[p] = n => p = r
    BY <1>1 DEF Shape, Ranked
  <2>2. n - 0 = n
    BY <1>1
  <2> HIDE DEF n
  <2> QED
    BY <1>1, <2>1, <2>2
<1>3. ASSUME NEW i \in 0..n-1, i \in K PROVE i + 1 \in K
  <2>1. i + 1 \in 0..n /\ n - (i + 1) < n /\ (n - (i + 1)) + 1 = n - i
    BY <1>1
  <2> SUFFICES \A p, q \in N : level[p] = n - (i + 1) /\ level[q] = n - (i + 1) /\ p # q =>
                  Before(d, r, hi, p, q) \/ Before(d, r, hi, q, p)
    <3> HIDE DEF n
    <3> QED
      BY <2>1
  <2> TAKE p, q \in N
  <2> HAVE level[p] = n - (i + 1) /\ level[q] = n - (i + 1) /\ p # q
  <2> DEFINE f == d[p].parent
             g == d[q].parent
  <2>2. p # r /\ q # r
    <3>1. level[p] = n - (i + 1) /\ level[q] = n - (i + 1) /\ n - (i + 1) < n
      BY <2>1
    <3>2. level[p] # n /\ level[q] # n
      BY <1>1, <3>1
    <3> QED
      BY <3>2
  <2>3. PICK e \in Ent(d, f) : e.child = p
    BY <2>2 DEF Shape, Fathered
  <2>4. PICK h \in Ent(d, g) : h.child = q
    BY <2>2 DEF Shape, Fathered
  <2>5. f \in N /\ g \in N /\ level[f] # 0 /\ level[g] # 0
    BY <2>2 DEF Shape, Fathered
  <2>6. level[f] = n - i /\ level[g] = n - i
    BY <2>1, <2>3, <2>4, <2>5 DEF Shape, Kids
  <2>7. /\ \A x \in Ent(d, f) : x.child = p => x = e
        /\ \A x \in Ent(d, g) : x.child = q => x = h
    BY <2>3, <2>4, <2>5, OneEntry
  <2>8. e.key \in Int /\ h.key \in Int /\ hi[p] \in Int /\ hi[q] \in Int /\ hi[f] \in Int /\ hi[g] \in Int
    BY <2>5 DEF Shape, Keyed, Limited
  <2>9. CASE f = g
    <3>1. e # h /\ (e.key = h.key => e = h)
      BY <2>3, <2>4, <2>5, <2>9 DEF Shape, Keyed
    <3>2. /\ e.key < h.key => hi[p] <= h.key
          /\ h.key < e.key => hi[q] <= e.key
      BY <2>3, <2>4, <2>5, <2>9 DEF Shape, Limited
    <3> QED
      BY <2>2, <2>7, <2>8, <3>1, <3>2 DEF Before
  <2>10. CASE f # g
    <3>1. Before(d, r, hi, f, g) \/ Before(d, r, hi, g, f)
      BY <1>3, <2>5, <2>6, <2>10
    <3>2. hi[p] <= hi[f] /\ hi[q] <= hi[g]
      BY <2>3, <2>4, <2>5 DEF Shape, Limited
    <3>3. CASE Before(d, r, hi, f, g)
      <4>1. d[g].parent \in N /\ level[d[g].parent] # 0
        BY <2>5, <3>3 DEF Shape, Fathered, Before
      <4>2. PICK x \in Ent(d, d[g].parent) : x.child = g
        BY <2>5, <3>3 DEF Shape, Fathered, Before
      <4>3. hi[f] <= x.key /\ x.key <= h.key /\ x.key \in Int
        BY <2>4, <3>3, <4>1, <4>2 DEF Shape, Kids, Keyed, Before
      <4>4. hi[p] <= h.key
        BY <2>8, <3>2, <4>3
      <4> QED
        BY <2>2, <2>7, <4>4 DEF Before
    <3>4. CASE Before(d, r, hi, g, f)
      <4>1. d[f].parent \in N /\ level[d[f].parent] # 0
        BY <2>5, <3>4 DEF Shape, Fathered, Before
      <4>2. PICK x \in Ent(d, d[f].parent) : x.child = f
        BY <2>5, <3>4 DEF Shape, Fathered, Before
      <4>3. hi[g] <= x.key /\ x.key <= e.key /\ x.key \in Int
        BY <2>3, <3>4, <4>1, <4>2 DEF Shape, Kids, Keyed, Before
      <4>4. hi[q] <= e.key
        BY <2>8, <3>2, <4>3
      <4> QED
        BY <2>2, <2>7, <4>4 DEF Before
    <3> QED
      BY <3>1, <3>3, <3>4
  <2> QED
    BY <2>9, <2>10
<1>4. K = 0..n
  <2>1. K \in SUBSET (0..n) /\ \A i \in 0..n-1 : i \in K => i + 1 \in K
    BY <1>3
  <2> HIDE DEF K, n
  <2> QED
    BY <1>1, <1>2, <2>1, InductionUpTo
<1> SUFFICES ASSUME NEW p \in N, NEW q \in N, level[p] = level[q], p # q
             PROVE  Before(d, r, hi, p, q) \/ Before(d, r, hi, q, p)
  OBVIOUS
<1>5. n - level[p] \in 0..n /\ n - (n - level[p]) = level[p]
  BY <1>1
<1>6. n - level[p] \in K
  BY <1>4, <1>5
<1> HIDE DEF n
<1> QED
  BY <1>5, <1>6

(* So are their keys. *)
LEMMA KeysApart ==
    ASSUME NEW d, NEW r, NEW N, NEW level, NEW hi, Shape(d, r, N, level, hi),
           NEW p \in N, NEW q \in N, level[p] = level[q], p # q
    PROVE  /\ Ent(d, p) # {} /\ Ent(d, q) # {}
           /\ Below(Ent(d, p), Ent(d, q)) \/ Below(Ent(d, q), Ent(d, p))
<1>1. ASSUME NEW a \in N, NEW b \in N, Before(d, r, hi, a, b)
      PROVE  Below(Ent(d, a), Ent(d, b)) /\ Ent(d, a) # {} /\ Ent(d, b) # {}
  <2>1. d[b].parent \in N /\ level[d[b].parent] # 0 /\ Ent(d, a) # {} /\ Ent(d, b) # {}
    BY <1>1 DEF Shape, Fathered, Before
  <2>2. PICK g \in Ent(d, d[b].parent) : g.child = b
    BY <1>1 DEF Shape, Fathered, Before
  <2>3. hi[a] <= g.key /\ hi[a] \in Int /\ g.key \in Int
    BY <1>1, <2>1, <2>2 DEF Before, Shape, Keyed, Limited
  <2>4. \A e \in Ent(d, a) : e.key < hi[a] /\ e.key \in Int
    BY DEF Shape, Keyed, Limited
  <2>5. \A e \in Ent(d, b) : g.key <= e.key /\ e.key \in Int
    BY <2>1, <2>2 DEF Shape, Keyed, Kids
  <2> QED
    BY <2>1, <2>3, <2>4, <2>5 DEF Below
<1> QED
  BY <1>1, Apart

(* No node comes between two neighbours. *)
LEMMA NoneBetween ==
    ASSUME NEW d, NEW r, NEW N, NEW level, NEW hi, Shape(d, r, N, level, hi),
           NEW f \in N, level[f] # 0, NEW gl \in Ent(d, f), NEW gr \in Ent(d, f),
           gl.key < gr.key, \A x \in Ent(d, f) : x.key <= gl.key \/ gr.key <= x.key,
           NEW q \in N, level[q] = level[gl.child], q # gl.child, q # gr.child
    PROVE  Below(Ent(d, q), Ent(d, gl.child)) \/ Below(Ent(d, gr.child), Ent(d, q))
<1> DEFINE a == gl.child
           b == gr.child
<1>1. /\ a \in N \ {r} /\ b \in N \ {r} /\ level[a] + 1 = level[f] /\ level[a] \in Nat
      /\ gl.key \in Int /\ gr.key \in Int /\ hi[b] \in Int /\ hi[f] \in Int /\ hi[b] <= hi[f]
      /\ gr.key < hi[b]
      /\ \A e \in Ent(d, a) : gl.key <= e.key
      /\ \A e \in Ent(d, a) \union Ent(d, b) : e.key \in Int /\ e.key < hi[b]
  BY Couple
<1> HIDE DEF a, b
<1>2. q # r
  BY <1>1 DEF Shape, Ranked, a
<1>3. d[q].parent \in N /\ level[d[q].parent] # 0
  BY <1>2 DEF Shape, Fathered
<1>4. PICK h \in Ent(d, d[q].parent) : h.child = q
  BY <1>2 DEF Shape, Fathered
<1>5. level[d[q].parent] = level[f]
  BY <1>1, <1>3, <1>4 DEF Shape, Kids, a
<1>6. \A e \in Ent(d, q) : e.key \in Int /\ h.key <= e.key /\ e.key < hi[q]
  BY <1>3, <1>4 DEF Shape, Kids, Keyed, Limited
<1>7. h.key \in Int /\ hi[q] \in Int
  BY <1>3 DEF Shape, Keyed, Limited
<1>8. CASE d[q].parent = f
  <2>1. h # gl /\ h # gr /\ (h.key = gl.key => h = gl) /\ (h.key = gr.key => h = gr)
    BY <1>4, <1>8 DEF Shape, Keyed
  <2>2. h.key < gl.key \/ gr.key < h.key
    BY <1>1, <1>4, <1>7, <1>8, <2>1
  <2>3. h.key < gl.key => hi[q] <= gl.key
    BY <1>4, <1>8 DEF Shape, Limited
  <2>4. gr.key < h.key => hi[b] <= h.key
    BY <1>4, <1>8 DEF Shape, Limited, b
  <2>5. CASE hi[q] <= gl.key
    BY <1>1, <1>6, <1>7, <2>5 DEF Below, a, b
  <2>6. CASE hi[b] <= h.key
    BY <1>1, <1>6, <1>7, <2>6 DEF Below, a, b
  <2> QED
    BY <2>2, <2>3, <2>4, <2>5, <2>6
<1>9. CASE d[q].parent # f
  <2>1. Before(d, r, hi, d[q].parent, f) \/ Before(d, r, hi, f, d[q].parent)
    BY <1>3, <1>5, <1>9, Apart
  <2>2. CASE Before(d, r, hi, d[q].parent, f)
    <3>1. d[f].parent \in N /\ level[d[f].parent] # 0
      BY <2>2 DEF Shape, Fathered, Before
    <3>2. PICK x \in Ent(d, d[f].parent) : x.child = f
      BY <2>2 DEF Shape, Fathered, Before
    <3>3. hi[d[q].parent] <= x.key /\ x.key <= gl.key /\ x.key \in Int
      BY <2>2, <3>1, <3>2 DEF Shape, Kids, Keyed, Before
    <3>4. hi[q] <= hi[d[q].parent] /\ hi[d[q].parent] \in Int
      BY <1>3, <1>4 DEF Shape, Limited
    <3>5. hi[q] <= gl.key
      BY <1>1, <1>7, <3>3, <3>4
    <3> QED
      BY <1>1, <1>6, <1>7, <3>5 DEF Below, a, b
  <2>3. CASE Before(d, r, hi, f, d[q].parent)
    <3>1. d[d[q].parent].parent \in N /\ level[d[d[q].parent].parent] # 0
      BY <1>3, <2>3 DEF Shape, Fathered, Before
    <3>2. PICK x \in Ent(d, d[d[q].parent].parent) : x.child = d[q].parent
      BY <1>3, <2>3 DEF Shape, Fathered, Before
    <3>3. hi[f] <= x.key /\ x.key <= h.key /\ x.key \in Int
      BY <1>3, <1>4, <2>3, <3>1, <3>2 DEF Shape, Kids, Keyed, Before
    <3>4. hi[b] <= h.key
      BY <1>1, <1>7, <3>3
    <3> QED
      BY <1>1, <1>6, <1>7, <3>4 DEF Below, a, b
  <2> QED
    BY <2>1, <2>2, <2>3
<1> QED
  BY <1>8, <1>9

-----------------------------------------------------------------------------
(* The list of the leaves L: every leaf points to the one right behind it. *)

(* The leaf n, or nothing, comes right after p. *)
IsNext(d, L, p, n) ==
    \/ n = Null /\ \A q \in L \ {p} : Below(Ent(d, q), Ent(d, p))
    \/ /\ n \in L \ {p} /\ Below(Ent(d, p), Ent(d, n))
       /\ \A q \in L \ {p, n} : Below(Ent(d, q), Ent(d, p)) \/ Below(Ent(d, n), Ent(d, q))

Listed(d, L) == \A p \in L : IsNext(d, L, p, d[p].next)

(* Of any two leaves one is entirely before the other. *)
Separated(d, L) ==
    /\ \A p \in L : KeyedBy(Ent(d, p))
    /\ \A p, q \in L : p # q =>
          /\ Ent(d, p) # {}
          /\ Below(Ent(d, p), Ent(d, q)) \/ Below(Ent(d, q), Ent(d, p))

LEMMA BelowOrder ==
    ASSUME NEW A, NEW B, NEW C, KeyedBy(A), KeyedBy(B), KeyedBy(C), B # {}
    PROVE  /\ Below(A, B) /\ Below(B, C) => Below(A, C)
           /\ A # {} => ~(Below(A, B) /\ Below(B, A))
  BY DEF Below, KeyedBy

LEMMA LeavesSeparated ==
    ASSUME NEW d, NEW r, NEW N, NEW level, NEW hi, Shape(d, r, N, level, hi)
    PROVE  Separated(d, {q \in N : level[q] = 0})
  BY KeysApart DEF Separated, KeyedBy, Shape, Keyed

(* The list stays as it is while each leaf keeps a key. *)
LEMMA ListKept ==
    ASSUME NEW d, NEW d2, NEW L, Separated(d, L), Separated(d2, L), Listed(d, L),
           \A p \in L : d2[p].next = d[p].next,
           \A p, q \in L : p # q => \E e \in Ent(d, p), f \in Ent(d2, p) : e.key = f.key
    PROVE  Listed(d2, L)
<1>1. ASSUME NEW p \in L, NEW q \in L, p # q, Below(Ent(d, p), Ent(d, q))
      PROVE  Below(Ent(d2, p), Ent(d2, q))
  <2>1. PICK e \in Ent(d, p), f \in Ent(d2, p) : e.key = f.key
    BY <1>1
  <2>2. PICK g \in Ent(d, q), h \in Ent(d2, q) : g.key = h.key
    BY <1>1
  <2>3. e.key \in Int /\ g.key \in Int /\ e.key < g.key
    BY <1>1 DEF Below, Separated, KeyedBy
  <2>4. ~Below(Ent(d2, q), Ent(d2, p))
    BY <2>1, <2>2, <2>3 DEF Below
  <2> QED
    BY <1>1, <2>4 DEF Separated
<1> QED
  BY <1>1 DEF Listed, IsNext

(* A leaf splits in two. *)
LEMMA ListSplit ==
    ASSUME NEW d, NEW d2, NEW L, Separated(d, L), Listed(d, L), NEW p \in L, NEW new, new \notin L,
           NEW A, NEW B, A # {}, B # {}, A \union B = Ent(d, p), Below(A, B),
           \A q \in L \union {new} :
              Ent(d2, q) = IF q = p THEN A ELSE IF q = new THEN B ELSE Ent(d, q),
           \A q \in L \union {new} :
              d2[q].next = IF q = p THEN new ELSE IF q = new THEN d[p].next ELSE d[q].next
    PROVE  Listed(d2, L \union {new})
<1> DEFINE M == L \union {new}
<1>1. KeyedBy(A) /\ KeyedBy(B) /\ \A q \in L : KeyedBy(Ent(d, q))
  BY DEF Separated, KeyedBy
<1>2. \A q \in L : /\ Below(Ent(d, q), Ent(d, p)) => Below(Ent(d, q), A) /\ Below(Ent(d, q), B)
                   /\ Below(Ent(d, p), Ent(d, q)) => Below(A, Ent(d, q)) /\ Below(B, Ent(d, q))
  BY DEF Below
<1>3. \A q \in L \ {p} : Ent(d2, q) = Ent(d, q) /\ d2[q].next = d[q].next /\ q # new
  OBVIOUS
<1>4. Ent(d2, p) = A /\ Ent(d2, new) = B /\ d2[p].next = new /\ d2[new].next = d[p].next /\ p # new
  OBVIOUS
<1>5. IsNext(d2, M, p, new)
  <2>1. ASSUME NEW q \in L \ {p} PROVE Below(Ent(d, q), A) \/ Below(B, Ent(d, q))
    BY <1>2 DEF Separated
  <2> QED
    BY <1>3, <1>4, <2>1 DEF IsNext
<1>6. IsNext(d2, M, new, d[p].next)
  <2>1. CASE d[p].next = Null /\ \A q \in L \ {p} : Below(Ent(d, q), Ent(d, p))
    BY <1>2, <1>3, <1>4, <2>1 DEF IsNext
  <2>2. CASE /\ d[p].next \in L \ {p} /\ Below(Ent(d, p), Ent(d, d[p].next))
             /\ \A q \in L \ {p, d[p].next} :
                    Below(Ent(d, q), Ent(d, p)) \/ Below(Ent(d, d[p].next), Ent(d, q))
    <3> DEFINE n == d[p].next
    <3>1. n \in M \ {new} /\ Below(Ent(d2, new), Ent(d2, n)) /\ n # p
      BY <1>2, <1>3, <1>4, <2>2
    <3>2. ASSUME NEW q \in M \ {new, n}
          PROVE  Below(Ent(d2, q), Ent(d2, new)) \/ Below(Ent(d2, n), Ent(d2, q))
      BY <1>2, <1>3, <1>4, <2>2
    <3> QED
      BY <3>1, <3>2 DEF IsNext
  <2> QED
    BY <2>1, <2>2 DEF Listed, IsNext
<1>7. ASSUME NEW q \in L \ {p} PROVE IsNext(d2, M, q, d[q].next)
  <2> DEFINE n == d[q].next
  <2>1. q # new /\ IsNext(d, L, q, n) /\ Ent(d2, q) = Ent(d, q)
    BY <1>3 DEF Listed
  <2>2. CASE n = Null /\ \A z \in L \ {q} : Below(Ent(d, z), Ent(d, q))
    BY <1>2, <1>3, <1>4, <2>1, <2>2 DEF IsNext
  <2>3. CASE n \in L \ {q} /\ Below(Ent(d, q), Ent(d, n))
             /\ \A z \in L \ {q, n} : Below(Ent(d, z), Ent(d, q)) \/ Below(Ent(d, n), Ent(d, z))
    <3>1. n \in M \ {q} /\ Below(Ent(d2, q), Ent(d2, n))
      BY <1>2, <1>3, <1>4, <2>1, <2>3
    <3>2. n = p => Below(Ent(d2, n), B)
      BY <1>4
    <3>3. ASSUME NEW z \in M \ {q, n}
          PROVE  Below(Ent(d2, z), Ent(d2, q)) \/ Below(Ent(d2, n), Ent(d2, z))
      <4>1. CASE n = p
        <5>1. CASE z = new
          BY <1>4, <4>1, <5>1
        <5>2. CASE z # new
          BY <1>2, <1>3, <1>4, <2>1, <2>3, <3>3, <4>1, <5>2
        <5> QED
          BY <5>1, <5>2
      <4>2. CASE n # p
        <5>1. CASE z = new \/ z = p
          BY <1>2, <1>3, <1>4, <2>1, <2>3, <4>2, <5>1
        <5>2. CASE z # new /\ z # p
          BY <1>3, <2>1, <2>3, <3>3, <4>2, <5>2
        <5> QED
          BY <5>1, <5>2
      <4> QED
        BY <4>1, <4>2
    <3> QED
      BY <3>1, <3>3 DEF IsNext
  <2> QED
    BY <2>1, <2>2, <2>3 DEF IsNext
<1> QED
  BY <1>3, <1>4, <1>5, <1>6, <1>7 DEF Listed

(* A leaf takes in the one right behind it. *)
LEMMA ListMerge ==
    ASSUME NEW d, NEW d2, NEW L, Separated(d, L), Listed(d, L), NEW a \in L, NEW b \in L, a # b,
           Below(Ent(d, a), Ent(d, b)),
           \A q \in L \ {a, b} : Below(Ent(d, q), Ent(d, a)) \/ Below(Ent(d, b), Ent(d, q)),
           \A q \in L \ {b} :
              Ent(d2, q) = IF q = a THEN Ent(d, a) \union Ent(d, b) ELSE Ent(d, q),
           \A q \in L \ {b} : d2[q].next = IF q = a THEN d[b].next ELSE d[q].next
    PROVE  Listed(d2, L \ {b})
<1> DEFINE M == L \ {b}
<1>1. \A q \in L : KeyedBy(Ent(d, q)) /\ Ent(d, q) # {}
  BY DEF Separated
<1>2. \A q \in L \ {a, b} : Ent(d2, q) = Ent(d, q) /\ d2[q].next = d[q].next
  OBVIOUS
<1>3. Ent(d2, a) = Ent(d, a) \union Ent(d, b) /\ d2[a].next = d[b].next
  OBVIOUS
<1>4. ASSUME NEW p \in L, NEW q \in L, NEW z \in L, Below(Ent(d, p), Ent(d, q)),
             Below(Ent(d, q), Ent(d, z))
      PROVE  Below(Ent(d, p), Ent(d, z))
  BY <1>1, <1>4, BelowOrder
<1>5. \A p, q \in L : ~(Below(Ent(d, p), Ent(d, q)) /\ Below(Ent(d, q), Ent(d, p)))
  BY <1>1, BelowOrder
<1>6. \A q \in L \ {a, b} : /\ Below(Ent(d, q), Ent(d, a)) => Below(Ent(d, q), Ent(d2, a))
                            /\ Below(Ent(d, b), Ent(d, q)) => Below(Ent(d2, a), Ent(d, q))
  <2>1. \A q \in L \ {a, b} : /\ Below(Ent(d, q), Ent(d, a)) => Below(Ent(d, q), Ent(d, b))
                              /\ Below(Ent(d, b), Ent(d, q)) => Below(Ent(d, a), Ent(d, q))
    BY <1>4
  <2> QED
    BY <1>3, <2>1 DEF Below
<1>7. IsNext(d2, M, a, d[b].next)
  <2> DEFINE n == d[b].next
  <2>1. CASE n = Null /\ \A q \in L \ {b} : Below(Ent(d, q), Ent(d, b))
    <3>1. \A q \in L \ {a, b} : Below(Ent(d, q), Ent(d, a))
      BY <1>5, <2>1
    <3> QED
      BY <1>2, <1>6, <2>1, <3>1 DEF IsNext
  <2>2. CASE /\ n \in L \ {b} /\ Below(Ent(d, b), Ent(d, n))
             /\ \A q \in L \ {b, n} : Below(Ent(d, q), Ent(d, b)) \/ Below(Ent(d, n), Ent(d, q))
    <3>1. n # a /\ n \in M \ {a}
      BY <1>5, <2>2
    <3>2. Below(Ent(d2, a), Ent(d2, n))
      BY <1>2, <1>6, <2>2, <3>1
    <3>3. ASSUME NEW q \in M \ {a, n}
          PROVE  Below(Ent(d2, q), Ent(d2, a)) \/ Below(Ent(d2, n), Ent(d2, q))
      <4>1. Below(Ent(d, q), Ent(d, b)) => Below(Ent(d, q), Ent(d, a))
        BY <1>5
      <4> QED
        BY <1>2, <1>6, <2>2, <3>1, <4>1
    <3> QED
      BY <3>1, <3>2, <3>3 DEF IsNext
  <2> QED
    BY <2>1, <2>2 DEF Listed, IsNext
<1>8. ASSUME NEW q \in L \ {a, b} PROVE IsNext(d2, M, q, d[q].next)
  <2> DEFINE n == d[q].next
  <2>1. IsNext(d, L, q, n) /\ Ent(d2, q) = Ent(d, q)
    BY <1>2 DEF Listed
  <2>2. CASE n = Null /\ \A z \in L \ {q} : Below(Ent(d, z), Ent(d, q))
    BY <1>2, <1>6, <2>1, <2>2 DEF IsNext
  <2>3. CASE n \in L \ {q} /\ Below(Ent(d, q), Ent(d, n))
             /\ \A z \in L \ {q, n} : Below(Ent(d, z), Ent(d, q)) \/ Below(Ent(d, n), Ent(d, z))
    <3>1. n # b
      <4>1. ASSUME n = b PROVE FALSE
        <5>1. Below(Ent(d, q), Ent(d, a))
          BY <1>5, <2>3, <4>1
        <5> QED
          BY <1>5, <2>3, <4>1, <5>1
      <4> QED
        BY <4>1
    <3>2. n \in M \ {q} /\ Below(Ent(d2, q), Ent(d2, n))
      <4>1. CASE n = a
        BY <1>2, <1>6, <2>3, <4>1
      <4>2. CASE n # a
        BY <1>2, <2>3, <3>1, <4>2
      <4> QED
        BY <3>1, <4>1, <4>2, <2>3
    <3>3. ASSUME NEW z \in M \ {q, n}
          PROVE  Below(Ent(d2, z), Ent(d2, q)) \/ Below(Ent(d2, n), Ent(d2, z))
      <4>1. CASE n = a
        <5>1. ~Below(Ent(d, z), Ent(d, q)) => Below(Ent(d, b), Ent(d, z))
          BY <1>5, <2>3, <3>3, <4>1
        <5> QED
          BY <1>2, <1>6, <3>3, <4>1, <5>1
      <4>2. CASE n # a /\ z = a
        <5>1. Below(Ent(d, a), Ent(d, q)) => Below(Ent(d, b), Ent(d, q))
          BY <1>5
        <5>2. Below(Ent(d, n), Ent(d, a)) => Below(Ent(d, n), Ent(d2, a))
          BY <1>6, <2>3, <3>1, <4>2
        <5> QED
          BY <1>2, <1>3, <1>6, <2>3, <3>1, <4>2, <5>1, <5>2
      <4>3. CASE n # a /\ z # a
        BY <1>2, <2>3, <3>1, <3>3, <4>3
      <4> QED
        BY <4>1, <4>2, <4>3
    <3> QED
      BY <3>2, <3>3 DEF IsNext
  <2> QED
    BY <2>1, <2>2, <2>3 DEF IsNext
<1> QED
  BY <1>2, <1>3, <1>7, <1>8 DEF Listed

-----------------------------------------------------------------------------
(* A tree of pages. *)

AnyEntry == [key : Keys, child : Int \union Locations, over : Int \union {Null}]

AnyNode == [leaf : BOOLEAN, entries : Seq(AnyEntry),
            next : Int \union {Null}, parent : Int \union {Null}]

Plain(d, N) ==
    \A q \in N : d[q] \in AnyNode /\ Ascending(d[q].entries) /\ (d[q].leaf \/ d[q].next = Null)

(* The pages have numbers, and the nodes N are some of them. *)
Paged(d, N) == IsFiniteSet(DOMAIN d) /\ DOMAIN d \subseteq Int /\ N \subseteq DOMAIN d

Leaves(N, level) == {q \in N : level[q] = 0}

Built(d, r, N, level, hi) ==
    /\ Shape(d, r, N, level, hi) /\ Plain(d, N) /\ Paged(d, N)
    /\ Listed(d, Leaves(N, level))

(* The entries in the leaves and the pages that are no nodes are the same. *)
Kept(d, N, d2, N2) ==
    /\ LeafEntries(d2, N2) = LeafEntries(d, N)
    /\ DOMAIN d2 \ N2 = DOMAIN d \ N
    /\ \A o \in DOMAIN d \ N : d2[o] = d[o]

LEMMA EntriesKeyed == KeyedBy(AnyEntry)
  BY KeysAssumption DEF KeyedBy, AnyEntry

LEMMA NewPageIsNew ==
    ASSUME NEW d, IsFiniteSet(DOMAIN d), DOMAIN d \subseteq Int
    PROVE  /\ NewPage(d) \in Nat /\ NewPage(d) \notin DOMAIN d /\ NewPage(d) # Null
           /\ NewOverflowPage(d) \in Int /\ NewOverflowPage(d) \notin DOMAIN d
           /\ NewOverflowPage(d) # Null
<1> DEFINE n == Bound(d)
<1>1. n \in Nat
  BY FS_CardinalityType DEF Bound
<1>2. 0..n \ DOMAIN d # {}
  <2>1. ASSUME 0..n \subseteq DOMAIN d PROVE FALSE
    <3>1. Cardinality(0..n) <= n
      BY <2>1, FS_Subset DEF Bound
    <3>2. Cardinality(0..n) = n + 1
      <4>1. 0 \in Int /\ n \in Int /\ ~(0 > n) /\ n - 0 + 1 = n + 1
        BY <1>1
      <4> QED
        BY <4>1, FS_Interval, Zenon
    <3> QED
      BY <1>1, <3>1, <3>2
  <2> QED
    BY <2>1
<1>3. NewPage(d) \in 0..n \ DOMAIN d
  <2> DEFINE free == 0..n \ DOMAIN d
  <2>1. free \in SUBSET Nat /\ free # {}
    BY <1>1, <1>2
  <2> HIDE DEF free
  <2>2. Min(free) \in free
    BY <2>1, LeastChosen DEF Min
  <2> QED
    BY <2>2 DEF NewPage, free, Bound
<1>4. (-n-1)..(-1) \ DOMAIN d # {}
  <2>1. ASSUME (-n-1)..(-1) \subseteq DOMAIN d PROVE FALSE
    <3>1. Cardinality((-n-1)..(-1)) <= n
      BY <2>1, FS_Subset DEF Bound
    <3>2. Cardinality((-n-1)..(-1)) = n + 1
      <4>1. -n-1 \in Int /\ -1 \in Int /\ ~(-n-1 > -1) /\ (-1) - (-n-1) + 1 = n + 1
        BY <1>1
      <4> QED
        BY <4>1, FS_Interval, Zenon
    <3> QED
      BY <1>1, <3>1, <3>2
  <2> QED
    BY <2>1
<1> DEFINE S == (-n-1)..(-1) \ DOMAIN d
           T == {-x : x \in S}
<1>5. Min(T) \in T /\ \A y \in T : Min(T) <= y
  <2>1. T \in SUBSET Nat /\ T # {}
    BY <1>1, <1>4
  <2> HIDE DEF T
  <2> QED
    BY <2>1, LeastChosen DEF Min
<1>6. PICK m \in S : -m = Min(T)
  BY <1>5
<1>7. \A y \in S : y <= m
  <2> TAKE y \in S
  <2>1. -y \in T /\ y \in Int /\ m \in Int
    BY <1>1
  <2>2. -m <= -y
    BY <1>5, <1>6, <2>1
  <2> QED
    BY <2>1, <2>2
<1>8. Max(S) \in S
  BY <1>6, <1>7 DEF Max
<1>9. NewOverflowPage(d) = Max(S)
  BY DEF NewOverflowPage
<1> QED
  BY <1>1, <1>3, <1>8, <1>9, NullAssumption

(* BPTreeNode::SetParentID, page by page. *)
IsGone(d, p, entries, q) == ~d[p].leaf /\ \E e \in Range(entries) : e.child = q

HasAdopted(d, p, entries, d2) ==
    /\ DOMAIN d2 = DOMAIN d
    /\ \A q \in DOMAIN d :
         d2[q] = IF IsGone(d, p, entries, q) THEN [d[q] EXCEPT !.parent = p] ELSE d[q]
    /\ \A q \in DOMAIN d : d[q] \in AnyNode =>
         /\ d2[q] \in AnyNode /\ d2[q].leaf = d[q].leaf
         /\ d2[q].entries = d[q].entries /\ d2[q].next = d[q].next
         /\ d2[q].parent = IF IsGone(d, p, entries, q) THEN p ELSE d[q].parent

LEMMA Adopting ==
    ASSUME NEW d, NEW p \in DOMAIN d, p \in Int, NEW entries
    PROVE  HasAdopted(d, p, entries, AdoptedBy(d, p, entries))
<1> DEFINE d2 == AdoptedBy(d, p, entries)
<1>1. /\ DOMAIN d2 = DOMAIN d
      /\ \A q \in DOMAIN d :
            d2[q] = IF ~d[p].leaf /\ \E e \in Range(entries) : e.child = q
                    THEN [d[q] EXCEPT !.parent = p] ELSE d[q]
  <2>1. CASE d[p].leaf
    BY <2>1 DEF AdoptedBy
  <2>2. CASE ~d[p].leaf
    BY <2>2 DEF AdoptedBy, Adopted
  <2> QED
    BY <2>1, <2>2
<1> HIDE DEF d2
<1>2. ASSUME NEW q \in DOMAIN d, d[q] \in AnyNode
      PROVE  LET n == [d[q] EXCEPT !.parent = p]
             IN  /\ n \in AnyNode /\ n.leaf = d[q].leaf /\ n.entries = d[q].entries
                 /\ n.next = d[q].next /\ n.parent = p
  BY <1>2 DEF AnyNode
<1>3. ASSUME NEW q \in DOMAIN d, d[q] \in AnyNode
      PROVE  /\ d2[q] \in AnyNode /\ d2[q].leaf = d[q].leaf
             /\ d2[q].entries = d[q].entries /\ d2[q].next = d[q].next
             /\ d2[q].parent = IF ~d[p].leaf /\ \E e \in Range(entries) : e.child = q
                               THEN p ELSE d[q].parent
  <2>1. CASE ~d[p].leaf /\ \E e \in Range(entries) : e.child = q
    <3>1. d2[q] = [d[q] EXCEPT !.parent = p]
      BY <1>1, <2>1
    <3> QED
      BY <1>2, <1>3, <2>1, <3>1
  <2>2. CASE ~(~d[p].leaf /\ \E e \in Range(entries) : e.child = q)
    <3>1. d2[q] = d[q]
      BY <1>1, <2>2
    <3> QED
      BY <1>3, <2>2, <3>1
  <2> QED
    BY <2>1, <2>2
<1> QED
  BY <1>1, <1>3 DEF HasAdopted, IsGone, d2

(* The entries of a node. *)
LEMMA NodeEntries ==
    ASSUME NEW d, NEW r, NEW N, NEW level, NEW hi, Built(d, r, N, level, hi), NEW q \in N
    PROVE  /\ d[q] \in AnyNode /\ d[q].entries \in Seq(AnyEntry) /\ Ascending(d[q].entries)
           /\ Len(d[q].entries) \in Nat /\ DOMAIN d[q].entries = 1..Len(d[q].entries)
           /\ q \in Int /\ q \in DOMAIN d /\ d[q].leaf \in BOOLEAN
           /\ level[q] \in Nat /\ (d[q].leaf <=> level[q] = 0)
           /\ \A e \in Ent(d, q) : e \in AnyEntry
           /\ \A i \in 1..Len(d[q].entries) : d[q].entries[i] \in Ent(d, q)
           /\ \A e \in Ent(d, q) : \E i \in 1..Len(d[q].entries) : d[q].entries[i] = e
           /\ Ent(d, q) = {} <=> Len(d[q].entries) = 0
<1>1. /\ d[q] \in AnyNode /\ d[q].entries \in Seq(AnyEntry) /\ Ascending(d[q].entries)
      /\ d[q].leaf \in BOOLEAN /\ q \in DOMAIN d /\ q \in Int
  BY DEF Built, Plain, Paged, AnyNode
<1>2. level[q] \in Nat /\ (d[q].leaf <=> level[q] = 0)
  BY DEF Built, Shape, Ranked
<1>3. \A e \in Ent(d, q) : e \in AnyEntry
  BY <1>1, RangeHas DEF Ent
<1> DEFINE s == d[q].entries
<1>4. /\ DOMAIN s = 1..Len(s) /\ Len(s) \in Nat
      /\ \A i \in 1..Len(s) : s[i] \in Range(s)
      /\ \A e \in Range(s) : \E i \in 1..Len(s) : s[i] = e
      /\ s = << >> <=> Len(s) = 0
      /\ s = << >> <=> Range(s) = {}
  BY <1>1, RangeHas
<1> QED
  BY <1>1, <1>2, <1>3, <1>4 DEF Ent

LEMMA InLeaves ==
    ASSUME NEW d, NEW r, NEW N, NEW level, NEW hi, Shape(d, r, N, level, hi)
    PROVE  \A e : e \in LeafEntries(d, N) <=> \E q \in N : level[q] = 0 /\ e \in Ent(d, q)
<1>1. \A q \in N : d[q].leaf <=> level[q] = 0
  BY DEF Shape, Ranked
<1> QED
  BY <1>1 DEF LeafEntries, Ent

LEMMA ListSame ==
    ASSUME NEW d, NEW d2, NEW L, Listed(d, L),
           \A q \in L : Ent(d2, q) = Ent(d, q) /\ d2[q].next = d[q].next
    PROVE  Listed(d2, L)
<1>1. ASSUME NEW p \in L, IsNext(d, L, p, d[p].next) PROVE IsNext(d2, L, p, d[p].next)
  BY <1>1 DEF IsNext
<1> QED
  BY <1>1 DEF Listed

LEMMA Capacity ==
    ASSUME NEW n, n.leaf \in BOOLEAN
    PROVE  /\ Cap(n) \in Nat /\ Cap(n) >= 3 /\ Half(n) \in Nat /\ Half(n) >= 2 /\ Half(n) <= Cap(n)
           /\ Cap(n) \div 2 + 1 \in Nat /\ Cap(n) \div 2 + 1 <= Cap(n)
           /\ Cap(n) \div 2 + 1 >= Half(n) /\ Cap(n) + 1 - (Cap(n) \div 2 + 1) >= Half(n)
           /\ 2 * Half(n) - 1 <= Cap(n) /\ 2 * Half(n) - 1 >= Half(n)
<1>1. Cap(n) \in Nat /\ Cap(n) >= 3
  BY LeafCapAssumption, InnerCapAssumption DEF Cap
<1>2. ASSUME NEW c \in Nat, c >= 3
      PROVE  /\ (c + 1) \div 2 \in Nat /\ (c + 1) \div 2 >= 2 /\ (c + 1) \div 2 <= c
             /\ c \div 2 + 1 \in Nat /\ c \div 2 + 1 <= c
             /\ c \div 2 + 1 >= (c + 1) \div 2 /\ c + 1 - (c \div 2 + 1) >= (c + 1) \div 2
             /\ 2 * ((c + 1) \div 2) - 1 <= c /\ 2 * ((c + 1) \div 2) - 1 >= (c + 1) \div 2
  BY <1>2
<1> QED
  BY <1>1, <1>2 DEF Half

LEMMA WithEntries ==
    ASSUME NEW n \in AnyNode, NEW s \in Seq(AnyEntry)
    PROVE  LET m == [n EXCEPT !.entries = s]
           IN  /\ m \in AnyNode /\ m.leaf = n.leaf /\ m.entries = s
               /\ m.next = n.next /\ m.parent = n.parent
  BY DEF AnyNode

(* A loop over a tree goes on with other pages, elsewhere. *)
LEMMA Going ==
    ASSUME NEW d, NEW r, NEW p, NEW s, s = [pages |-> d, root |-> r, at |-> p], NEW x, NEW q
    PROVE  /\ s.pages = d /\ s.root = r /\ s.at = p
           /\ \A y : y = [s EXCEPT !.pages = x, !.at = q] => y = [pages |-> x, root |-> r, at |-> q]
           /\ \A y : y = [s EXCEPT !.pages = x, !.root = q] => y = [pages |-> x, root |-> q, at |-> p]
<1>1. ASSUME NEW y, y = [s EXCEPT !.pages = x, !.at = q]
      PROVE  y = [pages |-> x, root |-> r, at |-> q]
  BY <1>1, Zenon
<1>2. ASSUME NEW y, y = [s EXCEPT !.pages = x, !.root = q]
      PROVE  y = [pages |-> x, root |-> q, at |-> p]
  BY <1>2, Zenon
<1> QED
  BY <1>1, <1>2

LEMMA SplitIs ==
    ASSUME NEW d, NEW r, NEW p, NEW s, s = [pages |-> d, root |-> r, at |-> p],
           NEW halves, halves = Split(d[p]), NEW new, new = NewPage(d), NEW f, f = d[p].parent,
           NEW left, left = (IF d[p].leaf THEN [halves.left EXCEPT !.next = new] ELSE halves.left),
           NEW entry, entry = Entry(halves.right.entries[1].key, new, Null),
           NEW known, known = InsertAt(d[f].entries, LowerBound(d[f], entry.key), entry)
    PROVE  SplitPage(s) =
              [pages |-> AdoptedBy([q \in DOMAIN d \union {new} |->
                                        IF q = new THEN halves.right
                                        ELSE IF q = p THEN left
                                        ELSE IF q = f THEN [d[q] EXCEPT !.entries = known] ELSE d[q]],
                                   new, halves.right.entries),
               root |-> r, at |-> f]
<1> DEFINE moved == [q \in DOMAIN d \union {new} |->
                        IF q = new THEN halves.right
                        ELSE IF q = p THEN left
                        ELSE IF q = f THEN [d[q] EXCEPT !.entries = known] ELSE d[q]]
<1>1. s.pages = d /\ s.at = p
  OBVIOUS
<1>2. SplitPage(s) = [s EXCEPT !.pages = AdoptedBy(moved, new, halves.right.entries), !.at = f]
  BY <1>1 DEF SplitPage
<1> HIDE DEF moved
<1>3. SplitPage(s) = [pages |-> AdoptedBy(moved, new, halves.right.entries), root |-> r, at |-> f]
  BY <1>2, Going
<1> QED
  BY <1>3, Zenon DEF moved

(* What SolveOverflow does to a node p that is not the root: t is the tree *)
(* after it, at the father.                                                *)
HasSplit(d, r, N, level, p, t) ==
    LET new == NewPage(d)
        f   == d[p].parent
        m   == Cap(d[p]) \div 2 + 1
        M   == N \union {new}
        d2  == t.pages
    IN  /\ t = [pages |-> d2, root |-> r, at |-> f]
        /\ \E l, hi2 : /\ Built(d2, r, M, l, hi2)
                       /\ \A q \in M : l[q] = IF q = new THEN level[p] ELSE level[q]
        /\ Kept(d, N, d2, M)
        /\ f \in N /\ new \notin N /\ f # p /\ level[f] = level[p] + 1
        /\ \A q \in M :
             /\ d2[q].leaf = d[IF q = new THEN p ELSE q].leaf
             /\ Size(d2[q]) = IF q = p THEN m ELSE IF q = new THEN Size(d[p]) - m
                              ELSE IF q = f THEN Size(d[f]) + 1 ELSE Size(d[q])

(* A node's entries cut in two after the first m. *)
IsCut(s, m, left, right) == left = SubSeq(s, 1, m) /\ right = SubSeq(s, m + 1, Len(s))

HasCut(s, m, left, right) ==
    /\ left \in Seq(AnyEntry) /\ Len(left) = m /\ Ascending(left)
    /\ right \in Seq(AnyEntry) /\ Len(right) = Len(s) - m /\ Ascending(right)
    /\ Range(left) \union Range(right) = Range(s)
    /\ Below(Range(left), Range(right))

LEMMA Cutting ==
    ASSUME NEW s \in Seq(AnyEntry), Ascending(s), NEW m \in 0..Len(s),
           NEW left, NEW right, IsCut(s, m, left, right)
    PROVE  HasCut(s, m, left, right)
<1>1. KeyedBy(AnyEntry)
  BY EntriesKeyed
<1> QED
  BY <1>1, Cut DEF IsCut, HasCut

LEMMA PagesSplit ==
    ASSUME NEW d, NEW r, NEW N, NEW level, NEW hi, Built(d, r, N, level, hi),
           NEW p \in N \ {r}, NEW s, s = [pages |-> d, root |-> r, at |-> p], needSplit(d[p])
    PROVE  HasSplit(d, r, N, level, p, SplitPage(s))
<1> DEFINE new == NewPage(d)
           f   == d[p].parent
           m   == Cap(d[p]) \div 2 + 1
           M   == N \union {new}
           d2  == SplitPage(s).pages
           left == SubSeq(d[p].entries, 1, m)
           right == SubSeq(d[p].entries, m + 1, Len(d[p].entries))
           b == right[1]
           entry == Entry(b.key, new, Null)
           known == InsertAt(d[f].entries, LowerBound(d[f], b.key), entry)
           level2 == [q \in M |-> IF q = new THEN level[p] ELSE level[q]]
           hi2 == [q \in M |-> IF q = p THEN b.key ELSE IF q = new THEN hi[p] ELSE hi[q]]
           left1 == [d[p] EXCEPT !.entries = left]
           left2 == IF d[p].leaf THEN [left1 EXCEPT !.next = new] ELSE left1
           right1 == [d[p] EXCEPT !.entries = right]
           moved == [q \in DOMAIN d \union {new} |->
                        IF q = new THEN right1
                        ELSE IF q = p THEN left2
                        ELSE IF q = f THEN [d[q] EXCEPT !.entries = known] ELSE d[q]]
<1>1. Shape(d, r, N, level, hi) /\ Plain(d, N) /\ Paged(d, N) /\ Listed(d, Leaves(N, level))
  BY DEF Built
<1>2. /\ new \in Nat /\ new \notin DOMAIN d /\ new # Null /\ new \notin N /\ new \in Int
  BY <1>1, NewPageIsNew DEF Paged
<1>3. /\ f \in N /\ level[f] # 0 /\ f # p /\ level[f] = level[p] + 1
      /\ \E e \in Ent(d, f) : e.child = p
  <2>1. f \in N /\ level[f] # 0 /\ \E e \in Ent(d, f) : e.child = p
    BY <1>1 DEF Shape, Fathered
  <2>2. level[p] + 1 = level[f] /\ level[p] \in Nat
    BY <1>1, <2>1 DEF Shape, Kids, Ranked
  <2> QED
    BY <2>1, <2>2
<1>4. m \in 1..Len(d[p].entries)-1 /\ Len(d[p].entries) \in Nat
  <2>1. Len(d[p].entries) \in Nat /\ Len(d[p].entries) > Cap(d[p]) /\ d[p].leaf \in BOOLEAN
    BY NodeEntries DEF needSplit, Size
  <2>2. Cap(d[p]) \in Nat /\ Cap(d[p]) >= 3 /\ m \in Nat /\ m <= Cap(d[p]) /\ m >= 2
    BY <2>1, Capacity
  <2> HIDE DEF m
  <2> QED
    BY <2>1, <2>2
<1>5. /\ left \in Seq(AnyEntry) /\ Len(left) = m /\ Ascending(left)
      /\ right \in Seq(AnyEntry) /\ Len(right) = Len(d[p].entries) - m /\ Ascending(right)
      /\ Range(left) \union Range(right) = Ent(d, p)
      /\ Below(Range(left), Range(right))
  <2>1. m \in 0..Len(d[p].entries)
    BY <1>4
  <2>2. d[p].entries \in Seq(AnyEntry) /\ Ascending(d[p].entries)
    BY NodeEntries
  <2>3. IsCut(d[p].entries, m, left, right)
    BY DEF IsCut
  <2> HIDE DEF left, right, m
  <2>4. HasCut(d[p].entries, m, left, right)
    BY <2>1, <2>2, <2>3, Cutting
  <2> QED
    BY <2>4 DEF HasCut, Ent
<1> HIDE DEF left, right, m, f, new
<1>6. /\ Range(left) # {} /\ b \in Range(right) /\ b \in AnyEntry /\ b.key \in Int /\ b.key \in Keys
      /\ \A e \in Range(right) : b.key <= e.key
      /\ \A e \in Range(left) : e.key < b.key /\ e.key \in Int
  <2>1. Len(right) \in Nat /\ 1 \in 1..Len(right) /\ Len(left) # 0
    BY <1>4, <1>5
  <2>2. Range(left) # {} /\ b \in Range(right) /\ b \in AnyEntry
    BY <1>5, <2>1, RangeHas
  <2>3. b.key \in Keys /\ b.key \in Int
    BY <2>2, KeysAssumption DEF AnyEntry
  <2>4. ASSUME NEW e \in Range(right) PROVE b.key <= e.key
    <3>1. PICK i \in 1..Len(right) : right[i] = e
      BY <1>5, RangeHas
    <3>2. 1 <= i
      OBVIOUS
    <3> QED
      BY <1>5, <2>1, <3>1, <3>2, EntriesKeyed, KeyOrder
  <2>5. \A e \in Range(left) : e.key < b.key /\ e.key \in Int
    <3>1. \A e \in Range(left) : e \in AnyEntry
      BY <1>5, RangeHas
    <3> QED
      BY <1>5, <2>2, <3>1, EntriesKeyed DEF Below, KeyedBy
  <2> QED
    BY <2>2, <2>3, <2>4, <2>5
<1>7. /\ known \in Seq(AnyEntry) /\ Len(known) = Len(d[f].entries) + 1 /\ Ascending(known)
      /\ Range(known) = Ent(d, f) \union {entry}
  <2>1. entry \in AnyEntry /\ entry.key = b.key
    BY <1>2, <1>6 DEF Entry, AnyEntry
  <2>2. ASSUME NEW g \in Ent(d, f) PROVE g.key # b.key /\ g.key \in Int
    <3>1. PICK h \in Ent(d, f) : h.child = p
      BY <1>3
    <3>2. g.key \in Int /\ h.key \in Int /\ (g.key = h.key => g = h) /\ hi[p] \in Int
      BY <1>1, <1>3 DEF Shape, Keyed, Limited
    <3>3. PICK e \in Range(left) : TRUE
      BY <1>6
    <3>4. h.key <= e.key /\ e.key < b.key /\ e.key \in Int
      BY <1>1, <1>3, <1>5, <1>6, <3>1, <3>3 DEF Shape, Kids
    <3>5. b.key < hi[p]
      BY <1>1, <1>5, <1>6 DEF Shape, Limited
    <3>6. h.key < g.key => hi[p] <= g.key
      BY <1>1, <1>3, <3>1 DEF Shape, Limited
    <3>7. b.key \in Int
      BY <1>6
    <3> HIDE DEF b
    <3> QED
      BY <3>2, <3>4, <3>5, <3>6, <3>7
  <2> DEFINE t == d[f].entries
             i == LowerBound(d[f], b.key)
  <2>3. t \in Seq(AnyEntry) /\ Ascending(t) /\ \A j \in 1..Len(t) : t[j] \in Ent(d, f)
    BY <1>3, NodeEntries
  <2>4. i \in 1..Len(t)+1 /\ \A j \in 1..Len(t) : t[j].key < b.key <=> j < i
    BY <1>6, <2>3, EntriesKeyed, Bounds
  <2> HIDE DEF entry, b, i, left, right, left1, left2, right1, moved
  <2>5. \A j \in 1..Len(t) : IF j < i THEN t[j].key < entry.key ELSE entry.key < t[j].key
    BY <1>6, <2>1, <2>2, <2>3, <2>4
  <2>6. /\ InsertAt(t, i, entry) \in Seq(AnyEntry) /\ Len(InsertAt(t, i, entry)) = Len(t) + 1
        /\ Ascending(InsertAt(t, i, entry)) /\ Range(InsertAt(t, i, entry)) = Range(t) \union {entry}
    BY <2>1, <2>3, <2>4, <2>5, EntriesKeyed, Inserting
  <2> QED
    BY <2>6 DEF Ent, i
<1>8. /\ right1 \in AnyNode /\ right1.entries = right /\ right1.leaf = d[p].leaf
      /\ right1.next = d[p].next /\ right1.parent = f
      /\ left2 \in AnyNode /\ left2.entries = left /\ left2.leaf = d[p].leaf
      /\ left2.next = (IF d[p].leaf THEN new ELSE d[p].next) /\ left2.parent = f
  <2>1. d[p] \in AnyNode
    BY NodeEntries
  <2> QED
    BY <1>2, <1>5, <2>1 DEF AnyNode, f
<1> HIDE DEF known, d2
<1>9. d2 = AdoptedBy(moved, new, right) /\ SplitPage(s) = [pages |-> d2, root |-> r, at |-> f]
  <2>1. Split(d[p]) = [left |-> left1, right |-> right1]
    <3>1. Cap(d[p]) \div 2 + 2 = m + 1
      <4>1. Cap(d[p]) \in Nat
        BY NodeEntries, Capacity
      <4> QED
        BY <4>1 DEF m
    <3>2. d[p] \in AnyNode
      BY NodeEntries
    <3>3. /\ [d[p] EXCEPT !.entries = SubSeq(@, 1, Cap(d[p]) \div 2 + 1)] = left1
          /\ [d[p] EXCEPT !.entries = SubSeq(@, m + 1, Len(@))] = right1
      BY <3>2 DEF AnyNode, left, right, m
    <3> QED
      BY <3>1, <3>3 DEF Split
  <2> DEFINE halves == Split(d[p])
  <2>2. halves.left = left1 /\ halves.right = right1
    BY <2>1
  <2> HIDE DEF left1, right1, halves
  <2>3. left2 = IF d[p].leaf THEN [halves.left EXCEPT !.next = new] ELSE halves.left
    BY <2>2
  <2>4. entry = Entry(halves.right.entries[1].key, new, Null) /\ entry.key = b.key
    BY <1>8, <2>2 DEF Entry
  <2> HIDE DEF left2, entry
  <2>5. known = InsertAt(d[f].entries, LowerBound(d[f], entry.key), entry)
    BY <2>4 DEF known
  <2> DEFINE there == [q \in DOMAIN d \union {new} |->
                            IF q = new THEN halves.right
                            ELSE IF q = p THEN left2
                            ELSE IF q = f THEN [d[q] EXCEPT !.entries = known] ELSE d[q]]
  <2>6. SplitPage(s) = [pages |-> AdoptedBy(there, new, halves.right.entries), root |-> r, at |-> f]
    BY <2>3, <2>4, <2>5, SplitIs DEF halves, new, f
  <2>7. there = moved /\ halves.right.entries = right
    BY <1>8, <2>2
  <2> HIDE DEF there, moved
  <2>8. SplitPage(s) = [pages |-> AdoptedBy(moved, new, right), root |-> r, at |-> f]
    BY <2>6, <2>7
  <2> QED
    BY <2>8 DEF d2
<1> DEFINE gone(q) == ~d[p].leaf /\ \E e \in Range(right) : e.child = q
           entriesAt(q) == IF q = p THEN left ELSE IF q = new THEN right
                           ELSE IF q = f THEN known ELSE d[q].entries
<1>10. /\ DOMAIN moved = DOMAIN d \union {new}
       /\ \A q \in M :
            /\ moved[q] \in AnyNode /\ moved[q].leaf = d[IF q = new THEN p ELSE q].leaf
            /\ moved[q].entries = entriesAt(q)
            /\ moved[q].next = IF q = p /\ d[p].leaf THEN new ELSE d[IF q = new THEN p ELSE q].next
            /\ moved[q].parent = IF q = new THEN f ELSE d[q].parent
       /\ \A o \in DOMAIN d \ N : moved[o] = d[o]
  <2>1. p # new /\ f # new /\ p \in N /\ p \in DOMAIN d /\ M \subseteq DOMAIN d \union {new}
    BY <1>1, <1>2, <1>3 DEF Paged
  <2>2. /\ moved[new] = right1 /\ moved[p] = left2 /\ moved[f] = [d[f] EXCEPT !.entries = known]
        /\ \A q \in N : q # p /\ q # f => moved[q] = d[q]
        /\ \A o \in DOMAIN d \ N : moved[o] = d[o]
    BY <1>1, <1>2, <1>3, <2>1 DEF Paged
  <2>3. \A q \in N : d[q] \in AnyNode
    BY <1>1 DEF Plain
  <2>4. /\ moved[f] \in AnyNode /\ moved[f].leaf = d[f].leaf /\ moved[f].entries = known
        /\ moved[f].next = d[f].next /\ moved[f].parent = d[f].parent
    <3> HIDE DEF moved
    <3> QED
      BY <1>3, <1>7, <2>2, <2>3, WithEntries
  <2>5. DOMAIN moved = DOMAIN d \union {new}
    OBVIOUS
  <2> HIDE DEF moved, right1, left2
  <2>6. ASSUME NEW q \in M
        PROVE  /\ moved[q] \in AnyNode /\ moved[q].leaf = d[IF q = new THEN p ELSE q].leaf
               /\ moved[q].entries = entriesAt(q)
               /\ moved[q].next = IF q = p /\ d[p].leaf THEN new ELSE d[IF q = new THEN p ELSE q].next
               /\ moved[q].parent = IF q = new THEN f ELSE d[q].parent
    <3>1. CASE q = new
      BY <1>8, <2>1, <2>2, <3>1
    <3>2. CASE q = p
      BY <1>8, <2>1, <2>2, <3>2 DEF f
    <3>3. CASE q = f
      BY <1>3, <2>1, <2>4, <3>3
    <3>4. CASE q # new /\ q # p /\ q # f
      BY <2>2, <2>3, <3>4
    <3> QED
      BY <3>1, <3>2, <3>3, <3>4
  <2> QED
    BY <2>2, <2>5, <2>6
<1> HIDE DEF moved, left1, left2, right1, entry, b
<1>11. /\ DOMAIN d2 = DOMAIN d \union {new}
       /\ \A q \in M :
            /\ d2[q] \in AnyNode /\ d2[q].leaf = d[IF q = new THEN p ELSE q].leaf
            /\ d2[q].entries = entriesAt(q)
            /\ d2[q].next = IF q = p /\ d[p].leaf THEN new ELSE d[IF q = new THEN p ELSE q].next
            /\ d2[q].parent = IF gone(q) THEN new ELSE IF q = new THEN f ELSE d[q].parent
       /\ \A o \in DOMAIN d \ N : d2[o] = d[o]
  <2>1. new \in DOMAIN moved /\ new \in M /\ moved[new].leaf = d[p].leaf /\ M \subseteq DOMAIN moved
    BY <1>1, <1>2, <1>10 DEF Paged
  <2>2. /\ DOMAIN d2 = DOMAIN moved
        /\ \A q \in DOMAIN moved : d2[q] = IF gone(q) THEN [moved[q] EXCEPT !.parent = new] ELSE moved[q]
        /\ \A q \in DOMAIN moved : moved[q] \in AnyNode =>
             /\ d2[q] \in AnyNode /\ d2[q].leaf = moved[q].leaf
             /\ d2[q].entries = moved[q].entries /\ d2[q].next = moved[q].next
             /\ d2[q].parent = IF gone(q) THEN new ELSE moved[q].parent
    <3> HIDE DEF M
    <3>1. HasAdopted(moved, new, right, d2)
      BY <1>2, <1>9, <2>1, Adopting
    <3>2. \A q : IsGone(moved, new, right, q) <=> gone(q)
      BY <2>1 DEF IsGone
    <3> HIDE DEF gone
    <3> QED
      BY <3>1, <3>2 DEF HasAdopted
  <2>3. ASSUME NEW q, gone(q) PROVE q \in N
    <3>1. PICK e \in Ent(d, p) : e.child = q
      BY <1>5, <2>3
    <3>2. level[p] # 0
      BY <2>3, NodeEntries
    <3> QED
      BY <1>1, <3>1, <3>2 DEF Shape, Kids
  <2> HIDE DEF gone, entriesAt
  <2>4. \A o \in DOMAIN d \ N : d2[o] = d[o]
    BY <1>10, <2>2, <2>3
  <2>5. ASSUME NEW q \in M
        PROVE  /\ d2[q] \in AnyNode /\ d2[q].leaf = d[IF q = new THEN p ELSE q].leaf
               /\ d2[q].entries = entriesAt(q)
               /\ d2[q].next = IF q = p /\ d[p].leaf THEN new ELSE d[IF q = new THEN p ELSE q].next
               /\ d2[q].parent = IF gone(q) THEN new ELSE IF q = new THEN f ELSE d[q].parent
    <3>1. q \in DOMAIN moved /\ moved[q] \in AnyNode
      BY <1>10, <2>1
    <3> QED
      BY <1>10, <2>2, <3>1
  <2> QED
    BY <1>10, <2>2, <2>4, <2>5
<1>12. \A q \in M : Ent(d2, q) = IF q = p THEN Range(left) ELSE IF q = new THEN Range(right)
                                 ELSE IF q = f THEN Ent(d, f) \union {entry} ELSE Ent(d, q)
  BY <1>2, <1>3, <1>7, <1>11 DEF Ent
<1>13. Shape(d2, r, M, level2, hi2)
  <2>1. entry.key = b.key /\ entry.child = new /\ entry.over = Null
    BY DEF entry, Entry
  <2>2. \A q \in M : d2[q].leaf = IF q = new THEN d[p].leaf ELSE d[q].leaf
    BY <1>11
  <2>3. \A q \in M : d2[q].parent = IF q = new THEN f
                                    ELSE IF ~d[p].leaf /\ \E e \in Range(right) : e.child = q THEN new
                                    ELSE d[q].parent
    <3>1. ~gone(new)
      <4>1. ASSUME gone(new) PROVE FALSE
        <5>1. PICK e \in Ent(d, p) : e.child = new
          BY <1>5, <4>1
        <5>2. level[p] # 0
          BY <4>1, NodeEntries
        <5>3. new \in N
          BY <1>1, <5>1, <5>2 DEF Shape, Kids
        <5> QED
          BY <1>2, <5>3
      <4> QED
        BY <4>1
    <3> QED
      BY <1>11, <3>1
  <2> DEFINE A == Range(left)
             B == Range(right)
  <2>4. A # {} /\ A \union B = Ent(d, p) /\ Below(A, B) /\ b \in B /\ \A e \in B : b.key <= e.key
    BY <1>5, <1>6
  <2>5. \A q \in M : Ent(d2, q) = IF q = p THEN A ELSE IF q = new THEN B
                                 ELSE IF q = f THEN Ent(d, f) \union {entry} ELSE Ent(d, q)
    BY <1>12
  <2>6. \A q \in M : d2[q].parent = IF q = new THEN f
                                    ELSE IF ~d[p].leaf /\ \E e \in B : e.child = q THEN new
                                    ELSE d[q].parent
    BY <2>3
  <2> HIDE DEF A, B
  <2> QED
    <3>1. Shape(d, r, N, level, hi) /\ new \notin N /\ new # Null /\ f = d[p].parent
      BY <1>1, <1>2 DEF f
    <3>3. level2 \in [M -> Nat] /\ hi2 \in [M -> Int]
      BY <1>1, <1>6 DEF Shape, Ranked, Limited
    <3>4. \A q \in M :
             /\ level2[q] = IF q = new THEN level[p] ELSE level[q]
             /\ hi2[q] = IF q = p THEN b.key ELSE IF q = new THEN hi[p] ELSE hi[q]
      OBVIOUS
    <3> HIDE DEF level2, hi2
    <3>5. IsSplit(d, d2, r, N, level, hi, level2, hi2, p, f, new, A, B, b, entry)
      BY <2>1, <2>2, <2>4, <2>5, <2>6, <3>1, <3>3, <3>4 DEF IsSplit
    <3> QED
      BY <3>1, <3>5, ShapeSplits
<1>14. Plain(d2, M)
  <2>1. \A q \in M : Ascending(d2[q].entries)
    BY <1>1, <1>2, <1>5, <1>7, <1>11 DEF Plain
  <2>2. \A q \in M : d2[q].leaf \/ d2[q].next = Null
    BY <1>1, <1>2, <1>11 DEF Plain
  <2> QED
    BY <1>11, <2>1, <2>2 DEF Plain
<1>15. Paged(d2, M)
  BY <1>1, <1>2, <1>11, FS_AddElement DEF Paged
<1> DEFINE L == Leaves(N, level)
           L2 == Leaves(M, level2)
<1>16. \A q \in M : level2[q] = IF q = new THEN level[p] ELSE level[q]
  OBVIOUS
<1>17. p \in N /\ p # new /\ (d[p].leaf <=> level[p] = 0)
  BY <1>2, <1>3, NodeEntries
<1> HIDE DEF level2, hi2, M
<1>18. ASSUME d[p].leaf PROVE Listed(d2, L2) /\ LeafEntries(d2, M) = LeafEntries(d, N)
  <2>1. p \in L /\ new \notin L /\ L2 = L \union {new} /\ f \notin L
    BY <1>2, <1>3, <1>16, <1>17, <1>18 DEF Leaves, M
  <2>2. Listed(d2, L2)
    <3> DEFINE A == Range(left)
               B == Range(right)
    <3>1. Separated(d, L) /\ Listed(d, L)
      BY <1>1, LeavesSeparated DEF Leaves
    <3>2. A # {} /\ B # {} /\ A \union B = Ent(d, p) /\ Below(A, B)
      BY <1>5, <1>6
    <3>3. \A q \in L \union {new} : Ent(d2, q) = IF q = p THEN A ELSE IF q = new THEN B ELSE Ent(d, q)
      BY <1>12, <2>1 DEF Leaves, M
    <3>4. \A q \in L \union {new} :
             d2[q].next = IF q = p THEN new ELSE IF q = new THEN d[p].next ELSE d[q].next
      BY <1>11, <1>17, <1>18 DEF Leaves, M
    <3> HIDE DEF A, B, L
    <3>5. Listed(d2, L \union {new})
      BY <2>1, <3>1, <3>2, <3>3, <3>4, ListSplit
    <3> QED
      BY <2>1, <3>5
  <2>3. LeafEntries(d2, M) = LeafEntries(d, N)
    <3>1. \A e : e \in LeafEntries(d, N) <=> \E q \in N : level[q] = 0 /\ e \in Ent(d, q)
      BY <1>1, InLeaves
    <3>2. \A e : e \in LeafEntries(d2, M) <=> \E q \in M : level2[q] = 0 /\ e \in Ent(d2, q)
      BY <1>13, InLeaves
    <3>3. ASSUME NEW e PROVE e \in LeafEntries(d2, M) <=> e \in LeafEntries(d, N)
      <4>1. ASSUME NEW q \in M, level2[q] = 0, e \in Ent(d2, q)
            PROVE  \E z \in N : level[z] = 0 /\ e \in Ent(d, z)
        <5>1. CASE q = p \/ q = new
          BY <1>5, <1>12, <1>17, <1>18, <4>1, <5>1
        <5>2. CASE q # p /\ q # new
          BY <1>3, <1>12, <1>16, <1>17, <4>1, <5>2 DEF M
        <5> QED
          BY <5>1, <5>2
      <4>2. ASSUME NEW q \in N, level[q] = 0, e \in Ent(d, q)
            PROVE  \E z \in M : level2[z] = 0 /\ e \in Ent(d2, z)
        <5>1. p \in M /\ new \in M /\ q \in M /\ level2[p] = 0 /\ level2[new] = 0
          BY <1>16, <1>17, <1>18 DEF M
        <5>2. CASE q = p
          BY <1>5, <1>12, <1>17, <4>2, <5>1, <5>2
        <5>3. CASE q # p
          BY <1>2, <1>3, <1>12, <1>16, <4>2, <5>1, <5>3
        <5> QED
          BY <5>2, <5>3
      <4> QED
        BY <3>1, <3>2, <4>1, <4>2
    <3> QED
      BY <3>3
  <2> QED
    BY <2>2, <2>3
<1>19. ASSUME ~d[p].leaf PROVE Listed(d2, L2) /\ LeafEntries(d2, M) = LeafEntries(d, N)
  <2>1. L2 = L /\ p \notin L /\ f \notin L /\ new \notin L /\ L \subseteq N /\ L \subseteq M
    BY <1>2, <1>3, <1>16, <1>17, <1>19 DEF Leaves, M
  <2>2. \A q \in L : Ent(d2, q) = Ent(d, q) /\ d2[q].next = d[q].next
    BY <1>11, <1>12, <2>1
  <2>3. Listed(d2, L2)
    BY <1>1, <2>1, <2>2, ListSame
  <2>4. LeafEntries(d2, M) = LeafEntries(d, N)
    <3>1. \A e : e \in LeafEntries(d, N) <=> \E q \in L : e \in Ent(d, q)
      BY <1>1, InLeaves DEF Leaves
    <3>2. \A e : e \in LeafEntries(d2, M) <=> \E q \in L2 : e \in Ent(d2, q)
      BY <1>13, InLeaves DEF Leaves
    <3> HIDE DEF L, L2, d2
    <3>3. \A e : e \in LeafEntries(d2, M) <=> e \in LeafEntries(d, N)
      BY <2>1, <2>2, <3>1, <3>2
    <3> QED
      BY <3>3
  <2> QED
    BY <2>3, <2>4
<1>20. Built(d2, r, M, level2, hi2)
  BY <1>13, <1>14, <1>15, <1>18, <1>19 DEF Built
<1>21. Kept(d, N, d2, M)
  <2>1. DOMAIN d2 \ M = DOMAIN d \ N
    BY <1>2, <1>11 DEF M
  <2> QED
    BY <1>11, <1>18, <1>19, <2>1 DEF Kept
<1>22. ASSUME NEW q \in M
       PROVE  /\ d2[q].leaf = d[IF q = new THEN p ELSE q].leaf
              /\ Size(d2[q]) = IF q = p THEN m ELSE IF q = new THEN Size(d[p]) - m
                               ELSE IF q = f THEN Size(d[f]) + 1 ELSE Size(d[q])
  BY <1>3, <1>5, <1>7, <1>11 DEF Size
<1> QED
  <2>1. \E l, h : /\ Built(d2, r, M, l, h)
                  /\ \A q \in M : l[q] = IF q = new THEN level[p] ELSE level[q]
    BY <1>16, <1>20
  <2> QED
    BY <1>2, <1>3, <1>9, <1>21, <1>22, <2>1 DEF M, m, new, f, d2, HasSplit

(* SolveOverflow gives the root a father first. *)
HasGrown(d, r, N, level, p, t) ==
    LET f  == NewPage(d)
        M  == N \union {f}
        d2 == t.pages
    IN  /\ t = [pages |-> d2, root |-> f, at |-> p]
        /\ \E l, hi2 : /\ Built(d2, f, M, l, hi2)
                       /\ \A q \in M : l[q] = IF q = f THEN level[r] + 1 ELSE level[q]
        /\ Kept(d, N, d2, M)
        /\ f \notin N /\ d2[r].parent = f
        /\ \A q \in M :
             /\ d2[q].leaf = IF q = f THEN FALSE ELSE d[q].leaf
             /\ Size(d2[q]) = IF q = f THEN 1 ELSE Size(d[q])

LEMMA PagesGrow ==
    ASSUME NEW d, NEW r, NEW N, NEW level, NEW hi, Built(d, r, N, level, hi),
           NEW p, NEW s, s = [pages |-> d, root |-> r, at |-> p], Size(d[r]) # 0
    PROVE  HasGrown(d, r, N, level, p, Rooted(s))
<1> DEFINE f  == NewPage(d)
           M  == N \union {f}
           e  == Entry(d[r].entries[1].key, r, Null)
           d2 == [q \in DOMAIN d \union {f} |->
                    IF q = f THEN [Node(FALSE) EXCEPT !.entries = <<e>>]
                    ELSE IF q = r THEN [d[q] EXCEPT !.parent = f] ELSE d[q]]
           l  == [q \in M |-> IF q = f THEN level[r] + 1 ELSE level[q]]
<1>1. Shape(d, r, N, level, hi) /\ Plain(d, N) /\ Paged(d, N) /\ Listed(d, Leaves(N, level))
  BY DEF Built
<1>2. f \in Nat /\ f \notin DOMAIN d /\ f # Null /\ f \notin N /\ f \in Int
  BY <1>1, NewPageIsNew DEF Paged
<1>3. r \in N /\ r \in DOMAIN d /\ r \in Int /\ level[r] \in Nat /\ r # f /\ N \subseteq DOMAIN d
      /\ level \in [N -> Nat]
  BY <1>1, <1>2, NodeEntries DEF Shape, Ranked, Paged
<1>4. Rooted(s) = [pages |-> d2, root |-> f, at |-> p]
  <2>1. s.pages = d /\ s.root = r /\ s.at = p
    BY Going
  <2>2. Rooted(s) = [s EXCEPT !.pages = d2, !.root = f]
    BY <2>1 DEF Rooted
  <2> HIDE DEF d2, f
  <2> QED
    BY <2>2, Going
<1>5. e \in AnyEntry /\ e.key \in Int /\ e.child = r /\ e.over = Null /\ e.key = d[r].entries[1].key
      /\ Ent(d, r) # {} /\ \A h \in Ent(d, r) : e.key <= h.key
  <2>1. /\ Len(d[r].entries) \in Nat /\ 1 \in 1..Len(d[r].entries) /\ Ent(d, r) # {}
        /\ d[r].entries \in Seq(AnyEntry) /\ Ascending(d[r].entries)
    BY <1>3, NodeEntries DEF Size
  <2>2. d[r].entries[1] \in AnyEntry
    BY <2>1
  <2>3. d[r].entries[1].key \in Keys /\ d[r].entries[1].key \in Int
    BY <2>2, KeysAssumption DEF AnyEntry
  <2>4. ASSUME NEW h \in Ent(d, r) PROVE d[r].entries[1].key <= h.key
    <3>1. PICK i \in 1..Len(d[r].entries) : d[r].entries[i] = h
      BY <1>3, NodeEntries
    <3>2. 1 <= i
      OBVIOUS
    <3> QED
      BY <2>1, <3>1, <3>2, EntriesKeyed, KeyOrder
  <2> QED
    BY <1>3, <2>1, <2>3, <2>4 DEF Entry, AnyEntry
<1> HIDE DEF e, f
<1>6. /\ DOMAIN d2 = DOMAIN d \union {f}
      /\ \A q \in M :
            /\ d2[q] \in AnyNode /\ d2[q].leaf = (IF q = f THEN FALSE ELSE d[q].leaf)
            /\ d2[q].entries = (IF q = f THEN <<e>> ELSE d[q].entries)
            /\ d2[q].next = (IF q = f THEN Null ELSE d[q].next)
            /\ d2[q].parent = (IF q = f THEN Null ELSE IF q = r THEN f ELSE d[q].parent)
      /\ \A o \in DOMAIN d \ N : d2[o] = d[o]
  <2> DEFINE top == [Node(FALSE) EXCEPT !.entries = <<e>>]
  <2>1. /\ top \in AnyNode /\ top.leaf = FALSE /\ top.entries = <<e>>
        /\ top.next = Null /\ top.parent = Null
    <3>1. <<e>> \in Seq(AnyEntry)
      BY <1>5
    <3>2. /\ Node(FALSE) \in AnyNode /\ Node(FALSE).leaf = FALSE
          /\ Node(FALSE).next = Null /\ Node(FALSE).parent = Null
      BY DEF Node, AnyNode
    <3> HIDE DEF AnyNode
    <3> QED
      BY <3>1, <3>2, WithEntries
  <2>3. \A q \in N : d[q] \in AnyNode
    BY <1>1 DEF Plain
  <2>4. [d[r] EXCEPT !.parent = f] \in AnyNode
        /\ LET n == [d[r] EXCEPT !.parent = f]
           IN n.leaf = d[r].leaf /\ n.entries = d[r].entries /\ n.next = d[r].next /\ n.parent = f
    BY <1>2, <1>3, <2>3 DEF AnyNode
  <2>6. /\ d2[f] = top
        /\ d2[r] = [d[r] EXCEPT !.parent = f]
        /\ \A q \in DOMAIN d : q # r => d2[q] = d[q]
    BY <1>2, <1>3
  <2>7. DOMAIN d2 = DOMAIN d \union {f}
    OBVIOUS
  <2> HIDE DEF d2, top
  <2>8. ASSUME NEW q \in M
        PROVE  /\ d2[q] \in AnyNode /\ d2[q].leaf = (IF q = f THEN FALSE ELSE d[q].leaf)
               /\ d2[q].entries = (IF q = f THEN <<e>> ELSE d[q].entries)
               /\ d2[q].next = (IF q = f THEN Null ELSE d[q].next)
               /\ d2[q].parent = (IF q = f THEN Null ELSE IF q = r THEN f ELSE d[q].parent)
    <3>1. CASE q = f
      BY <2>1, <2>6, <3>1
    <3>2. CASE q = r
      BY <1>3, <2>4, <2>6, <3>2
    <3>3. CASE q # f /\ q # r
      BY <1>3, <2>3, <2>6, <3>3
    <3> QED
      BY <3>1, <3>2, <3>3
  <2> QED
    BY <1>2, <1>3, <2>6, <2>7, <2>8
<1> HIDE DEF d2
<1>7. Range(<<e>>) = {e} /\ Ascending(<<e>>) /\ Len(<<e>>) = 1
  BY <1>5, Single
<1>8. \A q \in M : Ent(d2, q) = IF q = f THEN {e} ELSE Ent(d, q)
  BY <1>6, <1>7 DEF Ent
<1>9. l \in [M -> Nat] /\ \A q \in M : l[q] = IF q = f THEN level[r] + 1 ELSE level[q]
  BY <1>3
<1> HIDE DEF l, M
<1>10. PICK hi2 : Shape(d2, f, M, l, hi2)
  <2>1. IsGrowth(d, d2, r, N, level, l, f, e)
    BY <1>2, <1>5, <1>6, <1>8, <1>9 DEF IsGrowth, M
  <2>2. \E h : Shape(d2, f, N \union {f}, l, h)
    BY <1>1, <2>1, ShapeGrows
  <2> QED
    BY <2>2 DEF M
<1>11. Plain(d2, M)
  <2>1. \A q \in N : Ascending(d[q].entries) /\ (d[q].leaf \/ d[q].next = Null)
    BY <1>1 DEF Plain
  <2> QED
    BY <1>6, <1>7, <2>1 DEF Plain, M
<1>12. Paged(d2, M)
  BY <1>1, <1>2, <1>6, FS_AddElement DEF Paged, M
<1>13. /\ Leaves(M, l) = Leaves(N, level)
       /\ \A q \in Leaves(N, level) : q # f /\ q \in M
  BY <1>2, <1>3, <1>9 DEF Leaves, M
<1>14. Listed(d2, Leaves(M, l))
  <2>1. \A q \in Leaves(N, level) : Ent(d2, q) = Ent(d, q) /\ d2[q].next = d[q].next
    BY <1>6, <1>8, <1>13
  <2> QED
    BY <1>1, <1>13, <2>1, ListSame
<1>15. LeafEntries(d2, M) = LeafEntries(d, N)
  <2>1. \A x : x \in LeafEntries(d, N) <=> \E q \in Leaves(N, level) : x \in Ent(d, q)
    BY <1>1, InLeaves DEF Leaves
  <2>2. \A x : x \in LeafEntries(d2, M) <=> \E q \in Leaves(M, l) : x \in Ent(d2, q)
    BY <1>10, InLeaves DEF Leaves
  <2>3. \A x : x \in LeafEntries(d2, M) <=> x \in LeafEntries(d, N)
    BY <1>8, <1>13, <2>1, <2>2
  <2> QED
    BY <2>3
<1>16. Kept(d, N, d2, M)
  <2>1. DOMAIN d2 \ M = DOMAIN d \ N
    BY <1>2, <1>6 DEF M
  <2> QED
    BY <1>6, <1>15, <2>1 DEF Kept
<1>17. Built(d2, f, M, l, hi2)
  BY <1>10, <1>11, <1>12, <1>14 DEF Built
<1>18. \A q \in M : /\ d2[q].leaf = IF q = f THEN FALSE ELSE d[q].leaf
                    /\ Size(d2[q]) = IF q = f THEN 1 ELSE Size(d[q])
  BY <1>6, <1>7 DEF Size
<1>19. Rooted(s).pages = d2
  BY <1>4
<1> QED
  <2>1. \E k, h : /\ Built(d2, f, M, k, h)
                  /\ \A q \in M : k[q] = IF q = f THEN level[r] + 1 ELSE level[q]
    BY <1>9, <1>17
  <2> QED
    <3>1. d2[r].parent = f
      BY <1>3, <1>6 DEF M
    <3> QED
      BY <1>2, <1>4, <1>16, <1>18, <1>19, <2>1, <3>1 DEF M, f, HasGrown

-----------------------------------------------------------------------------
(* Sizes and heights. *)

(* A node q is as full as it should be. *)
Fits(d, r, q) ==
    /\ Size(d[q]) <= Cap(d[q])
    /\ q # r => Size(d[q]) >= Half(d[q])
    /\ q = r /\ ~d[q].leaf => Size(d[q]) >= 2

(* It may have one entry too many. *)
Swollen(d, r, q) ==
    /\ Size(d[q]) <= Cap(d[q]) + 1
    /\ q # r => Size(d[q]) >= Half(d[q])
    /\ q = r /\ ~d[q].leaf => Size(d[q]) >= 2

(* The levels are no more than the pages, as each has a node. *)
LEMMA LevelsBounded ==
    ASSUME NEW d, NEW r, NEW N, NEW level, NEW hi, Built(d, r, N, level, hi),
           level[r] # 0 => Ent(d, r) # {}
    PROVE  Bound(d) \in Nat /\ level[r] \in Nat /\ level[r] < Bound(d)
<1> DEFINE L == level[r]
           K == {i \in 0..L : \E q \in N : level[q] = L - i}
<1>1. /\ r \in N /\ level \in [N -> Nat] /\ L \in Nat /\ N \subseteq DOMAIN d /\ IsFiniteSet(DOMAIN d)
  BY DEF Built, Shape, Ranked, Paged
<1>2. 0 \in K
  BY <1>1
<1>3. ASSUME NEW i \in 0..L-1, i \in K PROVE i + 1 \in K
  <2>1. PICK q \in N : level[q] = L - i
    BY <1>3
  <2>2. level[q] # 0 /\ i + 1 \in 0..L /\ L - (i + 1) = (L - i) - 1
    BY <1>1, <2>1
  <2>3. Ent(d, q) # {}
    BY <2>2 DEF Built, Shape, Fathered
  <2>4. PICK e \in Ent(d, q) : e.child \in N /\ level[e.child] + 1 = level[q]
    BY <2>2, <2>3 DEF Built, Shape, Kids
  <2>5. level[e.child] = L - (i + 1)
    <3>1. level[e.child] \in Nat
      BY <1>1, <2>4
    <3> QED
      BY <1>1, <2>1, <2>2, <2>4, <3>1
  <2> QED
    BY <2>2, <2>4, <2>5
<1>4. K = 0..L
  <2>1. K \in SUBSET (0..L) /\ \A i \in 0..L-1 : i \in K => i + 1 \in K
    BY <1>3
  <2> HIDE DEF K
  <2> QED
    BY <1>1, <1>2, <2>1, InductionUpTo
<1> DEFINE some == [i \in 0..L |-> CHOOSE q \in N : level[q] = L - i]
<1>5. \A i \in 0..L : some[i] \in N /\ level[some[i]] = L - i
  BY <1>4
<1>6. some \in Injection(0..L, DOMAIN d)
  <2>1. some \in [0..L -> DOMAIN d]
    BY <1>1, <1>5
  <2>2. ASSUME NEW i \in 0..L, NEW j \in 0..L, some[i] = some[j] PROVE i = j
    <3>1. L - i = L - j
      BY <1>5, <2>2
    <3> QED
      BY <1>1, <3>1
  <2> HIDE DEF some
  <2> QED
    BY <2>1, <2>2 DEF Injection, IsInjective
<1>7. Cardinality(0..L) <= Cardinality(DOMAIN d)
  <2> HIDE DEF some
  <2> QED
    BY <1>1, <1>6, FS_Injection
<1>8. Cardinality(0..L) = L + 1
  <2>1. 0 \in Int /\ L \in Int /\ ~(0 > L)
    BY <1>1
  <2>2. Cardinality(0..L) = L - 0 + 1
    BY <2>1, FS_Interval
  <2> QED
    BY <1>1, <2>2
<1>9. Cardinality(DOMAIN d) \in Nat
  BY <1>1, FS_CardinalityType
<1> QED
  BY <1>1, <1>7, <1>8, <1>9 DEF Bound

(* After a split the only node with an entry too many can be the father. *)
LEMMA SplitFits ==
    ASSUME NEW d, NEW r, NEW N, NEW level, NEW hi, Built(d, r, N, level, hi),
           NEW p \in N \ {r}, NEW s, s = [pages |-> d, root |-> r, at |-> p], needSplit(d[p]),
           Size(d[p]) <= Cap(d[p]) + 1,
           \A q \in N \ {p} : Fits(d, r, q) \/ (q = r /\ q = d[p].parent /\ Size(d[q]) = 1)
    PROVE  LET t == SplitPage(s)
           IN  /\ t = [pages |-> t.pages, root |-> r, at |-> t.at]
               /\ Size(t.pages[t.at]) = Size(d[d[p].parent]) + 1
               /\ \E M, l, h :
                    /\ Built(t.pages, r, M, l, h) /\ Kept(d, N, t.pages, M)
                    /\ t.at \in M /\ l[t.at] = level[p] + 1 /\ l[r] = level[r]
                    /\ Swollen(t.pages, r, t.at)
                    /\ \A q \in M \ {t.at} : Fits(t.pages, r, q)
<1> DEFINE new == NewPage(d)
           f   == d[p].parent
           m   == Cap(d[p]) \div 2 + 1
           M   == N \union {new}
           d2  == SplitPage(s).pages
<1>1. /\ SplitPage(s) = [pages |-> d2, root |-> r, at |-> f]
      /\ \E l, h : /\ Built(d2, r, M, l, h)
                   /\ \A q \in M : l[q] = IF q = new THEN level[p] ELSE level[q]
      /\ Kept(d, N, d2, M)
      /\ f \in N /\ new \notin N /\ f # p /\ level[f] = level[p] + 1
      /\ \A q \in M :
           /\ d2[q].leaf = d[IF q = new THEN p ELSE q].leaf
           /\ Size(d2[q]) = IF q = p THEN m ELSE IF q = new THEN Size(d[p]) - m
                            ELSE IF q = f THEN Size(d[f]) + 1 ELSE Size(d[q])
  <2>1. HasSplit(d, r, N, level, p, SplitPage(s))
    BY PagesSplit
  <2> QED
    BY <2>1 DEF HasSplit
<1>2. r \in N /\ r # new
  BY <1>1 DEF Built, Shape, Ranked
<1>3. /\ \E l, h : Built(d2, r, M, l, h) /\ l[f] = level[p] + 1 /\ l[r] = level[r]
      /\ f \in M
  BY <1>1, <1>2
<1> HIDE DEF d2, new, f
<1>4. \A q \in M : /\ Cap(d2[q]) = Cap(d[IF q = new THEN p ELSE q])
                   /\ Half(d2[q]) = Half(d[IF q = new THEN p ELSE q])
  BY <1>1 DEF Cap, Half
<1>5. /\ Cap(d[p]) \in Nat /\ Half(d[p]) \in Nat /\ Size(d[p]) = Cap(d[p]) + 1
      /\ m \in Nat /\ m <= Cap(d[p]) /\ m >= Half(d[p]) /\ Size(d[p]) - m >= Half(d[p])
      /\ Size(d[p]) - m <= Cap(d[p])
  <2>1. d[p].leaf \in BOOLEAN /\ Size(d[p]) \in Nat
    BY NodeEntries DEF Size
  <2>2. /\ Cap(d[p]) \in Nat /\ Cap(d[p]) >= 3 /\ Half(d[p]) \in Nat /\ Half(d[p]) >= 2
        /\ m \in Nat /\ m <= Cap(d[p]) /\ m >= Half(d[p]) /\ Cap(d[p]) + 1 - m >= Half(d[p])
    BY <2>1, Capacity
  <2>3. Size(d[p]) = Cap(d[p]) + 1
    BY <2>1, <2>2 DEF needSplit
  <2> HIDE DEF m
  <2> QED
    BY <2>2, <2>3
<1> HIDE DEF m
<1>6. ASSUME NEW q \in M \ {f} PROVE Fits(d2, r, q)
  <2>1. CASE q = p \/ q = new
    <3>1. q # r /\ Size(d2[q]) <= Cap(d2[q]) /\ Size(d2[q]) >= Half(d2[q])
      BY <1>1, <1>2, <1>4, <1>5, <2>1
    <3> QED
      BY <3>1 DEF Fits
  <2>2. CASE q # p /\ q # new
    <3>1. q \in N \ {p} /\ Size(d2[q]) = Size(d[q]) /\ d2[q].leaf = d[q].leaf
          /\ Cap(d2[q]) = Cap(d[q]) /\ Half(d2[q]) = Half(d[q])
      BY <1>1, <1>4, <1>6, <2>2
    <3>2. Fits(d, r, q)
      BY <1>6, <3>1 DEF f
    <3> QED
      BY <3>1, <3>2 DEF Fits
  <2> QED
    BY <2>1, <2>2
<1>7. Swollen(d2, r, f) /\ Size(d2[f]) = Size(d[f]) + 1
  <2>1. /\ Size(d2[f]) = Size(d[f]) + 1 /\ d2[f].leaf = d[f].leaf
        /\ Cap(d2[f]) = Cap(d[f]) /\ Half(d2[f]) = Half(d[f])
    BY <1>1, <1>3, <1>4
  <2>2. d[f].leaf \in BOOLEAN /\ Size(d[f]) \in Nat
    BY <1>1, NodeEntries DEF Size
  <2>3. Cap(d[f]) \in Nat /\ Cap(d[f]) >= 3 /\ Half(d[f]) \in Nat
    BY <2>2, Capacity
  <2>4. Fits(d, r, f) \/ (f = r /\ Size(d[f]) = 1)
    BY <1>1
  <2> QED
    BY <2>1, <2>2, <2>3, <2>4 DEF Fits, Swollen
<1>8. /\ SplitPage(s).pages = d2 /\ SplitPage(s).at = f
  BY <1>1
<1> QED
  BY <1>1, <1>3, <1>6, <1>7, <1>8 DEF f

(* Where the loop of SolveOverflow is after i iterations: all pages are    *)
(* full enough, and an entry too many has only the page at level i.        *)
Overflowing(d0, N0, top, s, i) ==
    \E d, r, p, N, level, hi :
        /\ s = [pages |-> d, root |-> r, at |-> p]
        /\ Built(d, r, N, level, hi) /\ Kept(d0, N0, d, N) /\ p \in N
        /\ Swollen(d, r, p) /\ \A q \in N \ {p} : Fits(d, r, q)
        /\ Size(d[p]) <= Cap(d[p]) \/ (level[p] = i /\ level[r] = top)

LEMMA KeptOn ==
    ASSUME NEW a, NEW A, NEW b, NEW B, NEW c, NEW C, Kept(a, A, b, B), Kept(b, B, c, C)
    PROVE  Kept(a, A, c, C)
  BY DEF Kept

LEMMA OverflowGoesOn ==
    ASSUME NEW d0, NEW N0, NEW top, NEW s, NEW i, Overflowing(d0, N0, top, s, i)
    PROVE  Overflowing(d0, N0, top, OverflowStep(s), i + 1)
<1>1. PICK d, r, p, N, level, hi :
        /\ s = [pages |-> d, root |-> r, at |-> p]
        /\ Built(d, r, N, level, hi) /\ Kept(d0, N0, d, N) /\ p \in N
        /\ Swollen(d, r, p) /\ \A q \in N \ {p} : Fits(d, r, q)
        /\ Size(d[p]) <= Cap(d[p]) \/ (level[p] = i /\ level[r] = top)
  BY DEF Overflowing
<1>2. s.pages = d /\ s.root = r /\ s.at = p
  BY <1>1
<1>3. /\ Size(d[p]) \in Nat /\ Cap(d[p]) \in Nat /\ Cap(d[p]) >= 3 /\ d[p].leaf \in BOOLEAN
      /\ r \in N /\ d[r].parent = Null /\ Null \notin N
  <2>1. d[p].leaf \in BOOLEAN /\ Size(d[p]) \in Nat
    BY <1>1, NodeEntries DEF Size
  <2>2. Cap(d[p]) \in Nat /\ Cap(d[p]) >= 3
    BY <2>1, Capacity
  <2> QED
    BY <1>1, <2>1, <2>2 DEF Built, Shape, Ranked
<1>4. CASE ~needSplit(d[p])
  <2>1. OverflowStep(s) = s
    BY <1>2, <1>4 DEF OverflowStep
  <2>2. Size(d[p]) <= Cap(d[p])
    BY <1>3, <1>4 DEF needSplit
  <2> QED
    BY <1>1, <2>1, <2>2 DEF Overflowing
<1>5. CASE needSplit(d[p]) /\ p # r
  <2>1. d[p].parent \in N
    BY <1>1, <1>5 DEF Built, Shape, Fathered
  <2>2. OverflowStep(s) = SplitPage(s)
    BY <1>2, <1>3, <1>5, <2>1 DEF OverflowStep
  <2> DEFINE t == SplitPage(s)
  <2>3. Size(d[p]) <= Cap(d[p]) + 1
    BY <1>1 DEF Swollen
  <2>4. /\ t = [pages |-> t.pages, root |-> r, at |-> t.at]
        /\ \E M, l, h :
             /\ Built(t.pages, r, M, l, h) /\ Kept(d, N, t.pages, M)
             /\ t.at \in M /\ l[t.at] = level[p] + 1 /\ l[r] = level[r]
             /\ Swollen(t.pages, r, t.at)
             /\ \A q \in M \ {t.at} : Fits(t.pages, r, q)
    BY <1>1, <1>5, <2>3, SplitFits
  <2> HIDE DEF t
  <2>5. PICK M, l, h :
             /\ Built(t.pages, r, M, l, h) /\ Kept(d, N, t.pages, M)
             /\ t.at \in M /\ l[t.at] = level[p] + 1 /\ l[r] = level[r]
             /\ Swollen(t.pages, r, t.at)
             /\ \A q \in M \ {t.at} : Fits(t.pages, r, q)
    BY <2>4
  <2>6. Kept(d0, N0, t.pages, M)
    BY <1>1, <2>5, KeptOn
  <2>7. level[p] = i /\ level[r] = top
    BY <1>1, <1>3, <1>5 DEF needSplit
  <2>8. Overflowing(d0, N0, top, t, i + 1)
    BY <2>4, <2>5, <2>6, <2>7 DEF Overflowing
  <2> QED
    BY <2>2, <2>8 DEF t
<1>6. CASE needSplit(d[p]) /\ p = r
  <2> DEFINE u == Rooted(s)
             t == SplitPage(u)
             f == NewPage(d)
             N1 == N \union {f}
  <2>1. OverflowStep(s) = t
    BY <1>2, <1>3, <1>6 DEF OverflowStep
  <2>2. Size(d[r]) # 0
    BY <1>3, <1>6 DEF needSplit
  <2>3. HasGrown(d, r, N, level, p, u)
    BY <1>1, <2>2, PagesGrow
  <2>4. PICK l1, h1 : /\ u = [pages |-> u.pages, root |-> f, at |-> r]
                      /\ Built(u.pages, f, N1, l1, h1)
                      /\ Kept(d, N, u.pages, N1) /\ f \notin N /\ u.pages[r].parent = f
                      /\ \A q \in N1 :
                           /\ u.pages[q].leaf = IF q = f THEN FALSE ELSE d[q].leaf
                           /\ Size(u.pages[q]) = IF q = f THEN 1 ELSE Size(d[q])
    BY <1>6, <2>3 DEF HasGrown
  <2> HIDE DEF u, f, N1, t
  <2>5. /\ r \in N1 \ {f} /\ needSplit(u.pages[r]) /\ Size(u.pages[r]) <= Cap(u.pages[r]) + 1
        /\ Size(u.pages[f]) = 1 /\ f \in N1
    BY <1>1, <1>3, <1>6, <2>4 DEF needSplit, Cap, Swollen, N1
  <2>6. ASSUME NEW q \in N1 \ {r}
        PROVE  Fits(u.pages, f, q) \/ (q = f /\ q = u.pages[r].parent /\ Size(u.pages[q]) = 1)
    <3>1. CASE q = f
      BY <2>4, <2>5, <3>1
    <3>2. CASE q # f
      <4>1. /\ q \in N \ {r} /\ q \in N1 /\ Size(u.pages[q]) = Size(d[q])
            /\ u.pages[q].leaf = d[q].leaf
        BY <2>4, <2>6, <3>2 DEF N1
      <4>2. Size(d[q]) <= Cap(d[q]) /\ Size(d[q]) >= Half(d[q])
        BY <1>1, <1>6, <4>1 DEF Fits
      <4>3. Cap(u.pages[q]) = Cap(d[q]) /\ Half(u.pages[q]) = Half(d[q])
        BY <4>1 DEF Cap, Half
      <4> QED
        BY <3>2, <4>1, <4>2, <4>3 DEF Fits
    <3> QED
      BY <3>1, <3>2
  <2>7. /\ t = [pages |-> t.pages, root |-> f, at |-> t.at]
        /\ Size(t.pages[t.at]) = Size(u.pages[u.pages[r].parent]) + 1
        /\ \E M, l, h :
             /\ Built(t.pages, f, M, l, h) /\ Kept(u.pages, N1, t.pages, M)
             /\ t.at \in M /\ l[t.at] = l1[r] + 1 /\ l[f] = l1[f]
             /\ Swollen(t.pages, f, t.at)
             /\ \A q \in M \ {t.at} : Fits(t.pages, f, q)
    BY <2>4, <2>5, <2>6, SplitFits DEF t
  <2>8. PICK M, l, h :
             /\ Built(t.pages, f, M, l, h) /\ Kept(u.pages, N1, t.pages, M)
             /\ t.at \in M /\ Swollen(t.pages, f, t.at)
             /\ \A q \in M \ {t.at} : Fits(t.pages, f, q)
    BY <2>7
  <2>9. Kept(d0, N0, t.pages, M)
    <3>1. Kept(d0, N0, u.pages, N1)
      BY <1>1, <2>4, KeptOn
    <3> QED
      BY <2>8, <3>1, KeptOn
  <2>10. Size(t.pages[t.at]) <= Cap(t.pages[t.at])
    <3>1. t.pages[t.at].leaf \in BOOLEAN
      BY <2>8, NodeEntries
    <3>2. Cap(t.pages[t.at]) \in Nat /\ Cap(t.pages[t.at]) >= 3
      BY <3>1, Capacity
    <3> QED
      BY <2>4, <2>5, <2>7, <3>2
  <2>11. Overflowing(d0, N0, top, t, i + 1)
    BY <2>7, <2>8, <2>9, <2>10 DEF Overflowing
  <2> QED
    BY <2>1, <2>11
<1> QED
  BY <1>4, <1>5, <1>6

(* A tree with the entries and the overflow pages of d, and full nodes. *)
Solved(d, N, u) ==
    /\ u = [pages |-> u.pages, root |-> u.root]
    /\ \E M, l, h : /\ Built(u.pages, u.root, M, l, h) /\ Kept(d, N, u.pages, M)
                    /\ \A q \in M : Fits(u.pages, u.root, q)

Splitting == INSTANCE OrderProofs WITH Step <- OverflowStep

LEMMA OverflowSolved ==
    ASSUME NEW d, NEW r, NEW N, NEW level, NEW hi, Built(d, r, N, level, hi),
           NEW p \in N, level[p] = 0, Swollen(d, r, p), \A q \in N \ {p} : Fits(d, r, q),
           NEW t, t = [pages |-> d, root |-> r]
    PROVE  Solved(d, N, SolveOverflow(t, p))
<1> DEFINE start == [pages |-> d, root |-> r, at |-> p]
           n == Bound(d)
           K == {i \in 0..n : Overflowing(d, N, level[r], Splitting!After(start, i), i)}
<1>1. n \in Nat /\ level[r] \in Nat /\ level[r] < n
  <2>1. level[r] # 0 => Ent(d, r) # {}
    <3>1. r \in N /\ (d[r].leaf <=> level[r] = 0)
      BY DEF Built, Shape, Ranked
    <3>2. level[r] # 0 => Size(d[r]) >= 2
      BY <3>1 DEF Fits, Swollen
    <3> QED
      BY <3>1, <3>2, NodeEntries DEF Size
  <2> QED
    BY <2>1, LevelsBounded
<1>2. /\ Splitting!After(start, 0) = start
      /\ \A i \in Nat : Splitting!After(start, i + 1) = OverflowStep(Splitting!After(start, i))
  BY Splitting!Iterations
<1>3. 0 \in K
  <2>1. Kept(d, N, d, N)
    BY DEF Kept
  <2>2. Overflowing(d, N, level[r], start, 0)
    BY <2>1 DEF Overflowing
  <2> QED
    BY <1>1, <1>2, <2>2
<1>4. ASSUME NEW i \in 0..n-1, i \in K PROVE i + 1 \in K
  <2>1. i \in Nat /\ i + 1 \in 0..n
    BY <1>1
  <2>2. Overflowing(d, N, level[r], OverflowStep(Splitting!After(start, i)), i + 1)
    BY <1>4, OverflowGoesOn
  <2> QED
    BY <1>2, <2>1, <2>2
<1>5. K = 0..n
  <2>1. K \in SUBSET (0..n) /\ \A i \in 0..n-1 : i \in K => i + 1 \in K
    BY <1>4
  <2> HIDE DEF K, n
  <2> QED
    BY <1>1, <1>3, <2>1, InductionUpTo
<1> DEFINE s == Splitting!After(start, n)
<1>6. Overflowing(d, N, level[r], s, n)
  <2>1. n \in 0..n
    BY <1>1
  <2> QED
    BY <1>5, <2>1
<1>7. SolveOverflow(t, p) = [pages |-> s.pages, root |-> s.root]
  <2>1. t.pages = d /\ From(t, p) = start
    BY DEF From
  <2>2. SolveOverflow(t, p) = LET z == Splitting!After(From(t, p), Bound(t.pages))
                              IN  [pages |-> z.pages, root |-> z.root]
    BY DEF SolveOverflow, Loop, Splitting!After
  <2> QED
    BY <2>1, <2>2
<1> HIDE DEF s, n, K, start
<1>8. PICK d2, r2, q, M, l, h :
        /\ s = [pages |-> d2, root |-> r2, at |-> q]
        /\ Built(d2, r2, M, l, h) /\ Kept(d, N, d2, M) /\ q \in M
        /\ Swollen(d2, r2, q) /\ \A z \in M \ {q} : Fits(d2, r2, z)
        /\ Size(d2[q]) <= Cap(d2[q]) \/ (l[q] = n /\ l[r2] = level[r])
  BY <1>6 DEF Overflowing
<1>9. Size(d2[q]) <= Cap(d2[q])
  <2>1. l[q] <= l[r2]
    <3>1. l \in [M -> Nat] /\ \A z \in M \ {r2} : l[z] < l[r2]
      BY <1>8 DEF Built, Shape, Ranked
    <3>2. r2 \in M
      BY <1>8 DEF Built, Shape, Ranked
    <3>3. l[q] \in Nat /\ l[r2] \in Nat /\ (q # r2 => l[q] < l[r2])
      BY <1>8, <3>1, <3>2
    <3> QED
      BY <3>3
  <2> QED
    BY <1>1, <1>8, <2>1
<1>10. \A z \in M : Fits(d2, r2, z)
  BY <1>8, <1>9 DEF Fits, Swollen
<1>11. s.pages = d2 /\ s.root = r2
  BY <1>8
<1> DEFINE u == SolveOverflow(t, p)
<1>12. u.pages = d2 /\ u.root = r2 /\ u = [pages |-> d2, root |-> r2]
  BY <1>7, <1>11
<1> HIDE DEF u
<1>13. Solved(d, N, u)
  BY <1>8, <1>10, <1>12 DEF Solved
<1> QED
  BY <1>13 DEF u

-----------------------------------------------------------------------------
(* Loans and merges. *)

(* Another key at place j of a node. *)
IsRekeyed(n, j, k, m, e) ==
    m = [n EXCEPT !.entries[j].key = k] /\ e = [n.entries[j] EXCEPT !.key = k]

LEMMA WithKey ==
    ASSUME NEW n \in AnyNode, NEW j \in 1..Len(n.entries), NEW k \in Keys,
           NEW m, NEW e, IsRekeyed(n, j, k, m, e)
    PROVE  /\ m \in AnyNode /\ m.leaf = n.leaf /\ m.next = n.next /\ m.parent = n.parent
           /\ e \in AnyEntry /\ e.key = k /\ e.child = n.entries[j].child
           /\ e.over = n.entries[j].over
           /\ IsReplaced(n.entries, j, e, m.entries)
<1>1. n.entries \in Seq(AnyEntry) /\ n.entries[j] \in AnyEntry
  BY DEF AnyNode
<1>2. e \in AnyEntry /\ e.key = k /\ e.child = n.entries[j].child /\ e.over = n.entries[j].over
  BY <1>1 DEF AnyEntry, IsRekeyed
<1>3. m.leaf = n.leaf /\ m.next = n.next /\ m.parent = n.parent /\ m.entries = [n.entries EXCEPT ![j] = e]
  BY DEF AnyNode, IsRekeyed
<1>4. m.entries \in Seq(AnyEntry)
  BY <1>1, <1>2, <1>3, ExceptSeq
<1>5. m \in AnyNode
  BY <1>4 DEF AnyNode, IsRekeyed
<1> QED
  BY <1>2, <1>3, <1>5 DEF IsReplaced

(* a and b are neighbours, at places i and i + 1 of their father f. *)
AreNext(d, f, i, a, b) ==
    /\ i \in 1..Len(d[f].entries)-1
    /\ a = d[f].entries[i].child /\ b = d[f].entries[i+1].child

(* The two with the entries sa and sb. *)
ArePair(d, a, b, sa, sb, pair) ==
    pair = [left |-> [d[a] EXCEPT !.entries = sa], right |-> [d[b] EXCEPT !.entries = sb]]

(* Neighbours a and b get the entries sa and sb, some of which, es, come   *)
(* from the other one.                                                     *)
IsLending(d, N, level, f, i, a, b, sa, sb, x, es) ==
    /\ f \in N /\ level[f] # 0 /\ AreNext(d, f, i, a, b)
    /\ sa \in Seq(AnyEntry) /\ sb \in Seq(AnyEntry) /\ Ascending(sa) /\ Ascending(sb)
    /\ Range(sa) \union Range(sb) = Ent(d, a) \union Ent(d, b) /\ Below(Range(sa), Range(sb))
    /\ Range(sa) \intersect Ent(d, a) # {} /\ Range(sb) \intersect Ent(d, b) # {}
    /\ x \in {a, b} /\ \A e \in Range(es) : e \in Range(IF x = a THEN sa ELSE sb)
    /\ \A e \in Range(sa) : e \in Ent(d, a) \/ (x = a /\ e \in Range(es))
    /\ \A e \in Range(sb) : e \in Ent(d, b) \/ (x = b /\ e \in Range(es))

(* They have m and n entries now. *)
HasLent(d, r, N, level, a, b, m, n, d2) ==
    /\ \E h : Built(d2, r, N, level, h)
    /\ Kept(d, N, d2, N)
    /\ \A q \in N : /\ d2[q].leaf = d[q].leaf
                    /\ Size(d2[q]) = IF q = a THEN m ELSE IF q = b THEN n ELSE Size(d[q])

LEMMA PagesLend ==
    ASSUME NEW d, NEW r, NEW N, NEW level, NEW hi, Built(d, r, N, level, hi),
           NEW f, NEW i, NEW a, NEW b, NEW sa, NEW sb, NEW x, NEW es,
           IsLending(d, N, level, f, i, a, b, sa, sb, x, es),
           NEW pair, ArePair(d, a, b, sa, sb, pair),
           NEW d2, d2 = AdoptedBy(Lent(d, f, i, pair), x, es)
    PROVE  HasLent(d, r, N, level, a, b, Len(sa), Len(sb), d2)
<1> DEFINE gl == d[f].entries[i]
           j  == i + 1
           gr == d[f].entries[j]
           A == Range(sa)
           B == Range(sb)
           first == sb[1]
           known == [gr EXCEPT !.key = first.key]
           top == [d[f] EXCEPT !.entries[j].key = first.key]
           lent == Lent(d, f, i, pair)
<1>1. Shape(d, r, N, level, hi) /\ Plain(d, N) /\ Paged(d, N) /\ Listed(d, Leaves(N, level))
  BY DEF Built
<1>2. /\ f \in N /\ level[f] # 0 /\ i \in 1..Len(d[f].entries) /\ j \in 1..Len(d[f].entries)
      /\ i < j /\ \A k \in 1..Len(d[f].entries) : k <= i \/ j <= k
      /\ d[f].entries \in Seq(AnyEntry) /\ Ascending(d[f].entries) /\ Len(d[f].entries) \in Nat
      /\ d[f] \in AnyNode
      /\ gl \in Ent(d, f) /\ gr \in Ent(d, f) /\ a = gl.child /\ b = gr.child
  <2>1. /\ f \in N /\ level[f] # 0 /\ i \in 1..Len(d[f].entries)-1
        /\ a = d[f].entries[i].child /\ b = d[f].entries[j].child
    BY DEF IsLending, AreNext
  <2>2. /\ Len(d[f].entries) \in Nat /\ d[f].entries \in Seq(AnyEntry) /\ Ascending(d[f].entries)
        /\ d[f] \in AnyNode /\ \A k \in 1..Len(d[f].entries) : d[f].entries[k] \in Ent(d, f)
    BY <2>1, NodeEntries
  <2>3. /\ i \in 1..Len(d[f].entries) /\ j \in 1..Len(d[f].entries) /\ i < j
        /\ \A k \in 1..Len(d[f].entries) : k <= i \/ j <= k
    <3>1. ASSUME NEW n \in Nat, i \in 1..n-1
          PROVE  i \in 1..n /\ j \in 1..n /\ i < j /\ \A k \in 1..n : k <= i \/ j <= k
      BY <3>1
    <3> HIDE DEF j
    <3> QED
      BY <2>1, <2>2, <3>1
  <2> HIDE DEF j
  <2>4. gl \in Ent(d, f) /\ gr \in Ent(d, f)
    BY <2>2, <2>3
  <2> QED
    BY <2>1, <2>2, <2>3, <2>4
<1> HIDE DEF j
<1>3. gl.key < gr.key /\ \A e \in Ent(d, f) : e.key <= gl.key \/ gr.key <= e.key
  <2>1. gl.key < gr.key
    BY <1>2, EntriesKeyed, KeyOrder
  <2>2. ASSUME NEW e \in Ent(d, f) PROVE e.key <= gl.key \/ gr.key <= e.key
    <3>1. PICK k \in 1..Len(d[f].entries) : d[f].entries[k] = e
      BY <1>2, NodeEntries
    <3>2. k <= i \/ j <= k
      BY <1>2
    <3>3. k <= i => e.key <= gl.key
      BY <1>2, <3>1, EntriesKeyed, KeyOrder
    <3>4. j <= k => gr.key <= e.key
      BY <1>2, <3>1, EntriesKeyed, KeyOrder
    <3> QED
      BY <3>2, <3>3, <3>4
  <2> QED
    BY <2>1, <2>2
<1> HIDE DEF gl, gr
<1>4. /\ a \in N \ {r} /\ b \in N \ {r} /\ a # b /\ a # f /\ b # f
      /\ level[a] = level[b] /\ level[a] + 1 = level[f] /\ level[a] \in Nat
      /\ d[a].parent = f /\ d[b].parent = f
      /\ gl.key \in Int /\ gr.key \in Int /\ hi[b] \in Int
      /\ \A e \in Ent(d, a) \union Ent(d, b) : e.key \in Int /\ gl.key <= e.key /\ e.key < hi[b]
  BY <1>1, <1>2, <1>3, Couple
<1>5. /\ sa \in Seq(AnyEntry) /\ sb \in Seq(AnyEntry) /\ Ascending(sa) /\ Ascending(sb)
      /\ A \union B = Ent(d, a) \union Ent(d, b) /\ Below(A, B)
      /\ A \intersect Ent(d, a) # {} /\ B \intersect Ent(d, b) # {}
      /\ x \in {a, b} /\ \A e \in Range(es) : e \in Range(IF x = a THEN sa ELSE sb)
      /\ \A e \in A : e \in Ent(d, a) \/ (x = a /\ e \in Range(es))
      /\ \A e \in B : e \in Ent(d, b) \/ (x = b /\ e \in Range(es))
  BY DEF IsLending
<1>6. /\ first \in B /\ first \in AnyEntry /\ first.key \in Keys /\ first.key \in Int
      /\ \A e \in B : first.key <= e.key
      /\ gl.key < first.key /\ first.key < hi[b]
  <2>1. Len(sb) \in Nat /\ Len(sb) # 0
    BY <1>5, RangeHas
  <2>2. 1 \in 1..Len(sb)
    BY <2>1
  <2>3. first \in B /\ first \in AnyEntry
    BY <1>5, <2>2, RangeHas
  <2>4. first.key \in Keys /\ first.key \in Int
    BY <2>3, KeysAssumption DEF AnyEntry
  <2>5. ASSUME NEW e \in B PROVE first.key <= e.key
    <3>1. PICK z \in 1..Len(sb) : sb[z] = e
      BY <1>5, RangeHas
    <3>2. 1 <= z
      OBVIOUS
    <3> QED
      BY <1>5, <2>2, <3>1, <3>2, EntriesKeyed, KeyOrder
  <2>6. PICK e \in A : TRUE
    BY <1>5
  <2>7. gl.key <= e.key /\ e.key < first.key /\ e.key \in Int /\ first.key < hi[b]
    BY <1>4, <1>5, <2>3, <2>6 DEF Below
  <2> HIDE DEF first, B
  <2>8. gl.key < first.key
    BY <1>4, <2>4, <2>7
  <2> QED
    BY <2>3, <2>4, <2>5, <2>7, <2>8
<1> HIDE DEF first
<1>7. /\ top \in AnyNode /\ top.leaf = d[f].leaf /\ top.next = d[f].next /\ top.parent = d[f].parent
      /\ known \in AnyEntry /\ known.key = first.key /\ known.child = b /\ known.over = gr.over
      /\ IsReplaced(d[f].entries, j, known, top.entries)
  <2> DEFINE k == first.key
  <2>1. IsRekeyed(d[f], j, k, top, known)
    BY DEF IsRekeyed, gr
  <2>2. k \in Keys
    BY <1>6
  <2> HIDE DEF k, top, known
  <2>3. /\ top \in AnyNode /\ top.leaf = d[f].leaf /\ top.next = d[f].next /\ top.parent = d[f].parent
        /\ known \in AnyEntry /\ known.key = k /\ known.child = d[f].entries[j].child
        /\ known.over = d[f].entries[j].over
        /\ IsReplaced(d[f].entries, j, known, top.entries)
    BY <1>2, <2>1, <2>2, WithKey
  <2> QED
    BY <1>2, <2>3 DEF gr, k
<1> HIDE DEF top, known
<1>8. /\ Ascending(top.entries) /\ Range(top.entries) = (Ent(d, f) \ {gr}) \union {known}
      /\ Len(top.entries) = Len(d[f].entries) /\ known.over = Null
  <2>1. ASSUME NEW e \in Ent(d, f)
        PROVE  /\ e.key < gr.key => e.key < known.key
               /\ gr.key < e.key => known.key < e.key
    <3>1. e.key \in Int /\ (e.key <= gl.key \/ gr.key <= e.key)
      BY <1>1, <1>2, <1>3 DEF Shape, Keyed
    <3>2. gr.key < e.key => hi[b] <= e.key
      BY <1>1, <1>2 DEF Shape, Limited
    <3> QED
      BY <1>3, <1>4, <1>6, <1>7, <3>1, <3>2
  <2>2. known.over = Null
    BY <1>1, <1>2, <1>7 DEF Shape, Kids
  <2>3. /\ Ascending(top.entries) /\ Range(top.entries) = (Ent(d, f) \ {gr}) \union {known}
        /\ Len(top.entries) = Len(d[f].entries)
    <3> DEFINE before == d[f].entries
               after == top.entries
    <3>1. \A e \in Range(before) : /\ e.key < before[j].key => e.key < known.key
                                   /\ before[j].key < e.key => known.key < e.key
      BY <2>1 DEF Ent, gr
    <3>2. /\ before \in Seq(AnyEntry) /\ Ascending(before) /\ j \in 1..Len(before)
          /\ known \in AnyEntry /\ IsReplaced(before, j, known, after)
      BY <1>2, <1>7
    <3> HIDE DEF before, after
    <3>3. /\ Ascending(after) /\ Range(after) = (Range(before) \ {before[j]}) \union {known}
          /\ Len(after) = Len(before)
      BY <3>1, <3>2, EntriesKeyed, Replacing
    <3> QED
      BY <3>3 DEF gr, Ent, before, after
  <2> QED
    BY <2>2, <2>3
<1> DEFINE left == [d[a] EXCEPT !.entries = sa]
           right == [d[b] EXCEPT !.entries = sb]
           entriesAt(q) == IF q = a THEN sa ELSE IF q = b THEN sb
                           ELSE IF q = f THEN top.entries ELSE d[q].entries
           moves(q) == ~d[x].leaf /\ \E e \in Range(es) : e.child = q
<1>9. /\ left \in AnyNode /\ left.leaf = d[a].leaf /\ left.entries = sa
      /\ left.next = d[a].next /\ left.parent = d[a].parent
      /\ right \in AnyNode /\ right.leaf = d[b].leaf /\ right.entries = sb
      /\ right.next = d[b].next /\ right.parent = d[b].parent
  <2>1. d[a] \in AnyNode /\ d[b] \in AnyNode
    BY <1>4, NodeEntries
  <2> QED
    BY <1>5, <2>1, WithEntries
<1>10. /\ DOMAIN lent = DOMAIN d
       /\ \A q \in DOMAIN d : lent[q] = IF q = a THEN left ELSE IF q = b THEN right
                                        ELSE IF q = f THEN top ELSE d[q]
  <2>1. pair.left = left /\ pair.right = right /\ pair.right.entries[1].key = first.key
    <3>1. pair.left = left /\ pair.right = right
      BY DEF ArePair
    <3> HIDE DEF left, right
    <3> QED
      BY <1>9, <3>1 DEF first
  <2>2. /\ [d[f] EXCEPT !.entries[i+1].key = first.key] = top
        /\ d[f].entries[i].child = a /\ d[f].entries[i+1].child = b
    BY <1>2 DEF top, gl, gr, j
  <2> HIDE DEF left, right
  <2> QED
    BY <2>1, <2>2 DEF Lent
<1> HIDE DEF lent, left, right
<1>11. x \in N /\ x \in DOMAIN d /\ x \in Int /\ a \in DOMAIN d /\ b \in DOMAIN d /\ f \in DOMAIN d
       /\ (d[x].leaf <=> level[a] = 0) /\ (d[a].leaf <=> level[a] = 0) /\ (d[b].leaf <=> level[a] = 0)
       /\ (lent[x].leaf <=> level[a] = 0) /\ N \subseteq DOMAIN d
  <2>1. N \subseteq DOMAIN d /\ a \in N /\ b \in N /\ f \in N
    BY <1>1, <1>2, <1>4 DEF Paged
  <2>2. a \in Int /\ b \in Int
    BY <2>1, NodeEntries
  <2>3. (d[a].leaf <=> level[a] = 0) /\ (d[b].leaf <=> level[b] = 0)
    BY <2>1, NodeEntries
  <2>4. lent[a] = left /\ lent[b] = right
    BY <1>4, <1>10, <2>1
  <2> QED
    BY <1>4, <1>5, <1>9, <2>1, <2>2, <2>3, <2>4
<1>12. /\ DOMAIN d2 = DOMAIN d
       /\ \A q \in N :
            /\ d2[q] \in AnyNode /\ d2[q].leaf = d[q].leaf /\ d2[q].next = d[q].next
            /\ d2[q].entries = entriesAt(q)
            /\ d2[q].parent = IF moves(q) THEN x ELSE d[q].parent
       /\ \A o \in DOMAIN d \ N : d2[o] = d[o]
  <2>1. /\ DOMAIN d2 = DOMAIN lent
        /\ \A q \in DOMAIN lent :
              d2[q] = IF moves(q) THEN [lent[q] EXCEPT !.parent = x] ELSE lent[q]
        /\ \A q \in DOMAIN lent : lent[q] \in AnyNode =>
             /\ d2[q] \in AnyNode /\ d2[q].leaf = lent[q].leaf
             /\ d2[q].entries = lent[q].entries /\ d2[q].next = lent[q].next
             /\ d2[q].parent = IF moves(q) THEN x ELSE lent[q].parent
    <3>1. x \in DOMAIN lent /\ x \in Int /\ d2 = AdoptedBy(lent, x, es) /\ lent[x].leaf = d[x].leaf
      <4>1. lent[x].leaf = d[x].leaf
        BY <1>4, <1>5, <1>9, <1>10, <1>11
      <4> QED
        BY <1>10, <1>11, <4>1 DEF lent
    <3>2. HasAdopted(lent, x, es, d2)
      BY <3>1, Adopting
    <3>3. \A q : IsGone(lent, x, es, q) <=> moves(q)
      BY <3>1 DEF IsGone
    <3> HIDE DEF moves
    <3> QED
      BY <3>2, <3>3 DEF HasAdopted
  <2>2. ASSUME NEW q \in N
        PROVE  /\ lent[q] \in AnyNode /\ lent[q].leaf = d[q].leaf /\ lent[q].next = d[q].next
               /\ lent[q].entries = entriesAt(q) /\ lent[q].parent = d[q].parent
    <3>1. d[q] \in AnyNode /\ q \in DOMAIN d
      BY NodeEntries
    <3> QED
      BY <1>2, <1>4, <1>7, <1>9, <1>10, <3>1
  <2>3. ASSUME NEW o \in DOMAIN d \ N PROVE ~moves(o)
    <3>1. ASSUME moves(o) PROVE FALSE
      <4>1. PICK e \in Range(es) : e.child = o
        BY <3>1
      <4>2. level[a] # 0 /\ e \in Ent(d, a) \union Ent(d, b)
        BY <1>5, <1>11, <3>1, <4>1
      <4>3. e.child \in N
        BY <1>1, <1>4, <4>2 DEF Shape, Kids
      <4> QED
        BY <4>1, <4>3
    <3> QED
      BY <3>1
  <2> HIDE DEF moves, entriesAt
  <2>4. \A o \in DOMAIN d \ N : d2[o] = d[o]
    BY <1>2, <1>4, <1>10, <2>1, <2>3
  <2> QED
    BY <1>10, <1>11, <2>1, <2>2, <2>4
<1>13. \A q \in N : Ent(d2, q) = IF q = a THEN A ELSE IF q = b THEN B
                      ELSE IF q = f THEN (Ent(d, f) \ {gr}) \union {known} ELSE Ent(d, q)
  BY <1>4, <1>8, <1>12 DEF Ent
<1>14. PICK h : Shape(d2, r, N, level, h)
  <2>1. ASSUME NEW q \in N
        PROVE  d2[q].parent = IF level[a] # 0 /\ \E e \in A : e.child = q THEN a
                              ELSE IF level[a] # 0 /\ \E e \in B : e.child = q THEN b ELSE d[q].parent
    <3>1. level[a] # 0 => \A e, g \in A \union B :
             /\ d[e.child].parent = (IF e \in Ent(d, a) THEN a ELSE b)
             /\ e.child = g.child => e = g
      BY <1>1, <1>2, <1>3, <1>5, Couple
    <3>2. A \intersect B = {}
      BY <1>4, <1>5 DEF Below
    <3>3. CASE level[a] # 0 /\ \E e \in A : e.child = q
      <4>1. PICK e \in A : e.child = q
        BY <3>3
      <4>2. \A g \in A \union B : g.child = q => g = e
        BY <3>1, <3>3, <4>1
      <4>3. CASE e \in Range(es)
        <5>1. x = a
          BY <1>4, <1>5, <3>2, <4>3
        <5> QED
          BY <1>11, <1>12, <3>3, <4>1, <4>3, <5>1
      <4>4. CASE e \notin Range(es)
        <5>1. ~moves(q)
          BY <1>5, <4>2, <4>4
        <5>2. d[q].parent = a
          BY <1>5, <3>1, <3>3, <4>1, <4>4
        <5> QED
          BY <1>12, <3>3, <5>1, <5>2
      <4> QED
        BY <4>3, <4>4
    <3>4. CASE level[a] # 0 /\ (~\E e \in A : e.child = q) /\ \E e \in B : e.child = q
      <4>1. PICK e \in B : e.child = q
        BY <3>4
      <4>2. \A g \in A \union B : g.child = q => g = e
        BY <3>1, <3>4, <4>1
      <4>3. CASE e \in Range(es)
        <5>1. x = b
          BY <1>4, <1>5, <3>2, <4>3
        <5> QED
          BY <1>11, <1>12, <3>4, <4>1, <4>3, <5>1
      <4>4. CASE e \notin Range(es)
        <5>1. ~moves(q)
          BY <1>5, <4>2, <4>4
        <5>2. e \notin Ent(d, a) /\ e \in Ent(d, b)
          <6>1. e \in Ent(d, b)
            BY <1>5, <4>4
          <6>2. Below(Ent(d, a), Ent(d, b))
            BY <1>1, <1>2, <1>3, Couple
          <6> QED
            BY <1>4, <6>1, <6>2 DEF Below
        <5>3. d[q].parent = b
          BY <3>1, <3>4, <4>1, <5>2
        <5> QED
          BY <1>12, <3>4, <5>1, <5>3
      <4> QED
        BY <4>3, <4>4
    <3>5. CASE level[a] = 0 \/ ~\E e \in A \union B : e.child = q
      <4>1. ~moves(q)
        BY <1>5, <1>11, <3>5
      <4> QED
        BY <1>12, <3>5, <4>1
    <3> QED
      BY <3>3, <3>4, <3>5
  <2>2. /\ A # {} /\ known.key = first.key /\ known.child = b /\ known.over = Null
        /\ first \in B /\ \A e \in B : first.key <= e.key
    BY <1>5, <1>6, <1>7, <1>8
  <2> HIDE DEF A, B
  <2>3. IsLoan(d, d2, N, level, f, gl, gr, a, b, A, B, first, known)
    BY <1>2, <1>3, <1>5, <1>12, <1>13, <2>1, <2>2 DEF IsLoan
  <2> QED
    BY <1>1, <2>3, ShapeLends
<1> HIDE DEF entriesAt, moves
<1>15. Plain(d2, N)
  <2>1. \A q \in N : Ascending(entriesAt(q))
    BY <1>1, <1>5, <1>8 DEF Plain, entriesAt
  <2>2. \A q \in N : d2[q].leaf \/ d2[q].next = Null
    BY <1>1, <1>12 DEF Plain
  <2> QED
    BY <1>12, <2>1, <2>2 DEF Plain
<1>16. Paged(d2, N)
  BY <1>1, <1>12 DEF Paged
<1> DEFINE L == Leaves(N, level)
<1>17. Listed(d2, L)
  <2>1. Separated(d, L) /\ Separated(d2, L)
    BY <1>1, <1>14, LeavesSeparated DEF Leaves
  <2>2. \A q \in L : d2[q].next = d[q].next
    BY <1>12 DEF Leaves
  <2>3. ASSUME NEW q \in L, NEW z \in L, q # z
        PROVE  \E e \in Ent(d, q), g \in Ent(d2, q) : e.key = g.key
    <3>1. q \in N /\ q # f
      BY <1>2 DEF Leaves
    <3>2. CASE q = a
      <4>1. PICK e : e \in A /\ e \in Ent(d, a)
        BY <1>5
      <4>2. Ent(d2, a) = A
        BY <1>13, <3>1, <3>2
      <4> QED
        BY <3>2, <4>1, <4>2
    <3>3. CASE q = b
      <4>1. PICK e : e \in B /\ e \in Ent(d, b)
        BY <1>5
      <4>2. Ent(d2, b) = B
        BY <1>4, <1>13
      <4> QED
        BY <3>3, <4>1, <4>2
    <3>4. CASE q # a /\ q # b
      <4>1. Ent(d2, q) = Ent(d, q)
        BY <1>13, <3>1, <3>4
      <4>2. Ent(d, q) # {}
        BY <2>1, <2>3 DEF Separated
      <4> QED
        BY <4>1, <4>2
    <3> QED
      BY <3>2, <3>3, <3>4
  <2> HIDE DEF L
  <2> QED
    BY <1>1, <2>1, <2>2, <2>3, ListKept DEF L
<1>18. LeafEntries(d2, N) = LeafEntries(d, N)
  <2>1. \A e : e \in LeafEntries(d, N) <=> \E q \in N : level[q] = 0 /\ e \in Ent(d, q)
    BY <1>1, InLeaves
  <2>2. \A e : e \in LeafEntries(d2, N) <=> \E q \in N : level[q] = 0 /\ e \in Ent(d2, q)
    BY <1>14, InLeaves
  <2>3. ASSUME NEW e PROVE (\E q \in N : level[q] = 0 /\ e \in Ent(d2, q))
                           <=> (\E q \in N : level[q] = 0 /\ e \in Ent(d, q))
    <3>1. \A q \in N : q # a /\ q # b /\ level[q] = 0 => Ent(d2, q) = Ent(d, q)
      BY <1>2, <1>13
    <3>2. /\ a \in N /\ b \in N /\ level[a] = level[b] /\ Ent(d2, a) = A /\ Ent(d2, b) = B
          /\ A \union B = Ent(d, a) \union Ent(d, b)
      BY <1>4, <1>5, <1>13
    <3>3. ASSUME NEW q \in N, level[q] = 0, e \in Ent(d2, q)
          PROVE  \E z \in N : level[z] = 0 /\ e \in Ent(d, z)
      BY <3>1, <3>2, <3>3
    <3>4. ASSUME NEW q \in N, level[q] = 0, e \in Ent(d, q)
          PROVE  \E z \in N : level[z] = 0 /\ e \in Ent(d2, z)
      BY <3>1, <3>2, <3>4
    <3> QED
      BY <3>3, <3>4
  <2>4. \A e : e \in LeafEntries(d2, N) <=> e \in LeafEntries(d, N)
    BY <2>1, <2>2, <2>3
  <2> QED
    BY <2>4
<1>19. Kept(d, N, d2, N)
  BY <1>12, <1>18 DEF Kept
<1>20. Built(d2, r, N, level, h)
  BY <1>14, <1>15, <1>16, <1>17 DEF Built
<1>21. ASSUME NEW q \in N
       PROVE  /\ d2[q].leaf = d[q].leaf
              /\ Size(d2[q]) = IF q = a THEN Len(sa) ELSE IF q = b THEN Len(sb) ELSE Size(d[q])
  BY <1>8, <1>12 DEF Size, entriesAt
<1> QED
  BY <1>19, <1>20, <1>21 DEF HasLent

(* Neighbours under a father f, at places i and i + 1. *)
LEMMA NextTo ==
    ASSUME NEW d, NEW r, NEW N, NEW level, NEW hi, Built(d, r, N, level, hi),
           NEW f \in N, level[f] # 0, NEW i, NEW a, NEW b, AreNext(d, f, i, a, b)
    PROVE  /\ a \in N \ {r} /\ b \in N \ {r} /\ a # b /\ a # f /\ b # f /\ level[a] = level[b]
           /\ d[a].parent = f /\ d[b].parent = f /\ level[f] = level[a] + 1
           /\ Below(Ent(d, a), Ent(d, b))
           /\ d[a].leaf = d[b].leaf
           /\ d[a].entries \in Seq(AnyEntry) /\ d[b].entries \in Seq(AnyEntry)
           /\ Ascending(d[a].entries) /\ Ascending(d[b].entries)
           /\ d[a] \in AnyNode /\ d[b] \in AnyNode
<1> DEFINE j == i + 1
<1>1. /\ d[f].entries \in Seq(AnyEntry) /\ Ascending(d[f].entries) /\ Len(d[f].entries) \in Nat
      /\ \A k \in 1..Len(d[f].entries) : d[f].entries[k] \in Ent(d, f)
  BY NodeEntries
<1>2. i \in 1..Len(d[f].entries) /\ j \in 1..Len(d[f].entries) /\ i < j
  <2>1. ASSUME NEW n \in Nat, i \in 1..n-1 PROVE i \in 1..n /\ j \in 1..n /\ i < j
    BY <2>1
  <2> HIDE DEF j
  <2> QED
    BY <1>1, <2>1 DEF AreNext
<1>3. a = d[f].entries[i].child /\ b = d[f].entries[j].child
  BY DEF AreNext
<1> HIDE DEF j
<1>4. /\ d[f].entries[i] \in Ent(d, f) /\ d[f].entries[j] \in Ent(d, f)
      /\ d[f].entries[i].key < d[f].entries[j].key
  BY <1>1, <1>2, EntriesKeyed, KeyOrder
<1>5. Shape(d, r, N, level, hi)
  BY DEF Built
<1>6. /\ a \in N \ {r} /\ b \in N \ {r} /\ a # b /\ a # f /\ b # f
      /\ level[a] = level[b] /\ level[a] + 1 = level[f]
      /\ d[a].parent = f /\ d[b].parent = f /\ Below(Ent(d, a), Ent(d, b))
  <2> DEFINE gl == d[f].entries[i]
             gr == d[f].entries[j]
  <2>1. /\ gl \in Ent(d, f) /\ gr \in Ent(d, f) /\ gl.key < gr.key /\ a = gl.child /\ b = gr.child
    BY <1>3, <1>4
  <2> HIDE DEF gl, gr
  <2> QED
    BY <1>5, <2>1, Couple
<1>7. /\ d[a].leaf \in BOOLEAN /\ d[b].leaf \in BOOLEAN /\ (d[a].leaf <=> level[a] = 0)
      /\ (d[b].leaf <=> level[b] = 0)
      /\ d[a].entries \in Seq(AnyEntry) /\ d[b].entries \in Seq(AnyEntry)
      /\ Ascending(d[a].entries) /\ Ascending(d[b].entries)
      /\ d[a] \in AnyNode /\ d[b] \in AnyNode
  <2>1. a \in N /\ b \in N
    BY <1>6
  <2>2. /\ d[a] \in AnyNode /\ d[a].leaf \in BOOLEAN /\ (d[a].leaf <=> level[a] = 0)
        /\ d[a].entries \in Seq(AnyEntry) /\ Ascending(d[a].entries)
    BY <2>1, NodeEntries
  <2>3. /\ d[b] \in AnyNode /\ d[b].leaf \in BOOLEAN /\ (d[b].leaf <=> level[b] = 0)
        /\ d[b].entries \in Seq(AnyEntry) /\ Ascending(d[b].entries)
    BY <2>1, NodeEntries
  <2> QED
    BY <2>2, <2>3
<1>8. d[a].leaf = d[b].leaf
  BY <1>6, <1>7
<1> QED
  BY <1>6, <1>7, <1>8

(* Case 1 of SolveUnderflow. *)
LEMMA PagesBorrowLeft ==
    ASSUME NEW d, NEW r, NEW N, NEW level, NEW hi, Built(d, r, N, level, hi),
           NEW f \in N, level[f] # 0, NEW i, NEW a, NEW b, AreNext(d, f, i, a, b),
           Size(d[a]) >= 2, Size(d[b]) >= 1
    PROVE  HasLent(d, r, N, level, a, b, Size(d[a]) - 1, Size(d[b]) + 1, BorrowedLeft(d, f, i))
<1> DEFINE s == d[a].entries
           t == d[b].entries
           sa == Front(s)
           sb == <<Last(s)>> \o t
           left == [d[a] EXCEPT !.entries = sa]
           right == [d[b] EXCEPT !.entries = sb]
           pair == [left |-> left, right |-> right]
           es == <<sb[1]>>
<1>1. /\ a \in N \ {r} /\ b \in N \ {r} /\ a # b /\ Below(Range(s), Range(t))
      /\ s \in Seq(AnyEntry) /\ t \in Seq(AnyEntry) /\ Ascending(s) /\ Ascending(t)
      /\ d[a] \in AnyNode /\ d[b] \in AnyNode
  BY NextTo DEF Ent
<1>2. /\ Len(s) \in Nat /\ Len(t) \in Nat /\ Len(s) >= 2 /\ Len(t) >= 1
  BY <1>1, RangeHas DEF Size
<1> HIDE DEF s, t, sa, sb
<1>3. /\ Last(s) \in AnyEntry /\ Last(s) \in Range(s)
      /\ sa \in Seq(AnyEntry) /\ Len(sa) = Len(s) - 1 /\ Ascending(sa)
      /\ Range(s) = Range(sa) \union {Last(s)} /\ Below(Range(sa), {Last(s)})
  <2>1. s \in Seq(AnyEntry) /\ Ascending(s) /\ Len(s) # 0 /\ KeyedBy(AnyEntry)
    BY <1>1, <1>2, EntriesKeyed
  <2>2. /\ Last(s) \in AnyEntry /\ Last(s) \in Range(s)
        /\ Front(s) \in Seq(AnyEntry) /\ Len(Front(s)) = Len(s) - 1 /\ Ascending(Front(s))
        /\ Range(s) = Range(Front(s)) \union {Last(s)} /\ Below(Range(Front(s)), {Last(s)})
    BY <2>1, Ends
  <2> QED
    BY <2>2 DEF sa
<1>4. /\ sb \in Seq(AnyEntry) /\ Len(sb) = Len(t) + 1 /\ Ascending(sb)
      /\ Range(sb) = {Last(s)} \union Range(t) /\ sb[1] = Last(s)
  <2> DEFINE u == <<Last(s)>>
  <2>1. u \in Seq(AnyEntry) /\ Len(u) = 1 /\ Ascending(u) /\ Range(u) = {Last(s)} /\ u[1] = Last(s)
    BY <1>3, Single
  <2>2. Below(Range(u), Range(t))
    BY <1>1, <1>3, <2>1 DEF Below
  <2> HIDE DEF u
  <2>3. /\ u \o t \in Seq(AnyEntry) /\ Len(u \o t) = Len(u) + Len(t) /\ Ascending(u \o t)
        /\ Range(u \o t) = Range(u) \union Range(t)
    <3>1. /\ u \in Seq(AnyEntry) /\ t \in Seq(AnyEntry) /\ Ascending(u) /\ Ascending(t)
          /\ Below(Range(u), Range(t)) /\ KeyedBy(AnyEntry)
      BY <1>1, <2>1, <2>2, EntriesKeyed
    <3> QED
      BY <3>1, Joined
  <2>4. (u \o t)[1] = u[1]
    <3>1. 1 \in 1..Len(u)+Len(t) /\ 1 <= Len(u)
      BY <1>2, <2>1
    <3> QED
      BY <1>1, <2>1, <3>1, ConcatProperties
  <2>5. sb = u \o t
    BY DEF sb, u
  <2> QED
    BY <1>2, <2>1, <2>3, <2>4, <2>5
<1>5. Range(es) = {Last(s)}
  BY <1>3, <1>4, Single
<1>6. BorrowedLeft(d, f, i) = AdoptedBy(Lent(d, f, i, pair), b, es)
  <2>1. BorrowLeft(d[a], d[b]) = pair
    <3>1. [d[a] EXCEPT !.entries = Front(@)] = left
      BY <1>1 DEF AnyNode, s, sa
    <3>2. [d[b] EXCEPT !.entries = <<Last(d[a].entries)>> \o @] = right
      BY <1>1 DEF AnyNode, s, t, sb
    <3> QED
      BY <3>1, <3>2 DEF BorrowLeft
  <2>2. pair.right.entries = sb
    BY <1>1 DEF AnyNode
  <2> HIDE DEF pair
  <2> QED
    BY <2>1, <2>2 DEF BorrowedLeft, AreNext
<1>7. IsLending(d, N, level, f, i, a, b, sa, sb, b, es)
  <2>1. Range(sa) \union Range(sb) = Range(s) \union Range(t)
    BY <1>3, <1>4
  <2>2. Below(Range(sa), Range(sb))
    BY <1>1, <1>3, <1>4 DEF Below
  <2>3. Range(sa) # {} /\ Range(t) # {}
    <3>1. Len(sa) # 0 /\ Len(t) # 0
      BY <1>2, <1>3
    <3> QED
      BY <1>1, <1>3, <3>1, RangeHas
  <2>4. /\ Range(s) = Ent(d, a) /\ Range(t) = Ent(d, b)
    BY DEF s, t, Ent
  <2> HIDE DEF es
  <2>5. /\ Range(sa) \intersect Ent(d, a) # {} /\ Range(sb) \intersect Ent(d, b) # {}
        /\ \A e \in Range(es) : e \in Range(sb)
        /\ \A e \in Range(sa) : e \in Ent(d, a)
        /\ \A e \in Range(sb) : e \in Ent(d, b) \/ e \in Range(es)
    BY <1>3, <1>4, <1>5, <2>3, <2>4
  <2> QED
    BY <1>1, <1>3, <1>4, <2>1, <2>2, <2>4, <2>5 DEF IsLending
<1>8. HasLent(d, r, N, level, a, b, Len(sa), Len(sb), BorrowedLeft(d, f, i))
  <2>1. ArePair(d, a, b, sa, sb, pair)
    BY DEF ArePair
  <2> HIDE DEF pair, es
  <2> QED
    BY <1>6, <1>7, <2>1, PagesLend
<1> QED
  BY <1>3, <1>4, <1>8 DEF Size, s, t

(* Case 2. *)
LEMMA PagesBorrowRight ==
    ASSUME NEW d, NEW r, NEW N, NEW level, NEW hi, Built(d, r, N, level, hi),
           NEW f \in N, level[f] # 0, NEW i, NEW a, NEW b, AreNext(d, f, i, a, b),
           Size(d[a]) >= 1, Size(d[b]) >= 2
    PROVE  HasLent(d, r, N, level, a, b, Size(d[a]) + 1, Size(d[b]) - 1, BorrowedRight(d, f, i))
<1> DEFINE s == d[a].entries
           t == d[b].entries
           sa == Append(s, Head(t))
           sb == Tail(t)
           left == [d[a] EXCEPT !.entries = sa]
           right == [d[b] EXCEPT !.entries = sb]
           pair == [left |-> left, right |-> right]
           es == <<Last(sa)>>
<1>1. /\ a \in N \ {r} /\ b \in N \ {r} /\ a # b /\ Below(Range(s), Range(t))
      /\ s \in Seq(AnyEntry) /\ t \in Seq(AnyEntry) /\ Ascending(s) /\ Ascending(t)
      /\ d[a] \in AnyNode /\ d[b] \in AnyNode
  BY NextTo DEF Ent
<1>2. /\ Len(s) \in Nat /\ Len(t) \in Nat /\ Len(s) >= 1 /\ Len(t) >= 2
  BY <1>1, RangeHas DEF Size
<1> HIDE DEF s, t, sa, sb
<1>3. /\ Head(t) \in AnyEntry /\ Head(t) \in Range(t)
      /\ sb \in Seq(AnyEntry) /\ Len(sb) = Len(t) - 1 /\ Ascending(sb)
      /\ Range(t) = {Head(t)} \union Range(sb) /\ Below({Head(t)}, Range(sb))
  <2>1. t \in Seq(AnyEntry) /\ Ascending(t) /\ Len(t) # 0 /\ KeyedBy(AnyEntry)
    BY <1>1, <1>2, EntriesKeyed
  <2>2. /\ Head(t) = t[1] /\ t[1] \in AnyEntry /\ t[1] \in Range(t)
        /\ Tail(t) \in Seq(AnyEntry) /\ Len(Tail(t)) = Len(t) - 1 /\ Ascending(Tail(t))
        /\ Range(t) = {t[1]} \union Range(Tail(t)) /\ Below({t[1]}, Range(Tail(t)))
    BY <2>1, Ends
  <2> QED
    BY <2>2 DEF sb
<1>4. /\ sa \in Seq(AnyEntry) /\ Len(sa) = Len(s) + 1 /\ Ascending(sa)
      /\ Range(sa) = Range(s) \union {Head(t)} /\ Last(sa) = Head(t)
  <2> DEFINE u == <<Head(t)>>
  <2>1. u \in Seq(AnyEntry) /\ Len(u) = 1 /\ Ascending(u) /\ Range(u) = {Head(t)} /\ u[1] = Head(t)
    BY <1>3, Single
  <2>2. Below(Range(s), Range(u))
    BY <1>1, <1>3, <2>1 DEF Below
  <2>3. sa = s \o u
    BY <1>1, <1>3, AppendIsConcat DEF sa
  <2> HIDE DEF u
  <2>4. /\ s \o u \in Seq(AnyEntry) /\ Len(s \o u) = Len(s) + Len(u) /\ Ascending(s \o u)
        /\ Range(s \o u) = Range(s) \union Range(u)
    <3>1. /\ s \in Seq(AnyEntry) /\ u \in Seq(AnyEntry) /\ Ascending(s) /\ Ascending(u)
          /\ Below(Range(s), Range(u)) /\ KeyedBy(AnyEntry)
      BY <1>1, <2>1, <2>2, EntriesKeyed
    <3> QED
      BY <3>1, Joined
  <2>5. sa[Len(s) + 1] = Head(t)
    BY <1>1, <1>3, AppendProperties DEF sa
  <2>6. Last(sa) = sa[Len(sa)]
    BY DEF Last
  <2> QED
    BY <1>2, <2>1, <2>3, <2>4, <2>5, <2>6
<1>5. Range(es) = {Head(t)}
  BY <1>3, <1>4, Single
<1>6. BorrowedRight(d, f, i) = AdoptedBy(Lent(d, f, i, pair), a, es)
  <2>1. BorrowRight(d[a], d[b]) = pair
    <3>1. [d[a] EXCEPT !.entries = Append(@, Head(d[b].entries))] = left
      BY <1>1 DEF AnyNode, s, t, sa
    <3>2. [d[b] EXCEPT !.entries = Tail(@)] = right
      BY <1>1 DEF AnyNode, t, sb
    <3> QED
      BY <3>1, <3>2 DEF BorrowRight
  <2>2. pair.left.entries = sa
    BY <1>1 DEF AnyNode
  <2> HIDE DEF pair
  <2> QED
    BY <2>1, <2>2 DEF BorrowedRight, AreNext
<1>7. IsLending(d, N, level, f, i, a, b, sa, sb, a, es)
  <2>1. Range(sa) \union Range(sb) = Range(s) \union Range(t)
    BY <1>3, <1>4
  <2>2. Below(Range(sa), Range(sb))
    BY <1>1, <1>3, <1>4 DEF Below
  <2>3. Range(sb) # {} /\ Range(s) # {}
    <3>1. Len(sb) # 0 /\ Len(s) # 0
      BY <1>2, <1>3
    <3> QED
      BY <1>1, <1>3, <3>1, RangeHas
  <2>4. /\ Range(s) = Ent(d, a) /\ Range(t) = Ent(d, b)
    BY DEF s, t, Ent
  <2> HIDE DEF es
  <2>5. /\ Range(sa) \intersect Ent(d, a) # {} /\ Range(sb) \intersect Ent(d, b) # {}
        /\ \A e \in Range(es) : e \in Range(sa)
        /\ \A e \in Range(sa) : e \in Ent(d, a) \/ e \in Range(es)
        /\ \A e \in Range(sb) : e \in Ent(d, b)
    BY <1>3, <1>4, <1>5, <2>3, <2>4
  <2> QED
    BY <1>1, <1>3, <1>4, <2>1, <2>2, <2>4, <2>5 DEF IsLending
<1>8. HasLent(d, r, N, level, a, b, Len(sa), Len(sb), BorrowedRight(d, f, i))
  <2>1. ArePair(d, a, b, sa, sb, pair)
    BY DEF ArePair
  <2> HIDE DEF pair, es
  <2> QED
    BY <1>6, <1>7, <2>1, PagesLend
<1> QED
  BY <1>3, <1>4, <1>8 DEF Size, s, t

(* Case 3: a takes in b. *)
HasMerged(d, r, N, level, f, a, b, d2) ==
    /\ \E l, h : Built(d2, r, N \ {b}, l, h) /\ \A q \in N \ {b} : l[q] = level[q]
    /\ Kept(d, N, d2, N \ {b})
    /\ \A q \in N \ {b} :
         /\ d2[q].leaf = d[q].leaf
         /\ Size(d2[q]) = IF q = a THEN Size(d[a]) + Size(d[b])
                          ELSE IF q = f THEN Size(d[f]) - 1 ELSE Size(d[q])

LEMMA PagesMerge ==
    ASSUME NEW d, NEW r, NEW N, NEW level, NEW hi, Built(d, r, N, level, hi),
           NEW f \in N, level[f] # 0, NEW i, NEW a, NEW b, AreNext(d, f, i, a, b)
    PROVE  HasMerged(d, r, N, level, f, a, b, Merged(d, f, i))
<1> DEFINE j  == i + 1
           gl == d[f].entries[i]
           gr == d[f].entries[j]
           s == d[a].entries
           t == d[b].entries
           u == s \o t
           rest == RemoveAt(d[f].entries, j)
           both == Merge(d[a], d[b])
           top == [d[f] EXCEPT !.entries = rest]
           taken == [q \in DOMAIN d |-> IF q = a THEN both ELSE IF q = f THEN top ELSE d[q]]
           full == AdoptedBy(taken, a, t)
           d2 == Restrict(full, DOMAIN full \ {b})
           M == N \ {b}
<1>1. Shape(d, r, N, level, hi) /\ Plain(d, N) /\ Paged(d, N) /\ Listed(d, Leaves(N, level))
  BY DEF Built
<1>2. /\ a \in N \ {r} /\ b \in N \ {r} /\ a # b /\ a # f /\ b # f
      /\ level[a] = level[b] /\ level[f] = level[a] + 1
      /\ Below(Range(s), Range(t)) /\ d[a].leaf = d[b].leaf
      /\ s \in Seq(AnyEntry) /\ t \in Seq(AnyEntry) /\ Ascending(s) /\ Ascending(t)
      /\ d[a] \in AnyNode /\ d[b] \in AnyNode
  BY NextTo DEF Ent
<1>3. /\ i \in 1..Len(d[f].entries) /\ j \in 1..Len(d[f].entries) /\ i < j
      /\ \A k \in 1..Len(d[f].entries) : k <= i \/ j <= k
      /\ d[f].entries \in Seq(AnyEntry) /\ Ascending(d[f].entries) /\ Len(d[f].entries) \in Nat
      /\ d[f] \in AnyNode /\ gl \in Ent(d, f) /\ gr \in Ent(d, f) /\ b = gr.child /\ a = gl.child
  <2>1. /\ Len(d[f].entries) \in Nat /\ d[f].entries \in Seq(AnyEntry) /\ Ascending(d[f].entries)
        /\ d[f] \in AnyNode /\ \A k \in 1..Len(d[f].entries) : d[f].entries[k] \in Ent(d, f)
    BY NodeEntries
  <2>2. /\ i \in 1..Len(d[f].entries) /\ j \in 1..Len(d[f].entries) /\ i < j
        /\ \A k \in 1..Len(d[f].entries) : k <= i \/ j <= k
    <3>1. ASSUME NEW n \in Nat, i \in 1..n-1
          PROVE  i \in 1..n /\ j \in 1..n /\ i < j /\ \A k \in 1..n : k <= i \/ j <= k
      BY <3>1
    <3> HIDE DEF j
    <3> QED
      BY <2>1, <3>1 DEF AreNext
  <2>3. a = gl.child /\ b = gr.child
    BY DEF AreNext
  <2> HIDE DEF j
  <2> QED
    BY <2>1, <2>2, <2>3
<1>4. d2 = Merged(d, f, i)
  BY Zenon DEF AreNext, Merged, DeletePages
<1> HIDE DEF j
<1>5. gl.key < gr.key /\ \A e \in Ent(d, f) : e.key <= gl.key \/ gr.key <= e.key
  <2>1. gl.key < gr.key
    BY <1>3, EntriesKeyed, KeyOrder
  <2>2. ASSUME NEW e \in Ent(d, f) PROVE e.key <= gl.key \/ gr.key <= e.key
    <3>1. PICK k \in 1..Len(d[f].entries) : d[f].entries[k] = e
      BY <1>3, NodeEntries
    <3>2. k <= i \/ j <= k
      BY <1>3
    <3>3. k <= i => e.key <= gl.key
      BY <1>3, <3>1, EntriesKeyed, KeyOrder
    <3>4. j <= k => gr.key <= e.key
      BY <1>3, <3>1, EntriesKeyed, KeyOrder
    <3> QED
      BY <3>2, <3>3, <3>4
  <2> QED
    BY <2>1, <2>2
<1>6. /\ rest \in Seq(AnyEntry) /\ Len(rest) = Len(d[f].entries) - 1 /\ Ascending(rest)
      /\ Range(rest) = Ent(d, f) \ {gr}
  <2>1. /\ RemoveAt(d[f].entries, j) \in Seq(AnyEntry)
        /\ Len(RemoveAt(d[f].entries, j)) = Len(d[f].entries) - 1
        /\ Ascending(RemoveAt(d[f].entries, j))
        /\ Range(RemoveAt(d[f].entries, j)) = Range(d[f].entries) \ {d[f].entries[j]}
    BY <1>3, EntriesKeyed, Removing
  <2> QED
    BY <2>1 DEF Ent
<1>7. /\ u \in Seq(AnyEntry) /\ Len(u) = Len(s) + Len(t) /\ Ascending(u)
      /\ Range(u) = Ent(d, a) \union Ent(d, b)
  <2>1. Range(s) = Ent(d, a) /\ Range(t) = Ent(d, b)
    BY DEF Ent
  <2> HIDE DEF s, t
  <2>2. /\ s \in Seq(AnyEntry) /\ t \in Seq(AnyEntry) /\ Ascending(s) /\ Ascending(t)
        /\ Below(Range(s), Range(t)) /\ KeyedBy(AnyEntry)
    BY <1>2, EntriesKeyed
  <2>3. /\ s \o t \in Seq(AnyEntry) /\ Len(s \o t) = Len(s) + Len(t) /\ Ascending(s \o t)
        /\ Range(s \o t) = Range(s) \union Range(t)
    BY <2>2, Joined
  <2> QED
    BY <2>1, <2>3
<1>8. /\ both \in AnyNode /\ both.leaf = d[a].leaf /\ both.entries = u
      /\ both.next = d[b].next /\ both.parent = d[a].parent
  <2>1. both = [d[a] EXCEPT !.entries = u, !.next = d[b].next]
    BY <1>2 DEF Merge, AnyNode
  <2>2. d[b].next \in Int \union {Null}
    BY <1>2 DEF AnyNode
  <2> HIDE DEF u, both
  <2> QED
    BY <1>2, <1>7, <2>1, <2>2 DEF AnyNode
<1> HIDE DEF gl, gr, u, rest, both
<1>9. /\ top \in AnyNode /\ top.leaf = d[f].leaf /\ top.entries = rest
      /\ top.next = d[f].next /\ top.parent = d[f].parent
  BY <1>3, <1>6, WithEntries
<1> HIDE DEF top
<1>10. /\ a \in DOMAIN d /\ b \in DOMAIN d /\ f \in DOMAIN d /\ N \subseteq DOMAIN d /\ a \in Int
       /\ (d[a].leaf <=> level[a] = 0) /\ level[a] \in Nat
  <2>1. N \subseteq DOMAIN d /\ a \in N
    BY <1>1, <1>2 DEF Paged
  <2>2. a \in Int /\ (d[a].leaf <=> level[a] = 0) /\ level[a] \in Nat
    BY <2>1, NodeEntries
  <2> QED
    BY <1>2, <2>1, <2>2
<1>11. /\ DOMAIN taken = DOMAIN d
       /\ \A q \in DOMAIN d : taken[q] = IF q = a THEN both ELSE IF q = f THEN top ELSE d[q]
  OBVIOUS
<1> HIDE DEF taken
<1> DEFINE entriesAt(q) == IF q = a THEN u ELSE IF q = f THEN rest ELSE d[q].entries
           moves(q) == ~d[a].leaf /\ \E e \in Ent(d, b) : e.child = q
<1>12. /\ DOMAIN full = DOMAIN d
       /\ \A q \in N :
            /\ full[q] \in AnyNode /\ full[q].leaf = d[q].leaf
            /\ full[q].next = IF q = a THEN d[b].next ELSE d[q].next
            /\ full[q].entries = entriesAt(q)
            /\ full[q].parent = IF moves(q) THEN a ELSE d[q].parent
       /\ \A o \in DOMAIN d \ N : full[o] = d[o]
  <2>1. /\ DOMAIN full = DOMAIN taken
        /\ \A q \in DOMAIN taken :
              full[q] = IF moves(q) THEN [taken[q] EXCEPT !.parent = a] ELSE taken[q]
        /\ \A q \in DOMAIN taken : taken[q] \in AnyNode =>
             /\ full[q] \in AnyNode /\ full[q].leaf = taken[q].leaf
             /\ full[q].entries = taken[q].entries /\ full[q].next = taken[q].next
             /\ full[q].parent = IF moves(q) THEN a ELSE taken[q].parent
    <3>1. a \in DOMAIN taken /\ a \in Int /\ taken[a].leaf = d[a].leaf
      BY <1>8, <1>10, <1>11
    <3>2. HasAdopted(taken, a, t, full)
      BY <3>1, Adopting
    <3>3. \A q : IsGone(taken, a, t, q) <=> moves(q)
      BY <3>1 DEF IsGone, Ent
    <3> HIDE DEF moves, full
    <3> QED
      BY <3>2, <3>3 DEF HasAdopted
  <2>2. ASSUME NEW q \in N
        PROVE  /\ taken[q] \in AnyNode /\ taken[q].leaf = d[q].leaf
               /\ taken[q].next = (IF q = a THEN d[b].next ELSE d[q].next)
               /\ taken[q].entries = entriesAt(q) /\ taken[q].parent = d[q].parent
    <3>1. d[q] \in AnyNode /\ q \in DOMAIN d
      BY NodeEntries
    <3> QED
      BY <1>2, <1>8, <1>9, <1>11, <3>1
  <2>3. ASSUME NEW o \in DOMAIN d \ N PROVE ~moves(o)
    <3>1. ASSUME moves(o) PROVE FALSE
      <4>1. PICK e \in Ent(d, b) : e.child = o
        BY <3>1
      <4>2. level[b] # 0
        BY <1>2, <1>10, <3>1
      <4>3. e.child \in N
        BY <1>1, <1>2, <4>1, <4>2 DEF Shape, Kids
      <4> QED
        BY <4>1, <4>3
    <3> QED
      BY <3>1
  <2> HIDE DEF moves, entriesAt, full
  <2>4. \A o \in DOMAIN d \ N : full[o] = d[o]
    BY <1>2, <1>11, <2>1, <2>3
  <2>5. \A q \in N : q \in DOMAIN taken
    BY <1>10, <1>11
  <2> QED
    BY <1>11, <2>1, <2>2, <2>4, <2>5
<1> HIDE DEF full
<1>13. /\ DOMAIN d2 = DOMAIN d \ {b}
       /\ \A q \in DOMAIN d \ {b} : d2[q] = full[q]
  BY <1>12 DEF Restrict
<1> HIDE DEF d2
<1>14. \A q \in M :
         /\ d2[q] \in AnyNode /\ d2[q].leaf = d[q].leaf
         /\ d2[q].next = IF q = a THEN d[b].next ELSE d[q].next
         /\ d2[q].entries = entriesAt(q)
         /\ d2[q].parent = IF moves(q) THEN a ELSE d[q].parent
  BY <1>10, <1>12, <1>13
<1>15. \A q \in M : Ent(d2, q) = IF q = a THEN Ent(d, a) \union Ent(d, b)
                      ELSE IF q = f THEN Ent(d, f) \ {gr} ELSE Ent(d, q)
  BY <1>6, <1>7, <1>14 DEF Ent
<1> DEFINE l == [q \in M |-> level[q]]
<1>16. l \in [M -> Nat] /\ \A q \in M : l[q] = level[q]
  BY <1>1 DEF Shape, Ranked
<1> HIDE DEF l
<1>17. PICK h : Shape(d2, r, M, l, h)
  <2>1. IsMerge(d, d2, N, level, l, f, gl, gr, a, b)
    BY <1>3, <1>5, <1>10, <1>14, <1>15, <1>16 DEF IsMerge
  <2> QED
    BY <1>1, <2>1, ShapeMerges
<1> HIDE DEF moves
<1>18. Plain(d2, M)
  <2>1. \A q \in M : Ascending(entriesAt(q))
    BY <1>1, <1>6, <1>7 DEF Plain, entriesAt
  <2>2. \A q \in M : d2[q].leaf \/ d2[q].next = Null
    <3>1. \A q \in N : d[q].leaf \/ d[q].next = Null
      BY <1>1 DEF Plain
    <3>2. \A q \in M : /\ d2[q].leaf = d[q].leaf
                       /\ d2[q].next = IF q = a THEN d[b].next ELSE d[q].next
      BY <1>14
    <3> QED
      BY <1>2, <3>1, <3>2
  <2> HIDE DEF entriesAt
  <2> QED
    BY <1>14, <2>1, <2>2 DEF Plain
<1>19. Paged(d2, M)
  BY <1>1, <1>13, FS_Subset DEF Paged
<1>20. Listed(d2, Leaves(M, l))
  <2>1. CASE level[a] = 0
    <3> DEFINE L == Leaves(N, level)
    <3>1. a \in L /\ b \in L /\ f \notin L
      BY <1>2, <2>1, <1>3 DEF Leaves
    <3>2. Leaves(M, l) = L \ {b}
      BY <1>16 DEF Leaves
    <3>3. Separated(d, L)
      BY <1>1, LeavesSeparated DEF Leaves
    <3>4. Below(Ent(d, a), Ent(d, b))
      BY <1>2 DEF Ent
    <3>5. ASSUME NEW q \in L \ {a, b}
          PROVE  Below(Ent(d, q), Ent(d, a)) \/ Below(Ent(d, b), Ent(d, q))
      <4>1. q \in N /\ level[q] = level[gl.child] /\ q # gl.child /\ q # gr.child
        BY <1>3, <2>1, <3>5 DEF Leaves
      <4>2. Below(Ent(d, q), Ent(d, gl.child)) \/ Below(Ent(d, gr.child), Ent(d, q))
        BY <1>1, <1>3, <1>5, <4>1, NoneBetween
      <4> QED
        BY <1>3, <4>2
    <3>6. \A q \in L \ {b} :
            /\ Ent(d2, q) = IF q = a THEN Ent(d, a) \union Ent(d, b) ELSE Ent(d, q)
            /\ d2[q].next = IF q = a THEN d[b].next ELSE d[q].next
      BY <1>14, <1>15, <3>1 DEF Leaves
    <3> HIDE DEF L
    <3>7. Listed(d2, L \ {b})
      BY <1>1, <1>2, <3>1, <3>3, <3>4, <3>5, <3>6, ListMerge DEF L
    <3> QED
      BY <3>2, <3>7
  <2>2. CASE level[a] # 0
    <3>1. \A q : q \in Leaves(M, l) <=> q \in Leaves(N, level)
      BY <1>2, <1>16, <2>2 DEF Leaves
    <3>2. \A q \in Leaves(N, level) : Ent(d2, q) = Ent(d, q) /\ d2[q].next = d[q].next
      BY <1>2, <1>14, <1>15, <2>2 DEF Leaves
    <3>3. Listed(d2, Leaves(N, level))
      BY <1>1, <3>2, ListSame
    <3>4. Leaves(M, l) = Leaves(N, level)
      BY <3>1
    <3> QED
      BY <3>3, <3>4
  <2> QED
    BY <2>1, <2>2
<1>21. LeafEntries(d2, M) = LeafEntries(d, N)
  <2>1. \A e : e \in LeafEntries(d, N) <=> \E q \in N : level[q] = 0 /\ e \in Ent(d, q)
    BY <1>1, InLeaves
  <2>2. \A e : e \in LeafEntries(d2, M) <=> \E q \in M : l[q] = 0 /\ e \in Ent(d2, q)
    BY <1>17, InLeaves
  <2>3. ASSUME NEW e PROVE (\E q \in M : l[q] = 0 /\ e \in Ent(d2, q))
                           <=> (\E q \in N : level[q] = 0 /\ e \in Ent(d, q))
    <3>1. \A q \in M : q # a /\ level[q] = 0 => Ent(d2, q) = Ent(d, q)
      BY <1>2, <1>10, <1>15
    <3>2. /\ a \in M /\ b \in N /\ level[a] = level[b] /\ Ent(d2, a) = Ent(d, a) \union Ent(d, b)
      BY <1>2, <1>15
    <3>3. ASSUME NEW q \in M, l[q] = 0, e \in Ent(d2, q)
          PROVE  \E z \in N : level[z] = 0 /\ e \in Ent(d, z)
      BY <1>16, <3>1, <3>2, <3>3
    <3>4. ASSUME NEW q \in N, level[q] = 0, e \in Ent(d, q)
          PROVE  \E z \in M : l[z] = 0 /\ e \in Ent(d2, z)
      BY <1>16, <3>1, <3>2, <3>4
    <3> QED
      BY <3>3, <3>4
  <2>4. \A e : e \in LeafEntries(d2, M) <=> e \in LeafEntries(d, N)
    BY <2>1, <2>2, <2>3
  <2> QED
    BY <2>4
<1>22. Kept(d, N, d2, M)
  <2>1. DOMAIN d2 \ M = DOMAIN d \ N
    BY <1>2, <1>13
  <2>2. \A o \in DOMAIN d \ N : d2[o] = d[o]
    BY <1>2, <1>12, <1>13
  <2> QED
    BY <1>21, <2>1, <2>2 DEF Kept
<1>23. Built(d2, r, M, l, h)
  BY <1>17, <1>18, <1>19, <1>20 DEF Built
<1>24. ASSUME NEW q \in M
       PROVE  /\ d2[q].leaf = d[q].leaf
              /\ Size(d2[q]) = IF q = a THEN Size(d[a]) + Size(d[b])
                               ELSE IF q = f THEN Size(d[f]) - 1 ELSE Size(d[q])
  BY <1>6, <1>7, <1>14 DEF Size, entriesAt
<1>25. HasMerged(d, r, N, level, f, a, b, d2)
  BY <1>16, <1>22, <1>23, <1>24 DEF HasMerged
<1> QED
  BY <1>4, <1>25

(* The root r, with one child left, is given up. *)
HasLowered(d, r, N, level, t) ==
    LET M  == N \ {r}
        d2 == t.pages
        c  == t.root
    IN  /\ t = [pages |-> d2, root |-> c, at |-> Null]
        /\ \E l, h : Built(d2, c, M, l, h)
        /\ Kept(d, N, d2, M)
        /\ c \in M
        /\ \A q \in M : d2[q].leaf = d[q].leaf /\ Size(d2[q]) = Size(d[q])

LEMMA PagesLower ==
    ASSUME NEW d, NEW r, NEW N, NEW level, NEW hi, Built(d, r, N, level, hi),
           level[r] # 0, Size(d[r]) = 1, NEW p, NEW s, s = [pages |-> d, root |-> r, at |-> p]
    PROVE  HasLowered(d, r, N, level, Lowered(s))
<1> DEFINE e == d[r].entries[1]
           c == e.child
           M == N \ {r}
           freed == [d EXCEPT ![c].parent = Null]
           d2 == Restrict(freed, DOMAIN freed \ {r})
           l == [q \in M |-> level[q]]
<1>1. Shape(d, r, N, level, hi) /\ Plain(d, N) /\ Paged(d, N) /\ Listed(d, Leaves(N, level))
  BY DEF Built
<1>2. r \in N /\ r \in DOMAIN d /\ N \subseteq DOMAIN d /\ level \in [N -> Nat]
  BY <1>1 DEF Shape, Ranked, Paged
<1>3. Ent(d, r) = {e}
  <2>1. Len(d[r].entries) = 1 /\ 1 \in 1..Len(d[r].entries)
    BY DEF Size
  <2>2. e \in Ent(d, r) /\ \A x \in Ent(d, r) : \E i \in 1..Len(d[r].entries) : d[r].entries[i] = x
    BY <1>2, <2>1, NodeEntries
  <2>3. \A i \in 1..Len(d[r].entries) : i = 1
    BY <2>1
  <2> QED
    BY <2>2, <2>3
<1>4. c \in N /\ c # r /\ level[c] + 1 = level[r] /\ level[c] \in Nat
  <2>1. e \in Ent(d, r)
    BY <1>3
  <2>2. c \in N /\ level[c] + 1 = level[r]
    BY <1>1, <1>2, <2>1 DEF Shape, Kids
  <2> HIDE DEF c
  <2> QED
    BY <1>2, <2>2
<1>5. Lowered(s) = [pages |-> d2, root |-> c, at |-> Null]
  <2>1. s.pages = d /\ s.root = r
    BY Going
  <2> QED
    BY <2>1 DEF Lowered, DeletePages
<1>6. /\ DOMAIN d2 = DOMAIN d \ {r}
      /\ \A q \in DOMAIN d \ {r} : d2[q] = IF q = c THEN [d[c] EXCEPT !.parent = Null] ELSE d[q]
  BY <1>4 DEF Restrict
<1> HIDE DEF e, c, d2
<1>7. \A q \in M : /\ d2[q] \in AnyNode /\ d2[q].leaf = d[q].leaf /\ d2[q].entries = d[q].entries
                   /\ d2[q].next = d[q].next
                   /\ d2[q].parent = IF q = c THEN Null ELSE d[q].parent
  <2> DEFINE n == [d[c] EXCEPT !.parent = Null]
  <2>1. d[c] \in AnyNode
    BY <1>1, <1>4 DEF Plain
  <2>2. /\ n \in AnyNode /\ n.leaf = d[c].leaf /\ n.entries = d[c].entries
        /\ n.next = d[c].next /\ n.parent = Null
    BY <2>1 DEF AnyNode
  <2> HIDE DEF n
  <2>3. \A q \in M : d2[q] = IF q = c THEN n ELSE d[q]
    BY <1>2, <1>6 DEF n
  <2>4. \A q \in M : d[q] \in AnyNode
    BY <1>1 DEF Plain
  <2> QED
    BY <2>2, <2>3, <2>4
<1>8. \A q \in M : Ent(d2, q) = Ent(d, q)
  BY <1>7 DEF Ent
<1>9. l \in [M -> Nat] /\ \A q \in M : l[q] = level[q]
  BY <1>2
<1> HIDE DEF l
<1>10. PICK h : Shape(d2, c, M, l, h)
  <2>1. IsLowering(d, d2, r, N, level, l, e, c)
    BY <1>3, <1>4, <1>7, <1>8, <1>9 DEF IsLowering, c
  <2> QED
    BY <1>1, <2>1, ShapeLowers
<1>11. Plain(d2, M)
  BY <1>1, <1>7 DEF Plain
<1>12. Paged(d2, M)
  BY <1>1, <1>6, FS_Subset DEF Paged
<1>13. Leaves(M, l) = Leaves(N, level) /\ Leaves(N, level) \subseteq M
  BY <1>4, <1>9 DEF Leaves
<1>14. Listed(d2, Leaves(M, l))
  <2>1. \A q \in Leaves(N, level) : Ent(d2, q) = Ent(d, q) /\ d2[q].next = d[q].next
    BY <1>7, <1>8, <1>13
  <2> QED
    BY <1>1, <1>13, <2>1, ListSame
<1>15. LeafEntries(d2, M) = LeafEntries(d, N)
  <2>1. \A x : x \in LeafEntries(d, N) <=> \E q \in Leaves(N, level) : x \in Ent(d, q)
    BY <1>1, InLeaves DEF Leaves
  <2>2. \A x : x \in LeafEntries(d2, M) <=> \E q \in Leaves(M, l) : x \in Ent(d2, q)
    BY <1>10, InLeaves DEF Leaves
  <2>3. \A x : x \in LeafEntries(d2, M) <=> x \in LeafEntries(d, N)
    BY <1>8, <1>13, <2>1, <2>2
  <2> QED
    BY <2>3
<1>16. Kept(d, N, d2, M)
  <2>1. DOMAIN d2 \ M = DOMAIN d \ N
    BY <1>2, <1>6
  <2>2. \A o \in DOMAIN d \ N : d2[o] = d[o]
    BY <1>2, <1>4, <1>6
  <2> QED
    BY <1>15, <2>1, <2>2 DEF Kept
<1>17. Built(d2, c, M, l, h)
  BY <1>10, <1>11, <1>12, <1>14 DEF Built
<1>18. \A q \in M : d2[q].leaf = d[q].leaf /\ Size(d2[q]) = Size(d[q])
  BY <1>7 DEF Size
<1>19. c \in M /\ Lowered(s).pages = d2 /\ Lowered(s).root = c
  BY <1>4, <1>5
<1> QED
  BY <1>5, <1>16, <1>17, <1>18, <1>19 DEF HasLowered

-----------------------------------------------------------------------------
(* SolveUnderflow. *)

(* A node may have one entry too few. *)
Shrunk(d, r, q) ==
    /\ Size(d[q]) <= Cap(d[q])
    /\ q # r => Size(d[q]) >= Half(d[q]) - 1
    /\ q = r /\ ~d[q].leaf => Size(d[q]) >= 1

(* After a call for the node p all pages are full enough, but perhaps the  *)
(* father where the loop goes on.                                          *)
HasRefilled(d, r, N, level, p, t) ==
    /\ t = [pages |-> t.pages, root |-> r, at |-> t.at]
    /\ \E M, l, h :
         /\ Built(t.pages, r, M, l, h) /\ Kept(d, N, t.pages, M)
         /\ \A q \in M \ {t.at} : Fits(t.pages, r, q)
         /\ t.at # Null => /\ t.at \in M /\ l[t.at] = level[p] + 1 /\ l[r] = level[r]
                           /\ Shrunk(t.pages, r, t.at)

(* The numbers of a node and of one like it. *)
LEMMA Sizes ==
    ASSUME NEW d, NEW r, NEW N, NEW level, NEW hi, Built(d, r, N, level, hi), NEW q \in N
    PROVE  /\ Size(d[q]) \in Nat /\ Cap(d[q]) \in Nat /\ Half(d[q]) \in Nat /\ Half(d[q]) >= 2
           /\ Half(d[q]) <= Cap(d[q]) /\ 2 * Half(d[q]) - 1 <= Cap(d[q])
           /\ 2 * Half(d[q]) - 1 >= Half(d[q])
           /\ \A n : n.leaf = d[q].leaf => Cap(n) = Cap(d[q]) /\ Half(n) = Half(d[q])
<1>1. d[q].leaf \in BOOLEAN /\ Size(d[q]) \in Nat
  BY NodeEntries DEF Size
<1>2. \A n : n.leaf = d[q].leaf => Cap(n) = Cap(d[q]) /\ Half(n) = Half(d[q])
  BY DEF Cap, Half
<1>3. /\ Cap(d[q]) \in Nat /\ Half(d[q]) \in Nat /\ Half(d[q]) >= 2
      /\ Half(d[q]) <= Cap(d[q]) /\ 2 * Half(d[q]) - 1 <= Cap(d[q])
      /\ 2 * Half(d[q]) - 1 >= Half(d[q])
  BY <1>1, Capacity
<1> QED
  BY <1>1, <1>2, <1>3

(* A loan ends the loop: the smaller one is full enough, the other one     *)
(* stays so.                                                               *)
LEMMA LoanRefills ==
    ASSUME NEW d, NEW r, NEW N, NEW level, NEW hi, Built(d, r, N, level, hi),
           NEW a \in N \ {r}, NEW b \in N \ {r}, a # b, NEW m \in Nat, NEW n \in Nat,
           m >= Half(d[a]), m <= Cap(d[a]), n >= Half(d[b]), n <= Cap(d[b]),
           \A q \in N \ {a, b} : Fits(d, r, q),
           NEW d2, HasLent(d, r, N, level, a, b, m, n, d2),
           NEW p, NEW t, t = [pages |-> d2, root |-> r, at |-> Null]
    PROVE  HasRefilled(d, r, N, level, p, t)
<1>1. /\ \E h : Built(d2, r, N, level, h)
      /\ Kept(d, N, d2, N)
      /\ \A q \in N : /\ d2[q].leaf = d[q].leaf
                      /\ Size(d2[q]) = IF q = a THEN m ELSE IF q = b THEN n ELSE Size(d[q])
  BY DEF HasLent
<1>2. ASSUME NEW q \in N PROVE Fits(d2, r, q)
  <2>1. d2[q].leaf = d[q].leaf /\ Cap(d2[q]) = Cap(d[q]) /\ Half(d2[q]) = Half(d[q])
    BY <1>1, Sizes
  <2>2. CASE q = a
    BY <1>1, <2>1, <2>2 DEF Fits
  <2>3. CASE q = b
    BY <1>1, <2>1, <2>3 DEF Fits
  <2>4. CASE q # a /\ q # b
    <3>1. Fits(d, r, q) /\ Size(d2[q]) = Size(d[q])
      BY <1>1, <2>4
    <3> QED
      BY <2>1, <3>1 DEF Fits
  <2> QED
    BY <2>2, <2>3, <2>4
<1>3. t.pages = d2 /\ t.at = Null
  OBVIOUS
<1> QED
  BY <1>1, <1>2, <1>3 DEF HasRefilled

(* After a merge the father can have an entry too few. *)
LEMMA MergeRefills ==
    ASSUME NEW d, NEW r, NEW N, NEW level, NEW hi, Built(d, r, N, level, hi),
           NEW f \in N, NEW a \in N \ {r}, NEW b \in N \ {r}, a # b, a # f, b # f,
           d[a].leaf = d[b].leaf, level[f] = level[a] + 1, level[a] = level[b], level[f] # 0,
           Size(d[a]) + Size(d[b]) = 2 * Half(d[a]) - 1,
           \A q \in N \ {a, b} : Fits(d, r, q),
           NEW d2, HasMerged(d, r, N, level, f, a, b, d2),
           NEW p \in {a, b}, NEW t, t = [pages |-> d2, root |-> r, at |-> f]
    PROVE  HasRefilled(d, r, N, level, p, t)
<1> DEFINE M == N \ {b}
<1>1. PICK l, h : Built(d2, r, M, l, h) /\ \A q \in M : l[q] = level[q]
  BY DEF HasMerged
<1>2. /\ Kept(d, N, d2, M)
      /\ \A q \in M :
           /\ d2[q].leaf = d[q].leaf
           /\ Size(d2[q]) = IF q = a THEN Size(d[a]) + Size(d[b])
                            ELSE IF q = f THEN Size(d[f]) - 1 ELSE Size(d[q])
  BY DEF HasMerged
<1>3. r \in M
  BY <1>1 DEF Built, Shape, Ranked
<1>4. ASSUME NEW q \in M PROVE Cap(d2[q]) = Cap(d[q]) /\ Half(d2[q]) = Half(d[q])
  BY <1>2, Sizes
<1>5. ASSUME NEW q \in M \ {f} PROVE Fits(d2, r, q)
  <2>1. CASE q = a
    <3>1. /\ Size(d2[q]) = 2 * Half(d[a]) - 1 /\ 2 * Half(d[a]) - 1 <= Cap(d[a])
          /\ 2 * Half(d[a]) - 1 >= Half(d[a])
      BY <1>2, <2>1, Sizes
    <3> QED
      BY <1>4, <2>1, <3>1 DEF Fits
  <2>2. CASE q # a
    <3>1. Fits(d, r, q) /\ Size(d2[q]) = Size(d[q]) /\ d2[q].leaf = d[q].leaf
      BY <1>2, <1>5, <2>2
    <3> QED
      BY <1>4, <3>1 DEF Fits
  <2> QED
    BY <2>1, <2>2
<1>6. Shrunk(d2, r, f)
  <2>1. Size(d2[f]) = Size(d[f]) - 1 /\ d2[f].leaf = d[f].leaf /\ Fits(d, r, f)
    BY <1>2
  <2>2. Size(d[f]) \in Nat /\ Half(d[f]) \in Nat /\ Cap(d[f]) \in Nat
    BY Sizes
  <2>3. Cap(d2[f]) = Cap(d[f]) /\ Half(d2[f]) = Half(d[f])
    BY <1>4
  <2> QED
    BY <2>1, <2>2, <2>3 DEF Fits, Shrunk
<1>7. t.pages = d2 /\ t.at = f /\ f \in M /\ l[f] = level[p] + 1 /\ l[r] = level[r]
  BY <1>1, <1>3
<1> QED
  BY <1>1, <1>2, <1>5, <1>6, <1>7 DEF HasRefilled

StandsAt(s, d, r, p) == s = [pages |-> d, root |-> r, at |-> p]

LEMMA Refilling ==
    ASSUME NEW d, NEW r, NEW N, NEW level, NEW hi, Built(d, r, N, level, hi),
           NEW p \in N \ {r}, Shrunk(d, r, p), needMerge(d[p]),
           \A q \in N \ {p} : Fits(d, r, q),
           NEW s, StandsAt(s, d, r, p)
    PROVE  HasRefilled(d, r, N, level, p, Refilled(s, d[p].parent))
<1> DEFINE f == d[p].parent
           entries == d[f].entries
           n == Len(entries)
           rank == CHOOSE i \in DOMAIN entries : entries[i].child = p
           Lends(i) == i \in DOMAIN entries /\ canBeBorrow(d[entries[i].child])
           t == Refilled(s, f)
<1>1. Shape(d, r, N, level, hi)
  BY DEF Built
<1>2. /\ f \in N /\ level[f] # 0 /\ \E e \in Ent(d, f) : e.child = p
      /\ \A e \in Ent(d, f) : e.child # r
  BY <1>1, OneEntry DEF Shape, Fathered
<1> HIDE DEF f
<1>3. /\ entries \in Seq(AnyEntry) /\ n \in Nat /\ DOMAIN entries = 1..n
      /\ \A i \in 1..n : entries[i] \in Ent(d, f)
      /\ \A e \in Ent(d, f) : \E i \in 1..n : entries[i] = e
  BY <1>2, NodeEntries
<1>4. rank \in 1..n /\ entries[rank].child = p
  <2>1. \E i \in DOMAIN entries : entries[i].child = p
    BY <1>2, <1>3
  <2> QED
    BY <1>3, <2>1
<1>5. f # p
  <2>1. level[p] + 1 = level[f] /\ level[p] \in Nat
    BY <1>1, <1>2 DEF Shape, Kids, Ranked
  <2> QED
    BY <2>1
<1>6. n >= 2
  <2>1. Fits(d, r, f) /\ Half(d[f]) >= 2 /\ ~d[f].leaf /\ Half(d[f]) \in Nat
    BY <1>2, <1>5, Sizes, NodeEntries
  <2> QED
    BY <1>3, <2>1 DEF Fits, Size
<1> HIDE DEF rank, entries
<1>7. t = IF Lends(rank - 1)
             THEN [pages |-> BorrowedLeft(d, f, rank - 1), root |-> r, at |-> Null]
          ELSE IF Lends(rank + 1)
             THEN [pages |-> BorrowedRight(d, f, rank), root |-> r, at |-> Null]
             ELSE [pages |-> Merged(d, f, IF rank > 1 THEN rank - 1 ELSE rank), root |-> r, at |-> f]
  <2> DEFINE left == BorrowedLeft(d, f, rank - 1)
             right == BorrowedRight(d, f, rank)
             one == Merged(d, f, IF rank > 1 THEN rank - 1 ELSE rank)
  <2>1. s.pages = d /\ s.root = r /\ s.at = p
    BY DEF StandsAt
  <2>2. t = IF Lends(rank - 1) THEN [s EXCEPT !.pages = left, !.at = Null]
            ELSE IF Lends(rank + 1) THEN [s EXCEPT !.pages = right, !.at = Null]
            ELSE [s EXCEPT !.pages = one, !.at = f]
    <3> DEFINE mine == s.pages[f].entries
               place == CHOOSE i \in DOMAIN mine : mine[i].child = s.at
               Gives(i) == i \in DOMAIN mine /\ canBeBorrow(s.pages[mine[i].child])
               other == Merged(s.pages, f, IF place > 1 THEN place - 1 ELSE place)
    <3>1. t = IF Gives(place - 1)
                 THEN [s EXCEPT !.pages = BorrowedLeft(s.pages, f, place - 1), !.at = Null]
              ELSE IF Gives(place + 1)
                 THEN [s EXCEPT !.pages = BorrowedRight(s.pages, f, place), !.at = Null]
              ELSE [s EXCEPT !.pages = other, !.at = f]
      BY DEF Refilled
    <3>2. mine = entries
      BY <2>1 DEF entries
    <3>3. place = rank
      BY <2>1, <3>2 DEF rank
    <3>4. \A i : Gives(i) <=> Lends(i)
      BY <2>1, <3>2
    <3> HIDE DEF mine, place, Gives, Lends
    <3> QED
      BY <2>1, <3>1, <3>3, <3>4
  <2> HIDE DEF left, right, one, Lends, t
  <2>3. ASSUME NEW x, NEW q, NEW y, y = [s EXCEPT !.pages = x, !.at = q]
        PROVE  y = [pages |-> x, root |-> r, at |-> q]
    BY <2>3 DEF StandsAt
  <2>4. CASE Lends(rank - 1)
    BY <2>2, <2>3, <2>4 DEF left
  <2>5. CASE ~Lends(rank - 1) /\ Lends(rank + 1)
    BY <2>2, <2>3, <2>5 DEF right
  <2>6. CASE ~Lends(rank - 1) /\ ~Lends(rank + 1)
    BY <2>2, <2>3, <2>6 DEF one
  <2> QED
    BY <2>4, <2>5, <2>6
<1>8. /\ Size(d[p]) = Half(d[p]) - 1 /\ Size(d[p]) \in Nat /\ Half(d[p]) \in Nat
      /\ Half(d[p]) <= Cap(d[p]) /\ Half(d[p]) >= 2 /\ Cap(d[p]) \in Nat
  <2>1. /\ Size(d[p]) \in Nat /\ Half(d[p]) \in Nat /\ Half(d[p]) <= Cap(d[p])
        /\ Half(d[p]) >= 2 /\ Cap(d[p]) \in Nat
    BY Sizes
  <2> QED
    BY <2>1 DEF Shrunk, needMerge
<1> DEFINE Pair(i) == <<entries[i].child, entries[i+1].child>>
<1>9. ASSUME NEW i \in 1..n-1, NEW a, a = entries[i].child, NEW b, b = entries[i+1].child, p \in {a, b}
      PROVE  /\ a \in N \ {r} /\ b \in N \ {r} /\ a # b /\ a # f /\ b # f
             /\ level[a] = level[b] /\ level[f] = level[a] + 1
             /\ d[a].leaf = d[b].leaf /\ Half(d[a]) = Half(d[p]) /\ Half(d[b]) = Half(d[p])
             /\ Cap(d[a]) = Cap(d[p]) /\ Cap(d[b]) = Cap(d[p])
             /\ Size(d[a]) \in Nat /\ Size(d[b]) \in Nat
             /\ \A q \in N \ {a, b} : Fits(d, r, q)
             /\ a # p => Fits(d, r, a)
             /\ b # p => Fits(d, r, b)
  <2>1. /\ a \in N \ {r} /\ b \in N \ {r} /\ a # b /\ a # f /\ b # f
        /\ level[a] = level[b] /\ level[f] = level[a] + 1 /\ d[a].leaf = d[b].leaf
    <3>1. AreNext(d, f, i, a, b)
      BY <1>9 DEF AreNext, entries
    <3> QED
      BY <1>2, <3>1, NextTo
  <2>2. Size(d[a]) \in Nat /\ Size(d[b]) \in Nat
    BY <2>1, Sizes
  <2>3. /\ d[a].leaf = d[p].leaf /\ d[b].leaf = d[p].leaf
    BY <1>9, <2>1
  <2>4. /\ Half(d[a]) = Half(d[p]) /\ Half(d[b]) = Half(d[p])
        /\ Cap(d[a]) = Cap(d[p]) /\ Cap(d[b]) = Cap(d[p])
    BY <2>3, Sizes
  <2> QED
    BY <1>9, <2>1, <2>2, <2>4
<1>10. CASE Lends(rank - 1)
  <2> DEFINE i == rank - 1
             a == entries[i].child
  <2>1. t = [pages |-> BorrowedLeft(d, f, i), root |-> r, at |-> Null]
    BY <1>7, <1>10
  <2>2. i \in 1..n-1 /\ i + 1 = rank
    BY <1>3, <1>4, <1>10
  <2>3. canBeBorrow(d[a])
    BY <1>10
  <2> HIDE DEF i
  <2>4. p = entries[i+1].child
    BY <1>4, <2>2
  <2> HIDE DEF a, Lends, t
  <2>5. /\ a \in N \ {r} /\ p \in N \ {r} /\ a # p
        /\ Half(d[a]) = Half(d[p]) /\ Cap(d[a]) = Cap(d[p])
        /\ Size(d[a]) \in Nat /\ Fits(d, r, a)
        /\ \A q \in N \ {a, p} : Fits(d, r, q)
    BY <1>9, <2>2, <2>4 DEF a
  <2>6. /\ Size(d[a]) > Half(d[p]) /\ Size(d[a]) <= Cap(d[p])
    BY <2>3, <2>5 DEF canBeBorrow, Fits
  <2>7. Size(d[a]) >= 2 /\ Size(d[p]) >= 1
    BY <1>8, <2>5, <2>6
  <2>8. HasLent(d, r, N, level, a, p, Size(d[a]) - 1, Size(d[p]) + 1, BorrowedLeft(d, f, i))
    BY <1>2, <2>2, <2>4, <2>7, PagesBorrowLeft DEF entries, a, AreNext
  <2> DEFINE x == Size(d[a]) - 1
             y == Size(d[p]) + 1
             d2 == BorrowedLeft(d, f, i)
  <2>9. /\ x \in Nat /\ y \in Nat /\ x >= Half(d[a]) /\ x <= Cap(d[a])
        /\ y >= Half(d[p]) /\ y <= Cap(d[p])
    BY <1>8, <2>5, <2>6
  <2>10. HasLent(d, r, N, level, a, p, x, y, d2) /\ t = [pages |-> d2, root |-> r, at |-> Null]
    BY <2>1, <2>8
  <2> HIDE DEF x, y, d2
  <2> QED
    BY <2>5, <2>9, <2>10, LoanRefills DEF t, f
<1>11. CASE ~Lends(rank - 1) /\ Lends(rank + 1)
  <2> DEFINE b == entries[rank+1].child
  <2>1. t = [pages |-> BorrowedRight(d, f, rank), root |-> r, at |-> Null]
    BY <1>7, <1>11
  <2>2. rank \in 1..n-1
    BY <1>3, <1>4, <1>11
  <2>3. canBeBorrow(d[b])
    BY <1>11
  <2>4. p = entries[rank].child
    BY <1>4
  <2> HIDE DEF b, Lends, t
  <2>5. /\ b \in N \ {r} /\ p \in N \ {r} /\ b # p
        /\ Half(d[b]) = Half(d[p]) /\ Cap(d[b]) = Cap(d[p])
        /\ Size(d[b]) \in Nat /\ Fits(d, r, b)
        /\ \A q \in N \ {p, b} : Fits(d, r, q)
    BY <1>9, <2>2, <2>4 DEF b
  <2>6. /\ Size(d[b]) > Half(d[p]) /\ Size(d[b]) <= Cap(d[p])
    BY <2>3, <2>5 DEF canBeBorrow, Fits
  <2>7. Size(d[b]) >= 2 /\ Size(d[p]) >= 1
    BY <1>8, <2>5, <2>6
  <2>8. HasLent(d, r, N, level, p, b, Size(d[p]) + 1, Size(d[b]) - 1, BorrowedRight(d, f, rank))
    BY <1>2, <2>2, <2>4, <2>7, PagesBorrowRight DEF entries, b, AreNext
  <2> DEFINE x == Size(d[p]) + 1
             y == Size(d[b]) - 1
             d2 == BorrowedRight(d, f, rank)
  <2>9. /\ x \in Nat /\ y \in Nat /\ x >= Half(d[p]) /\ x <= Cap(d[p])
        /\ y >= Half(d[b]) /\ y <= Cap(d[b])
    BY <1>8, <2>5, <2>6
  <2>10. HasLent(d, r, N, level, p, b, x, y, d2) /\ t = [pages |-> d2, root |-> r, at |-> Null]
    BY <2>1, <2>8
  <2> HIDE DEF x, y, d2
  <2> QED
    BY <2>5, <2>9, <2>10, LoanRefills DEF t, f
<1>12. CASE ~Lends(rank - 1) /\ ~Lends(rank + 1)
  <2> DEFINE i == IF rank > 1 THEN rank - 1 ELSE rank
             a == entries[i].child
             b == entries[i+1].child
             d2 == Merged(d, f, i)
  <2>1. t = [pages |-> d2, root |-> r, at |-> f]
    BY <1>7, <1>12
  <2>2. /\ i \in 1..n-1 /\ rank \in {i, i + 1}
        /\ \A k \in {i, i + 1} : k \in 1..n /\ (k # rank => k = rank - 1 \/ k = rank + 1)
    <3>1. ASSUME NEW m \in Nat, m >= 2, NEW x \in 1..m, NEW y, y = (IF x > 1 THEN x - 1 ELSE x)
          PROVE  /\ y \in 1..m-1 /\ x \in {y, y + 1}
                 /\ \A k \in {y, y + 1} : k \in 1..m /\ (k # x => k = x - 1 \/ k = x + 1)
      BY <3>1
    <3> HIDE DEF n
    <3> QED
      BY <1>3, <1>4, <1>6, <3>1
  <2> HIDE DEF i
  <2>3. p \in {a, b}
    BY <1>4, <2>2
  <2>4. \A k \in {i, i + 1} : k # rank => ~canBeBorrow(d[entries[k].child])
    BY <1>3, <1>12, <2>2
  <2>5. \A q \in {a, b} : q # p => ~canBeBorrow(d[q])
    BY <1>4, <2>4
  <2> HIDE DEF a, b, Lends, t, d2
  <2>6. /\ a \in N \ {r} /\ b \in N \ {r} /\ a # b /\ a # f /\ b # f
        /\ level[a] = level[b] /\ level[f] = level[a] + 1
        /\ d[a].leaf = d[b].leaf /\ Half(d[a]) = Half(d[p]) /\ Half(d[b]) = Half(d[p])
        /\ Size(d[a]) \in Nat /\ Size(d[b]) \in Nat
        /\ \A q \in N \ {a, b} : Fits(d, r, q)
        /\ a # p => Fits(d, r, a)
        /\ b # p => Fits(d, r, b)
    BY <1>9, <2>2, <2>3 DEF a, b
  <2>7. Size(d[a]) + Size(d[b]) = 2 * Half(d[a]) - 1
    <3>1. CASE p = a
      <4>1. Size(d[b]) >= Half(d[p]) /\ Size(d[b]) <= Half(d[p])
        BY <1>8, <2>5, <2>6, <3>1 DEF Fits, canBeBorrow
      <4> QED
        BY <1>8, <2>6, <3>1, <4>1
    <3>2. CASE p = b
      <4>1. Size(d[a]) >= Half(d[p]) /\ Size(d[a]) <= Half(d[p])
        BY <1>8, <2>5, <2>6, <3>2 DEF Fits, canBeBorrow
      <4> QED
        BY <1>8, <2>6, <3>2, <4>1
    <3> QED
      BY <2>3, <3>1, <3>2
  <2>8. HasMerged(d, r, N, level, f, a, b, d2)
    BY <1>2, <2>2, PagesMerge DEF entries, a, b, d2, AreNext
  <2> QED
    BY <1>2, <2>1, <2>3, <2>6, <2>7, <2>8, MergeRefills DEF t, f
<1> QED
  BY <1>10, <1>11, <1>12 DEF f

(* Where the loop of SolveUnderflow is after i iterations: an entry too    *)
(* few has only the page at level i.                                       *)
Underflowing(d0, N0, top, s, i) ==
    \E d, r, p, N, level, hi :
        /\ s = [pages |-> d, root |-> r, at |-> p]
        /\ Built(d, r, N, level, hi) /\ Kept(d0, N0, d, N) /\ p \in N \union {Null}
        /\ \A q \in N \ {p} : Fits(d, r, q)
        /\ p # Null => \/ Fits(d, r, p)
                       \/ Shrunk(d, r, p) /\ level[p] = i /\ level[r] = top

LEMMA UnderflowGoesOn ==
    ASSUME NEW d0, NEW N0, NEW top, NEW s, NEW i, Underflowing(d0, N0, top, s, i)
    PROVE  Underflowing(d0, N0, top, UnderflowStep(s), i + 1)
<1>1. PICK d, r, p, N, level, hi :
        /\ s = [pages |-> d, root |-> r, at |-> p]
        /\ Built(d, r, N, level, hi) /\ Kept(d0, N0, d, N) /\ p \in N \union {Null}
        /\ \A q \in N \ {p} : Fits(d, r, q)
        /\ p # Null => \/ Fits(d, r, p)
                       \/ Shrunk(d, r, p) /\ level[p] = i /\ level[r] = top
  BY DEF Underflowing
<1>2. s.pages = d /\ s.root = r /\ s.at = p
  BY <1>1
<1>3. r \in N /\ d[r].parent = Null /\ Null \notin N
  BY <1>1 DEF Built, Shape, Ranked
<1>4. CASE p = Null \/ Fits(d, r, p)
  <2>1. UnderflowStep(s) = s
    <3>1. CASE p = Null
      BY <1>2, <3>1 DEF UnderflowStep
    <3>2. CASE p # Null /\ p # r
      <4>1. p \in N /\ Size(d[p]) >= Half(d[p]) /\ Size(d[p]) \in Nat /\ Half(d[p]) \in Nat
        BY <1>1, <1>4, <3>2, Sizes DEF Fits
      <4>2. ~needMerge(d[p])
        BY <4>1 DEF needMerge
      <4> QED
        BY <1>2, <4>2 DEF UnderflowStep
    <3>3. CASE p = r
      <4>1. ~d[r].leaf => Size(d[r]) # 1
        BY <1>3, <1>4, <3>3 DEF Fits
      <4> QED
        BY <1>2, <1>3, <3>3, <4>1 DEF UnderflowStep
    <3> QED
      BY <3>1, <3>2, <3>3
  <2> QED
    BY <1>1, <1>4, <2>1 DEF Underflowing
<1>5. CASE p # Null /\ ~Fits(d, r, p) /\ p # r
  <2> DEFINE t == Refilled(s, d[p].parent)
  <2>1. p \in N \ {r} /\ Shrunk(d, r, p) /\ level[p] = i /\ level[r] = top
    BY <1>1, <1>5
  <2>2. needMerge(d[p])
    <3>1. Size(d[p]) \in Nat /\ Half(d[p]) \in Nat
      BY <1>1, <2>1, Sizes
    <3> QED
      BY <1>5, <2>1, <3>1 DEF Fits, Shrunk, needMerge
  <2>3. d[p].parent # Null
    BY <1>1, <1>3, <2>1 DEF Built, Shape, Fathered
  <2>4. UnderflowStep(s) = t
    BY <1>2, <1>5, <2>2, <2>3 DEF UnderflowStep
  <2>5. HasRefilled(d, r, N, level, p, t)
    BY <1>1, <2>1, <2>2, Refilling DEF StandsAt
  <2> HIDE DEF t
  <2>6. PICK M, l, h :
         /\ Built(t.pages, r, M, l, h) /\ Kept(d, N, t.pages, M)
         /\ \A q \in M \ {t.at} : Fits(t.pages, r, q)
         /\ t.at # Null => /\ t.at \in M /\ l[t.at] = level[p] + 1 /\ l[r] = level[r]
                           /\ Shrunk(t.pages, r, t.at)
    BY <2>5 DEF HasRefilled
  <2>7. t = [pages |-> t.pages, root |-> r, at |-> t.at]
    BY <2>5 DEF HasRefilled
  <2>8. Kept(d0, N0, t.pages, M)
    BY <1>1, <2>6, KeptOn
  <2>9. Underflowing(d0, N0, top, t, i + 1)
    BY <2>1, <2>6, <2>7, <2>8 DEF Underflowing
  <2> QED
    BY <2>4, <2>9
<1>6. CASE p # Null /\ ~Fits(d, r, p) /\ p = r
  <2> DEFINE t == Lowered(s)
  <2>1. Shrunk(d, r, r) /\ Size(d[r]) \in Nat /\ Half(d[r]) \in Nat /\ Half(d[r]) >= 2
    BY <1>1, <1>3, <1>6, Sizes
  <2>2. ~d[r].leaf /\ Size(d[r]) = 1
    BY <1>6, <2>1 DEF Fits, Shrunk
  <2>3. level[r] # 0
    BY <1>1, <1>3, <2>2, NodeEntries
  <2>4. UnderflowStep(s) = t
    BY <1>2, <1>3, <1>6, <2>1, <2>2 DEF UnderflowStep, needMerge
  <2>5. HasLowered(d, r, N, level, t)
    BY <1>1, <2>2, <2>3, PagesLower
  <2> HIDE DEF t
  <2> DEFINE M == N \ {r}
             c == t.root
             d2 == t.pages
  <2>6. /\ t = [pages |-> d2, root |-> c, at |-> Null]
        /\ \E l, h : Built(d2, c, M, l, h)
        /\ Kept(d, N, d2, M) /\ c \in M
        /\ \A q \in M : d2[q].leaf = d[q].leaf /\ Size(d2[q]) = Size(d[q])
    BY <2>5 DEF HasLowered
  <2> HIDE DEF c, d2
  <2>7. ASSUME NEW q \in M PROVE Fits(d2, c, q)
    <3>1. Fits(d, r, q) /\ q \in N /\ q # r
      BY <1>1, <1>6, <2>7
    <3>2. Half(d[q]) >= 2 /\ Half(d[q]) \in Nat /\ Size(d[q]) \in Nat
      BY <1>1, <3>1, Sizes
    <3>3. Size(d2[q]) = Size(d[q]) /\ Cap(d2[q]) = Cap(d[q]) /\ Half(d2[q]) = Half(d[q])
      BY <1>1, <2>6, <3>1, Sizes
    <3> QED
      BY <3>1, <3>2, <3>3 DEF Fits
  <2>8. Kept(d0, N0, d2, M)
    BY <1>1, <2>6, KeptOn
  <2> HIDE DEF M
  <2>9. Underflowing(d0, N0, top, t, i + 1)
    BY <2>6, <2>7, <2>8 DEF Underflowing
  <2> QED
    BY <2>4, <2>9
<1> QED
  BY <1>4, <1>5, <1>6

Merging == INSTANCE OrderProofs WITH Step <- UnderflowStep

LEMMA UnderflowSolved ==
    ASSUME NEW d, NEW r, NEW N, NEW level, NEW hi, Built(d, r, N, level, hi),
           NEW p \in N, level[p] = 0, Shrunk(d, r, p), \A q \in N \ {p} : Fits(d, r, q),
           NEW t, t = [pages |-> d, root |-> r]
    PROVE  Solved(d, N, SolveUnderflow(t, p))
<1> DEFINE start == [pages |-> d, root |-> r, at |-> p]
           n == Bound(d)
           K == {i \in 0..n : Underflowing(d, N, level[r], Merging!After(start, i), i)}
<1>1. n \in Nat /\ level[r] \in Nat /\ level[r] < n
  <2>1. level[r] # 0 => Ent(d, r) # {}
    <3>1. r \in N /\ (d[r].leaf <=> level[r] = 0)
      BY DEF Built, Shape, Ranked
    <3>2. level[r] # 0 => Size(d[r]) >= 2
      BY <3>1 DEF Fits
    <3> QED
      BY <3>1, <3>2, NodeEntries DEF Size
  <2> QED
    BY <2>1, LevelsBounded
<1>2. /\ Merging!After(start, 0) = start
      /\ \A i \in Nat : Merging!After(start, i + 1) = UnderflowStep(Merging!After(start, i))
  BY Merging!Iterations
<1>3. 0 \in K
  <2>1. Kept(d, N, d, N)
    BY DEF Kept
  <2>2. Underflowing(d, N, level[r], start, 0)
    BY <2>1 DEF Underflowing
  <2> QED
    BY <1>1, <1>2, <2>2
<1>4. ASSUME NEW i \in 0..n-1, i \in K PROVE i + 1 \in K
  <2>1. i \in Nat /\ i + 1 \in 0..n
    BY <1>1
  <2>2. Underflowing(d, N, level[r], UnderflowStep(Merging!After(start, i)), i + 1)
    BY <1>4, UnderflowGoesOn
  <2> QED
    BY <1>2, <2>1, <2>2
<1>5. K = 0..n
  <2>1. K \in SUBSET (0..n) /\ \A i \in 0..n-1 : i \in K => i + 1 \in K
    BY <1>4
  <2> HIDE DEF K, n
  <2> QED
    BY <1>1, <1>3, <2>1, InductionUpTo
<1> DEFINE s == Merging!After(start, n)
<1>6. Underflowing(d, N, level[r], s, n)
  <2>1. n \in 0..n
    BY <1>1
  <2> QED
    BY <1>5, <2>1
<1>7. SolveUnderflow(t, p) = [pages |-> s.pages, root |-> s.root]
  <2>1. t.pages = d /\ From(t, p) = start
    BY DEF From
  <2>2. SolveUnderflow(t, p) = LET z == Merging!After(From(t, p), Bound(t.pages))
                               IN  [pages |-> z.pages, root |-> z.root]
    BY DEF SolveUnderflow, Loop, Merging!After
  <2> QED
    BY <2>1, <2>2
<1> HIDE DEF s, n, K, start
<1>8. PICK d2, r2, q, M, l, h :
        /\ s = [pages |-> d2, root |-> r2, at |-> q]
        /\ Built(d2, r2, M, l, h) /\ Kept(d, N, d2, M) /\ q \in M \union {Null}
        /\ \A z \in M \ {q} : Fits(d2, r2, z)
        /\ q # Null => \/ Fits(d2, r2, q)
                       \/ Shrunk(d2, r2, q) /\ l[q] = n /\ l[r2] = level[r]
  BY <1>6 DEF Underflowing
<1>9. q \in M => Fits(d2, r2, q)
  <2>1. /\ l \in [M -> Nat] /\ \A z \in M \ {r2} : l[z] < l[r2]
        /\ r2 \in M /\ Null \notin M
    BY <1>8 DEF Built, Shape, Ranked
  <2>2. q \in M => l[q] \in Nat /\ l[r2] \in Nat /\ l[q] <= l[r2]
    BY <1>8, <2>1
  <2> QED
    BY <1>1, <1>8, <2>1, <2>2
<1>10. \A z \in M : Fits(d2, r2, z)
  BY <1>8, <1>9
<1>11. s.pages = d2 /\ s.root = r2
  BY <1>8
<1> DEFINE u == SolveUnderflow(t, p)
<1>12. u.pages = d2 /\ u.root = r2 /\ u = [pages |-> d2, root |-> r2]
  BY <1>7, <1>11
<1> HIDE DEF u
<1>13. Solved(d, N, u)
  BY <1>8, <1>10, <1>12 DEF Solved
<1> QED
  BY <1>13 DEF u

-----------------------------------------------------------------------------
(* Changes inside a leaf p: s are its entries afterwards.                  *)

IsLeafChange(d, d2, r, N, level, hi, p, s) ==
    /\ p \in N /\ level[p] = 0 /\ s \in Seq(AnyEntry) /\ Ascending(s)
    /\ IsFiniteSet(DOMAIN d2) /\ DOMAIN d2 \subseteq Int /\ N \subseteq DOMAIN d2
    /\ d2[p] = [d[p] EXCEPT !.entries = s] /\ \A q \in N \ {p} : d2[q] = d[q]
    /\ \A e \in Range(s) : Covers(d, r, hi, p, e.key)
    /\ p # r => \E e \in Ent(d, p), f \in Range(s) : e.key = f.key

HasLeafChanged(d, d2, r, N, level, hi, p, s) ==
    /\ Built(d2, r, N, level, hi)
    /\ \A e : e \in LeafEntries(d2, N)
                <=> e \in Range(s) \/ (e \in LeafEntries(d, N) /\ e \notin Ent(d, p))
    /\ \A q \in N : /\ d2[q].leaf = d[q].leaf
                    /\ Size(d2[q]) = IF q = p THEN Len(s) ELSE Size(d[q])

LEMMA LeafChanges ==
    ASSUME NEW d, NEW d2, NEW r, NEW N, NEW level, NEW hi, Built(d, r, N, level, hi),
           NEW p, NEW s, IsLeafChange(d, d2, r, N, level, hi, p, s)
    PROVE  HasLeafChanged(d, d2, r, N, level, hi, p, s)
<1>1. Shape(d, r, N, level, hi) /\ Plain(d, N) /\ Listed(d, Leaves(N, level))
  BY DEF Built
<1>2. /\ p \in N /\ level[p] = 0 /\ s \in Seq(AnyEntry) /\ Ascending(s)
      /\ IsFiniteSet(DOMAIN d2) /\ DOMAIN d2 \subseteq Int /\ N \subseteq DOMAIN d2
      /\ d2[p] = [d[p] EXCEPT !.entries = s] /\ \A q \in N \ {p} : d2[q] = d[q]
      /\ \A e \in Range(s) : Covers(d, r, hi, p, e.key)
      /\ p # r => \E e \in Ent(d, p), f \in Range(s) : e.key = f.key
  BY DEF IsLeafChange
<1>3. d[p] \in AnyNode
  BY <1>2, NodeEntries
<1> DEFINE n == [d[p] EXCEPT !.entries = s]
<1>4. n \in AnyNode /\ n.leaf = d[p].leaf /\ n.entries = s /\ n.next = d[p].next /\ n.parent = d[p].parent
  BY <1>2, <1>3, WithEntries
<1>5. d2[p] = n
  BY <1>2
<1> HIDE DEF n
<1>6. \A q \in N : /\ d2[q].leaf = d[q].leaf /\ d2[q].parent = d[q].parent /\ d2[q].next = d[q].next
                   /\ d2[q].entries = IF q = p THEN s ELSE d[q].entries
  BY <1>2, <1>4, <1>5
<1>7. \A q \in N : Ent(d2, q) = IF q = p THEN Range(s) ELSE Ent(d, q)
  BY <1>6 DEF Ent
<1>8. Shape(d2, r, N, level, hi)
  <2> DEFINE S == Range(s)
  <2>1. p # r => S # {}
    BY <1>2
  <2>2. \A e, f \in S : e.key \in Int /\ (e.key = f.key => e = f)
    BY <1>2, EntriesKeyed, KeysDiffer, RangeHas DEF KeyedBy
  <2>3. \A e \in S : e.key < hi[p]
    BY <1>2 DEF Covers
  <2>4. p # r => \A g \in Ent(d, d[p].parent) : g.child = p => \A e \in S : g.key <= e.key
    BY <1>2 DEF Covers
  <2>5. \A q \in N : Ent(d2, q) = IF q = p THEN S ELSE Ent(d, q)
    BY <1>7
  <2>6. \A q \in N : d2[q].leaf = d[q].leaf /\ d2[q].parent = d[q].parent
    BY <1>6
  <2> HIDE DEF S
  <2> QED
    BY <1>1, <1>2, <2>1, <2>2, <2>3, <2>4, <2>5, <2>6, ShapeLeaf
<1>9. Plain(d2, N)
  <2>1. \A q \in N : d[q] \in AnyNode /\ Ascending(d[q].entries) /\ (d[q].leaf \/ d[q].next = Null)
    BY <1>1 DEF Plain
  <2> QED
    BY <1>2, <1>4, <1>5, <1>6, <2>1 DEF Plain
<1>10. Paged(d2, N)
  BY <1>2 DEF Paged
<1> DEFINE L == Leaves(N, level)
<1>11. Separated(d, L) /\ Separated(d2, L)
  BY <1>1, <1>8, LeavesSeparated DEF Leaves
<1>12. Listed(d2, L)
  <2>1. \A q \in L : d2[q].next = d[q].next
    BY <1>6 DEF Leaves
  <2>2. ASSUME NEW q \in L, NEW z \in L, q # z
        PROVE  \E e \in Ent(d, q), f \in Ent(d2, q) : e.key = f.key
    <3>1. q \in N /\ Ent(d, q) # {}
      BY <1>11, <2>2 DEF Separated, Leaves
    <3>2. CASE q = p
      <4>1. p # r
        <5>1. \A y \in N \ {r} : level[y] < level[r]
          BY <1>1 DEF Shape, Ranked
        <5>2. r \in N /\ level[r] \in Nat
          BY <1>1 DEF Shape, Ranked
        <5>3. z \in N /\ level[z] = 0
          BY DEF Leaves
        <5> QED
          BY <1>2, <2>2, <3>2, <5>1, <5>3
      <4>2. \E e \in Ent(d, p), f \in Range(s) : e.key = f.key
        BY <1>2, <4>1
      <4> QED
        BY <1>7, <3>1, <3>2, <4>2
    <3>3. CASE q # p
      BY <1>7, <3>1, <3>3
    <3> QED
      BY <3>2, <3>3
  <2> HIDE DEF L
  <2> QED
    BY <1>1, <1>11, <2>1, <2>2, ListKept DEF L
<1>13. Built(d2, r, N, level, hi)
  BY <1>8, <1>9, <1>10, <1>12 DEF Built
<1>14. ASSUME NEW e
       PROVE  e \in LeafEntries(d2, N)
                <=> e \in Range(s) \/ (e \in LeafEntries(d, N) /\ e \notin Ent(d, p))
  <2>1. e \in LeafEntries(d, N) <=> \E q \in N : level[q] = 0 /\ e \in Ent(d, q)
    BY <1>1, InLeaves
  <2>2. e \in LeafEntries(d2, N) <=> \E q \in N : level[q] = 0 /\ e \in Ent(d2, q)
    BY <1>8, InLeaves
  <2>3. ASSUME NEW q \in N, level[q] = 0, q # p, e \in Ent(d, q) PROVE e \notin Ent(d, p)
    <3>1. Below(Ent(d, p), Ent(d, q)) \/ Below(Ent(d, q), Ent(d, p))
      BY <1>1, <1>2, <2>3, KeysApart
    <3>2. e.key \in Int
      BY <1>1, <2>3 DEF Shape, Keyed
    <3> QED
      BY <2>3, <3>1, <3>2 DEF Below
  <2> QED
    BY <1>2, <1>7, <2>1, <2>2, <2>3
<1>15. \A q \in N : /\ d2[q].leaf = d[q].leaf
                    /\ Size(d2[q]) = IF q = p THEN Len(s) ELSE Size(d[q])
  BY <1>6 DEF Size
<1> QED
  BY <1>13, <1>14, <1>15 DEF HasLeafChanged

-----------------------------------------------------------------------------
(* The ways down. *)

(* The entries a search for x follows. *)
LEMMA FollowedIs ==
    ASSUME NEW n, n.entries \in Seq(AnyEntry), Ascending(n.entries), n.entries # << >>, NEW x \in Int
    PROVE  LET s == n.entries
               l == LessOrEqualBound(n, x)
           IN  /\ Followed(n, x) \in 1..Len(s) /\ IsFollowed(Range(s), s[Followed(n, x)], x)
               /\ l # 0 => l \in 1..Len(s) /\ IsFollowed(Range(s), s[l], x)
               /\ l = 0 => \A f \in Range(s) : x < f.key
<1> DEFINE s == n.entries
           l == LessOrEqualBound(n, x)
           k == Followed(n, x)
<1>1. l \in 0..Len(s) /\ \A i \in 1..Len(s) : s[i].key <= x <=> i <= l
  BY EntriesKeyed, Bounds
<1>2. /\ Len(s) \in Nat /\ Len(s) # 0
      /\ \A i \in 1..Len(s) : s[i] \in Range(s) /\ s[i].key \in Int
      /\ \A e \in Range(s) : \E i \in 1..Len(s) : s[i] = e
  BY EntriesKeyed, RangeHas DEF KeyedBy
<1>3. k \in 1..Len(s) /\ k = IF l = 0 THEN 1 ELSE l
  <2> DEFINE m == Len(s)
             S == {1, l}
  <2>1. m \in Nat /\ S \in SUBSET (0..m) /\ S # {}
    BY <1>1, <1>2
  <2> HIDE DEF l, m
  <2>2. Max(S) \in S /\ \A y \in S : y <= Max(S)
    BY <2>1, GreatestChosen DEF Max
  <2>3. k = Max(S)
    BY DEF Followed, l
  <2>4. l \in 0..m /\ m \in Nat /\ m # 0
    BY <1>1, <1>2 DEF m
  <2>5. k \in 1..m /\ k = IF l = 0 THEN 1 ELSE l
    <3> HIDE DEF k
    <3> QED
      BY <2>2, <2>3, <2>4
  <2> QED
    BY <2>5 DEF m
<1> HIDE DEF s, l, k
<1>4. ASSUME l # 0 PROVE l \in 1..Len(s) /\ IsFollowed(Range(s), s[l], x)
  <2>1. l \in 1..Len(s) /\ s[l].key <= x
    BY <1>1, <1>2, <1>4
  <2>2. ASSUME NEW f \in Range(s), s[l].key < f.key PROVE x < f.key
    <3>1. PICK i \in 1..Len(s) : s[i] = f
      BY <1>2
    <3>2. ~(i <= l)
      <4>1. \A a, b \in 1..Len(s) : s[a].key < s[b].key => a < b
        BY EntriesKeyed, KeyOrder DEF s
      <4>2. l < i
        BY <2>1, <2>2, <3>1, <4>1
      <4> QED
        BY <1>2, <2>1, <4>2
    <3> QED
      BY <1>1, <1>2, <3>1, <3>2
  <2> QED
    BY <1>2, <2>1, <2>2 DEF IsFollowed
<1>5. ASSUME l = 0
      PROVE  /\ \A f \in Range(s) : x < f.key
             /\ \A f \in Range(s) : s[1].key <= f.key
  <2>1. ASSUME NEW f \in Range(s) PROVE x < f.key /\ s[1].key <= f.key
    <3>1. PICK i \in 1..Len(s) : s[i] = f
      BY <1>2
    <3>2. ~(i <= l) /\ 1 <= i /\ 1 \in 1..Len(s)
      BY <1>2, <1>5
    <3>3. \A a, b \in 1..Len(s) : s[a].key <= s[b].key <=> a <= b
      BY EntriesKeyed, KeyOrder DEF s
    <3> QED
      BY <1>1, <1>2, <3>1, <3>2, <3>3
  <2> QED
    BY <2>1
<1>6. IsFollowed(Range(s), s[k], x)
  <2>1. CASE l # 0
    BY <1>3, <1>4, <2>1
  <2>2. CASE l = 0
    <3>1. s[1] \in Range(s)
      BY <1>2
    <3> QED
      BY <1>3, <1>5, <2>2, <3>1 DEF IsFollowed
  <2> QED
    BY <2>1, <2>2
<1> QED
  BY <1>3, <1>4, <1>5, <1>6 DEF s, l, k

(* All nodes are as full as they should be. *)
Full(d, r, N) == \A q \in N : Fits(d, r, q)

LEMMA Inhabited ==
    ASSUME NEW d, NEW r, NEW N, NEW level, NEW hi, Built(d, r, N, level, hi), Full(d, r, N)
    PROVE  /\ Bound(d) \in Nat /\ level[r] \in Nat /\ level[r] < Bound(d) /\ r \in N /\ Null \notin N
           /\ \A q \in N : level[q] \in Nat /\ level[q] <= level[r]
           /\ \A q \in N : level[q] # 0 => d[q].entries # << >> /\ Size(d[q]) >= 2
<1>1. /\ r \in N /\ Null \notin N /\ level \in [N -> Nat] /\ \A q \in N \ {r} : level[q] < level[r]
      /\ \A q \in N : d[q].leaf <=> level[q] = 0
  BY DEF Built, Shape, Ranked
<1>2. ASSUME NEW q \in N, level[q] # 0 PROVE d[q].entries # << >> /\ Size(d[q]) >= 2
  <2>1. Half(d[q]) >= 2 /\ Half(d[q]) \in Nat /\ Size(d[q]) \in Nat
    BY Sizes
  <2>2. Fits(d, r, q)
    BY DEF Full
  <2>3. Size(d[q]) >= 2
    BY <1>1, <1>2, <2>1, <2>2 DEF Fits
  <2>4. d[q].entries # << >>
    BY <2>3 DEF Size
  <2> QED
    BY <2>3, <2>4
<1>3. ASSUME level[r] # 0 PROVE Ent(d, r) # {}
  BY <1>1, <1>2, <1>3, NodeEntries DEF Size
<1>4. Bound(d) \in Nat /\ level[r] \in Nat /\ level[r] < Bound(d)
  BY <1>3, LevelsBounded
<1>5. \A q \in N : level[q] \in Nat /\ level[q] <= level[r]
  BY <1>1
<1> QED
  BY <1>1, <1>2, <1>4, <1>5

(* The root is the only node of its level. *)
LEMMA OnlyRoot ==
    ASSUME NEW d, NEW r, NEW N, NEW level, NEW hi, Built(d, r, N, level, hi), NEW x
    PROVE  OnlyAt(d, r, N, level, hi, level[r], r, x)
<1>1. level \in [N -> Nat] /\ r \in N /\ \A q \in N \ {r} : level[q] < level[r]
  BY DEF Built, Shape, Ranked
<1> QED
  BY <1>1 DEF OnlyAt

(* A search after i steps: no other node of its level may have the key. *)
Searching(d, r, N, level, hi, x, s, i) ==
    \E p, l :
        /\ s = [pages |-> d, at |-> p, key |-> x] /\ p \in N \union {Null}
        /\ l \in 0..level[r] /\ (l + i = level[r] \/ l = 0) /\ (p \in N => level[p] = l)
        /\ OnlyAt(d, r, N, level, hi, l, p, x)

LEMMA SearchGoesOn ==
    ASSUME NEW d, NEW r, NEW N, NEW level, NEW hi, Built(d, r, N, level, hi), Full(d, r, N),
           NEW x \in Int, NEW i \in Nat, NEW s, Searching(d, r, N, level, hi, x, s, i)
    PROVE  /\ Searching(d, r, N, level, hi, x, EqualStep(s), i + 1)
           /\ s.at \in N => /\ Searching(d, r, N, level, hi, x, DownStep(s), i + 1)
                            /\ DownStep(s).at \in N
<1>1. PICK p, l :
        /\ s = [pages |-> d, at |-> p, key |-> x] /\ p \in N \union {Null}
        /\ l \in 0..level[r] /\ (l + i = level[r] \/ l = 0) /\ (p \in N => level[p] = l)
        /\ OnlyAt(d, r, N, level, hi, l, p, x)
  BY DEF Searching
<1>2. s.pages = d /\ s.at = p /\ s.key = x /\ Null \notin N /\ level[r] \in Nat
  BY <1>1, Inhabited
<1>3. Shape(d, r, N, level, hi)
  BY DEF Built
<1>4. CASE l = 0
  <2>1. Searching(d, r, N, level, hi, x, s, i + 1)
    BY <1>1, <1>4 DEF Searching
  <2>2. p \in N => d[p].leaf
    BY <1>1, <1>4, NodeEntries
  <2>3. EqualStep(s) = s /\ (p \in N => DownStep(s) = s)
    BY <1>1, <1>2, <2>2 DEF EqualStep, DownStep
  <2> QED
    BY <1>2, <2>1, <2>3
<1>5. CASE l # 0
  <2>1. l - 1 \in 0..level[r] /\ (l - 1) + (i + 1) = level[r] /\ (l - 1) + 1 = l /\ l - 1 < level[r]
    BY <1>1, <1>2, <1>5
  <2> DEFINE k == l - 1
             there(q) == [pages |-> d, at |-> q, key |-> x]
  <2>2. k \in 0..level[r] /\ k \in Nat /\ k + (i + 1) = level[r] /\ k + 1 = l /\ k < level[r]
    BY <1>2, <2>1
  <2> HIDE DEF k
  <2>3. ASSUME p \in N => \A f \in Ent(d, p) : x < f.key
        PROVE  Searching(d, r, N, level, hi, x, there(Null), i + 1)
    <3>1. OnlyAt(d, r, N, level, hi, k + 1, p, x)
      BY <1>1, <2>2
    <3>2. OnlyAt(d, r, N, level, hi, k, Null, x)
      BY <1>3, <2>2, <2>3, <3>1, NoneUnder
    <3> QED
      BY <1>2, <2>2, <3>2 DEF Searching
  <2>4. ASSUME p \in N, NEW e, IsFollowed(Ent(d, p), e, x)
        PROVE  e.child \in N /\ Searching(d, r, N, level, hi, x, there(e.child), i + 1)
    <3>1. /\ e.child \in N /\ level[e.child] + 1 = level[p]
          /\ OnlyAt(d, r, N, level, hi, level[e.child], e.child, x)
      BY <1>1, <1>3, <1>5, <2>4, OnlyUnder
    <3>2. level[e.child] = k
      <4>1. level[e.child] \in Nat
        BY <3>1, Inhabited
      <4> QED
        BY <1>1, <2>2, <2>4, <3>1, <4>1
    <3> QED
      BY <2>2, <3>1, <3>2 DEF Searching
  <2>5. CASE p \notin N
    <3>1. p = Null /\ EqualStep(s) = s /\ s = there(Null)
      BY <1>1, <1>2, <2>5 DEF EqualStep
    <3> QED
      BY <1>2, <2>3, <2>5, <3>1
  <2>6. CASE p \in N
    <3> DEFINE n == d[p]
               rank == LessOrEqualBound(n, x)
    <3>1. ~n.leaf /\ n.entries \in Seq(AnyEntry) /\ Ascending(n.entries) /\ n.entries # << >>
          /\ Ent(d, p) = Range(n.entries)
      BY <1>1, <1>5, <2>6, NodeEntries, Inhabited DEF Ent
    <3>2. /\ IsFollowed(Ent(d, p), n.entries[Followed(n, x)], x)
          /\ rank # 0 => IsFollowed(Ent(d, p), n.entries[rank], x)
          /\ rank = 0 => \A f \in Ent(d, p) : x < f.key
      BY <3>1, FollowedIs
    <3>3. /\ DownStep(s) = there(n.entries[Followed(n, x)].child)
          /\ EqualStep(s) = there(IF rank = 0 THEN Null ELSE n.entries[rank].child)
      BY <1>1, <1>2, <2>6, <3>1 DEF DownStep, EqualStep
    <3> HIDE DEF n, rank
    <3>4. /\ Searching(d, r, N, level, hi, x, DownStep(s), i + 1) /\ DownStep(s).at \in N
      <4> DEFINE e == n.entries[Followed(n, x)]
      <4>1. e.child \in N /\ Searching(d, r, N, level, hi, x, there(e.child), i + 1)
        BY <2>4, <2>6, <3>2
      <4> QED
        BY <3>3, <4>1
    <3>5. Searching(d, r, N, level, hi, x, EqualStep(s), i + 1)
      <4>1. CASE rank = 0
        BY <2>3, <3>2, <3>3, <4>1
      <4>2. CASE rank # 0
        BY <2>4, <2>6, <3>2, <3>3, <4>2
      <4> QED
        BY <4>1, <4>2
    <3> QED
      BY <3>4, <3>5
  <2> QED
    BY <2>5, <2>6
<1> QED
  BY <1>4, <1>5

Descent == INSTANCE OrderProofs WITH Step <- DownStep

EqualDescent == INSTANCE OrderProofs WITH Step <- EqualStep

(* The only leaf that may have x, or Null if there is none. *)
IsLeafFor(d, r, N, level, hi, x, p) ==
    p \in N \union {Null} /\ (p \in N => level[p] = 0) /\ OnlyAt(d, r, N, level, hi, 0, p, x)

LEMMA SearchEnds ==
    ASSUME NEW d, NEW r, NEW N, NEW level, NEW hi, Built(d, r, N, level, hi), Full(d, r, N),
           NEW x, NEW s, Searching(d, r, N, level, hi, x, s, Bound(d))
    PROVE  IsLeafFor(d, r, N, level, hi, x, s.at)
<1>1. PICK p, l :
        /\ s = [pages |-> d, at |-> p, key |-> x] /\ p \in N \union {Null}
        /\ l \in 0..level[r] /\ (l + Bound(d) = level[r] \/ l = 0) /\ (p \in N => level[p] = l)
        /\ OnlyAt(d, r, N, level, hi, l, p, x)
  BY DEF Searching
<1>2. l = 0 /\ s.at = p
  <2>1. Bound(d) \in Nat /\ level[r] \in Nat /\ level[r] < Bound(d)
    BY Inhabited
  <2> QED
    BY <1>1, <2>1
<1> QED
  BY <1>1, <1>2 DEF IsLeafFor

LEMMA SearchStarts ==
    ASSUME NEW d, NEW r, NEW N, NEW level, NEW hi, Built(d, r, N, level, hi), Full(d, r, N), NEW x
    PROVE  Searching(d, r, N, level, hi, x, Search(d, r, x), 0) /\ Search(d, r, x).at \in N
<1>1. level[r] \in Nat /\ r \in N
  BY Inhabited
<1>2. level[r] \in 0..level[r] /\ level[r] + 0 = level[r]
  BY <1>1
<1>3. OnlyAt(d, r, N, level, hi, level[r], r, x)
  BY OnlyRoot
<1>4. Search(d, r, x) = [pages |-> d, at |-> r, key |-> x]
  BY DEF Search
<1>5. Searching(d, r, N, level, hi, x, Search(d, r, x), 0)
  BY <1>1, <1>2, <1>3, <1>4 DEF Searching
<1> QED
  BY <1>1, <1>4, <1>5

(* searchIntoLeaf *)
LEMMA LeafIsFound ==
    ASSUME NEW d, NEW r, NEW N, NEW level, NEW hi, Built(d, r, N, level, hi), Full(d, r, N), NEW x \in Int
    PROVE  LeafOf(d, r, x) \in N /\ IsLeafFor(d, r, N, level, hi, x, LeafOf(d, r, x))
<1> DEFINE start == Search(d, r, x)
           n == Bound(d)
           At(i) == Descent!After(start, i)
           K == {i \in 0..n : Searching(d, r, N, level, hi, x, At(i), i) /\ At(i).at \in N}
<1>1. n \in Nat
  BY Inhabited
<1>2. At(0) = start /\ \A i \in Nat : At(i + 1) = DownStep(At(i))
  BY Descent!Iterations
<1> HIDE DEF At, start
<1>3. 0 \in K
  <2>1. Searching(d, r, N, level, hi, x, start, 0) /\ start.at \in N
    BY SearchStarts DEF start
  <2> QED
    BY <1>1, <1>2, <2>1
<1>4. ASSUME NEW i \in 0..n-1, i \in K PROVE i + 1 \in K
  <2>1. i \in Nat /\ i + 1 \in 0..n
    BY <1>1
  <2>2. Searching(d, r, N, level, hi, x, DownStep(At(i)), i + 1) /\ DownStep(At(i)).at \in N
    BY <1>4, <2>1, SearchGoesOn
  <2> QED
    BY <1>2, <2>1, <2>2
<1>5. K = 0..n
  <2>1. K \in SUBSET (0..n) /\ \A i \in 0..n-1 : i \in K => i + 1 \in K
    BY <1>4
  <2> HIDE DEF K, n
  <2> QED
    BY <1>1, <1>3, <2>1, InductionUpTo
<1>6. Searching(d, r, N, level, hi, x, At(n), n) /\ At(n).at \in N
  BY <1>1, <1>5
<1>7. LeafOf(d, r, x) = At(n).at
  BY DEF LeafOf, Loop, Descent!After, At, start
<1> QED
  BY <1>6, <1>7, SearchEnds

LEMMA EqualSearchEnds ==
    ASSUME NEW d, NEW r, NEW N, NEW level, NEW hi, Built(d, r, N, level, hi), Full(d, r, N), NEW x \in Int
    PROVE  LET p == Loop(EqualStep, Search(d, r, x), Bound(d)).at
           IN  IsLeafFor(d, r, N, level, hi, x, p)
<1> DEFINE start == Search(d, r, x)
           n == Bound(d)
           At(i) == EqualDescent!After(start, i)
           K == {i \in 0..n : Searching(d, r, N, level, hi, x, At(i), i)}
<1>1. n \in Nat
  BY Inhabited
<1>2. At(0) = start /\ \A i \in Nat : At(i + 1) = EqualStep(At(i))
  BY EqualDescent!Iterations
<1> HIDE DEF At, start
<1>3. 0 \in K
  <2>1. Searching(d, r, N, level, hi, x, start, 0)
    BY SearchStarts DEF start
  <2> QED
    BY <1>1, <1>2, <2>1
<1>4. ASSUME NEW i \in 0..n-1, i \in K PROVE i + 1 \in K
  <2>1. i \in Nat /\ i + 1 \in 0..n
    BY <1>1
  <2>2. Searching(d, r, N, level, hi, x, EqualStep(At(i)), i + 1)
    BY <1>4, <2>1, SearchGoesOn
  <2> QED
    BY <1>2, <2>1, <2>2
<1>5. K = 0..n
  <2>1. K \in SUBSET (0..n) /\ \A i \in 0..n-1 : i \in K => i + 1 \in K
    BY <1>4
  <2> HIDE DEF K, n
  <2> QED
    BY <1>1, <1>3, <2>1, InductionUpTo
<1>6. Searching(d, r, N, level, hi, x, At(n), n)
  BY <1>1, <1>5
<1>7. Loop(EqualStep, Search(d, r, x), Bound(d)).at = At(n).at
  BY DEF Loop, EqualDescent!After, At, start
<1> QED
  BY <1>6, <1>7, SearchEnds

(* The entry of a key is in the leaf found for it, at the place the binary *)
(* searches find.                                                          *)
LEMMA KeyIsFound ==
    ASSUME NEW d, NEW r, NEW N, NEW level, NEW hi, Built(d, r, N, level, hi),
           NEW x \in Int, NEW p, IsLeafFor(d, r, N, level, hi, x, p)
    PROVE  /\ \A e \in LeafEntries(d, N) : e.key = x => p \in N /\ e \in Ent(d, p)
           /\ p \in N => \A rank \in {LessOrEqualBound(d[p], x), LowerBound(d[p], x)} :
                \/ /\ IsKeyOf(d[p], rank, x) /\ rank \in 1..Len(d[p].entries)
                   /\ d[p].entries[rank] \in LeafEntries(d, N) /\ d[p].entries[rank].key = x
                \/ ~IsKeyOf(d[p], rank, x) /\ \A e \in LeafEntries(d, N) : e.key # x
<1>1. Shape(d, r, N, level, hi)
  BY DEF Built
<1>2. \A e : e \in LeafEntries(d, N) <=> \E q \in N : level[q] = 0 /\ e \in Ent(d, q)
  BY <1>1, InLeaves
<1>3. ASSUME NEW e \in LeafEntries(d, N), e.key = x PROVE p \in N /\ e \in Ent(d, p)
  <2>1. PICK q \in N : level[q] = 0 /\ e \in Ent(d, q)
    BY <1>2
  <2>2. Covers(d, r, hi, q, x)
    BY <1>1, <1>3, <2>1, KeysAreCovered
  <2>3. q = p
    BY <2>1, <2>2 DEF IsLeafFor, OnlyAt
  <2> QED
    BY <2>1, <2>3
<1>4. ASSUME p \in N, NEW rank \in {LessOrEqualBound(d[p], x), LowerBound(d[p], x)}
      PROVE  \/ /\ IsKeyOf(d[p], rank, x) /\ rank \in 1..Len(d[p].entries)
                /\ d[p].entries[rank] \in LeafEntries(d, N) /\ d[p].entries[rank].key = x
             \/ ~IsKeyOf(d[p], rank, x) /\ \A e \in LeafEntries(d, N) : e.key # x
  <2> DEFINE s == d[p].entries
  <2>1. /\ s \in Seq(AnyEntry) /\ Ascending(s) /\ DOMAIN s = 1..Len(s) /\ Len(s) \in Nat
        /\ \A i \in 1..Len(s) : s[i] \in Ent(d, p) /\ s[i].key \in Int
        /\ \A e \in Ent(d, p) : \E i \in 1..Len(s) : s[i] = e
    BY <1>4, NodeEntries, EntriesKeyed DEF KeyedBy
  <2>2. level[p] = 0
    BY <1>4 DEF IsLeafFor
  <2>3. LET a == LowerBound(d[p], x)
            b == LessOrEqualBound(d[p], x)
        IN  /\ a \in 1..Len(s)+1 /\ \A i \in 1..Len(s) : s[i].key < x <=> i < a
            /\ b \in 0..Len(s) /\ \A i \in 1..Len(s) : s[i].key <= x <=> i <= b
    BY <2>1, EntriesKeyed, Bounds
  <2>4. ASSUME NEW i \in 1..Len(s), s[i].key = x PROVE i = rank
    <3>1. CASE rank = LessOrEqualBound(d[p], x)
      <4>1. i <= rank /\ rank \in 1..Len(s)
        BY <2>1, <2>3, <2>4, <3>1
      <4>2. s[rank].key <= x
        BY <2>3, <3>1, <4>1
      <4>3. rank <= i
        BY <2>1, <2>4, <4>1, <4>2, EntriesKeyed, KeyOrder
      <4> QED
        BY <4>1, <4>3
    <3>2. CASE rank = LowerBound(d[p], x)
      <4>1. ~(i < rank) /\ rank \in 1..Len(s)
        BY <2>1, <2>3, <2>4, <3>2
      <4>2. ~(s[rank].key < x)
        BY <2>3, <3>2, <4>1
      <4>3. i <= rank
        BY <2>1, <2>4, <4>1, <4>2, EntriesKeyed, KeyOrder
      <4> QED
        BY <4>1, <4>3
    <3> QED
      BY <3>1, <3>2
  <2>5. CASE IsKeyOf(d[p], rank, x)
    <3>1. rank \in 1..Len(s) /\ s[rank].key = x
      BY <2>1, <2>5 DEF IsKeyOf
    <3>2. s[rank] \in LeafEntries(d, N)
      BY <1>2, <1>4, <2>1, <2>2, <3>1
    <3> QED
      BY <2>5, <3>1, <3>2
  <2>6. CASE ~IsKeyOf(d[p], rank, x)
    <3>1. ASSUME NEW e \in LeafEntries(d, N), e.key = x PROVE FALSE
      <4>1. PICK i \in 1..Len(s) : s[i] = e
        BY <1>3, <2>1, <3>1
      <4>2. i = rank
        BY <2>4, <3>1, <4>1
      <4> QED
        BY <2>1, <2>6, <3>1, <4>1, <4>2 DEF IsKeyOf
    <3> QED
      BY <2>6, <3>1
  <2> QED
    BY <2>5, <2>6
<1> QED
  BY <1>3, <1>4

LEMMA MinOfTwo ==
    ASSUME NEW a \in Int, NEW b \in Int
    PROVE  Min({a, b}) = IF b < a THEN b ELSE a
<1> DEFINE m == IF b < a THEN b ELSE a
<1>1. m \in {a, b} /\ \A y \in {a, b} : m <= y
  OBVIOUS
<1>2. \A k \in {a, b} : (\A y \in {a, b} : k <= y) => k = m
  OBVIOUS
<1> HIDE DEF m
<1>3. Min({a, b}) = m
  BY <1>1, <1>2 DEF Min
<1> QED
  BY <1>3 DEF m

(* A search for the place of a new key x: the node may have it, and the    *)
(* leaves are as they were.                                                *)
Lowering(d0, r, N, level, x, s, i) ==
    \E d, p, hi :
        /\ s = [pages |-> d, at |-> p, key |-> x] /\ p \in N
        /\ level[p] + i = level[r] \/ level[p] = 0
        /\ Built(d, r, N, level, hi) /\ Covers(d, r, hi, p, x) /\ Kept(d0, N, d, N)
        /\ \A q \in N : d[q].leaf = d0[q].leaf /\ Size(d[q]) = Size(d0[q])

(* The pages when the entry at place i of p is passed. *)
IsLowered(d, p, i, x, d2, e2) ==
    /\ DOMAIN d2 = DOMAIN d /\ \A q \in DOMAIN d \ {p} : d2[q] = d[q]
    /\ IsRekeyed(d[p], i, Min({d[p].entries[i].key, x}), d2[p], e2)

HasPassed(d, r, N, level, p, i, x, d2) ==
    LET c == d[p].entries[i].child
    IN  /\ \E h : Built(d2, r, N, level, h) /\ Covers(d2, r, h, c, x)
        /\ c \in N /\ level[c] + 1 = level[p]
        /\ Kept(d, N, d2, N)
        /\ \A q \in N : d2[q].leaf = d[q].leaf /\ Size(d2[q]) = Size(d[q])

LEMMA Lowers ==
    ASSUME NEW d, NEW r, NEW N, NEW level, NEW hi, Built(d, r, N, level, hi),
           NEW x \in Keys, NEW p \in N, level[p] # 0, Covers(d, r, hi, p, x),
           d[p].entries # << >>, NEW i, i = Followed(d[p], x),
           NEW d2, NEW e2, IsLowered(d, p, i, x, d2, e2)
    PROVE  HasPassed(d, r, N, level, p, i, x, d2)
<1> DEFINE n == d[p]
           s == n.entries
           e == s[i]
           k == Min({e.key, x})
           m == d2[p]
           c == e.child
<1>1. Shape(d, r, N, level, hi) /\ Plain(d, N) /\ Paged(d, N) /\ Listed(d, Leaves(N, level))
  BY DEF Built
<1>2. /\ n \in AnyNode /\ s \in Seq(AnyEntry) /\ Ascending(s) /\ Ent(d, p) = Range(s) /\ x \in Int
      /\ p \in DOMAIN d
  BY NodeEntries, KeysAssumption DEF Ent
<1>3. i \in 1..Len(s) /\ IsFollowed(Range(s), e, x)
  BY <1>2, FollowedIs
<1>4. e \in AnyEntry /\ e \in Range(s) /\ e.key \in Keys /\ e.key \in Int
  <2>1. e \in AnyEntry /\ e \in Range(s)
    BY <1>2, <1>3, RangeHas
  <2> HIDE DEF e
  <2> QED
    BY <2>1, KeysAssumption DEF AnyEntry
<1> HIDE DEF e
<1>5. k = (IF x < e.key THEN x ELSE e.key) /\ k \in Keys /\ k \in Int
  <2>1. k = (IF x < e.key THEN x ELSE e.key)
    BY <1>2, <1>4, MinOfTwo
  <2> HIDE DEF k
  <2> QED
    BY <1>2, <1>4, <2>1
<1> HIDE DEF k
<1>6. /\ DOMAIN d2 = DOMAIN d /\ \A q \in DOMAIN d \ {p} : d2[q] = d[q]
      /\ IsRekeyed(n, i, k, m, e2)
  BY DEF IsLowered, k, e
<1> HIDE DEF m, n
<1>7. /\ m \in AnyNode /\ m.leaf = n.leaf /\ m.next = n.next /\ m.parent = n.parent
      /\ e2 \in AnyEntry /\ e2.key = k /\ e2.child = c /\ e2.over = e.over
      /\ IsReplaced(s, i, e2, m.entries)
  BY <1>2, <1>3, <1>5, <1>6, WithKey DEF e
<1>8. /\ m.entries \in Seq(AnyEntry) /\ Len(m.entries) = Len(s) /\ Ascending(m.entries)
      /\ Range(m.entries) = (Range(s) \ {e}) \union {e2}
  <2>1. ASSUME NEW f \in Range(s)
        PROVE  /\ f.key < s[i].key => f.key < e2.key
               /\ s[i].key < f.key => e2.key < f.key
    <3>1. f.key \in Int
      BY <1>2, RangeHas, EntriesKeyed DEF KeyedBy
    <3>2. x < e.key => e.key <= f.key
      BY <1>3 DEF IsFollowed
    <3> QED
      BY <1>2, <1>4, <1>5, <1>7, <3>1, <3>2 DEF e
  <2>2. e2 \in AnyEntry
    BY <1>7
  <2> HIDE DEF s
  <2>3. /\ m.entries \in Seq(AnyEntry) /\ Len(m.entries) = Len(s) /\ Ascending(m.entries)
        /\ Range(m.entries) = (Range(s) \ {s[i]}) \union {e2}
    BY <1>2, <1>3, <1>7, <2>1, <2>2, EntriesKeyed, Replacing
  <2> QED
    BY <2>3 DEF e
<1>9. \A q \in N : /\ d2[q] \in AnyNode /\ d2[q].leaf = d[q].leaf /\ d2[q].next = d[q].next
                   /\ d2[q].parent = d[q].parent
                   /\ d2[q].entries = IF q = p THEN m.entries ELSE d[q].entries
  <2>1. N \subseteq DOMAIN d /\ \A q \in N : d[q] \in AnyNode
    BY <1>1 DEF Paged, Plain
  <2> QED
    BY <1>6, <1>7, <2>1 DEF m, n
<1>10. \A q \in N : Ent(d2, q) = IF q = p THEN (Ent(d, p) \ {e}) \union {e2} ELSE Ent(d, q)
  BY <1>2, <1>8, <1>9 DEF Ent
<1>11. e \in Ent(d, p) /\ e.over = Null /\ c \in N /\ level[c] + 1 = level[p] /\ d[c].parent = p
  <2>1. e \in Ent(d, p)
    BY <1>2, <1>4
  <2> QED
    BY <1>1, <2>1 DEF Shape, Kids
<1> HIDE DEF c
<1>12. PICK h : Shape(d2, r, N, level, h) /\ x < h[c]
  <2>1. IsPassed(d, d2, r, N, level, hi, x, p, e, e2)
    <3>1. x < hi[p] /\ (p # r => \A g \in Ent(d, d[p].parent) : g.child = p => g.key <= x)
      BY DEF Covers
    <3>2. /\ \A f \in Ent(d, p) : e.key < f.key => x < f.key
          /\ x < e.key => \A f \in Ent(d, p) : e.key <= f.key
      BY <1>2, <1>3 DEF IsFollowed
    <3>3. \A q \in N : d2[q].leaf = d[q].leaf /\ d2[q].parent = d[q].parent
      BY <1>9
    <3>4. /\ e2.key = (IF x < e.key THEN x ELSE e.key) /\ e2.child = e.child /\ e2.over = Null
      BY <1>5, <1>7, <1>11 DEF c
    <3> QED
      BY <1>2, <1>10, <1>11, <3>1, <3>2, <3>3, <3>4 DEF IsPassed
  <2>2. \E h : Shape(d2, r, N, level, h) /\ x < h[e.child]
    BY <1>1, <2>1, ShapeFollowed
  <2> QED
    BY <2>2 DEF c
<1>13. Covers(d2, r, h, c, x)
  <2>1. e2 \in Ent(d2, p) /\ e2.child = c /\ e2.key <= x
    BY <1>2, <1>4, <1>5, <1>7, <1>10
  <2>2. d2[c].parent = p
    BY <1>9, <1>11
  <2>3. \A g \in Ent(d2, p) : g.child = c => g = e2
    BY <1>12, <2>1, OneEntry
  <2> QED
    BY <1>12, <2>1, <2>2, <2>3 DEF Covers
<1>14. Plain(d2, N)
  <2>1. \A q \in N : Ascending(d[q].entries) /\ (d[q].leaf \/ d[q].next = Null)
    BY <1>1 DEF Plain
  <2> QED
    BY <1>8, <1>9, <2>1 DEF Plain
<1>15. Paged(d2, N)
  BY <1>1, <1>6 DEF Paged
<1>16. \A q \in Leaves(N, level) : q \in N /\ Ent(d2, q) = Ent(d, q) /\ d2[q].next = d[q].next
  BY <1>9, <1>10 DEF Leaves
<1>17. Listed(d2, Leaves(N, level))
  BY <1>1, <1>16, ListSame
<1>18. LeafEntries(d2, N) = LeafEntries(d, N)
  <2>1. \A z : z \in LeafEntries(d, N) <=> \E q \in Leaves(N, level) : z \in Ent(d, q)
    BY <1>1, InLeaves DEF Leaves
  <2>2. \A z : z \in LeafEntries(d2, N) <=> \E q \in Leaves(N, level) : z \in Ent(d2, q)
    BY <1>12, InLeaves DEF Leaves
  <2>3. \A z : z \in LeafEntries(d2, N) <=> z \in LeafEntries(d, N)
    BY <1>16, <2>1, <2>2
  <2> QED
    BY <2>3
<1>19. Kept(d, N, d2, N)
  BY <1>6, <1>18 DEF Kept
<1>20. Built(d2, r, N, level, h)
  BY <1>12, <1>14, <1>15, <1>17 DEF Built
<1>21. \A q \in N : d2[q].leaf = d[q].leaf /\ Size(d2[q]) = Size(d[q])
  BY <1>8, <1>9 DEF Size, n
<1>22. c = d[p].entries[i].child
  BY DEF c, e, n
<1> QED
  BY <1>11, <1>13, <1>19, <1>20, <1>21, <1>22 DEF HasPassed

LEMMA LoweringGoesOn ==
    ASSUME NEW d0, NEW r, NEW N, NEW level, NEW x \in Keys, NEW i \in Nat,
           \A q \in N : level[q] \in Nat,
           \A q \in N : level[q] # 0 => Size(d0[q]) >= 2,
           NEW s, Lowering(d0, r, N, level, x, s, i)
    PROVE  Lowering(d0, r, N, level, x, LowerStep(s), i + 1)
<1>1. PICK d, p, hi :
        /\ s = [pages |-> d, at |-> p, key |-> x] /\ p \in N
        /\ level[p] + i = level[r] \/ level[p] = 0
        /\ Built(d, r, N, level, hi) /\ Covers(d, r, hi, p, x) /\ Kept(d0, N, d, N)
        /\ \A q \in N : d[q].leaf = d0[q].leaf /\ Size(d[q]) = Size(d0[q])
  BY DEF Lowering
<1>2. s.pages = d /\ s.at = p /\ s.key = x
  BY <1>1
<1>3. CASE level[p] = 0
  <2>1. LowerStep(s) = s
    BY <1>1, <1>2, <1>3, NodeEntries DEF LowerStep
  <2> QED
    BY <1>1, <1>3, <2>1 DEF Lowering
<1>4. CASE level[p] # 0
  <2> DEFINE j == Followed(d[p], x)
             k == Min({d[p].entries[j].key, x})
             d2 == [d EXCEPT ![p].entries[j].key = k]
             e2 == [d[p].entries[j] EXCEPT !.key = k]
             c == d[p].entries[j].child
             t == LowerStep(s)
  <2>1. ~d[p].leaf /\ p \in DOMAIN d
    BY <1>1, <1>4, NodeEntries
  <2>2. d[p].entries # << >>
    BY <1>1, <1>4 DEF Size
  <2> DEFINE u == [s EXCEPT !.pages[p].entries[j].key = k, !.at = c]
  <2>3. t = u
    BY <1>2, <2>1 DEF LowerStep
  <2> HIDE DEF j, k, c
  <2>4. u = [pages |-> d2, at |-> c, key |-> x]
    <3>1. u = [s EXCEPT !.pages = d2, !.at = c]
      BY <1>2
    <3> HIDE DEF d2, u
    <3> QED
      BY <1>1, <3>1
  <2>5. IsLowered(d, p, j, x, d2, e2)
    BY <2>1 DEF IsLowered, IsRekeyed, k
  <2> HIDE DEF d2, e2, u, t
  <2>6. /\ \E h : Built(d2, r, N, level, h) /\ Covers(d2, r, h, c, x)
        /\ c \in N /\ level[c] + 1 = level[p] /\ Kept(d, N, d2, N)
        /\ \A q \in N : d2[q].leaf = d[q].leaf /\ Size(d2[q]) = Size(d[q])
    <3>1. j = Followed(d[p], x) /\ c = d[p].entries[j].child
      BY DEF j, c
    <3> QED
      <4>1. HasPassed(d, r, N, level, p, j, x, d2)
        BY <1>1, <1>4, <2>2, <2>5, <3>1, Lowers
      <4> QED
        BY <3>1, <4>1 DEF HasPassed
  <2>7. PICK h : Built(d2, r, N, level, h) /\ Covers(d2, r, h, c, x)
    BY <2>6
  <2>8. level[c] + (i + 1) = level[r]
    <3>1. level[c] \in Nat /\ level[p] \in Nat /\ level[p] + i = level[r]
      BY <1>1, <1>4, <2>6
    <3> QED
      BY <2>6, <3>1
  <2>9. Kept(d0, N, d2, N)
    BY <1>1, <2>6, KeptOn
  <2>10. \A q \in N : d2[q].leaf = d0[q].leaf /\ Size(d2[q]) = Size(d0[q])
    BY <1>1, <2>6
  <2>11. Lowering(d0, r, N, level, x, u, i + 1)
    BY <2>4, <2>6, <2>7, <2>8, <2>9, <2>10 DEF Lowering
  <2> QED
    BY <2>3, <2>11 DEF t
<1> QED
  BY <1>3, <1>4

LowDescent == INSTANCE OrderProofs WITH Step <- LowerStep

(* The leaf that may have the new key, and the pages then. *)
IsPlaceFor(d0, r, N, level, x, t) ==
    \E hi :
        /\ t.at \in N /\ level[t.at] = 0
        /\ Built(t.pages, r, N, level, hi) /\ Covers(t.pages, r, hi, t.at, x)
        /\ Kept(d0, N, t.pages, N)
        /\ \A q \in N : t.pages[q].leaf = d0[q].leaf /\ Size(t.pages[q]) = Size(d0[q])

(* searchIntoLeafInsert *)
LEMMA PlaceIsFound ==
    ASSUME NEW d, NEW r, NEW N, NEW level, NEW hi, Built(d, r, N, level, hi), Full(d, r, N), NEW x \in Keys
    PROVE  IsPlaceFor(d, r, N, level, x, LeafForInsert(d, r, x))
<1> DEFINE start == Search(d, r, x)
           n == Bound(d)
           At(i) == LowDescent!After(start, i)
           K == {i \in 0..n : Lowering(d, r, N, level, x, At(i), i)}
<1>1. /\ n \in Nat /\ level[r] \in Nat /\ level[r] < n /\ r \in N
      /\ \A q \in N : level[q] \in Nat
      /\ \A q \in N : level[q] # 0 => Size(d[q]) >= 2
  BY Inhabited
<1>2. At(0) = start /\ \A i \in Nat : At(i + 1) = LowerStep(At(i))
  BY LowDescent!Iterations
<1> HIDE DEF At, start
<1>3. 0 \in K
  <2>1. PICK hi2 : Shape(d, r, N, level, hi2) /\ x < hi2[r]
    <3>1. x \in Int /\ Shape(d, r, N, level, hi)
      BY KeysAssumption DEF Built
    <3> QED
      BY <3>1, ShapeRaised
  <2>2. Built(d, r, N, level, hi2) /\ Covers(d, r, hi2, r, x)
    BY <2>1 DEF Built, Covers
  <2>3. Kept(d, N, d, N)
    BY DEF Kept
  <2>4. start = [pages |-> d, at |-> r, key |-> x] /\ level[r] + 0 = level[r]
    BY <1>1 DEF start, Search
  <2>5. Lowering(d, r, N, level, x, start, 0)
    BY <1>1, <2>2, <2>3, <2>4 DEF Lowering
  <2> QED
    BY <1>1, <1>2, <2>5
<1>4. ASSUME NEW i \in 0..n-1, i \in K PROVE i + 1 \in K
  <2>1. i \in Nat /\ i + 1 \in 0..n
    BY <1>1
  <2>2. Lowering(d, r, N, level, x, LowerStep(At(i)), i + 1)
    BY <1>1, <1>4, <2>1, LoweringGoesOn
  <2> QED
    BY <1>2, <2>1, <2>2
<1>5. K = 0..n
  <2>1. K \in SUBSET (0..n) /\ \A i \in 0..n-1 : i \in K => i + 1 \in K
    BY <1>4
  <2> HIDE DEF K, n
  <2> QED
    BY <1>1, <1>3, <2>1, InductionUpTo
<1>6. Lowering(d, r, N, level, x, At(n), n)
  BY <1>1, <1>5
<1>7. LeafForInsert(d, r, x) = At(n)
  BY DEF LeafForInsert, Loop, LowDescent!After, At, start
<1> DEFINE t == At(n)
<1> HIDE DEF t
<1>8. PICK d2, p, h :
        /\ t = [pages |-> d2, at |-> p, key |-> x] /\ p \in N
        /\ level[p] + n = level[r] \/ level[p] = 0
        /\ Built(d2, r, N, level, h) /\ Covers(d2, r, h, p, x) /\ Kept(d, N, d2, N)
        /\ \A q \in N : d2[q].leaf = d[q].leaf /\ Size(d2[q]) = Size(d[q])
  BY <1>6 DEF Lowering, t
<1>9. level[p] = 0
  BY <1>1, <1>8
<1>10. t.pages = d2 /\ t.at = p
  BY <1>8
<1>11. IsPlaceFor(d, r, N, level, x, t)
  BY <1>8, <1>9, <1>10 DEF IsPlaceFor
<1> QED
  BY <1>7, <1>11 DEF t

(* A leaf that may have x is the only one. *)
LEMMA PlaceIsOnly ==
    ASSUME NEW d, NEW r, NEW N, NEW level, NEW hi, Built(d, r, N, level, hi),
           NEW x \in Int, NEW p \in N, level[p] = 0, Covers(d, r, hi, p, x)
    PROVE  IsLeafFor(d, r, N, level, hi, x, p)
<1>1. Shape(d, r, N, level, hi)
  BY DEF Built
<1>2. ASSUME NEW q \in N, level[q] = 0, q # p, Covers(d, r, hi, q, x) PROVE FALSE
  <2>1. \A a, b \in N : level[a] = level[b] /\ a # b => Before(d, r, hi, a, b) \/ Before(d, r, hi, b, a)
    BY <1>1, Apart
  <2>2. ASSUME NEW a \in N, NEW b \in N, Before(d, r, hi, a, b), Covers(d, r, hi, a, x), Covers(d, r, hi, b, x)
        PROVE  FALSE
    <3>1. b \in N \ {r} /\ x < hi[a] /\ hi[a] \in Int
      BY <1>1, <2>2 DEF Before, Covers, Shape, Limited
    <3>2. PICK g \in Ent(d, d[b].parent) : g.child = b /\ g.key <= x
      BY <1>1, <2>2, <3>1, FatherCovers
    <3>3. hi[a] <= g.key /\ g.key \in Int
      <4>1. d[b].parent \in N
        BY <1>1, <3>1 DEF Shape, Fathered
      <4> QED
        BY <1>1, <2>2, <3>2, <4>1 DEF Before, Shape, Keyed
    <3> QED
      BY <3>1, <3>2, <3>3
  <2> QED
    BY <1>2, <2>1, <2>2
<1> QED
  BY <1>2 DEF IsLeafFor, OnlyAt
=============================================================================
