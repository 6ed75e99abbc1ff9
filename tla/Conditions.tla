----------------------------- MODULE Conditions -----------------------------
(***************************************************************************)
(* The conditions of a search, src/condition, and the numbers they work    *)
(* with.                                                                   *)
(*                                                                         *)
(* A number is a pair <<n, p>>: n and p parts of 1, so that int and double *)
(* are told apart without fractions.  A field is a triple of its type and  *)
(* a number; a string is known by its length.                              *)
(***************************************************************************)
EXTENDS Integers, Sequences

CONSTANTS
    Unit,       \* parts of 1 that the model tells apart
    Epsilon,    \* EPOSILO of SystemVisitor.cc, in parts
    MinInt,     \* INT32_MIN
    MaxInt      \* INT32_MAX

ASSUME UnitAssumption == Unit \in Nat /\ Epsilon \in 1..Unit-1
ASSUME IntAssumption == MinInt \in Int /\ MaxInt \in Int /\ MinInt < 0 /\ 0 < MaxInt

Numbers == Int \X (0..Unit-1)
Whole(n) == <<n, 0>>

Field(type, number) == <<type, number[1], number[2]>>
TypeOf(field) == field[1]
NumberOf(field) == <<field[2], field[3]>>

Below(a, b) == a[1] < b[1] \/ (a[1] = b[1] /\ a[2] < b[2])
AtMost(a, b) == a = b \/ Below(a, b)

PlusEpsilon(a) ==
    IF a[2] + Epsilon < Unit THEN <<a[1], a[2] + Epsilon>> ELSE <<a[1] + 1, a[2] + Epsilon - Unit>>

(* The least double above 0, although the code wants one below all, and    *)
(* a double above all.                                                     *)
DBL_MIN == <<0, 1>>
DBL_MAX == <<MaxInt + 2, 0>>

-----------------------------------------------------------------------------
(* Two fields, in field/compare.cc: strings are never less and never equal. *)

NumericTypes == {"INT", "FLOAT"}
Less(a, b, type) == type \in NumericTypes /\ Below(NumberOf(a), NumberOf(b))
Equal(a, b, type) == type \in NumericTypes /\ NumberOf(a) = NumberOf(b)

-----------------------------------------------------------------------------
(* The integers of an interval of doubles. *)

ceil(a) == IF a[2] = 0 THEN a[1] ELSE a[1] + 1

(* A double that no int holds converts to INT32_MIN (x86-64). *)
ToInt(n) == IF n \in MinInt..MaxInt THEN n ELSE MinInt

(* Mutant: a bound is cut like any other double in C++. *)
IntMin_Truncated(min) == IF Below(min, Whole(MinInt)) THEN MinInt ELSE ToInt(min[1])

IntMin(min) == IF Below(min, Whole(MinInt)) THEN MinInt ELSE ToInt(ceil(min))
IntMax(max) == IF Below(Whole(MaxInt), max) THEN MaxInt ELSE ToInt(ceil(max))

-----------------------------------------------------------------------------
(* The classes of conditions. *)

RangeCondition(pos, min, max) == [type |-> "RANGE", pos |-> pos, min |-> min, max |-> max]
NotCondition(cond) == [type |-> "NOT", cond |-> cond]
JoinCondition(a, b) == [type |-> "JOIN", a |-> a, b |-> b]

(* The keys of the interval, for Index::Range. *)
IndexCondition(table, column, min, max, keyType) ==
    [type |-> "INDEX", table |-> table, column |-> column,
     low  |-> Field(keyType, IF keyType = "INT" THEN Whole(IntMin(min)) ELSE min),
     high |-> Field(keyType, IF keyType = "INT" THEN Whole(IntMax(max)) ELSE max)]

InRange(field, low, high) ==
    AtMost(NumberOf(low), NumberOf(field)) /\ Below(NumberOf(field), NumberOf(high))

(* RangeCondition::Match: TRUE, FALSE, or an assertion fails. *)
RangeMatches(cond, row) ==
    LET field == row[cond.pos]
    IN  \/ /\ TypeOf(field) = "INT"
           /\ IntMin(cond.min) <= field[2]
           /\ field[2] < IntMax(cond.max)
        \/ /\ TypeOf(field) = "FLOAT"
           /\ AtMost(cond.min, NumberOf(field))
           /\ Below(NumberOf(field), cond.max)

(* Match of all classes but IndexCondition's and JoinCondition's, which    *)
(* always match.                                                           *)
Match(cond, row) ==
    CASE cond.type = "RANGE" -> RangeMatches(cond, row)
      [] cond.type = "NOT"   -> ~RangeMatches(cond.cond, row)
      [] cond.type \in {"INDEX", "JOIN"} -> TRUE

AssertFails(cond, row) ==
    LET range == IF cond.type = "NOT" THEN cond.cond ELSE cond
    IN  range.type = "RANGE" /\ TypeOf(row[range.pos]) = "STRING"

(* Mutant: the first condition that matches decides. *)
AndMatches_Any(conds, row) == conds = << >> \/ \E i \in DOMAIN conds : Match(conds[i], row)

(* AndCondition::Match.  The conditions behind one that does not match are *)
(* not looked at.                                                          *)
AndMatches(conds, row) == \A i \in DOMAIN conds : Match(conds[i], row)
AndAssertFails(conds, row) ==
    \E i \in DOMAIN conds :
        /\ AssertFails(conds[i], row)
        /\ \A j \in 1..i-1 : Match(conds[j], row) /\ ~AssertFails(conds[j], row)

-----------------------------------------------------------------------------
(* The interval of an operator and its literal, in                         *)
(* SystemVisitor::visitWhere_operator_expression.                          *)

Operators == {"<", "<=", "=", ">=", ">", "<>"}

LowOf(operate, value) ==
    CASE operate \in {"<", "<="}       -> DBL_MIN
      [] operate \in {"=", ">=", "<>"} -> value
      [] operate = ">"                 -> PlusEpsilon(value)

HighOf(operate, value) ==
    CASE operate = "<"                 -> value
      [] operate \in {"<=", "=", "<>"} -> PlusEpsilon(value)
      [] operate \in {">", ">="}       -> DBL_MAX

(* Without an index on the column, at position pos of the table. *)
Comparison(pos, operate, value) ==
    LET range == RangeCondition(pos, LowOf(operate, value), HighOf(operate, value))
    IN  IF operate = "<>" THEN NotCondition(range) ELSE range

(* With one: <> is never answered from it. *)
IndexedComparison(table, column, pos, keyType, operate, value) ==
    IF operate = "<>" THEN Comparison(pos, operate, value)
    ELSE IndexCondition(table, column, LowOf(operate, value), HighOf(operate, value), keyType)

-----------------------------------------------------------------------------
(* What the operators mean. *)

Compares(number, operate, value) ==
    CASE operate = "<"  -> Below(number, value)
      [] operate = "<=" -> AtMost(number, value)
      [] operate = "="  -> number = value
      [] operate = ">=" -> AtMost(value, number)
      [] operate = ">"  -> Below(value, number)
      [] operate = "<>" -> number # value

(* The values that take part in no disagreement: the positive ints (< and  *)
(* <= begin their interval behind 0) below INT32_MAX, which stands for     *)
(* infinity; literals below INT32_MAX that no integer follows within       *)
(* EPOSILO.                                                                *)
PlainInts == 1..MaxInt-1
PlainLiterals == (MinInt..MaxInt-1) \X (0..Unit-Epsilon)

(* The conditions made of WHERE compare the int x with any literal the way *)
(* SQL does, with an index and without (SystemVisitor.cc:318-374).         *)
ComparesLikeSQL(x) ==
    \A v \in PlainLiterals, operate \in Operators :
        LET row   == <<Field("INT", Whole(x))>>
            index == IndexedComparison(1, 1, 1, "INT", operate, v)
        IN  /\ Match(Comparison(1, operate, v), row) <=> Compares(Whole(x), operate, v)
            /\ operate # "<>" =>
                  (InRange(row[1], index.low, index.high) <=> Compares(Whole(x), operate, v))
=============================================================================
