------------------------------- MODULE Query --------------------------------
(***************************************************************************)
(* The SQL front end: Execute parses a line, SystemVisitor visits its      *)
(* statements one after the other and turns each into calls of Instance;   *)
(* Join puts the rows of two tables together.  The rows were inserted by   *)
(* transaction 0 before the front end opened; names are numbers.           *)
(*                                                                         *)
(* CREATE TABLE, DROP TABLE, SHOW and DESC work on the catalogs (Catalog). *)
(***************************************************************************)
EXTENDS Database

SQL == INSTANCE Parser

CONSTANTS
    Programs,   \* the lines clients may send, as the trees of their statements
    OtherLines, \* more lines, as tokens; some are no SQL
    Sentences,  \* lines the parser is checked with, as trees
    Texts,      \* and as tokens, in any order
    RowsOf,     \* the rows the tables may hold in the beginning
    HashFrom    \* 1024: rows of a table from which on Join hashes

Lines == {SQL!ProgramText(p) : p \in Programs} \union OtherLines
Parsed == [line \in Lines |-> SQL!program(SQL!Lexed(line))]

ComparesColumns(c) == "column" \in DOMAIN c.expression
IsName(t, c) == t \in Tables => \E i \in DOMAIN Columns[t] : Columns[t][i].name = c

(* What the parser makes of a line.  The columns are those of the tables:  *)
(* a look-up of another enters it (Catalog).  Keys are no strings.         *)
IsComparison(c) ==
    /\ IsName(c.column.table, c.column.column)
    /\ ~ComparesColumns(c) => c.operate \in Operators /\ c.expression.value \in RawTexts
IsStatement(s) ==
    /\ s.kind \in {"select", "delete", "update"} =>
          s.where \in Seq(ToSet(s.where)) /\ \A c \in ToSet(s.where) : IsComparison(c)
    /\ s.kind = "select" => s.tables \in Seq(Int)
    /\ s.kind = "update" =>
          /\ s.set \in Seq(ToSet(s.set))
          /\ \A x \in ToSet(s.set) : IsName(s.table, x.column) /\ x.value \in RawTexts
    /\ s.kind \in {"add index", "drop index"} =>
          /\ s = [kind |-> s.kind, table |-> s.table, columns |-> s.columns]
          /\ s.columns \in Seq(ToSet(s.columns)) /\ s.columns # << >>
          /\ \A c \in ToSet(s.columns) :
                /\ IsName(s.table, c)
                /\ s.table \in Tables => GetType(s.table, c) \in NumericTypes

ASSUME LinesAssumption ==
    \A read \in Range(Parsed) : read.at # 0 =>
        read.tree \in Seq(ToSet(read.tree)) /\ \A s \in ToSet(read.tree) : IsStatement(s)
ASSUME RowsAssumption ==
    \A r \in RowsOf :
        /\ r \in [Slots -> Seq(Fields) \union {NoRow}]
        /\ \A loc \in Slots : r[loc] # NoRow =>
              Fits(r[loc], TableOf(loc)) /\ Stored(r[loc], Columns[TableOf(loc)]) = r[loc]

(* The comparisons with a literal in any of the lines.                     *)
Statements == UNION {ToSet(read.tree) : read \in {r \in Range(Parsed) : r.at # 0}}
Compared ==
    UNION {{c \in ToSet(s.where) : ~ComparesColumns(c)} :
              s \in {s \in Statements : s.kind \in {"select", "delete", "update"}}}
IsCompared(t, name) == \E c \in Compared : c.column.table = t /\ c.column.column = name

(* Lines and rows that use no value which ComparesLikeSQL leaves out, and  *)
(* no double at or below 0, or behind a literal within EPOSILO.            *)
IsPlainFloat(x) ==
    /\ AtMost(DBL_MIN, x) /\ Below(x, DBL_MAX)
    /\ \A c \in Compared :
          Below(stod(c.expression.value), x) => AtMost(PlusEpsilon(stod(c.expression.value)), x)
IsPlainField(field) ==
    /\ TypeOf(field) = "INT" => field[2] \in PlainInts /\ field[3] = 0
    /\ TypeOf(field) = "FLOAT" => IsPlainFloat(NumberOf(field))
IsPlainRow(row, t) ==
    \A i \in DOMAIN Columns[t] : IsCompared(t, Columns[t][i].name) => IsPlainField(row[i])
PlainLines ==
    /\ \A c \in Compared :
          stodThrows(c.expression.value) \/ stod(c.expression.value) \in PlainLiterals
    /\ \A r \in RowsOf : \A loc \in Slots : r[loc] # NoRow => IsPlainRow(r[loc], TableOf(loc))
    /\ \A s \in {s \in Statements : s.kind = "update"} : \A x \in ToSet(s.set) :
          s.table \in Tables /\ IsCompared(s.table, x.column) =>
                LET type == GetType(s.table, x.column)
                IN  FieldThrows(x.value, type) \/ IsPlainField(FieldOf(x.value, type))

VARIABLE pending    \* the statements of the line that are still to be visited

allVars == <<vars, pending>>

InitQuery ==
    /\ rows \in RowsOf
    /\ entries = << >>
    /\ nextTxnID = 1
    /\ activeTxns = {}
    /\ snapshot = [x \in TxnIDs |-> {0}]
    /\ insertHistory = [x \in TxnIDs |-> << >>]
    /\ alive = TRUE
    /\ reply = Outcome("Open", "ok")
    /\ pending = << >>

(* backend.cc, Execute: the whole line is parsed before it is visited. *)
ReadLine ==
    /\ alive
    /\ pending = << >>
    /\ \E read \in Range(Parsed) :
        /\ pending' = IF read.at = 0 THEN << >> ELSE read.tree
        /\ reply' = Outcome("Parse", IF read.at = 0 THEN "exception" ELSE "ok")
    /\ UNCHANGED <<tables, txns, alive>>

(* An exception leaves visitProgram: the rest of the line is forgotten. *)
Aborts(call) == Throws(call) /\ pending' = << >>
Crashes(call) == Dies(call) /\ pending' = << >>

-----------------------------------------------------------------------------
(* WHERE *)

(* visitWhere_operator_expression: the column's table must exist; what it  *)
(* is compared with must start with a number.                              *)
WhereThrows(where) ==
    \E i \in DOMAIN where :
        \/ where[i].column.table \notin Tables
        \/ ~ComparesColumns(where[i]) /\ stodThrows(where[i].expression.value)

ConditionOf(c) ==
    LET t   == c.column.table
        col == c.column.column
        pos == GetPos(t, col)
    IN  IF ComparesColumns(c) THEN JoinCondition(c.column, c.expression.column)
        ELSE IF IsIndex(t, col)
             THEN IndexedComparison(t, col, pos, GetType(t, col), c.operate, stod(c.expression.value))
             ELSE Comparison(pos, c.operate, stod(c.expression.value))

(* visitWhere_and_clause: the conditions by table, those that join under a *)
(* name of their own; then those of a table that an index answers apart    *)
(* from the others.                                                        *)
JoinKey == 0

On(t, where) == {i \in DOMAIN where : ~ComparesColumns(where[i]) /\ where[i].column.table = t}
ByIndex(t, where) ==
    {i \in On(t, where) : IsIndex(t, where[i].column.column) /\ where[i].operate # "<>"}

Visited(where, P) ==
    FlattenSeq([i \in DOMAIN where |-> IF i \in P THEN <<ConditionOf(where[i])>> ELSE << >>])

(* Mutant: index conditions are left to the scan, where they always match. *)
ConditionsOn_NoIndex(t, where) == [other |-> Visited(where, On(t, where)), index |-> << >>]

ConditionsOn(t, where) ==
    [other |-> Visited(where, On(t, where) \ ByIndex(t, where)),
     index |-> Visited(where, ByIndex(t, where))]
JoinConditions(where) == Visited(where, {i \in DOMAIN where : ComparesColumns(where[i])})
Keys(where) ==
    {IF ComparesColumns(where[i]) THEN JoinKey ELSE where[i].column.table : i \in DOMAIN where}

-----------------------------------------------------------------------------
(* Instance::Join, of rows of the tables t and u, t before u.  Of several  *)
(* join conditions the first one counts.                                   *)

Sorted(found, pos, type) == SortSeq(found, LAMBDA a, b : Less(a[pos], b[pos], type))

(* Mutant: the right side goes on after every left row. *)
NextLast_Always(left, i, p, type, last, stop) == stop

(* Where the next left row starts: behind the rows that matched this one,  *)
(* if its key is another.                                                  *)
NextLast(left, i, p, type, last, stop) ==
    IF i < Len(left) /\ ~Equal(left[i][p], left[i + 1][p], type) THEN stop ELSE last

(* The loop over the sorted sides.  Each left row meets the right rows     *)
(* from `last' on, as long as their keys are equal.                        *)
Merged(left, right, p, q, type) ==
    LET Equals(i, j) == Equal(left[i][p], right[j][q], type)
        Stop(i, last) ==
            CHOOSE j \in last..Len(right) + 1 :
                /\ \A k \in last..j-1 : Equals(i, k)
                /\ j \in DOMAIN right => ~Equals(i, j)
        Step(state, i) ==
            LET stop == Stop(i, state.last)
            IN  [rows |-> state.rows \o [k \in 1..stop-state.last |->
                              Joined(left[i], right[state.last + k - 1])],
                 last |-> NextLast(left, i, p, type, state.last, stop)]
    IN  FoldLeft(Step, [rows |-> << >>, last |-> 1], [i \in DOMAIN left |-> i]).rows

(* The hash map of the left side, asked for every row of the right side.   *)
Hashed(left, right, p, q) ==
    FlattenSeq([j \in DOMAIN right |->
        FlattenSeq([i \in DOMAIN left |->
            IF left[i][p] = right[j][q] THEN <<Joined(left[i], right[j])>> ELSE << >>])])

Hashes(left, right) == Len(left) >= HashFrom \/ Len(right) >= HashFrom

(* Table::GetPos: a name that no column has is entered as the first one.   *)
PosOf(t, name) == IF \E i \in DOMAIN Columns[t] : Columns[t][i].name = name THEN GetPos(t, name) ELSE 1

(* The columns of t and u that are compared.  Only the table on the left   *)
(* of the condition is looked at: one that is not t is taken to be u.      *)
JoinPos(t, u, conds) ==
    LET c == Head(conds)
    IN  IF c.a.table = t THEN <<PosOf(t, c.a.column), PosOf(u, c.b.column)>>
        ELSE <<PosOf(t, c.b.column), PosOf(u, c.a.column)>>
JoinTypes(t, u, conds) ==
    LET pos == JoinPos(t, u, conds) IN <<Columns[t][pos[1]].type, Columns[u][pos[2]].type>>

(* There is no condition; the types differ; or a hash of no ints. *)
JoinCrashes(t, u, conds, left, right) ==
    \/ conds = << >>
    \/ JoinTypes(t, u, conds)[1] # JoinTypes(t, u, conds)[2]
    \/ Hashes(left, right) /\ JoinTypes(t, u, conds)[1] # "INT"

Join(t, u, conds, left, right) ==
    LET p    == JoinPos(t, u, conds)[1]
        q    == JoinPos(t, u, conds)[2]
        type == JoinTypes(t, u, conds)[1]
    IN  IF Hashes(left, right) THEN Hashed(left, right, p, q)
        ELSE Merged(Sorted(left, p, type), Sorted(right, q, type), p, q, type)

-----------------------------------------------------------------------------
(* The visits.  A step is a call of Instance, or as many reads as a SELECT *)
(* needs.                                                                  *)

Statement(kind) == alive /\ pending # << >> /\ Head(pending).kind = kind

(* What is left of the line after the statement at its head. *)
Rest == IF alive' /\ reply'.end = "ok" THEN Tail(pending) ELSE << >>

(* visitProgram passes over comments and empty statements. *)
Skip ==
    /\ Statement("NULL") \/ Statement("Annotation")
    /\ pending' = Tail(pending)
    /\ UNCHANGED vars

(* The rows of one answer to each search of a SELECT. *)
Found(s, conds) ==
    LET searches == [i \in DOMAIN s.tables |-> Searches(s.tables[i], NoTxn, conds[i])]
    IN  {f \in [DOMAIN s.tables -> UNION ToSet(searches)] : \A i \in DOMAIN f : f[i] \in searches[i]}

(* The tables that are missing or fail in a scan. *)
Failing(s, conds) ==
    {i \in DOMAIN s.tables :
        s.tables[i] \notin Tables \/ SearchAssertFails(s.tables[i], conds[i])}

Answers(answer) ==
    /\ reply' = [call |-> "Select", end |-> "ok", answer |-> answer]
    /\ pending' = Tail(pending)
    /\ UNCHANGED <<tables, txns, alive>>

(* A table that is named again is searched again, by conditions that the   *)
(* search before has deleted: as good as whole, or the end of the program. *)
ReadsDeleted(s) ==
    \E i, k \in DOMAIN s.tables :
        /\ i < k /\ s.tables[i] = s.tables[k] /\ On(s.tables[i], s.where) # {}
        /\ ToSet(SubSeq(s.tables, 1, k)) \subseteq Tables

(* visitSelect_table.  Tables between the first and the last name are      *)
(* searched and left out; aggregates, GROUP BY and LIMIT are not looked at. *)
SelectFrom(s, conds, joins) ==
    LET first == CHOOSE i \in DOMAIN s.tables : \A k \in DOMAIN s.tables : s.tables[i] <= s.tables[k]
        last  == CHOOSE i \in DOMAIN s.tables : \A k \in DOMAIN s.tables : s.tables[k] <= s.tables[i]
        fails == Failing(s, conds)
    IN  \/ ReadsDeleted(s) /\ Crashes("Select")
        \/ IF fails # {}
           THEN IF s.tables[CHOOSE i \in fails : \A k \in fails : i <= k] \in Tables
                THEN Crashes("Select") ELSE Aborts("Select")
           ELSE \E found \in Found(s, conds) :
                  LET left  == [i \in DOMAIN found[first] |-> rows[found[first][i]]]
                      right == [i \in DOMAIN found[last] |-> rows[found[last][i]]]
                  IN  IF NoRow \in ToSet(left) \union ToSet(right) THEN Aborts("Select")
                      ELSE IF s.tables[first] = s.tables[last] THEN Answers(left)
                      ELSE IF JoinCrashes(s.tables[first], s.tables[last], joins, left, right)
                           THEN Crashes("Select")
                      ELSE Answers(Join(s.tables[first], s.tables[last], joins, left, right))

Select ==
    /\ Statement("select")
    /\ LET s == Head(pending)
       IN  IF WhereThrows(s.where) THEN Aborts("Select")
           ELSE \E conds \in {[i \in DOMAIN s.tables |-> ConditionsOn(s.tables[i], s.where)]} :
                    SelectFrom(s, conds, JoinConditions(s.where))

(* visitDelete_from_table: the conditions must be on one table, or joins,  *)
(* but nobody asks on which.                                               *)
DeleteStatement ==
    /\ Statement("delete")
    /\ LET s == Head(pending)
       IN  IF WhereThrows(s.where) THEN Aborts("Delete")
           ELSE IF Cardinality(Keys(s.where)) # 1 THEN Crashes("Delete")
           ELSE \E cond \in {ConditionsOn(s.table, s.where)} :
                    Delete(s.table, cond) /\ pending' = Rest

(* visitSet_clause and visitUpdate_table *)
TransformsOf(s) ==
    [i \in DOMAIN s.set |->
        [pos |-> GetPos(s.table, s.set[i].column), type |-> GetType(s.table, s.set[i].column),
         raw |-> s.set[i].value]]

UpdateStatement ==
    /\ Statement("update")
    /\ LET s == Head(pending)
       IN  IF WhereThrows(s.where) THEN Aborts("Update")
           ELSE IF Cardinality(Keys(s.where)) # 1 THEN Crashes("Update")
           ELSE IF s.table \notin Tables THEN Aborts("Update")
           ELSE \E cond \in {ConditionsOn(s.table, s.where)}, trans \in {TransformsOf(s)} :
                    Update(s.table, cond, trans) /\ pending' = Rest

(* visitInsert_into_table: the first row without a transaction ends it. *)
InsertStatement ==
    /\ Statement("insert")
    /\ Insert(NoTxn, Head(pending).table, Head(Head(pending).values))
    /\ pending' = Rest

(* visitAlter_add_index and visitAlter_drop_index: a step for each column; *)
(* an exception ends the step alone.                                       *)
NextColumn ==
    IF ~alive' THEN << >>
    ELSE IF Len(Head(pending).columns) > 1 THEN [pending EXCEPT ![1].columns = Tail(@)]
    ELSE Tail(pending)

AddIndex ==
    /\ Statement("add index")
    /\ CreateIndex(Head(pending).table, Head(Head(pending).columns))
    /\ pending' = NextColumn

DropIndexStatement ==
    /\ Statement("drop index")
    /\ DropIndex(Head(pending).table, Head(Head(pending).columns))
    /\ pending' = NextColumn

Visit ==
    \/ Skip
    \/ Select
    \/ DeleteStatement
    \/ UpdateStatement
    \/ InsertStatement
    \/ AddIndex
    \/ DropIndexStatement

NextQuery == ReadLine \/ Visit

SpecQuery == InitQuery /\ [][NextQuery]_allVars
-----------------------------------------------------------------------------
(* The rows of t that the comparisons where[i], i in P, select in SQL.     *)
Selected(t, where, P) ==
    {loc \in LocationsOf(t) :
        /\ rows[loc] # NoRow
        /\ \A i \in P : Compares(NumberOf(rows[loc][GetPos(t, where[i].column.column)]),
                                where[i].operate, stod(where[i].expression.value))}

(* Every row of the set as often as it is there, and no other. *)
AreRowsAt(answer, locs) ==
    /\ Len(answer) = Cardinality(locs)
    /\ \A row \in ToSet(answer) : Times(answer, row) = Cardinality({loc \in locs : rows[loc] = row})

SentencesAreRead ==
    \A p \in Sentences :
        \E read \in {SQL!program(SQL!ProgramText(p))} : read.at # 0 /\ read.tree = p
TextsAreRead ==
    \A line \in Texts :
        \E read \in {SQL!program(SQL!Lexed(line))} :
            read.at # 0 => SQL!ProgramText(read.tree) = SQL!Lexed(line)

(* The parser reads each statement as what was written, no token of a line *)
(* it accepts is passed over (SQLParser.cc, program), and what is left to  *)
(* be visited is the end of a line that a client has meant.                *)
LinesAreUnderstood ==
    /\ SentencesAreRead
    /\ TextsAreRead
    /\ pending # << >> => \E p \in Programs :
            /\ Len(pending) <= Len(p)
            /\ IsSuffix(Tail(pending), p)
            /\ Head(pending).kind = p[Len(p) + 1 - Len(pending)].kind

(* An index is whole when it has an entry for each row.  An UPDATE that    *)
(* fails between the old entries and the new ones leaves a row without any *)
(* (instance.cc:197-203).                                                  *)
IsWhole(index) == entries[index] = Indexed(index[1], index[2])

(* A SELECT of one table returns the rows that its comparisons select, but *)
(* when an index answers some of them the others are not looked at         *)
(* (instance.cc:106), and a Range may give up unless it asks for one key.  *)
SelectAnswers ==
    [][Statement("select") /\ reply'.end = "ok" /\ Len(Head(pending).tables) = 1 =>
            LET s     == Head(pending)
                t     == Head(s.tables)
                index == ByIndex(t, s.where)
            IN  IF index = {} THEN AreRowsAt(reply'.answer, Selected(t, s.where, On(t, s.where)))
                ELSE (\A i \in index : IsWhole(<<t, s.where[i].column.column>>)) =>
                        \/ AreRowsAt(reply'.answer, Selected(t, s.where, index))
                        \/ reply'.answer = << >> /\ \E i \in index : s.where[i].operate # "="
      ]_allVars

(* A join of two tables by columns of both, without an index, returns only *)
(* pairs of rows with equal keys, each once, and all of them if every row  *)
(* on the right has a partner: the merge never passes a right row that has *)
(* none (instance.cc:406-413).                                             *)
JoinAnswers ==
    [][Statement("select") /\ reply'.end = "ok" /\ Cardinality(ToSet(Head(pending).tables)) = 2 =>
            LET s     == Head(pending)
                t     == CHOOSE x \in ToSet(s.tables) : \A y \in ToSet(s.tables) : x <= y
                u     == CHOOSE x \in ToSet(s.tables) : x # t
                c     == Head(JoinConditions(s.where))
                KeyOf(x) == IF c.a.table = x THEN c.a.column ELSE c.b.column
                Key(loc) == rows[loc][GetPos(TableOf(loc), KeyOf(TableOf(loc)))]
                L     == Selected(t, s.where, On(t, s.where))
                R     == Selected(u, s.where, On(u, s.where))
                Meet(a, b) == Equal(Key(a), Key(b), GetType(t, KeyOf(t)))
                pairs == {p \in L \X R : Meet(p[1], p[2])}
                plain == /\ {c.a.table, c.b.table} = {t, u} /\ IsName(t, KeyOf(t)) /\ IsName(u, KeyOf(u))
                         /\ ByIndex(t, s.where) \union ByIndex(u, s.where) = {}
            IN  plain =>
                    /\ \A row \in ToSet(reply'.answer) :
                            Times(reply'.answer, row)
                                <= Cardinality({p \in pairs : Joined(rows[p[1]], rows[p[2]]) = row})
                    /\ (\A b \in R : \E a \in L : Meet(a, b)) =>
                            Len(reply'.answer) = Cardinality(pairs)
      ]_allVars

(* What a column holds of a literal: a string as far as it is wide. *)
AsColumn(value, column) ==
    LET field == FieldOf(value, column.type)
    IN  IF column.type = "STRING" THEN Field("STRING", Whole(Min({field[2], column.size}))) ELSE field

(* A DELETE or UPDATE whose comparisons are of its own table, and of       *)
(* columns without an index, changes the rows that they select and no      *)
(* other; one that fails changes none.                                     *)
ChangesAreExact ==
    [][Statement("delete") \/ Statement("update") =>
            LET s == Head(pending)
            IN  /\ reply'.end # "ok" => rows' = rows
                /\ reply'.end = "ok" /\ On(s.table, s.where) = DOMAIN s.where /\ ByIndex(s.table, s.where) = {} =>
                        \A loc \in Slots :
                            IF loc \notin Selected(s.table, s.where, DOMAIN s.where)
                            THEN rows'[loc] = rows[loc]
                            ELSE IF s.kind = "delete" THEN rows'[loc] = NoRow
                            ELSE \A i \in DOMAIN Columns[s.table] :
                                    LET sets == {k \in DOMAIN s.set : s.set[k].column = Columns[s.table][i].name}
                                    IN  IF sets = {} THEN rows'[loc][i] = rows[loc][i]
                                        ELSE \E k \in sets :
                                                rows'[loc][i] = AsColumn(s.set[k].value, Columns[s.table][i])
      ]_allVars

IntsLikeSQL == {x \in PlainInts : ComparesLikeSQL(x)}

(* Every positive int below INT32_MAX that a row holds is selected by the  *)
(* comparisons that SQL says, with any literal, in a scan and in the range *)
(* of an index.  0, which < and <= never select, the negative ints, which  *)
(* they never select either, and INT32_MAX are left out.                   *)
RowsCompareLikeSQL ==
    LET fields == UNION {Range(rows[loc]) : loc \in {l \in Slots : rows[l] # NoRow}}
    IN  \A field \in fields :
            TypeOf(field) = "INT" /\ field[2] \in PlainInts => field[2] \in IntsLikeSQL
=============================================================================
