------------------------------- MODULE Parser -------------------------------
(***************************************************************************)
(* The parser of the SQL front end, SQLParser.cc: what backend's Execute   *)
(* makes of a line of tokens before any statement of it runs.              *)
(*                                                                         *)
(* A token is a pair of its type and its text, a number.  A rule of the    *)
(* grammar, for a line s, is the function that the member function of      *)
(* SQLParser computes: from the place of a token to the place behind the   *)
(* phrase that starts there and the phrase's tree, what SystemVisitor      *)
(* reads of it.  The first syntax error throws a ParserException through   *)
(* all rules (ErrorListener.cc), so that no error recovery ever happens.   *)
(***************************************************************************)
EXTENDS Naturals, SequencesExt

Literals == {";", "SHOW", "TABLES", "INDEXES", "CREATE", "TABLE", "(", ")", "DROP", "DESC",
    "INSERT", "INTO", "VALUES", "DELETE", "FROM", "WHERE", "UPDATE", "SET", "SELECT", "GROUP",
    "BY", "LIMIT", "OFFSET", "ALTER", "ADD", "INDEX", ",", "INT", "VARCHAR", "FLOAT", "AND",
    ".", "*", "=", "<", "<=", ">", ">=", "<>", "COUNT", "AVG", "MAX", "MIN", "SUM", "NULL"}
Tokens == (Literals \X {0})
          \union ({"Identifier", "Integer", "String", "Float", "Annotation"} \X Nat)

Operators == {"=", "<", "<=", ">", ">=", "<>"}
Aggregators == {"COUNT", "AVG", "MAX", "MIN", "SUM"}
ValueTypes == {"NULL", "Integer", "String", "Float"}

Word(type) == <<type, 0>>
Name(n) == <<"Identifier", n>>

(* A token without its first character.  Names have one letter, keywords   *)
(* more, and what is left of a keyword is a name, 0, which no table has.   *)
Beheaded(token) ==
    CASE token[1] \in {";", "(", ")", ",", ".", "*", "=", "<", ">", "Identifier", "?"} -> << >>
      [] token[1] \in {"<=", ">="} -> <<Word("=")>>
      [] token[1] = "<>" -> <<Word(">")>>
      [] OTHER -> <<Name(0)>>

(***************************************************************************)
(* The tokens of a line.  Where no token begins, SQLLexer reports on the   *)
(* console, forgets what it has read and skips one more character: behind  *)
(* a minus, or a minus and digits, that is the first character of what     *)
(* comes next.  This is <<"-", n>>, or <<"?", n>> when the next character  *)
(* is white space, and when it was a character that starts no token.       *)
(* (Digits between a minus and a point are a Float, two minuses begin an   *)
(* Annotation; no line has a minus before a quote.)                        *)
(***************************************************************************)
Lexed(line) ==
    LET from[i \in 1..Len(line) + 1] ==
            IF i > Len(line) THEN << >>
            ELSE IF line[i][1] = "?" THEN from[i + 1]
            ELSE IF line[i][1] # "-" THEN <<line[i]>> \o from[i + 1]
            ELSE IF i = Len(line) THEN << >>
            ELSE Beheaded(line[i + 1]) \o from[i + 2]
    IN  from[1]

-----------------------------------------------------------------------------
(* How rules are put together. *)

Places(s) == 1..Len(s) + 1
Error == [at |-> 0, tree |-> 0]

(* _input->LA(1) *)
LA(s, i) == IF i \in DOMAIN s THEN s[i][1] ELSE "EOF"

match(s, type) ==
    [i \in Places(s) |-> IF LA(s, i) = type THEN [at |-> i + 1, tree |-> s[i][2]] ELSE Error]

(* A token of one of several types; its tree is the token. *)
matchAny(s, types) ==
    [i \in Places(s) |-> IF LA(s, i) \in types THEN [at |-> i + 1, tree |-> s[i]] ELSE Error]

(* One part after the other; the trees of the parts in a sequence. *)
inOrder(s, parts) ==
    [i \in Places(s) |->
        FoldLeft(LAMBDA read, part :
                    IF read.at = 0 THEN Error
                    ELSE LET next == part[read.at]
                         IN  IF next.at = 0 THEN Error
                             ELSE [at |-> next.at, tree |-> Append(read.tree, next.tree)],
                 [at |-> i, tree |-> << >>], parts)]

(* item (separator item)*, in the loops of the code: `while (_la == ...)'. *)
list(s, item, separator) ==
    LET from[i \in Places(s)] ==
            LET first == item[i]
            IN  IF first.at = 0 THEN Error
                ELSE IF LA(s, first.at) # separator
                     THEN [first EXCEPT !.tree = <<@>>]
                     ELSE LET rest == from[first.at + 1]
                          IN  IF rest.at = 0 THEN Error
                              ELSE [rest EXCEPT !.tree = <<first.tree>> \o @]
    IN  from

(* switch (_input->LA(1)): the rule for the type of the next token. *)
switch(s, rules) ==
    [i \in Places(s) |-> IF LA(s, i) \in DOMAIN rules THEN rules[LA(s, i)][i] ELSE Error]

(* if (_la == type): the rule, or nothing at all. *)
optional(s, type, rule) ==
    [i \in Places(s) |-> IF LA(s, i) = type THEN rule[i] ELSE [at |-> i, tree |-> << >>]]

(* adaptivePredict: as many tokens are looked at as tell the two apart. *)
predict(rule, other) == [i \in DOMAIN rule |-> IF rule[i].at # 0 THEN rule[i] ELSE other[i]]

as(rule, Tree(_)) ==
    [i \in DOMAIN rule |->
        LET read == rule[i] IN IF read.at = 0 THEN Error ELSE [read EXCEPT !.tree = Tree(@)]]

-----------------------------------------------------------------------------
(* The rules of SQL.g4. *)

column(s) ==
    as(inOrder(s, <<match(s, "Identifier"), match(s, "."), match(s, "Identifier")>>),
       LAMBDA t : [table |-> t[1], column |-> t[3]])

value(s) == matchAny(s, ValueTypes)

operate(s) == matchAny(s, Operators)

aggregator(s) == matchAny(s, Aggregators)

identifiers(s) == list(s, match(s, "Identifier"), ",")

expression(s) ==
    switch(s, [type \in ValueTypes \union {"Identifier"} |->
        IF type = "Identifier" THEN as(column(s), LAMBDA t : [column |-> t])
        ELSE as(value(s), LAMBDA t : [value |-> t])])

where_clause(s) ==
    as(inOrder(s, <<column(s), operate(s), expression(s)>>),
       LAMBDA t : [column |-> t[1], operate |-> t[2][1], expression |-> t[3]])

where_and_clause(s) == list(s, where_clause(s), "AND")

set_clause(s) ==
    list(s, as(inOrder(s, <<match(s, "Identifier"), match(s, "="), value(s)>>),
               LAMBDA t : [column |-> t[1], value |-> t[3]]), ",")

value_list(s) ==
    as(inOrder(s, <<match(s, "("), list(s, value(s), ","), match(s, ")")>>), LAMBDA t : t[2])

value_lists(s) == list(s, value_list(s), ",")

type_(s) ==
    LET plain(type) == as(match(s, type), LAMBDA t : [type |-> type, size |-> 0])
        varchar == inOrder(s, <<match(s, "VARCHAR"), match(s, "("), match(s, "Integer"), match(s, ")")>>)
    IN  switch(s, [type \in {"INT", "FLOAT", "VARCHAR"} |->
            IF type = "VARCHAR" THEN as(varchar, LAMBDA t : [type |-> "VARCHAR", size |-> t[3]])
            ELSE plain(type)])

field(s) ==
    as(inOrder(s, <<match(s, "Identifier"), type_(s)>>), LAMBDA t : [column |-> t[1], type |-> t[2]])

field_list(s) == list(s, field(s), ",")

selector(s) ==
    LET aggregate == as(inOrder(s, <<aggregator(s), match(s, "("), column(s), match(s, ")")>>),
                        LAMBDA t : [aggregator |-> t[1][1], column |-> t[3]])
        count == as(inOrder(s, <<match(s, "COUNT"), match(s, "("), match(s, "*"), match(s, ")")>>),
                    LAMBDA t : [aggregator |-> "COUNT"])
    IN  predict(as(column(s), LAMBDA t : [column |-> t]), predict(aggregate, count))

selectors(s) ==
    switch(s, [type \in {"*", "Identifier"} \union Aggregators |->
        IF type = "*" THEN as(match(s, "*"), LAMBDA t : << >>) ELSE list(s, selector(s), ",")])

(* GROUP BY, LIMIT and OFFSET are read, in this order, and ignored later. *)
select_table(s) ==
    as(inOrder(s, <<match(s, "SELECT"), selectors(s), match(s, "FROM"), identifiers(s),
                    optional(s, "WHERE",
                        as(inOrder(s, <<match(s, "WHERE"), where_and_clause(s)>>), LAMBDA t : t[2])),
                    optional(s, "GROUP",
                        inOrder(s, <<match(s, "GROUP"), match(s, "BY"), column(s)>>)),
                    optional(s, "LIMIT",
                        inOrder(s, <<match(s, "LIMIT"), match(s, "Integer"),
                                     optional(s, "OFFSET",
                                        inOrder(s, <<match(s, "OFFSET"), match(s, "Integer")>>))>>))>>),
       LAMBDA t : [kind |-> "select", selectors |-> t[2], tables |-> t[4], where |-> t[5],
                   group |-> t[6], limit |-> t[7]])

create_table(s) ==
    as(inOrder(s, <<match(s, "CREATE"), match(s, "TABLE"), match(s, "Identifier"),
                    match(s, "("), field_list(s), match(s, ")")>>),
       LAMBDA t : [kind |-> "create table", table |-> t[3], fields |-> t[5]])

drop_table(s) ==
    as(inOrder(s, <<match(s, "DROP"), match(s, "TABLE"), match(s, "Identifier")>>),
       LAMBDA t : [kind |-> "drop table", table |-> t[3]])

describe_table(s) ==
    as(inOrder(s, <<match(s, "DESC"), match(s, "Identifier")>>),
       LAMBDA t : [kind |-> "describe", table |-> t[2]])

insert_into_table(s) ==
    as(inOrder(s, <<match(s, "INSERT"), match(s, "INTO"), match(s, "Identifier"),
                    match(s, "VALUES"), value_lists(s)>>),
       LAMBDA t : [kind |-> "insert", table |-> t[3], values |-> t[5]])

delete_from_table(s) ==
    as(inOrder(s, <<match(s, "DELETE"), match(s, "FROM"), match(s, "Identifier"),
                    match(s, "WHERE"), where_and_clause(s)>>),
       LAMBDA t : [kind |-> "delete", table |-> t[3], where |-> t[5]])

update_table(s) ==
    as(inOrder(s, <<match(s, "UPDATE"), match(s, "Identifier"), match(s, "SET"), set_clause(s),
                    match(s, "WHERE"), where_and_clause(s)>>),
       LAMBDA t : [kind |-> "update", table |-> t[2], set |-> t[4], where |-> t[6]])

TableStatements == {"CREATE", "DROP", "DESC", "INSERT", "DELETE", "UPDATE", "SELECT"}

table_statement(s) ==
    switch(s, [type \in TableStatements |->
        CASE type = "CREATE" -> create_table(s)
          [] type = "DROP"   -> drop_table(s)
          [] type = "DESC"   -> describe_table(s)
          [] type = "INSERT" -> insert_into_table(s)
          [] type = "DELETE" -> delete_from_table(s)
          [] type = "UPDATE" -> update_table(s)
          [] type = "SELECT" -> select_table(s)])

index_statement(s) ==
    LET alter(word, kind) ==
            as(inOrder(s, <<match(s, "ALTER"), match(s, "TABLE"), match(s, "Identifier"),
                            match(s, word), match(s, "INDEX"), match(s, "("), identifiers(s),
                            match(s, ")")>>),
               LAMBDA t : [kind |-> kind, table |-> t[3], columns |-> t[7]])
    IN  predict(alter("ADD", "add index"), alter("DROP", "drop index"))

db_statement(s) ==
    LET show(word, kind) ==
            as(inOrder(s, <<match(s, "SHOW"), match(s, word)>>), LAMBDA t : [kind |-> kind])
    IN  predict(show("TABLES", "show tables"), show("INDEXES", "show indexes"))

StatementStarts == TableStatements \union {"SHOW", "ALTER", "Annotation", "NULL"}

statement(s) ==
    as(inOrder(s, <<switch(s, [type \in StatementStarts |->
                        CASE type = "SHOW"  -> db_statement(s)
                          [] type = "ALTER" -> index_statement(s)
                          [] type \in {"Annotation", "NULL"} ->
                                as(match(s, type), LAMBDA t : [kind |-> type, text |-> t])
                          [] type \in TableStatements -> table_statement(s)]),
                    match(s, ";")>>),
       LAMBDA t : t[1])

(* Mutant: match(EOF) is missing behind the loop, so what starts no statement is passed over. *)
untilEOF_NoEOF(s, item) ==
    LET from[i \in Places(s)] ==
            LET first == item[i]
                rest  == from[first.at]
            IN  IF LA(s, i) \notin StatementStarts THEN [at |-> i, tree |-> << >>]
                ELSE IF first.at = 0 \/ rest.at = 0 THEN Error
                ELSE [rest EXCEPT !.tree = <<first.tree>> \o @]
    IN  from

(* The statements from each place to the end of the line, or Error. *)
untilEOF(s, item) ==
    LET from[i \in Places(s)] ==
            LET first == item[i]
                rest  == from[first.at]
            IN  IF LA(s, i) = "EOF" THEN [at |-> i, tree |-> << >>]
                ELSE IF LA(s, i) \notin StatementStarts \/ first.at = 0 \/ rest.at = 0 THEN Error
                ELSE [rest EXCEPT !.tree = <<first.tree>> \o @]
    IN  from

(* The whole line. *)
program(s) == untilEOF(s, statement(s))[1]

-----------------------------------------------------------------------------
(* The text of a statement, the other way round. *)

Separated(texts, type) ==
    FlattenSeq([i \in DOMAIN texts |-> IF i = 1 THEN texts[i] ELSE <<Word(type)>> \o texts[i]])

ColumnText(c) == <<Name(c.table), Word("."), Name(c.column)>>

WhereText(where) ==
    Separated([i \in DOMAIN where |->
        ColumnText(where[i].column) \o <<Word(where[i].operate)>>
        \o (IF "value" \in DOMAIN where[i].expression THEN <<where[i].expression.value>>
            ELSE ColumnText(where[i].expression.column))], "AND")

SelectorText(selector_) ==
    (IF "aggregator" \in DOMAIN selector_ THEN <<Word(selector_.aggregator), Word("(")>> ELSE << >>)
    \o (IF "column" \in DOMAIN selector_ THEN ColumnText(selector_.column) ELSE <<Word("*")>>)
    \o (IF "aggregator" \in DOMAIN selector_ THEN <<Word(")")>> ELSE << >>)

FieldText(f) ==
    <<Name(f.column), Word(f.type.type)>>
    \o (IF f.type.type = "VARCHAR" THEN <<Word("("), <<"Integer", f.type.size>>, Word(")")>> ELSE << >>)

SelectText(t) ==
    <<Word("SELECT")>>
    \o (IF t.selectors = << >> THEN <<Word("*")>>
        ELSE Separated([i \in DOMAIN t.selectors |-> SelectorText(t.selectors[i])], ","))
    \o <<Word("FROM")>> \o Separated([i \in DOMAIN t.tables |-> <<Name(t.tables[i])>>], ",")
    \o (IF t.where = << >> THEN << >> ELSE <<Word("WHERE")>> \o WhereText(t.where))
    \o (IF t.group = << >> THEN << >> ELSE <<Word("GROUP"), Word("BY")>> \o ColumnText(t.group[3]))
    \o (IF t.limit = << >> THEN << >> ELSE <<Word("LIMIT"), <<"Integer", t.limit[2]>> >>
        \o (IF t.limit[3] = << >> THEN << >> ELSE <<Word("OFFSET"), <<"Integer", t.limit[3][2]>> >>))

StatementText(t) ==
    (CASE t.kind = "select" -> SelectText(t)
       [] t.kind = "create table" ->
            <<Word("CREATE"), Word("TABLE"), Name(t.table), Word("(")>>
            \o Separated([i \in DOMAIN t.fields |-> FieldText(t.fields[i])], ",") \o <<Word(")")>>
       [] t.kind = "drop table" -> <<Word("DROP"), Word("TABLE"), Name(t.table)>>
       [] t.kind = "describe" -> <<Word("DESC"), Name(t.table)>>
       [] t.kind = "insert" ->
            <<Word("INSERT"), Word("INTO"), Name(t.table), Word("VALUES")>>
            \o Separated([i \in DOMAIN t.values |->
                  <<Word("(")>> \o Separated([j \in DOMAIN t.values[i] |-> <<t.values[i][j]>>], ",")
                  \o <<Word(")")>>], ",")
       [] t.kind = "delete" ->
            <<Word("DELETE"), Word("FROM"), Name(t.table), Word("WHERE")>> \o WhereText(t.where)
       [] t.kind = "update" ->
            <<Word("UPDATE"), Name(t.table), Word("SET")>>
            \o Separated([i \in DOMAIN t.set |->
                  <<Name(t.set[i].column), Word("="), t.set[i].value>>], ",")
            \o <<Word("WHERE")>> \o WhereText(t.where)
       [] t.kind \in {"add index", "drop index"} ->
            <<Word("ALTER"), Word("TABLE"), Name(t.table),
              Word(IF t.kind = "add index" THEN "ADD" ELSE "DROP"), Word("INDEX"), Word("(")>>
            \o Separated([i \in DOMAIN t.columns |-> <<Name(t.columns[i])>>], ",") \o <<Word(")")>>
       [] t.kind = "show tables" -> <<Word("SHOW"), Word("TABLES")>>
       [] t.kind = "show indexes" -> <<Word("SHOW"), Word("INDEXES")>>
       [] t.kind \in {"Annotation", "NULL"} -> << <<t.kind, t.text>> >>)
    \o <<Word(";")>>

ProgramText(trees) == FlattenSeq([i \in DOMAIN trees |-> StatementText(trees[i])])
=============================================================================
