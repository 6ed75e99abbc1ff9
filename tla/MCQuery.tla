------------------------------ MODULE MCQuery -------------------------------
(* Two tables of columns a INT, b FLOAT, c VARCHAR(1) and _txn_id, and the  *)
(* lines of a small client.                                                *)
EXTENDS Query

a == 1
b == 2
c == 3
MCColumns ==
    LET table == <<[name |-> a, type |-> "INT", size |-> 4], [name |-> b, type |-> "FLOAT", size |-> 8],
                   [name |-> c, type |-> "STRING", size |-> 1], [name |-> 9, type |-> "INT", size |-> 4]>>
    IN  <<table, table>>
MCMinInt == -8
MCSlots == ({1} \X (1..2)) \union ({2} \X (1..3))

(* Rows of the first table differ in a and b, of the second in a.  The     *)
(* second has no rows, one, two alike, two, or as many as make it hash.    *)
Row(n, m) == <<Field("INT", Whole(n)), Field("FLOAT", Whole(m)), Field("STRING", Whole(1)), Field("INT", Whole(0))>>
Pool == << <<Row(1, 1), Row(1, 2), Row(2, 1)>>, <<Row(1, 1), Row(2, 2)>> >>
Firsts == {<<0, 0>>} \union {<<i, 0>> : i \in 1..3} \union {<<i, j>> \in (1..3) \X (1..3) : i <= j}
Seconds == {<<0, 0, 0>>, <<1, 0, 0>>, <<1, 1, 0>>, <<1, 2, 0>>, <<1, 1, 2>>}
MCRowsOf ==
    {[loc \in MCSlots |-> IF q[loc[1]][loc[2]] = 0 THEN NoRow ELSE Pool[loc[1]][q[loc[1]][loc[2]]]] :
        q \in Firsts \X Seconds}

Col(t, n) == [table |-> t, column |-> n]
Is(t, n, operate, value) == [column |-> Col(t, n), operate |-> operate, expression |-> [value |-> value]]
Meets(t, n, u, m) == [column |-> Col(t, n), operate |-> "=", expression |-> [column |-> Col(u, m)]]
Num(n) == <<"Integer", n>>
Txt(n) == <<"String", n>>
From(froms, where) ==
    [kind |-> "select", selectors |-> << >>, tables |-> froms, where |-> where, group |-> << >>, limit |-> << >>]
DeleteFrom(t, where) == [kind |-> "delete", table |-> t, where |-> where]
Set(t, n, value, where) ==
    [kind |-> "update", table |-> t, set |-> <<[column |-> n, value |-> value]>>, where |-> where]
InsertInto(t, values) == [kind |-> "insert", table |-> t, values |-> values]
Alter(kind, t, names) == [kind |-> kind, table |-> t, columns |-> names]
Comment(kind) == [kind |-> kind, text |-> 0]

Searching ==
    {From(<<1>>, << >>), From(<<1>>, <<Is(1, a, "=", Num(1))>>),
     From(<<1>>, <<Is(1, a, "<=", Num(1)), Is(1, b, ">", Num(1))>>),
     From(<<1>>, <<Is(1, a, "<>", Num(1)), Is(1, b, "<", Num(2))>>),
     From(<<1>>, <<Is(1, a, ">=", Num(2)), Is(1, b, "=", <<"Float", 1>>)>>),
     From(<<1>>, <<Is(1, c, "=", Num(1))>>), From(<<5, 1>>, << >>),
     From(<<1, 2>>, <<Meets(1, a, 2, a)>>), From(<<2, 1>>, <<Meets(2, b, 1, b), Meets(1, a, 2, a)>>),
     From(<<1, 2>>, <<Meets(1, a, 2, a), Is(2, a, "<", Num(3))>>),
     From(<<1, 1>>, <<Is(1, a, "=", Num(1))>>), From(<<2, 1, 2>>, <<Meets(1, a, 2, a)>>),
     From(<<1, 2>>, <<Meets(2, a, 5, 7)>>), From(<<1, 2>>, <<Meets(1, c, 2, c)>>), From(<<1, 2>>, <<Meets(1, a, 2, b)>>), From(<<1, 2>>, << >>)}
Changing ==
    {DeleteFrom(1, <<Is(1, a, "=", Num(1))>>), DeleteFrom(1, <<Is(1, a, ">", Num(1)), Is(1, b, "=", Num(1))>>),
     DeleteFrom(1, <<Is(2, a, "=", Num(1))>>), DeleteFrom(2, <<Meets(1, a, 2, a)>>),
     DeleteFrom(1, <<Is(1, a, "=", Num(1)), Is(2, a, "=", Num(1))>>),
     DeleteFrom(1, <<Is(1, a, "=", Txt(1))>>), DeleteFrom(5, <<Is(5, a, "=", Num(1))>>),
     Set(1, a, Num(2), <<Is(1, b, "=", Num(1))>>), Set(1, a, Null, <<Is(1, a, "=", Num(1))>>),
     Set(1, c, Txt(2), <<Is(1, a, ">=", Num(2))>>), Set(5, a, Num(1), <<Is(1, a, "=", Num(1))>>),
     InsertInto(1, <<<<Num(1), Num(1), Txt(1), Num(0)>>>>), InsertInto(1, <<<<Num(1)>>>>),
     InsertInto(1, <<<<Txt(1), Num(1), Txt(1), Num(0)>>>>), InsertInto(5, <<<<Num(1)>>, <<Num(2)>>>>)}
Indexing ==
    {Alter("add index", 1, <<a, b>>), Alter("drop index", 1, <<a>>),
     Alter("drop index", 5, <<a>>)}

MCPrograms ==
    {<<s>> : s \in Searching \union Changing \union Indexing}
    \union {<<Comment("NULL"), Set(1, a, Null, <<Is(1, a, "=", Num(1))>>), From(<<1>>, << >>)>>,
            <<Comment("Annotation"), DeleteFrom(1, <<Is(1, a, "=", Num(1))>>), From(<<1>>, << >>)>>}

(* A line that is no SQL; one behind a character that is no SQL; a number   *)
(* with a minus, whose `;' is lost with it; a minus before the first word. *)
Plain == SQL!ProgramText(<<From(<<1>>, <<Is(1, a, "=", Num(1))>>)>>)
MCOtherLines ==
    {<<SQL!Word("SELECT"), SQL!Word("FROM")>>, << <<"?", 0>> >> \o Plain,
     [Plain EXCEPT ![Len(Plain) - 1] = <<"-", 1>>], << <<"-", 0>> >> \o Plain}

MCSentences ==
    {<<s>> : s \in Searching \union Changing \union Indexing}
    \union
    {<<Comment("NULL"), [kind |-> "show tables"], [kind |-> "show indexes"], [kind |-> "describe", table |-> 1]>>,
     <<[kind |-> "create table", table |-> 1,
        fields |-> <<[column |-> a, type |-> [type |-> "INT", size |-> 0]],
                     [column |-> c, type |-> [type |-> "VARCHAR", size |-> 8]],
                     [column |-> b, type |-> [type |-> "FLOAT", size |-> 0]]>>],
       [kind |-> "drop table", table |-> 1]>>,
     <<[From(<<1>>, <<Is(1, a, "=", Null)>>) EXCEPT
            !.selectors = <<[column |-> Col(1, a)], [aggregator |-> "SUM", column |-> Col(1, b)],
                            [aggregator |-> "COUNT"]>>,
            !.group = <<0, 0, Col(1, a)>>, !.limit = <<0, 3, <<0, 1>>>>]>>,
     <<[From(<<1>>, << >>) EXCEPT !.limit = <<0, 3, << >>>>]>>,
     <<[Set(1, a, Num(1), <<Is(1, a, "=", Num(1))>>) EXCEPT
            !.set = <<[column |-> a, value |-> Num(1)], [column |-> b, value |-> <<"Float", 2>>]>>]>>}

(* Every sentence with one token left out, doubled, or moved by a place.   *)
MCTexts ==
    UNION {LET text == SQL!ProgramText(p)
           IN  UNION {{RemoveAt(text, i), InsertAt(text, i, text[i]),
                       [text EXCEPT ![i] = text[IF i = 1 THEN 2 ELSE i - 1],
                                    ![IF i = 1 THEN 2 ELSE i - 1] = text[i]]} : i \in DOMAIN text} :
           p \in MCSentences}

(* What the theorems about the lines assume.                               *)
ASSUME LinesArePlain == PlainLines

(* No call reads the outcome of the one before it. *)
View == <<tables, alive, pending>>
=============================================================================
