------------------------------ MODULE Records -------------------------------
(***************************************************************************)
(* Records of a table with fixed columns: how the text of a statement      *)
(* becomes fields, and what comes back from a page.                        *)
(*                                                                         *)
(* A column is a record [name, type, size].  A text is a token of the      *)
(* parser: <<"Integer", n>>, <<"Float", n>> for a number between n and     *)
(* n + 1, <<"String", n>> for n letters in quotes, or <<"NULL", 0>>.       *)
(***************************************************************************)
EXTENDS Conditions

FieldTypes == {"INT", "FLOAT", "STRING"}
Fields == FieldTypes \X Int \X (0..Unit-1)

RawTexts == {"Integer", "Float", "String", "NULL"} \X Int
Null == <<"NULL", 0>>
NoneField == Field("NONE", Whole(0))

(* std::stoi and std::stod read the start of the text, or throw. *)
stoi(raw) == raw[2]
stoiThrows(raw) == raw[1] \notin {"Integer", "Float"} \/ raw[2] \notin MinInt..MaxInt

stod(raw) == <<raw[2], IF raw[1] = "Float" THEN 1 ELSE 0>>
stodThrows(raw) == raw[1] \notin {"Integer", "Float"}

(* A number in a text that is none which ComparesLikeSQL leaves out. *)
IsPlain(raw) == raw[1] \in {"Integer", "Float"} => raw[2] \in PlainInts

(* _sRaw.substr(1, _sRaw.size() - 2): what is left of a quoted text, of    *)
(* NULL, of 2.5 and of a number of one or two digits.                      *)
Unquoted(raw) ==
    CASE raw[1] = "String"  -> raw[2]
      [] raw[1] = "NULL"    -> 2
      [] raw[1] = "Float"   -> 1
      [] raw[1] = "Integer" -> 0

FieldOf(raw, type) ==
    CASE type = "INT"    -> Field("INT", Whole(stoi(raw)))
      [] type = "FLOAT"  -> Field("FLOAT", stod(raw))
      [] type = "STRING" -> Field("STRING", Whole(Unquoted(raw)))

FieldThrows(raw, type) ==
    \/ type = "INT" /\ stoiThrows(raw)
    \/ type = "FLOAT" /\ stodThrows(raw)

(* FixedRecord::Build.  Its assertion wants a text for every column; NULL  *)
(* makes a NoneField in a column of any type.                              *)
BuildAssertFails(raws, columns) == Len(raws) # Len(columns)
BuildThrows(raws, columns) ==
    \E i \in DOMAIN columns : raws[i] # Null /\ FieldThrows(raws[i], columns[i].type)
Build(raws, columns) ==
    [i \in DOMAIN columns |->
        IF raws[i] = Null THEN NoneField ELSE FieldOf(raws[i], columns[i].type)]

(* FixedRecord::Store casts a field to its column's type without a look:   *)
(* a NoneField is a null pointer.                                          *)
StoreCrashes(row, columns) == \E i \in DOMAIN columns : TypeOf(row[i]) # columns[i].type

(* Store, then Load: a string is cut to the size of its column. *)
Stored(row, columns) ==
    [i \in DOMAIN columns |->
        IF columns[i].type = "STRING" /\ row[i][2] > columns[i].size
        THEN Field("STRING", Whole(columns[i].size)) ELSE row[i]]

(* A Transform [pos, type, raw] of an UPDATE, with no case for NULL. *)
TransformsThrow(trans) == \E i \in DOMAIN trans : FieldThrows(trans[i].raw, trans[i].type)

(* Mutant: positions count from the next column. *)
Transformed_Shifted(row, trans) ==
    [i \in DOMAIN row |->
        LET mine == {k \in DOMAIN trans : trans[k].pos + 1 = i}
        IN  IF mine = {} THEN row[i]
            ELSE LET last == CHOOSE k \in mine : \A j \in mine : j <= k
                 IN  FieldOf(trans[last].raw, trans[last].type)]

(* SetField for one Transform after the other: the last one stays. *)
Transformed(row, trans) ==
    [i \in DOMAIN row |->
        LET mine == {k \in DOMAIN trans : trans[k].pos = i}
        IN  IF mine = {} THEN row[i]
            ELSE LET last == CHOOSE k \in mine : \A j \in mine : j <= k
                 IN  FieldOf(trans[last].raw, trans[last].type)]

(* Copy and Add, for a row of a join. *)
Joined(a, b) == a \o b
=============================================================================
