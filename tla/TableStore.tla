----------------------------- MODULE TableStore -----------------------------
(***************************************************************************)
(* What the record layer promises: a table is a finite map from locations  *)
(* to rows.  An insert takes a location the table does not use, and only   *)
(* updates and deletions of the table itself touch the rows it has.        *)
(***************************************************************************)
EXTENDS Functions

CONSTANTS
    Tables,     \* table names
    Locations,  \* where a row can be
    Rows,       \* the rows
    NoTable     \* the content of a table that does not exist

VARIABLE content    \* content[t]: the rows of table t, by location

Init == content = [t \in Tables |-> NoTable]

-----------------------------------------------------------------------------
(* What one call does to one table, whose content was `old'. *)

Create(old, new) == old = NoTable /\ new = << >>

Drop(old, new) == old # NoTable /\ new = NoTable

Insert(old, new) ==
    /\ NoTable \notin {old, new}
    /\ \E loc \in Locations \ DOMAIN old :
        /\ DOMAIN new = DOMAIN old \union {loc}
        /\ new[loc] \in Rows
        /\ Restrict(new, DOMAIN old) = old

Update(old, new) ==
    /\ NoTable \notin {old, new}
    /\ \E loc \in DOMAIN old, row \in Rows : new = [old EXCEPT ![loc] = row]

Delete(old, new) ==
    /\ NoTable \notin {old, new}
    /\ DOMAIN new \subseteq DOMAIN old
    /\ new = Restrict(old, DOMAIN new)

Call(old, new) ==
    Create(old, new) \/ Drop(old, new) \/ Insert(old, new) \/ Update(old, new) \/ Delete(old, new)

Next ==
    \E t \in Tables :
        /\ Call(content[t], content'[t])
        /\ \A u \in Tables \ {t} : content'[u] = content[u]
        /\ DOMAIN content' = Tables

Spec == Init /\ [][Next]_content
=============================================================================
