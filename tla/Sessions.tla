------------------------------ MODULE Sessions ------------------------------
(***************************************************************************)
(* Clients of Instance that share its tables: they insert in transactions, *)
(* commit and abort, delete and update by condition, add and drop indexes, *)
(* in any order of calls.                                                  *)
(***************************************************************************)
EXTENDS Database

CONSTANTS
    InsertedRows,   \* the values of the columns but the last, for Insert
    Comparisons,    \* triples <<column, operator, value>> to search by
    UpdatedColumns  \* Transforms of an Update

(* Every table has the columns that are compared or updated, and no client *)
(* sets _txn_id, which visitSet_clause would not refuse.                   *)
ASSUME ClientsAssumption ==
    /\ \A raws \in InsertedRows : raws \in Seq(RawTexts)
    /\ \A d \in Comparisons :
        /\ d = <<d[1], d[2], d[3]>> /\ d[2] \in Operators /\ d[3] \in Numbers
        /\ \A t \in Tables : \E i \in DOMAIN Columns[t] :
                Columns[t][i].name = d[1] /\ Columns[t][i].type = "INT"
    /\ \A trans \in UpdatedColumns :
        /\ trans \in Seq(ToSet(trans))
        /\ \A i \in DOMAIN trans :
            /\ trans[i].raw \in RawTexts
            /\ \A t \in Tables : /\ trans[i].pos \in 1..Len(Columns[t])-1
                                /\ trans[i].type = Columns[t][trans[i].pos].type

(* The two ways to ask for a comparison: instance.h wants IsIndex checked. *)
Conditions_(t) ==
    {Everything}
    \union {[Everything EXCEPT !.other = <<Comparison(GetPos(t, c[1]), c[2], c[3])>>] :
                c \in Comparisons}
    \union {[Everything EXCEPT !.index =
                <<IndexedComparison(t, c[1], GetPos(t, c[1]), "INT", c[2], c[3])>>] :
                c \in {d \in Comparisons : IsIndex(t, d[1]) /\ d[2] # "<>"}}

(* What the calls made are known to do to indexes, without a look at the   *)
(* entries: an Abort that takes a row away damages each index of its table *)
(* there, and so does an Update that throws at the first row it found.     *)
VARIABLE damaged    \* history: pairs <<index, location>>

BrokenOff ==
    CASE reply'.call = "Abort" -> {loc \in Slots : rows'[loc] # rows[loc]}
      [] reply'.call = "Update" /\ reply'.end = "exception" /\ rows' = rows ->
            {loc \in {Head(reply'.found)} : rows[loc] # NoRow}
      [] OTHER -> {}

NewlyDamaged == {p \in (DOMAIN entries) \X BrokenOff : p[1][1] = TableOf(p[2])}

(* Damage lasts as long as the index. *)
Observed == damaged' = {p \in damaged \union NewlyDamaged : p[1] \in DOMAIN entries'}

Next ==
    \/ Begin /\ Observed
    \/ \E x \in TxnIDs :
        \/ Commit(x) /\ Observed
        \/ Abort(x) /\ Observed
        \/ \E t \in Tables, raws \in InsertedRows :
                x \in activeTxns /\ Insert(x, t, raws) /\ Observed
    \/ \E t \in Tables : \E cond \in Conditions_(t) :
        \/ Delete(t, cond) /\ Observed
        \/ \E trans \in UpdatedColumns : Update(t, cond, trans) /\ Observed
    \/ \E t \in Tables : \E c \in {d[1] : d \in Comparisons} :
        \/ CreateIndex(t, c) /\ Observed
        \/ DropIndex(t, c) /\ Observed

InitSessions == Init /\ damaged = {}
Spec == InitSessions /\ [][Next]_<<vars, damaged>>
-----------------------------------------------------------------------------
(* Every variable keeps its type. *)
TypeOK ==
    /\ rows \in [Slots -> Seq(Fields) \union {NoRow}]
    /\ \A loc \in Slots : rows[loc] # NoRow =>
            Fits(rows[loc], TableOf(loc)) /\ WriterOf(rows[loc]) \in 0..nextTxnID-1
    /\ DOMAIN entries \subseteq Tables \X {d[1] : d \in Comparisons}
    /\ \A i \in DOMAIN entries :
            IsABag(entries[i]) /\ DOMAIN entries[i] \subseteq Fields \X LocationsOf(i[1])
    /\ nextTxnID \in 0..MaxTxn
    /\ activeTxns \subseteq 0..nextTxnID-1
    /\ snapshot \in [TxnIDs -> SUBSET TxnIDs]
    /\ insertHistory \in [TxnIDs -> Seq(Slots)]
    /\ alive \in BOOLEAN

(* Clients that use no value which ComparesLikeSQL leaves out, and compare *)
(* no _txn_id, whose ids begin with 0.                                     *)
PlainClients ==
    \A d \in Comparisons :
        /\ d[3] \in PlainLiterals
        /\ \A t \in Tables :
            /\ GetPos(t, d[1]) < Len(Columns[t])
            /\ \A raws \in InsertedRows :
                    GetPos(t, d[1]) \in DOMAIN raws => IsPlain(raws[GetPos(t, d[1])])
            /\ \A trans \in UpdatedColumns : \A i \in DOMAIN trans :
                    trans[i].pos = GetPos(t, d[1]) => IsPlain(trans[i].raw)

HasPlainKeys(row, t) ==
    \A d \in Comparisons : row[GetPos(t, d[1])] \in {"INT"} \X PlainInts \X {0}

(* The inductive invariant. *)
SessionsInv ==
    /\ TypeOK
    /\ entries = [i \in DOMAIN entries |-> entries[i]]
    /\ \A i \in DOMAIN entries : IsFiniteSet(DOMAIN entries[i])
    /\ PlainClients =>
          \A loc \in Slots : rows[loc] # NoRow => HasPlainKeys(rows[loc], TableOf(loc))
    /\ \A x, y \in activeTxns : y < x => y \in snapshot[x]

(* What index i should hold for the rows there are, and how it differs.    *)
Due(i) == Indexed(i[1], i[2])
Missing == UNION {{<<i, e>> : e \in DOMAIN (Due(i) (-) entries[i])} : i \in DOMAIN entries}
Stale == UNION {{<<i, e>> : e \in DOMAIN (entries[i] (-) Due(i))} : i \in DOMAIN entries}
LocationsIn(found) == {f[2][2] : f \in found}

(* A row loses its entry in an index only when Update throws between the   *)
(* deletion of the old entry and the insertion of the new one              *)
(* (instance.cc:195-209), and then no row has changed.  An entry without   *)
(* its row is left by Abort, which does not know the indexes               *)
(* (transaction_manager.cc:63), and by no other call.                      *)
EntriesFollowRows ==
    [][/\ ~(Missing' \subseteq Missing) =>
            reply'.call = "Update" /\ reply'.end = "exception" /\ rows' = rows
       /\ ~(Stale' \subseteq Stale) => reply'.call = "Abort"]_vars

(* A search by index finds each location that no call has damaged exactly  *)
(* as often as a scan with the same comparison does (instance.h:32-38),    *)
(* whatever calls came before.  Range may give up (index.cc:315), but only *)
(* when no undamaged row to be found has the key the range begins with.    *)
IndexesFindWhatScansFind ==
    \A t \in Tables : \A c \in {d \in Comparisons : IsIndex(t, d[1]) /\ d[2] # "<>"} :
        LET pos   == GetPos(t, c[1])
            cond  == IndexedComparison(t, c[1], pos, "INT", c[2], c[3])
            scan  == Scanned(t, NoTxn, <<Comparison(pos, c[2], c[3])>>)
            whole == {loc \in LocationsOf(t) : <<<<t, c[1]>>, loc>> \notin damaged}
        IN  \A q \in Ranges(cond) :
                \/ \A loc \in whole : Times(q, loc) = Times(scan, loc)
                \/ q = << >> /\ \A loc \in whole \intersect ToSet(scan) : rows[loc][pos] # cond.low

(* What row of its table a condition holds for. *)
Holds(cond, row) ==
    /\ AndMatches(cond.other, row)
    /\ \A i \in DOMAIN cond.index :
            LET c == cond.index[i] IN InRange(row[GetPos(c.table, c.column)], c.low, c.high)

(* Delete and Update change the rows their condition holds for, all of     *)
(* them when they scan, and besides them only what a stale entry locates.  *)
ChangesFollowTheCondition ==
    [][reply'.call \in {"Delete", "Update"} /\ "cond" \in DOMAIN reply' =>
            /\ \A loc \in Slots : rows'[loc] # rows[loc] =>
                    \/ TableOf(loc) = reply'.table /\ Holds(reply'.cond, rows[loc])
                    \/ loc \in LocationsIn(Stale)
            /\ reply'.call = "Delete" /\ reply'.cond.index = << >> =>
                    \A loc \in LocationsOf(reply'.table) :
                        rows'[loc] # NoRow => ~Holds(reply'.cond, rows'[loc])]_vars

(* The locations that transaction x sees rows of others at. *)
SeenOfOthers(x) ==
    {loc \in Slots : rows[loc] # NoRow /\ WriterOf(rows[loc]) # x /\ Visible(x, WriterOf(rows[loc]))}

(* Updates in place keep each row in the views it was in: only Delete, and *)
(* an Abort over slots that were deleted and used again, change what an    *)
(* active transaction sees of the others.                                  *)
UpdatesKeepViews ==
    [][reply'.call \notin {"Delete", "Abort"} =>
            \A x \in activeTxns \intersect activeTxns' : SeenOfOthers(x)' = SeenOfOthers(x)]_vars
=============================================================================
