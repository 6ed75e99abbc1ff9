------------------------- MODULE TransactionsProofs -------------------------
(***************************************************************************)
(* Theorems about Transactions, for any number of locations, transactions  *)
(* and log lines.                                                          *)
(***************************************************************************)
EXTENDS Transactions, TLAPS

(* DeleteBackward yields a heap, and a location keeps its row or loses it. *)
LEMMA DeleteShrinks ==
    ASSUME NEW R, NEW heap \in [Slots -> R \union {NoRow}], NEW loc, NEW P
    PROVE  /\ DeleteBackward(heap, loc, P) \in [Slots -> R \union {NoRow}]
           /\ \A s \in Slots : DeleteBackward(heap, loc, P)[s] \in {NoRow, heap[s]}
  BY DEF DeleteBackward

(* When no position is stuck, the rows of exactly the listed locations go. *)
LEMMA DeleteAll ==
    ASSUME NEW heap, NEW loc, NEW P, Stuck(heap, loc, P) = {}
    PROVE  \A s \in Slots :
              DeleteBackward(heap, loc, P)[s] =
                  IF \E i \in P : loc[i] = s THEN NoRow ELSE heap[s]
  BY DEF DeleteBackward, Deleted

-----------------------------------------------------------------------------
LEMMA TypeInit == Init => TypeOK
  BY MaxTxnAssumption, LogCapAssumption DEF Init, TypeOK, TxnIDs, Phases

LEMMA TypeStep == TypeOK /\ [Next]_vars => TypeOK'
<1> USE MaxTxnAssumption, LogCapAssumption
<1> SUFFICES ASSUME TypeOK, [Next]_vars PROVE TypeOK'
  OBVIOUS
<1>1. CASE Begin
  BY <1>1 DEF Begin, TypeOK, TxnIDs, Phases
<1>2. ASSUME NEW t \in TxnIDs, Insert(t) PROVE TypeOK'
  <2>1. PICK s \in FreeSlots(rows) :
            rows' = Put(rows, s, [txn |-> t, n |-> Len(insertHistory[t]) + 1])
    BY <1>2 DEF Insert
  <2>2. s \in Slots /\ Len(insertHistory[t]) \in Nat
    BY DEF FreeSlots, TypeOK
  <2>3. [txn |-> t, n |-> Len(insertHistory[t]) + 1] \in Rows
    BY <2>2 DEF TypeOK, Rows
  <2>4. rows' \in [Slots -> Rows \union {NoRow}]
    BY <2>1, <2>2, <2>3 DEF Put, TypeOK
  <2>5. ASSUME NEW x \in Slots, ~Full,
               log' = Append(log, LogLine(t, "INSERT", x)),
               insertHistory' = [insertHistory EXCEPT ![t] = Append(@, x)]
        PROVE  /\ log' \in Seq(InsertLines \union CommitLines)
               /\ insertHistory' \in [TxnIDs -> Seq(Slots)]
               /\ Len(log') = Len(log) + 1 /\ Len(log') <= LogCap
               /\ \A u \in TxnIDs : Len(insertHistory'[u]) <= Len(log')
    <3>1. LogLine(t, "INSERT", x) \in InsertLines
      BY DEF LogLine, InsertLines
    <3>2. /\ log' \in Seq(InsertLines \union CommitLines)
          /\ Len(log') = Len(log) + 1 /\ Len(log') <= LogCap
      BY <2>5, <3>1 DEF TypeOK, Full
    <3>3. insertHistory' \in [TxnIDs -> Seq(Slots)]
      BY <2>5 DEF TypeOK
    <3>4. \A u \in TxnIDs : Len(insertHistory'[u]) <= Len(log')
      BY <2>5, <3>2 DEF TypeOK
    <3> QED
      BY <3>2, <3>3, <3>4
  <2> QED
    BY <1>2, <2>4, <2>5 DEF Insert, FreeSlots, TypeOK, Phases
<1>3. ASSUME NEW t \in TxnIDs, Commit(t) PROVE TypeOK'
  <2>1. ASSUME ~Full, log' = Append(log, LogLine(t, "COMMIT", NoRow))
        PROVE  /\ log' \in Seq(InsertLines \union CommitLines)
               /\ Len(log') = Len(log) + 1 /\ Len(log') <= LogCap
    <3>1. LogLine(t, "COMMIT", NoRow) \in CommitLines
      BY DEF LogLine, CommitLines
    <3> QED
      BY <2>1, <3>1 DEF TypeOK, Full
  <2>2. \A u \in TxnIDs : Len(insertHistory[u]) \in Nat
    BY DEF TypeOK
  <2>3. Len(log) \in Nat
    BY DEF TypeOK
  <2> QED
    BY <1>3, <2>1, <2>2, <2>3 DEF Commit, TypeOK, Phases
<1>4. ASSUME NEW t \in TxnIDs, Abort(t) PROVE TypeOK'
  <2>1. rows' \in [Slots -> Rows \union {NoRow}]
    BY <1>4, DeleteShrinks DEF Abort, TypeOK
  <2>2. insertHistory' \in {insertHistory, [insertHistory EXCEPT ![t] = << >>]}
    BY <1>4 DEF Abort
  <2> << >> \in Seq(Slots)
    OBVIOUS
  <2>3. insertHistory' \in [TxnIDs -> Seq(Slots)]
    BY <2>2 DEF TypeOK
  <2>4. \A u \in TxnIDs : Len(insertHistory'[u]) <= Len(log)
    BY <2>2 DEF TypeOK
  <2> QED
    BY <1>4, <2>1, <2>3, <2>4 DEF Abort, TypeOK, Phases
<1>5. CASE InsertWithoutTxn
  BY <1>5 DEF InsertWithoutTxn, TypeOK, Phases
<1>6. CASE Delete
  BY <1>6 DEF Delete, TypeOK
<1>7. CASE Close
  BY <1>7 DEF Close, TypeOK, Phases
<1>8. CASE Open
  BY <1>8 DEF Open, TypeOK, Phases
<1>9. CASE Undo
  BY <1>9, DeleteShrinks DEF Undo, TypeOK, Phases
<1>10. CASE UNCHANGED vars
  BY <1>10 DEF vars, TypeOK
<1> QED
  BY <1>1, <1>2, <1>3, <1>4, <1>5, <1>6, <1>7, <1>8, <1>9, <1>10 DEF Next

(* Every variable keeps its type, whatever the clients do. *)
THEOREM TypeCorrect == Spec => []TypeOK
  BY TypeInit, TypeStep, PTL DEF Spec
-----------------------------------------------------------------------------
(* The two facts isolation rests on: a snapshot hides every transaction    *)
(* that was active when it was taken, and nobody is active in recovery.    *)
Isolated ==
    /\ TypeOK
    /\ SnapshotsHide
    /\ phase = "recovering" => activeTxns = {}

LEMMA IsolatedInit == Init => Isolated
  BY TypeInit DEF Init, Isolated, SnapshotsHide

LEMMA IsolatedStep == Isolated /\ [Next]_vars => Isolated'
<1> SUFFICES ASSUME Isolated, [Next]_vars PROVE Isolated'
  OBVIOUS
<1>1. TypeOK'
  BY TypeStep DEF Isolated
<1>2. (phase = "recovering" => activeTxns = {})'
  BY DEF Isolated, Next, vars, Begin, Insert, Commit, Abort, InsertWithoutTxn,
         Delete, Close, Open, Undo
<1>3. SnapshotsHide'
  <2>1. CASE Begin
    <3> SUFFICES ASSUME NEW t \in activeTxns', NEW u \in activeTxns', u < t
                 PROVE  u \in snapshot'[t]
      BY DEF SnapshotsHide
    <3>1. nextTxnID \in TxnIDs /\ activeTxns' = activeTxns \union {nextTxnID}
      BY <2>1, MaxTxnAssumption DEF Begin, Isolated, TypeOK, TxnIDs
    <3>2. CASE t = nextTxnID
      BY <2>1, <3>1, <3>2 DEF Begin, Isolated, TypeOK
    <3>3. CASE t # nextTxnID
      <4>1. t \in activeTxns /\ u \in activeTxns
        BY <3>1, <3>3 DEF Isolated, TypeOK
      <4> QED
        BY <2>1, <3>1, <3>3, <4>1 DEF Begin, Isolated, TypeOK, SnapshotsHide
    <3> QED
      BY <3>2, <3>3
  <2>2. CASE ~Begin
    <3>1. activeTxns' \subseteq activeTxns /\ snapshot' = snapshot
      BY <2>2 DEF Isolated, Next, vars, Insert, Commit, Abort, InsertWithoutTxn,
                  Delete, Close, Open, Undo
    <3> QED
      BY <3>1 DEF Isolated, SnapshotsHide
  <2> QED
    BY <2>1, <2>2
<1> QED
  BY <1>1, <1>2, <1>3 DEF Isolated

(* When rows only disappear, what t sees of the others only shrinks.       *)
LEMMA DeletionsShrinkViews ==
    ASSUME NEW t \in TxnIDs, snapshot' = snapshot,
           \A s \in Slots : rows'[s] \in {NoRow, rows[s]}
    PROVE  SeenOfOthers(t)' \subseteq SeenOfOthers(t)
  BY DEF SeenOfOthers, Seen, Visible

(* Nothing that another transaction inserts enters the view of an active   *)
(* transaction, not even when deletions ignore transactions, and Abort or  *)
(* Undo throw half way.                                                    *)
THEOREM PhantomFree == Spec => NoPhantoms
<1>1. Isolated /\ [Next]_vars =>
        [\A t \in activeTxns \intersect activeTxns' :
            SeenOfOthers(t)' \subseteq SeenOfOthers(t)]_vars
  <2> SUFFICES ASSUME Isolated, [Next]_vars,
                      NEW t \in activeTxns \intersect activeTxns'
               PROVE  SeenOfOthers(t)' \subseteq SeenOfOthers(t)
    OBVIOUS
  <2>1. t \in TxnIDs /\ t < nextTxnID
    BY MaxTxnAssumption DEF Isolated, TypeOK, TxnIDs
  <2>2. CASE Begin
    <3>1. rows' = rows /\ snapshot'[t] = snapshot[t]
      BY <2>1, <2>2 DEF Begin, Isolated, TypeOK
    <3> QED
      BY <3>1 DEF SeenOfOthers, Seen, Visible
  <2>3. ASSUME NEW u \in TxnIDs, Insert(u) PROVE SeenOfOthers(t)' \subseteq SeenOfOthers(t)
    <3>1. PICK s \in Slots :
              rows' = Put(rows, s, [txn |-> u, n |-> Len(insertHistory[u]) + 1])
      BY <2>3 DEF Insert, FreeSlots
    <3>2. snapshot' = snapshot /\ u \in activeTxns
      BY <2>3 DEF Insert
    <3>3. u = t \/ ~Visible(t, u)
      BY <3>2 DEF Visible, Isolated, SnapshotsHide
    <3>4. rows'[s].txn = u /\ \A x \in Slots : x # s => rows'[x] = rows[x]
      BY <3>1 DEF Put, Isolated, TypeOK
    <3> QED
      BY <3>2, <3>3, <3>4 DEF SeenOfOthers, Seen, Visible
  <2>4. ASSUME NEW u \in TxnIDs, Commit(u) PROVE SeenOfOthers(t)' \subseteq SeenOfOthers(t)
    BY <2>1, <2>4, DeletionsShrinkViews DEF Commit
  <2>5. ASSUME NEW u \in TxnIDs, Abort(u) PROVE SeenOfOthers(t)' \subseteq SeenOfOthers(t)
    <3>1. \A s \in Slots : rows'[s] \in {NoRow, rows[s]}
      BY <2>5, DeleteShrinks DEF Abort, Isolated, TypeOK
    <3> QED
      BY <2>1, <2>5, <3>1, DeletionsShrinkViews DEF Abort
  <2>6. CASE InsertWithoutTxn
    BY <2>1, <2>6, DeletionsShrinkViews DEF InsertWithoutTxn
  <2>7. CASE Delete
    <3>1. \A s \in Slots : rows'[s] \in {NoRow, rows[s]}
      BY <2>7 DEF Delete
    <3> QED
      BY <2>1, <2>7, <3>1, DeletionsShrinkViews DEF Delete
  <2>8. CASE Close
    BY <2>1, <2>8, DeletionsShrinkViews DEF Close
  <2>9. CASE Open \/ Undo
    BY <2>9 DEF Open, Undo, Isolated
  <2>10. CASE UNCHANGED vars
    BY <2>1, <2>10, DeletionsShrinkViews DEF vars
  <2> QED
    BY <2>2, <2>3, <2>4, <2>5, <2>6, <2>7, <2>8, <2>9, <2>10 DEF Next
<1> QED
  BY <1>1, IsolatedInit, IsolatedStep, PTL DEF Spec, NoPhantoms
-----------------------------------------------------------------------------
(* The inductive invariant *)

(* What a new log line does to the sets read off the log. *)
LEMMA Appended ==
    ASSUME TypeOK, NEW line \in InsertLines \union CommitLines,
           log' = Append(log, line)
    PROVE  /\ Len(log) \in Nat
           /\ DOMAIN log = 1..Len(log)
           /\ DOMAIN log' = 1..Len(log)+1
           /\ \A i \in DOMAIN log : log'[i] = log[i]
           /\ log'[Len(log)+1] = line
           /\ Logged' = Logged \union {line.txn}
           /\ line.op = "INSERT" => Committed' = Committed
           /\ line.op = "COMMIT" => Committed' = Committed \union {line.txn}
<1>1. log \in Seq(InsertLines \union CommitLines)
  BY DEF TypeOK
<1>2. /\ Len(log) \in Nat
      /\ DOMAIN log = 1..Len(log)
      /\ DOMAIN log' = 1..Len(log)+1
      /\ \A i \in DOMAIN log : log'[i] = log[i]
      /\ log'[Len(log)+1] = line
  BY <1>1
<1>3. DOMAIN log' = DOMAIN log \union {Len(log)+1}
  BY <1>2
<1>4. Logged' = Logged \union {line.txn}
  BY <1>2, <1>3 DEF Logged
<1>5. line.op = "INSERT" => Committed' = Committed
  BY <1>2, <1>3 DEF Committed
<1>6. line.op = "COMMIT" => Committed' = Committed \union {line.txn}
  BY <1>2, <1>3 DEF Committed
<1> QED
  BY <1>2, <1>4, <1>5, <1>6

LEMMA CommittedIsLogged == Committed \subseteq Logged
  BY DEF Committed, Logged

LEMMA RowsAreRecords == \A r \in Rows : r # NoRow /\ r = [txn |-> r.txn, n |-> r.n]
  BY NoRowAssumption DEF Rows, TxnIDs

LEMMA InvInit == Init => IInv
<1> SUFFICES ASSUME Init PROVE IInv
  OBVIOUS
<1>1. DOMAIN log = {}
  BY DEF Init
<1> QED
  BY <1>1, TypeInit DEF Init, IInv, IdsInOrder, SnapshotsHide, HistoryLocatesRows,
     LogLocatesRows, Committed, Logged, Pending, LogIsClean

LEMMA InvIsolates == IInv => Isolated
  BY DEF IInv, Isolated, IdsInOrder

LEMMA InvBegin == IInv /\ Begin => IInv'
<1> SUFFICES ASSUME IInv, Begin PROVE IInv'
  OBVIOUS
<1>1. TypeOK' /\ SnapshotsHide'
  BY InvIsolates, IsolatedStep DEF Next, Isolated
<1>2. /\ Committed' = Committed /\ Logged' = Logged
      /\ rows' = rows /\ log' = log /\ insertHistory' = insertHistory
      /\ phase = "up" /\ phase' = "up"
  BY DEF Begin, Committed, Logged
<1>3. /\ nextTxnID \in TxnIDs /\ nextTxnID' = nextTxnID + 1
      /\ activeTxns' = activeTxns \union {nextTxnID}
      /\ nextTxnID \notin Logged
      /\ insertHistory[nextTxnID] = << >>
      /\ \A s \in Slots : rows[s] # NoRow => rows[s].txn # nextTxnID
  BY MaxTxnAssumption, SMTT(30) DEF Begin, IInv, TypeOK, IdsInOrder, TxnIDs
<1>4. IdsInOrder'
  <2>1. Committed' \intersect activeTxns' = {}
    BY <1>2, <1>3, CommittedIsLogged DEF IInv, IdsInOrder
  <2>2. Logged' \subseteq 0..nextTxnID'-1
    BY <1>2, <1>3 DEF IInv, IdsInOrder, TxnIDs
  <2>3. \A t \in TxnIDs : t >= nextTxnID' => insertHistory'[t] = << >>
    BY <1>2, <1>3, MaxTxnAssumption DEF IInv, IdsInOrder, TxnIDs
  <2>4. \A s \in Slots : rows'[s] # NoRow => rows'[s].txn < nextTxnID'
    BY <1>2, <1>3 DEF IInv, IdsInOrder, TypeOK, Rows, TxnIDs
  <2> QED
    BY <1>2, <2>1, <2>2, <2>3, <2>4 DEF IdsInOrder
<1>5. HistoryLocatesRows'
  BY <1>2, <1>3 DEF IInv, HistoryLocatesRows
<1>6. Pending = activeTxns /\ Pending' = activeTxns'
  BY <1>2 DEF Pending
<1>7. \A i \in DOMAIN log : log[i].txn \in Pending' => log[i].txn \in Pending
  BY <1>3, <1>6 DEF Logged
<1>8. LogLocatesRows'
  BY <1>2, <1>3, <1>6, <1>7 DEF IInv, LogLocatesRows
<1> QED
  BY <1>1, <1>4, <1>5, <1>8 DEF IInv

LEMMA InvInsert == ASSUME NEW t \in TxnIDs PROVE IInv /\ Insert(t) => IInv'
<1> SUFFICES ASSUME IInv, Insert(t) PROVE IInv'
  OBVIOUS
<1>1. TypeOK' /\ SnapshotsHide'
  BY InvIsolates, IsolatedStep DEF Next, Isolated
<1> DEFINE row == [txn |-> t, n |-> Len(insertHistory[t]) + 1]
<1>2. PICK s \in FreeSlots(rows) :
        /\ rows' = Put(rows, s, row)
        /\ \/ /\ ~Full
              /\ log' = Append(log, LogLine(t, "INSERT", s))
              /\ insertHistory' = [insertHistory EXCEPT ![t] = Append(@, s)]
              /\ UNCHANGED phase
           \/ /\ Full
              /\ phase' = "logAssert"
              /\ UNCHANGED <<log, insertHistory>>
  BY DEF Insert
<1>3. /\ s \in Slots /\ rows[s] = NoRow /\ rows'[s] = row /\ row # NoRow
      /\ \A x \in Slots : x # s => rows'[x] = rows[x]
  <2>1. s \in Slots /\ rows[s] = NoRow
    BY DEF FreeSlots
  <2>2. rows'[s] = row /\ \A x \in Slots : x # s => rows'[x] = rows[x]
    BY <1>2, <2>1 DEF Put, IInv, TypeOK
  <2>3. Len(insertHistory[t]) \in Nat /\ Len(log) \in Nat
    BY DEF IInv, TypeOK
  <2>4. row \in Rows
    BY <2>3, LogCapAssumption DEF IInv, TypeOK, Rows
  <2> QED
    BY <2>1, <2>2, <2>4, RowsAreRecords
<1>4. /\ t \in activeTxns /\ t < nextTxnID /\ phase = "up"
      /\ activeTxns' = activeTxns /\ nextTxnID' = nextTxnID
      /\ savedTxnID' = savedTxnID
  BY DEF Insert, IInv, TypeOK
<1>5. CASE Full
  <2>1. /\ phase' = "logAssert" /\ log' = log /\ insertHistory' = insertHistory
        /\ Committed' = Committed /\ Logged' = Logged
        /\ Pending = activeTxns /\ Pending' = activeTxns
    BY <1>2, <1>4, <1>5 DEF Committed, Logged, Pending
  <2>2. IdsInOrder'
    BY <1>3, <1>4, <2>1 DEF IInv, IdsInOrder
  <2>3. HistoryLocatesRows' /\ LogLocatesRows'
    BY <1>3, <1>4, <2>1 DEF IInv, HistoryLocatesRows, LogLocatesRows
  <2> QED
    BY <1>1, <2>2, <2>3 DEF IInv
<1>6. CASE ~Full
  <2> DEFINE line == LogLine(t, "INSERT", s)
  <2>1. /\ log' = Append(log, line) /\ phase' = "up"
        /\ insertHistory' = [insertHistory EXCEPT ![t] = Append(@, s)]
    BY <1>2, <1>4, <1>6
  <2>2. line \in InsertLines \union CommitLines /\ line.op = "INSERT" /\ line.txn = t /\ line.loc = s
    BY <1>3 DEF LogLine, InsertLines
  <2> HIDE DEF line
  <2>3. /\ Len(log) \in Nat
        /\ DOMAIN log = 1..Len(log)
        /\ DOMAIN log' = 1..Len(log)+1
        /\ \A i \in DOMAIN log : log'[i] = log[i]
        /\ log'[Len(log)+1] = line
        /\ Logged' = Logged \union {t}
        /\ Committed' = Committed
    BY <2>1, <2>2, Appended DEF IInv
  <2>4. /\ Len(insertHistory[t]) \in Nat
        /\ DOMAIN insertHistory[t] = 1..Len(insertHistory[t])
        /\ DOMAIN insertHistory'[t] = 1..Len(insertHistory[t])+1
        /\ \A k \in DOMAIN insertHistory[t] : insertHistory'[t][k] = insertHistory[t][k]
        /\ insertHistory'[t][Len(insertHistory[t])+1] = s
        /\ \A u \in TxnIDs : u # t => insertHistory'[u] = insertHistory[u]
        /\ \A u \in TxnIDs : \A k \in DOMAIN insertHistory[u] : insertHistory[u][k] \in Slots
    BY <1>3, <2>1 DEF IInv, TypeOK
  <2>5. IdsInOrder'
    <3>1. \A u \in TxnIDs : u >= nextTxnID' => insertHistory'[u] = << >>
      BY <1>4, <2>4 DEF IInv, IdsInOrder, TypeOK, TxnIDs
    <3>2. \A x \in Slots : rows'[x] # NoRow => rows'[x].txn < nextTxnID'
      BY <1>3, <1>4 DEF IInv, IdsInOrder
    <3>3. Logged' \subseteq 0..nextTxnID'-1
      BY <1>4, <2>3, MaxTxnAssumption DEF IInv, IdsInOrder, TypeOK, TxnIDs
    <3> QED
      BY <1>4, <2>1, <2>3, <3>1, <3>2, <3>3 DEF IInv, IdsInOrder
  <2>6. HistoryLocatesRows'
    <3>1. ASSUME NEW u \in activeTxns, NEW k \in DOMAIN insertHistory'[u]
          PROVE  rows'[insertHistory'[u][k]] = [txn |-> u, n |-> k]
      <4>1. u \in TxnIDs
        BY MaxTxnAssumption DEF IInv, TypeOK, TxnIDs
      <4>2. CASE u = t /\ k = Len(insertHistory[t]) + 1
        BY <1>3, <2>4, <4>2
      <4>3. CASE ~(u = t /\ k = Len(insertHistory[t]) + 1)
        <5>1. k \in DOMAIN insertHistory[u] /\ insertHistory'[u][k] = insertHistory[u][k]
          BY <2>4, <3>1, <4>1, <4>3
        <5>2. rows[insertHistory[u][k]] = [txn |-> u, n |-> k]
          BY <1>4, <5>1 DEF IInv, HistoryLocatesRows
        <5>3. insertHistory[u][k] \in Slots
          BY <2>4, <4>1, <5>1
        <5>4. k \in 1..LogCap+1
          BY <2>3, <4>1, <5>1, LogCapAssumption DEF IInv, TypeOK
        <5>5. [txn |-> u, n |-> k] # NoRow
          BY <4>1, <5>4, RowsAreRecords DEF Rows
        <5> QED
          BY <1>3, <5>1, <5>2, <5>3, <5>5
      <4> QED
        BY <4>2, <4>3
    <3>2. ASSUME NEW x \in Slots, rows'[x] # NoRow, rows'[x].txn \in activeTxns
          PROVE  /\ rows'[x].n \in DOMAIN insertHistory'[rows'[x].txn]
                 /\ insertHistory'[rows'[x].txn][rows'[x].n] = x
      <4>1. CASE x = s
        BY <1>3, <2>4, <4>1
      <4>2. CASE x # s
        <5>1. /\ rows'[x] = rows[x] /\ rows[x].txn \in TxnIDs
              /\ rows[x].n \in DOMAIN insertHistory[rows[x].txn]
              /\ insertHistory[rows[x].txn][rows[x].n] = x
          BY <1>3, <1>4, <3>2, <4>2 DEF IInv, TypeOK, HistoryLocatesRows, Rows
        <5> QED
          BY <2>4, <5>1
      <4> QED
        BY <4>1, <4>2
    <3> QED
      BY <1>4, <3>1, <3>2 DEF HistoryLocatesRows
  <2>7. LogLocatesRows'
    <3>1. Pending = activeTxns /\ Pending' = activeTxns
      BY <1>4, <2>1 DEF Pending
    <3>2. ASSUME NEW i \in DOMAIN log, log[i].txn \in activeTxns
          PROVE  /\ log[i].loc \in Slots /\ log[i].loc # s
                 /\ rows'[log[i].loc] = rows[log[i].loc]
                 /\ rows[log[i].loc] # NoRow
                 /\ rows[log[i].loc].txn = log[i].txn
      BY <1>3, <3>1, <3>2 DEF IInv, LogLocatesRows
    <3>3. ASSUME NEW i \in DOMAIN log', log'[i].txn \in activeTxns
          PROVE  /\ log'[i].loc \in Slots
                 /\ rows'[log'[i].loc] # NoRow
                 /\ rows'[log'[i].loc].txn = log'[i].txn
                 /\ \A j \in DOMAIN log' :
                       j > i /\ log'[j].txn \in activeTxns => log'[j].loc # log'[i].loc
      <4>1. CASE i = Len(log) + 1
        BY <1>3, <2>2, <2>3, <4>1
      <4>2. CASE i # Len(log) + 1
        <5>1. i \in DOMAIN log /\ log'[i] = log[i]
          BY <2>3, <3>3, <4>2
        <5>2. ASSUME NEW j \in DOMAIN log', j > i, log'[j].txn \in activeTxns
              PROVE  log'[j].loc # log'[i].loc
          <6>1. CASE j = Len(log) + 1
            BY <2>2, <2>3, <3>2, <3>3, <5>1, <6>1
          <6>2. CASE j # Len(log) + 1
            <7>1. j \in DOMAIN log /\ log'[j] = log[j]
              BY <2>3, <5>2, <6>2
            <7> QED
              BY <3>1, <3>3, <5>1, <5>2, <7>1 DEF IInv, LogLocatesRows
          <6> QED
            BY <6>1, <6>2
        <5> QED
          BY <3>2, <3>3, <5>1, <5>2
      <4> QED
        BY <4>1, <4>2
    <3>4. ASSUME NEW x \in Slots, rows'[x] # NoRow, rows'[x].txn \notin Committed
          PROVE  /\ rows'[x].txn \in activeTxns
                 /\ \E i \in DOMAIN log' : log'[i].txn = rows'[x].txn /\ log'[i].loc = x
      <4>1. CASE x = s
        <5>1. Len(log) + 1 \in DOMAIN log'
          BY <2>3
        <5> QED
          BY <1>3, <1>4, <2>2, <2>3, <4>1, <5>1
      <4>2. CASE x # s
        <5>1. rows'[x] = rows[x]
          BY <1>3, <4>2
        <5>2. PICK i \in DOMAIN log : log[i].txn = rows[x].txn /\ log[i].loc = x
          BY <1>4, <3>4, <5>1 DEF IInv, LogLocatesRows
        <5>3. rows[x].txn \in activeTxns
          BY <1>4, <3>1, <3>4, <5>1 DEF IInv, LogLocatesRows
        <5>4. i \in DOMAIN log' /\ log'[i] = log[i]
          BY <2>3
        <5> QED
          BY <5>1, <5>2, <5>3, <5>4
      <4> QED
        BY <4>1, <4>2
    <3> QED
      BY <2>3, <3>1, <3>3, <3>4 DEF LogLocatesRows
  <2> QED
    BY <1>1, <2>5, <2>6, <2>7 DEF IInv
<1> QED
  BY <1>5, <1>6
LEMMA InvCommit == ASSUME NEW t \in TxnIDs PROVE IInv /\ Commit(t) => IInv'
<1> SUFFICES ASSUME IInv, Commit(t) PROVE IInv'
  OBVIOUS
<1>1. TypeOK' /\ SnapshotsHide'
  BY InvIsolates, IsolatedStep DEF Next, Isolated
<1>2. /\ t \in activeTxns /\ phase = "up" /\ activeTxns' = activeTxns \ {t}
      /\ rows' = rows /\ insertHistory' = insertHistory
      /\ nextTxnID' = nextTxnID /\ savedTxnID' = savedTxnID
      /\ Pending = activeTxns
  BY DEF Commit, Pending
<1>3. CASE Full
  <2>1. /\ phase' = "logAssert" /\ log' = log
        /\ Committed' = Committed /\ Logged' = Logged
        /\ Pending' = activeTxns \ {t}
    BY <1>2, <1>3 DEF Commit, Committed, Logged, Pending
  <2> QED
    BY <1>1, <1>2, <2>1 DEF IInv, IdsInOrder, HistoryLocatesRows, LogLocatesRows
<1>4. CASE ~Full
  <2> DEFINE line == LogLine(t, "COMMIT", NoRow)
  <2>1. log' = Append(log, line) /\ phase' = "up"
    BY <1>2, <1>4 DEF Commit
  <2>2. line \in InsertLines \union CommitLines /\ line.op = "COMMIT" /\ line.txn = t
    BY DEF LogLine, CommitLines
  <2> HIDE DEF line
  <2>3. /\ Len(log) \in Nat
        /\ DOMAIN log = 1..Len(log)
        /\ DOMAIN log' = 1..Len(log)+1
        /\ \A i \in DOMAIN log : log'[i] = log[i]
        /\ log'[Len(log)+1] = line
        /\ Logged' = Logged \union {t}
        /\ Committed' = Committed \union {t}
    BY <2>1, <2>2, Appended DEF IInv
  <2>4. IdsInOrder'
    <3>1. t \in 0..nextTxnID-1
      BY <1>2 DEF IInv, TypeOK
    <3> QED
      BY <1>2, <2>1, <2>3, <3>1 DEF IInv, IdsInOrder
  <2>5. HistoryLocatesRows'
    BY <1>2, <2>1 DEF IInv, HistoryLocatesRows
  <2>6. Pending' = activeTxns \ {t}
    BY <1>2, <2>1 DEF Pending
  <2>7. \A i \in DOMAIN log' : log'[i].txn \in Pending' =>
            i \in DOMAIN log /\ log'[i] = log[i] /\ log[i].txn \in Pending
    BY <1>2, <2>2, <2>3, <2>6
  <2>8. LogLocatesRows'
    BY <1>2, <2>1, <2>3, <2>6, <2>7 DEF IInv, LogLocatesRows
  <2> QED
    BY <1>1, <2>4, <2>5, <2>8 DEF IInv
<1> QED
  BY <1>3, <1>4

(* Abort deletes the rows of its transaction and no other. *)
LEMMA AbortDeletesOwn ==
    ASSUME NEW t \in TxnIDs, IInv, Abort(t)
    PROVE  \A s \in Slots :
              rows'[s] = IF rows[s] # NoRow /\ rows[s].txn = t THEN NoRow ELSE rows[s]
<1> DEFINE history == insertHistory[t]
<1>1. t \in activeTxns /\ phase = "up"
  BY DEF Abort
<1>2. \A k \in DOMAIN history :
         history[k] \in Slots /\ rows[history[k]] = [txn |-> t, n |-> k] /\ rows[history[k]] # NoRow
  <2> SUFFICES ASSUME NEW k \in DOMAIN history
               PROVE  /\ history[k] \in Slots /\ rows[history[k]] = [txn |-> t, n |-> k]
                      /\ rows[history[k]] # NoRow
    OBVIOUS
  <2>1. history[k] \in Slots /\ rows[history[k]] = [txn |-> t, n |-> k]
    BY <1>1 DEF IInv, TypeOK, HistoryLocatesRows
  <2>2. k \in 1..LogCap+1
    BY LogCapAssumption DEF IInv, TypeOK
  <2> QED
    BY <2>1, <2>2, RowsAreRecords DEF Rows
<1>3. Stuck(rows, history, DOMAIN history) = {}
  <2> SUFFICES ASSUME NEW i \in DOMAIN history, NEW j \in DOMAIN history,
                      j > i, history[j] = history[i]
               PROVE  FALSE
    BY <1>2 DEF Stuck
  <2>1. [txn |-> t, n |-> i] = [txn |-> t, n |-> j]
    BY <1>2
  <2>2. i = j
    BY <2>1
  <2>3. i \in Int /\ j \in Int
    BY DEF IInv, TypeOK
  <2> QED
    BY <2>2, <2>3
<1>4. rows' = DeleteBackward(rows, history, DOMAIN history)
  BY DEF Abort
<1>5. \A s \in Slots :
        rows'[s] = IF \E k \in DOMAIN history : history[k] = s THEN NoRow ELSE rows[s]
  BY <1>3, <1>4, DeleteAll
<1>6. \A s \in Slots :
        (\E k \in DOMAIN history : history[k] = s) <=> rows[s] # NoRow /\ rows[s].txn = t
  <2> SUFFICES ASSUME NEW s \in Slots
               PROVE  (\E k \in DOMAIN history : history[k] = s)
                          <=> rows[s] # NoRow /\ rows[s].txn = t
    OBVIOUS
  <2>1. ASSUME NEW k \in DOMAIN history, history[k] = s
        PROVE  rows[s] # NoRow /\ rows[s].txn = t
    <3>1. rows[s] # NoRow /\ rows[s] = [txn |-> t, n |-> k]
      BY <1>2, <2>1
    <3> QED
      BY <3>1
  <2>2. ASSUME rows[s] # NoRow, rows[s].txn = t
        PROVE  rows[s].n \in DOMAIN history /\ history[rows[s].n] = s
    BY <1>1, <2>2 DEF IInv, HistoryLocatesRows
  <2> QED
    BY <2>1, <2>2
<1> QED
  BY <1>5, <1>6

LEMMA InvAbort == ASSUME NEW t \in TxnIDs PROVE IInv /\ Abort(t) => IInv'
<1> SUFFICES ASSUME IInv, Abort(t) PROVE IInv'
  OBVIOUS
<1>1. TypeOK' /\ SnapshotsHide'
  BY InvIsolates, IsolatedStep DEF Next, Isolated
<1>2. /\ t \in activeTxns /\ phase = "up" /\ activeTxns' = activeTxns \ {t}
      /\ phase' \in {"up", "unsetTable"}
      /\ log' = log /\ nextTxnID' = nextTxnID /\ savedTxnID' = savedTxnID
      /\ Committed' = Committed /\ Logged' = Logged
      /\ Pending = activeTxns /\ Pending' = activeTxns'
  BY DEF Abort, Committed, Logged, Pending
<1>3. \A u \in TxnIDs : insertHistory'[u] = IF u = t THEN insertHistory'[t] ELSE insertHistory[u]
  BY DEF Abort, IInv, TypeOK
<1>4. \A s \in Slots : rows'[s] = IF rows[s] # NoRow /\ rows[s].txn = t THEN NoRow ELSE rows[s]
  BY AbortDeletesOwn
<1>5. \A u \in TxnIDs : \A k \in DOMAIN insertHistory[u] : insertHistory[u][k] \in Slots
  BY DEF IInv, TypeOK
<1>6. IdsInOrder'
  <2>1. t < nextTxnID
    BY <1>2 DEF IInv, TypeOK
  <2>2. \A u \in TxnIDs : u >= nextTxnID => u # t
    BY <2>1 DEF IInv, TypeOK, TxnIDs
  <2> QED
    BY <1>2, <1>3, <1>4, <2>2 DEF IInv, IdsInOrder
<1>7. HistoryLocatesRows'
  <2>1. \A u \in activeTxns' : u \in TxnIDs /\ u # t /\ insertHistory'[u] = insertHistory[u]
    BY <1>2, <1>3, MaxTxnAssumption DEF IInv, TypeOK, TxnIDs
  <2>2. ASSUME NEW u \in activeTxns', NEW k \in DOMAIN insertHistory'[u]
        PROVE  rows'[insertHistory'[u][k]] = [txn |-> u, n |-> k]
    BY <1>2, <1>4, <1>5, <2>1, <2>2 DEF IInv, HistoryLocatesRows
  <2>3. ASSUME NEW s \in Slots, rows'[s] # NoRow, rows'[s].txn \in activeTxns'
        PROVE  /\ rows'[s].n \in DOMAIN insertHistory'[rows'[s].txn]
               /\ insertHistory'[rows'[s].txn][rows'[s].n] = s
    BY <1>2, <1>4, <2>1, <2>3 DEF IInv, HistoryLocatesRows
  <2> QED
    BY <2>2, <2>3 DEF HistoryLocatesRows
<1>8. LogLocatesRows'
  BY <1>2, <1>4 DEF IInv, LogLocatesRows
<1> QED
  BY <1>1, <1>6, <1>7, <1>8 DEF IInv

LEMMA InvClose == ~StaleRestarts /\ IInv /\ Close => IInv'
<1> SUFFICES ASSUME ~StaleRestarts, IInv, Close PROVE IInv'
  OBVIOUS
<1>1. TypeOK' /\ SnapshotsHide'
  BY InvIsolates, IsolatedStep DEF Next, Isolated
<1>2. /\ phase = "up" /\ phase' = "down" /\ savedTxnID' = nextTxnID
      /\ rows' = rows /\ log' = log /\ insertHistory' = insertHistory
      /\ activeTxns' = activeTxns /\ nextTxnID' = nextTxnID
      /\ Committed' = Committed /\ Logged' = Logged
      /\ Pending = activeTxns /\ Pending' = activeTxns
  BY DEF Close, Committed, Logged, Pending
<1>3. LogIsClean'
  BY <1>2 DEF Close, LogIsClean
<1> QED
  BY <1>1, <1>2, <1>3 DEF IInv, IdsInOrder, HistoryLocatesRows, LogLocatesRows

LEMMA InvOpen == IInv /\ Open => IInv'
<1> SUFFICES ASSUME IInv, Open PROVE IInv'
  OBVIOUS
<1>1. TypeOK' /\ SnapshotsHide'
  BY InvIsolates, IsolatedStep DEF Next, Isolated
<1>2. /\ phase = "down" /\ phase' = "recovering" /\ activeTxns' = {}
      /\ nextTxnID' = nextTxnID /\ savedTxnID' = savedTxnID
      /\ savedTxnID = nextTxnID
      /\ rows' = rows /\ log' = log /\ insertHistory' = insertHistory
      /\ Committed' = Committed /\ Logged' = Logged
      /\ Pending = activeTxns /\ Pending' = Logged \ Committed
  BY DEF Open, Committed, Logged, Pending, IInv, IdsInOrder
<1>3. Pending' \subseteq Pending
  BY <1>2 DEF IInv, IdsInOrder, LogIsClean
<1>4. \A s \in Slots : rows[s] # NoRow /\ rows[s].txn \notin Committed => rows[s].txn \in Logged
  BY <1>2 DEF IInv, LogLocatesRows, Logged
<1>5. LogLocatesRows'
  BY <1>2, <1>3, <1>4 DEF IInv, LogLocatesRows
<1>6. IdsInOrder' /\ HistoryLocatesRows'
  BY <1>2 DEF IInv, IdsInOrder, HistoryLocatesRows
<1> QED
  BY <1>1, <1>5, <1>6 DEF IInv

(* On a clean log, Undo deletes the rows that are not committed, no other. *)
LEMMA UndoDeletesUncommitted ==
    ASSUME IInv, Undo
    PROVE  \A s \in Slots :
              rows'[s] = IF rows[s] # NoRow /\ rows[s].txn \notin Committed
                            THEN NoRow ELSE rows[s]
<1> DEFINE loc == [i \in DOMAIN log |-> log[i].loc]
<1>1. phase = "recovering" /\ Pending = Logged \ Committed
  BY DEF Undo, Pending
<1>2. \A i \in Undos : i \in DOMAIN log /\ log[i].txn \in Pending
  BY <1>1 DEF Undos, Logged
<1>3. Stuck(rows, loc, Undos) = {}
  BY <1>2 DEF Stuck, IInv, LogLocatesRows
<1>4. rows' = DeleteBackward(rows, loc, Undos)
  BY DEF Undo
<1>5. \A s \in Slots :
        rows'[s] = IF \E i \in Undos : loc[i] = s THEN NoRow ELSE rows[s]
  <2> HIDE DEF loc
  <2> QED
    BY <1>3, <1>4, DeleteAll
<1>6. ASSUME NEW s \in Slots, rows[s] # NoRow, rows[s].txn \notin Committed
      PROVE  \E i \in Undos : loc[i] = s
  BY <1>1, <1>6 DEF IInv, LogLocatesRows, Undos
<1>7. ASSUME NEW s \in Slots, NEW i \in Undos, loc[i] = s
      PROVE  rows[s] # NoRow /\ rows[s].txn \notin Committed
  BY <1>1, <1>2, <1>7 DEF IInv, LogLocatesRows
<1> HIDE DEF loc
<1> QED
  BY <1>5, <1>6, <1>7

LEMMA InvUndo == IInv /\ Undo => IInv'
<1> SUFFICES ASSUME IInv, Undo PROVE IInv'
  OBVIOUS
<1>1. TypeOK' /\ SnapshotsHide'
  BY InvIsolates, IsolatedStep DEF Next, Isolated
<1>2. /\ phase = "recovering" /\ phase' = "up" /\ activeTxns = {} /\ activeTxns' = {}
      /\ nextTxnID' = nextTxnID /\ savedTxnID' = savedTxnID
      /\ log' = log /\ insertHistory' = insertHistory
      /\ Committed' = Committed /\ Logged' = Logged /\ Pending' = {}
  BY DEF Undo, Committed, Logged, Pending, IInv, IdsInOrder
<1>3. \A s \in Slots : rows'[s] # NoRow => rows'[s] = rows[s] /\ rows[s].txn \in Committed
  BY UndoDeletesUncommitted
<1>4. IdsInOrder'
  BY <1>2, <1>3 DEF IInv, IdsInOrder
<1>5. HistoryLocatesRows' /\ LogLocatesRows'
  BY <1>2, <1>3 DEF HistoryLocatesRows, LogLocatesRows
<1> QED
  BY <1>1, <1>4, <1>5 DEF IInv
LEMMA InvDead == IInv /\ InsertWithoutTxn => IInv'
<1> SUFFICES ASSUME IInv, InsertWithoutTxn PROVE IInv'
  OBVIOUS
<1>1. TypeOK' /\ SnapshotsHide'
  BY InvIsolates, IsolatedStep DEF Next, Isolated
<1>2. /\ phase = "up" /\ phase' = "nullTxn" /\ rows' = rows /\ log' = log
      /\ nextTxnID' = nextTxnID /\ activeTxns' = activeTxns
      /\ insertHistory' = insertHistory
      /\ Committed' = Committed /\ Logged' = Logged
      /\ Pending = activeTxns /\ Pending' = activeTxns
  BY DEF InsertWithoutTxn, Committed, Logged, Pending
<1> QED
  BY <1>1, <1>2 DEF IInv, IdsInOrder, HistoryLocatesRows, LogLocatesRows

(* Clients that only insert, and restarts that find a clean log. *)
LEMMA InvStep ==
    ASSUME ~Deletes, ~StaleRestarts
    PROVE  IInv /\ [Next]_vars => IInv'
<1> SUFFICES ASSUME IInv, [Next]_vars PROVE IInv'
  OBVIOUS
<1>1. CASE UNCHANGED vars
  <2>1. Committed' = Committed /\ Logged' = Logged /\ Pending' = Pending
    BY <1>1 DEF vars, Committed, Logged, Pending
  <2>2. LogIsClean' = LogIsClean
    BY <1>1, <2>1 DEF vars, LogIsClean
  <2> QED
    BY <1>1, <2>1, <2>2 DEF vars, IInv, TypeOK, IdsInOrder, SnapshotsHide,
       HistoryLocatesRows, LogLocatesRows
<1>2. ~Delete
  BY DEF Delete
<1> QED
  BY <1>1, <1>2, InvBegin, InvInsert, InvCommit, InvAbort, InvDead, InvClose,
     InvOpen, InvUndo DEF Next

-----------------------------------------------------------------------------
(* Atomicity: with insert-only clients and clean logs, every row of a live *)
(* Instance belongs to a committed or an active transaction.               *)
THEOREM AbortAndUndoAreAtomic ==
    ASSUME ~Deletes, ~StaleRestarts
    PROVE  Spec => []RolledBack
<1>1. IInv => RolledBack
  BY DEF IInv, LogLocatesRows, Pending, RolledBack
<1> QED
  BY <1>1, InvInit, InvStep, PTL DEF Spec

(* Durability, under the same conditions: no step loses a committed row.   *)
THEOREM CommittedRowsStay ==
    ASSUME ~Deletes, ~StaleRestarts
    PROVE  Spec => KeepsCommitted
<1>1. ASSUME IInv, Next PROVE CommittedRows \subseteq CommittedRows'
  <2> USE <1>1
  <2>1. Committed \subseteq Committed'
    <3>1. ASSUME log' = log PROVE Committed' = Committed
      BY <3>1 DEF Committed
    <3>2. ASSUME NEW line \in InsertLines \union CommitLines, log' = Append(log, line)
          PROVE  Committed \subseteq Committed'
      <4>1. line.op \in {"INSERT", "COMMIT"}
        BY DEF InsertLines, CommitLines
      <4> QED
        BY <3>2, <4>1, Appended DEF IInv
    <3>3. \/ log' = log
          \/ \E t \in TxnIDs : \/ log' = Append(log, LogLine(t, "COMMIT", NoRow))
                              \/ \E s \in Slots : log' = Append(log, LogLine(t, "INSERT", s))
      BY DEF Next, Begin, Insert, Commit, Abort, InsertWithoutTxn, Delete, Close,
             Open, Undo, FreeSlots
    <3>4. ASSUME NEW t \in TxnIDs, log' = Append(log, LogLine(t, "COMMIT", NoRow))
          PROVE  Committed \subseteq Committed'
      <4>1. LogLine(t, "COMMIT", NoRow) \in InsertLines \union CommitLines
        BY DEF LogLine, CommitLines
      <4> QED
        BY <3>2, <3>4, <4>1
    <3>5. ASSUME NEW t \in TxnIDs, NEW s \in Slots, log' = Append(log, LogLine(t, "INSERT", s))
          PROVE  Committed \subseteq Committed'
      <4>1. LogLine(t, "INSERT", s) \in InsertLines \union CommitLines
        BY DEF LogLine, InsertLines
      <4> QED
        BY <3>2, <3>5, <4>1
    <3> QED
      BY <3>1, <3>3, <3>4, <3>5
  <2>2. ASSUME NEW s \in Slots, rows[s] # NoRow, rows[s].txn \in Committed
        PROVE  rows'[s] = rows[s]
    <3>1. ASSUME NEW t \in TxnIDs, Insert(t) PROVE rows'[s] = rows[s]
      BY <2>2, <3>1 DEF Insert, FreeSlots, Put, IInv, TypeOK
    <3>2. ASSUME NEW t \in TxnIDs, Abort(t) PROVE rows'[s] = rows[s]
      <4>1. rows[s].txn # t
        BY <2>2, <3>2 DEF Abort, IInv, IdsInOrder
      <4> QED
        BY <3>2, <4>1, AbortDeletesOwn
    <3>3. CASE Undo
      BY <2>2, <3>3, UndoDeletesUncommitted
    <3> QED
      BY <3>1, <3>2, <3>3 DEF Next, Begin, Commit, InsertWithoutTxn, Delete, Close, Open
  <2> QED
    BY <2>1, <2>2 DEF CommittedRows
<1>2. IInv /\ [Next]_vars => [CommittedRows \subseteq CommittedRows']_vars
  BY <1>1
<1> QED
  BY <1>2, InvInit, InvStep, PTL DEF Spec, KeepsCommitted

(* Isolation, under the same conditions: what an active transaction sees   *)
(* of the others stays as it was when the transaction began.               *)
THEOREM ReadsRepeat ==
    ASSUME ~Deletes, ~StaleRestarts
    PROVE  Spec => RepeatableRead
<1>1. ASSUME IInv, Next, NEW t \in activeTxns \intersect activeTxns'
      PROVE  SeenOfOthers(t)' = SeenOfOthers(t)
  <2> USE <1>1
  <2>1. t \in TxnIDs /\ t < nextTxnID
    BY MaxTxnAssumption DEF IInv, TypeOK, TxnIDs
  <2>2. CASE Begin
    <3>1. rows' = rows /\ snapshot'[t] = snapshot[t]
      BY <2>1, <2>2 DEF Begin, IInv, TypeOK
    <3> QED
      BY <3>1 DEF SeenOfOthers, Seen, Visible
  <2>3. ASSUME NEW u \in TxnIDs, Insert(u) PROVE SeenOfOthers(t)' = SeenOfOthers(t)
    <3>1. PICK s \in Slots :
              /\ rows[s] = NoRow
              /\ rows' = Put(rows, s, [txn |-> u, n |-> Len(insertHistory[u]) + 1])
      BY <2>3 DEF Insert, FreeSlots
    <3>2. snapshot' = snapshot /\ u \in activeTxns
      BY <2>3 DEF Insert
    <3>3. u = t \/ ~Visible(t, u)
      BY <3>2 DEF Visible, IInv, SnapshotsHide
    <3>4. rows'[s].txn = u /\ \A x \in Slots : x # s => rows'[x] = rows[x]
      BY <3>1 DEF Put, IInv, TypeOK
    <3> QED
      BY <3>1, <3>2, <3>3, <3>4 DEF SeenOfOthers, Seen, Visible
  <2>4. ASSUME NEW u \in TxnIDs, Abort(u) PROVE SeenOfOthers(t)' = SeenOfOthers(t)
    <3>1. snapshot' = snapshot /\ u \in activeTxns /\ u # t
      BY <2>4 DEF Abort
    <3>2. ~Visible(t, u)
      BY <3>1 DEF Visible, IInv, SnapshotsHide
    <3>3. \A s \in Slots :
             rows'[s] = IF rows[s] # NoRow /\ rows[s].txn = u THEN NoRow ELSE rows[s]
      BY <2>4, AbortDeletesOwn
    <3> QED
      BY <3>1, <3>2, <3>3 DEF SeenOfOthers, Seen, Visible
  <2>5. CASE Open \/ Undo
    BY <2>5 DEF Open, Undo, IInv, IdsInOrder
  <2>6. CASE \/ InsertWithoutTxn \/ Close
             \/ \E u \in TxnIDs : Commit(u)
    <3>1. rows' = rows /\ snapshot' = snapshot
      BY <2>6 DEF InsertWithoutTxn, Close, Commit
    <3> QED
      BY <3>1 DEF SeenOfOthers, Seen, Visible
  <2>7. ~Delete
    BY DEF Delete
  <2> QED
    BY <2>2, <2>3, <2>4, <2>5, <2>6, <2>7 DEF Next
<1>2. IInv /\ [Next]_vars =>
        [\A t \in activeTxns \intersect activeTxns' :
            SeenOfOthers(t)' = SeenOfOthers(t)]_vars
  BY <1>1
<1> QED
  BY <1>2, InvInit, InvStep, PTL DEF Spec, RepeatableRead
-----------------------------------------------------------------------------
(* Refinement of SnapshotStore, for the same clients and restarts.         *)

Views == [t \in TxnIDs |-> IF phase = "up" /\ t \in activeTxns THEN Seen(t) ELSE {}]

(* A step that ends the process, or the life of the Instance, is a         *)
(* Shutdown of the store: all views go, no committed row does.             *)
LEMMA EndsMapToShutdown ==
    ASSUME phase' # "up", CommittedRows' = CommittedRows, nextTxnID' = nextTxnID
    PROVE  Store!Shutdown
  BY DEF Store!Shutdown

(* A step that commits nothing, and takes and adds rows only of writers    *)
(* without a COMMIT line, keeps the committed rows.                        *)
LEMMA CommittedRowsKept ==
    ASSUME Committed' = Committed,
           \A s \in Slots : \/ rows'[s] = rows[s]
                            \/ /\ rows[s] # NoRow => rows[s].txn \notin Committed
                               /\ rows'[s] # NoRow => rows'[s].txn \notin Committed
    PROVE  CommittedRows' = CommittedRows
  BY DEF CommittedRows

(* A new transaction sees the committed rows and no other.                 *)
LEMMA BeginMaps ==
    ASSUME IInv, Begin, NEW t \in TxnIDs, t = nextTxnID
    PROVE  Store!Begin(t)
<1>1. /\ phase = "up" /\ phase' = "up" /\ t \in TxnIDs /\ t \notin activeTxns
      /\ activeTxns' = activeTxns \union {t} /\ nextTxnID' = t + 1
      /\ rows' = rows /\ log' = log /\ activeTxns \subseteq TxnIDs
      /\ Committed' = Committed
  BY MaxTxnAssumption DEF Begin, IInv, TypeOK, TxnIDs, Committed
<1>2. snapshot'[t] = activeTxns' /\ \A u \in TxnIDs : u # t => snapshot'[u] = snapshot[u]
  BY <1>1 DEF Begin, IInv, TypeOK
<1>3. CommittedRows' = CommittedRows
  BY <1>1 DEF CommittedRows
<1>4. Seen(t)' = CommittedRows
  <2>1. ASSUME NEW s \in Slots, rows[s] # NoRow
        PROVE  Visible(t, rows[s].txn)' <=> rows[s].txn \in Committed
    <3>1. rows[s].txn < t /\ rows[s].txn \in Int
      BY <2>1 DEF IInv, IdsInOrder, TypeOK, Rows, TxnIDs
    <3>2. rows[s].txn \notin Committed => rows[s].txn \in activeTxns
      BY <1>1, <2>1 DEF IInv, LogLocatesRows, Pending
    <3>3. rows[s].txn \in Committed => rows[s].txn \notin activeTxns
      BY DEF IInv, IdsInOrder
    <3>4. t \in Int
      BY DEF IInv, TypeOK
    <3> QED
      BY <1>1, <1>2, <3>1, <3>2, <3>3, <3>4 DEF Visible
  <2> QED
    BY <1>1, <2>1 DEF Seen, CommittedRows
<1>5. \A u \in activeTxns : Seen(u)' = Seen(u)
  BY <1>1, <1>2 DEF Seen, Visible
<1>6. 0..nextTxnID'-1 = (0..nextTxnID-1) \union {t} /\ t \notin 0..nextTxnID-1
  BY <1>1, MaxTxnAssumption DEF TxnIDs
<1>7. Views' = [Views EXCEPT ![t] = CommittedRows]
  BY <1>1, <1>4, <1>5 DEF Views
<1> QED
  BY <1>1, <1>3, <1>6, <1>7 DEF Store!Begin, Views

(* An insert adds its row to the view of its transaction and to no other.  *)
LEMMA InsertMaps ==
    ASSUME IInv, NEW t \in TxnIDs, Insert(t)
    PROVE  Store!Insert(t) \/ Store!Shutdown
<1>1. PICK s \in Slots :
          /\ rows[s] = NoRow
          /\ rows' = Put(rows, s, [txn |-> t, n |-> Len(insertHistory[t]) + 1])
          /\ \/ /\ phase' = "up" /\ log' = Append(log, LogLine(t, "INSERT", s))
             \/ phase' = "logAssert" /\ log' = log
  BY DEF Insert, FreeSlots
<1> DEFINE r == [txn |-> t, n |-> Len(insertHistory[t]) + 1]
<1>2. /\ phase = "up" /\ t \in activeTxns /\ activeTxns' = activeTxns /\ snapshot' = snapshot
      /\ nextTxnID' = nextTxnID
      /\ rows'[s] = r /\ \A x \in Slots : x # s => rows'[x] = rows[x]
  BY <1>1 DEF Insert, Put, IInv, TypeOK
<1>3. r \in Rows /\ r # NoRow /\ r.txn = t
  <2>1. Len(insertHistory[t]) + 1 \in 1..LogCap+1
    BY LogCapAssumption DEF IInv, TypeOK
  <2>2. r \in Rows
    BY <2>1 DEF Rows
  <2> QED
    BY <2>2, RowsAreRecords
<1>4. Committed' = Committed
  <2>1. LogLine(t, "INSERT", s) \in InsertLines \union CommitLines /\ LogLine(t, "INSERT", s).op = "INSERT"
    BY DEF LogLine, InsertLines
  <2>2. CASE log' = Append(log, LogLine(t, "INSERT", s))
    BY <2>1, <2>2, Appended DEF IInv
  <2> QED
    BY <1>1, <2>2 DEF Committed
<1>5. t \notin Committed
  BY <1>2 DEF IInv, IdsInOrder
<1>6. CommittedRows' = CommittedRows
  BY <1>1, <1>2, <1>3, <1>4, <1>5, CommittedRowsKept
<1>7. CASE phase' = "logAssert"
  BY <1>2, <1>6, <1>7, EndsMapToShutdown
<1>8. CASE phase' = "up"
  <2>1. Seen(t)' = Seen(t) \union {r}
    BY <1>1, <1>2, <1>3 DEF Seen, Visible
  <2>2. r \notin Seen(t)
    <3> SUFFICES ASSUME NEW x \in Slots, rows[x] # NoRow, rows[x] = r PROVE FALSE
      BY DEF Seen
    <3>1. rows[x].n \in DOMAIN insertHistory[t]
      BY <1>2, <1>3 DEF IInv, HistoryLocatesRows
    <3>2. rows[x].n = Len(insertHistory[t]) + 1 /\ insertHistory[t] \in Seq(Slots)
      BY DEF IInv, TypeOK
    <3> QED
      BY <3>1, <3>2
  <2>3. \A u \in activeTxns : u # t => Seen(u)' = Seen(u)
    <3> SUFFICES ASSUME NEW u \in activeTxns, u # t PROVE Seen(u)' = Seen(u)
      OBVIOUS
    <3>1. ~Visible(u, t)
      BY <1>2 DEF Visible, IInv, SnapshotsHide
    <3> QED
      BY <1>1, <1>2, <1>3, <3>1 DEF Seen, Visible
  <2> HIDE DEF r
  <2>4. Views' = [Views EXCEPT ![t] = @ \union {r}] /\ Views[t] = Seen(t)
    BY <1>2, <1>8, <2>1, <2>3 DEF Views
  <2> QED
    BY <1>2, <1>3, <1>6, <1>8, <2>2, <2>4 DEF Store!Insert, Views
<1> QED
  BY <1>1, <1>7, <1>8

(* A commit publishes what its transaction saw of its own.                 *)
LEMMA CommitMaps ==
    ASSUME IInv, NEW t \in TxnIDs, Commit(t)
    PROVE  Store!Commit(t) \/ Store!Shutdown
<1>1. /\ phase = "up" /\ t \in activeTxns /\ activeTxns' = activeTxns \ {t}
      /\ snapshot' = snapshot /\ nextTxnID' = nextTxnID /\ rows' = rows
      /\ \/ phase' = "up" /\ log' = Append(log, LogLine(t, "COMMIT", NoRow))
         \/ phase' = "logAssert" /\ log' = log
  BY DEF Commit
<1>2. CASE phase' = "logAssert"
  <2>1. CommittedRows' = CommittedRows
    BY <1>1, <1>2 DEF CommittedRows, Committed
  <2> QED
    BY <1>1, <1>2, <2>1, EndsMapToShutdown
<1>3. CASE phase' = "up"
  <2>1. LogLine(t, "COMMIT", NoRow) \in InsertLines \union CommitLines
    BY DEF LogLine, CommitLines
  <2>2. LogLine(t, "COMMIT", NoRow).op = "COMMIT" /\ LogLine(t, "COMMIT", NoRow).txn = t
    BY DEF LogLine
  <2>3. Committed' = Committed \union {t}
    BY <1>1, <1>3, <2>1, <2>2, Appended DEF IInv
  <2>4. CommittedRows' = CommittedRows \union {r \in Seen(t) : r.txn = t}
    BY <1>1, <2>3 DEF CommittedRows, Seen, Visible
  <2>5. \A u \in TxnIDs : Seen(u)' = Seen(u)
    BY <1>1 DEF Seen, Visible
  <2>6. Views' = [Views EXCEPT ![t] = {}] /\ Views[t] = Seen(t)
    BY <1>1, <1>3, <2>5 DEF Views
  <2>7. CommittedRows' = CommittedRows \union {r \in Views[t] : r.txn = t}
    BY <2>4, <2>6
  <2> QED
    BY <1>1, <1>3, <2>6, <2>7 DEF Store!Commit, Store!Own, Views
<1> QED
  BY <1>1, <1>2, <1>3

(* An abort takes away the rows that only its transaction saw.             *)
LEMMA AbortMaps ==
    ASSUME IInv, NEW t \in TxnIDs, Abort(t)
    PROVE  Store!Abort(t) \/ Store!Shutdown
<1>1. /\ phase = "up" /\ t \in activeTxns /\ activeTxns' = activeTxns \ {t}
      /\ snapshot' = snapshot /\ nextTxnID' = nextTxnID /\ log' = log
      /\ phase' \in {"up", "unsetTable"}
  BY DEF Abort
<1>2. \A s \in Slots :
        rows'[s] = IF rows[s] # NoRow /\ rows[s].txn = t THEN NoRow ELSE rows[s]
  BY AbortDeletesOwn
<1>3. t \notin Committed
  BY <1>1 DEF IInv, IdsInOrder
<1>4. CommittedRows' = CommittedRows
  BY <1>1, <1>2, <1>3, CommittedRowsKept DEF Committed
<1>5. CASE phase' = "unsetTable"
  BY <1>1, <1>4, <1>5, EndsMapToShutdown
<1>6. CASE phase' = "up"
  <2>1. ASSUME NEW u \in activeTxns, u # t PROVE Seen(u)' = Seen(u)
    <3>1. ~Visible(u, t)
      BY <1>1, <2>1 DEF Visible, IInv, SnapshotsHide
    <3> QED
      BY <1>1, <1>2, <3>1 DEF Seen, Visible
  <2>2. Views' = [Views EXCEPT ![t] = {}]
    BY <1>1, <1>6, <2>1 DEF Views
  <2> QED
    BY <1>1, <1>4, <1>6, <2>2 DEF Store!Abort, Views
<1> QED
  BY <1>1, <1>5, <1>6

(* What happens while no Instance takes calls is not seen by the store.    *)
LEMMA RecoveryStutters ==
    ASSUME IInv, Open \/ Undo
    PROVE  UNCHANGED Store!vars
<1>1. /\ phase # "up" /\ nextTxnID' = nextTxnID /\ log' = log /\ activeTxns' = {}
  BY DEF Open, Undo, IInv, IdsInOrder
<1>2. CommittedRows' = CommittedRows
  <2>1. CASE Open
    BY <2>1 DEF Open, CommittedRows, Committed
  <2>2. CASE Undo
    BY <1>1, <2>2, UndoDeletesUncommitted, CommittedRowsKept DEF Committed
  <2> QED
    BY <2>1, <2>2
<1>3. Views' = Views
  BY <1>1 DEF Views
<1> QED
  BY <1>1, <1>2, <1>3 DEF Store!vars, Views

(* The transactions implement SnapshotStore: clients that insert, commit   *)
(* and abort see committed snapshots and their own rows, through crashes   *)
(* and through restarts on a clean log.                                    *)
THEOREM ImplementsSnapshots ==
    ASSUME ~Deletes, ~StaleRestarts
    PROVE  Spec => ImplementsSnapshotStore
<1>1. Init => Store!Init
  <2> SUFFICES ASSUME Init PROVE Store!Init
    OBVIOUS
  <2>1. CommittedRows = {} /\ activeTxns = {} /\ 0..nextTxnID-1 = {}
    BY DEF Init, CommittedRows
  <2> QED
    BY <2>1 DEF Store!Init
<1>2. ASSUME IInv, [Next]_vars PROVE [Store!Next]_(Store!vars)
  <2> USE <1>2
  <2>1. CASE Begin
    <3>1. nextTxnID \in TxnIDs
      BY <2>1, MaxTxnAssumption DEF Begin, IInv, TypeOK, TxnIDs
    <3> QED
      BY <2>1, <3>1, BeginMaps DEF Store!Next
  <2>2. ASSUME NEW t \in TxnIDs, Insert(t) PROVE Store!Next
    BY <2>2, InsertMaps DEF Store!Next
  <2>3. ASSUME NEW t \in TxnIDs, Commit(t) PROVE Store!Next
    BY <2>3, CommitMaps DEF Store!Next
  <2>4. ASSUME NEW t \in TxnIDs, Abort(t) PROVE Store!Next
    BY <2>4, AbortMaps DEF Store!Next
  <2>5. CASE InsertWithoutTxn \/ Close
    <3>1. phase' # "up" /\ nextTxnID' = nextTxnID /\ CommittedRows' = CommittedRows
      BY <2>5 DEF InsertWithoutTxn, Close, CommittedRows, Committed
    <3> QED
      BY <3>1, EndsMapToShutdown DEF Store!Next
  <2>6. CASE Open \/ Undo
    BY <2>6, RecoveryStutters
  <2>7. CASE UNCHANGED vars
    <3>1. CommittedRows' = CommittedRows /\ Views' = Views
      BY <2>7 DEF vars, CommittedRows, Committed, Views, Seen, Visible
    <3> QED
      BY <2>7, <3>1 DEF vars, Store!vars, Views
  <2>8. ~Delete
    BY DEF Delete
  <2> QED
    BY <2>1, <2>2, <2>3, <2>4, <2>5, <2>6, <2>7, <2>8 DEF Next
<1>3. IInv /\ [Next]_vars => [Store!Next]_(Store!vars)
  BY <1>2
<1> QED
  BY <1>1, <1>3, InvInit, InvStep, PTL DEF Spec, ImplementsSnapshotStore, Store!Spec
=============================================================================
