---------------------------- MODULE MiniOSProofs ----------------------------
(***************************************************************************)
(* MiniOS for any number of pages: its types, the completeness of its scan *)
(* for a free page, and that it implements PageStore.                      *)
(***************************************************************************)
EXTENDS MiniOS, OrderProofs

-----------------------------------------------------------------------------
(* The page a scan finds is free, for any number of pages and any clock.   *)
LEMMA FirstFreeIsFree ==
    ASSUME NEW U, NEW c \in PageIDs, FreeSteps(U, c) # {}
    PROVE  FirstFree(U, c) \in PageIDs \ U
<1> DEFINE K == FreeSteps(U, c)
<1>1. K \in SUBSET (0..MemPages) /\ K # {} /\ MemPages \in Nat
  BY MemPagesAssumption DEF FreeSteps
<1>2. (CHOOSE i \in K : \A j \in K : i <= j) \in K
  <2> HIDE DEF K
  <2> QED
    BY <1>1, LeastChosen
<1>3. \A k \in 0..MemPages-1 : Scanned(c, k) \in PageIDs
  BY RoundCovers, MemPagesAssumption DEF Scanned, PageIDs
<1> QED
  BY <1>2, <1>3 DEF FirstFree, FreeSteps

(* A scan that finds no page has looked at all of them. *)
LEMMA ScanMissesNone ==
    ASSUME NEW U \in SUBSET PageIDs, NEW c \in PageIDs, FreeSteps(U, c) = {}
    PROVE  U = PageIDs
<1>1. \A p \in PageIDs : \E k \in 0..MemPages-1 : Scanned(c, k) = p
  BY RoundCovers, MemPagesAssumption DEF Scanned, PageIDs
<1> QED
  BY <1>1 DEF FreeSteps

(* The places of the pages in THDB_PAGE *)

LEMMA FinitePages ==
    ASSUME NEW U \in SUBSET PageIDs
    PROVE  /\ IsFiniteSet(U)
           /\ Cardinality(U) \in 0..MemPages
  <1>1. 0 \in Int /\ MemPages-1 \in Int /\ MemPages > 0
    BY MemPagesAssumption
  <1>2. IsFiniteSet(PageIDs) /\ Cardinality(PageIDs) = MemPages
    <2> DEFINE last == MemPages-1
    <2>1. last \in Int /\ last >= 0 /\ last - 0 + 1 = MemPages /\ PageIDs = 0..last
      BY <1>1, MemPagesAssumption DEF PageIDs
    <2> HIDE DEF last
    <2>2. IsFiniteSet(0..last) /\ Cardinality(0..last) = IF 0 > last THEN 0 ELSE last - 0 + 1
      BY <1>1, <2>1, FS_Interval
    <2> QED
      BY <2>1, <2>2
  <1>3. IsFiniteSet(U) /\ Cardinality(U) <= MemPages
    BY <1>2, FS_Subset
  <1>4. Cardinality(U) \in Nat
    BY <1>3, FS_CardinalityType
  <1> QED
    BY <1>3, <1>4, MemPagesAssumption

(* The used pages are numbered from 1 to their number. *)
LEMMA PlacesAreDistinct ==
    ASSUME NEW U \in SUBSET PageIDs
    PROVE  /\ \A p \in U : Place(U, p) \in 1..Cardinality(U)
           /\ \A p, q \in U : Place(U, p) = Place(U, q) => p = q
  <1> DEFINE UpTo(p) == {q \in U : q <= p}
  <1>1. \A p \in U : UpTo(p) \in SUBSET U /\ UpTo(p) \in SUBSET PageIDs
    OBVIOUS
  <1>2. ASSUME NEW p \in U PROVE Cardinality(UpTo(p)) \in 1..Cardinality(U)
    <2>1. p \in UpTo(p)
      BY DEF PageIDs
    <2> HIDE DEF UpTo
    <2>2. IsFiniteSet(UpTo(p)) /\ Cardinality(UpTo(p)) \in Nat
      BY <1>1, FinitePages
    <2>3. Cardinality(UpTo(p)) <= Cardinality(U) /\ Cardinality(U) \in Nat
      BY <1>1, FinitePages, FS_Subset
    <2>4. Cardinality(UpTo(p)) # 0
      BY <2>1, <2>2, FS_EmptySet
    <2> QED
      BY <2>2, <2>3, <2>4
  <1>3. ASSUME NEW p \in U, NEW q \in U, p < q
        PROVE  Cardinality(UpTo(p)) # Cardinality(UpTo(q))
    <2>1. UpTo(p) \in SUBSET UpTo(q) /\ q \in UpTo(q) /\ q \notin UpTo(p)
      <3>1. \A r \in U : r \in Int
        BY DEF PageIDs
      <3>2. \A r \in U : r <= p => r <= q
        BY <1>3, <3>1
      <3>3. q <= q /\ ~(q <= p)
        BY <1>3, <3>1
      <3> QED
        BY <3>2, <3>3
    <2> HIDE DEF UpTo
    <2>2. IsFiniteSet(UpTo(q))
      BY <1>1, FinitePages
    <2> QED
      BY <2>1, <2>2, FS_Subset
  <1>4. \A p, q \in U : p < q \/ q < p \/ p = q
    BY DEF PageIDs
  <1>5. \A p : Place(U, p) = Cardinality(UpTo(p))
    BY DEF Place
  <1> HIDE DEF UpTo
  <1> QED
    BY <1>2, <1>3, <1>4, <1>5

LEMMA EveryPlaceIsTaken ==
    ASSUME NEW U \in SUBSET PageIDs, NEW i \in 1..Cardinality(U)
    PROVE  \E p \in U : Place(U, p) = i
  <1> DEFINE n == Cardinality(U)
             f == [p \in U |-> Place(U, p)]
  <1>1. f \in Injection(U, 1..n)
    BY PlacesAreDistinct DEF Injection, IsInjective
  <1>2. IsFiniteSet(1..n) /\ Cardinality(1..n) = n
    <2>1. n \in Nat
      BY FinitePages
    <2> HIDE DEF n
    <2> QED
      BY <2>1, FS_Interval
  <1>3. f \in Surjection(U, 1..n)
    <2> HIDE DEF f
    <2> QED
      BY <1>1, <1>2, FS_Injection
  <1> QED
    BY <1>3 DEF Surjection

(* StorePages writes each used page at its place. *)
LEMMA StoredPages ==
    ASSUME used \in SUBSET PageIDs
    PROVE  /\ DOMAIN Stored = 1..Cardinality(used)
           /\ \A p \in used : Stored[Place(used, p)] = memory[p]
           /\ \A i \in DOMAIN Stored : \E p \in used : Stored[i] = memory[p]
  <1> DEFINE At(i) == CHOOSE p \in used : Place(used, p) = i
  <1>1. \A i \in 1..Cardinality(used) : At(i) \in used /\ Place(used, At(i)) = i
    BY EveryPlaceIsTaken
  <1>2. \A p \in used : Place(used, p) \in 1..Cardinality(used) /\ At(Place(used, p)) = p
    BY <1>1, PlacesAreDistinct
  <1>3. Stored = [i \in 1..Cardinality(used) |-> memory[At(i)]]
    BY DEF Stored
  <1> HIDE DEF At
  <1> QED
    BY <1>1, <1>2, <1>3

-----------------------------------------------------------------------------
(* The images of the files *)

(* Whatever the files hold, some pages can be loaded, and all that can are *)
(* the pages of the bitmap.                                                *)
LEMMA LoadableImages ==
    ASSUME NEW U \in SUBSET PageIDs,
           NEW b, NEW file,
           b = U \/ (b = NoFile /\ U = {}),
           file \in {NoFile} \union Seq(Contents)
    PROVE  /\ LoadableFrom(b, file) \subseteq [U -> Contents \union {Null}]
           /\ LoadableFrom(b, file) # {}
  <1> DEFINE bitmap == IF b = NoFile THEN {} ELSE b
  <1>1. bitmap = U
    BY NoFileAssumption
  <1>2. CASE file = NoFile
    <2>1. LoadableFrom(b, file) = {[p \in U |-> Null]}
      BY <1>1, <1>2 DEF LoadableFrom
    <2> QED
      BY <2>1
  <1>3. CASE file # NoFile
    <2> DEFINE Rest == IF file = << >> THEN Contents ELSE {file[Len(file)]}
               Image(c) == [p \in U |-> IF Place(U, p) \in DOMAIN file
                                           THEN file[Place(U, p)] ELSE c]
    <2>1. file \in Seq(Contents)
      BY <1>3
    <2>2. LoadableFrom(b, file) = {Image(c) : c \in Rest}
      <3>1. LoadableFrom(b, file) = Loaded(U, file)
        BY <1>1, <1>3 DEF LoadableFrom
      <3>2. Loaded(U, file) = {Image(c) : c \in Rest}
        BY DEF Loaded
      <3> QED
        BY <3>1, <3>2
    <2>3. Rest \subseteq Contents /\ Rest # {}
      <3>1. file # << >> => Len(file) \in DOMAIN file
        BY <2>1
      <3>2. \A i \in DOMAIN file : file[i] \in Contents
        BY <2>1
      <3> QED
        BY <3>1, <3>2, ContentsAssumption
    <2>4. \A c \in Contents : Image(c) \in [U -> Contents \union {Null}]
      <3>1. \A i \in DOMAIN file : file[i] \in Contents
        BY <2>1
      <3> QED
        BY <3>1
    <2> HIDE DEF Rest, Image
    <2> QED
      BY <2>2, <2>3, <2>4
  <1> QED
    BY <1>2, <1>3

(* The file StorePages writes holds pages and can be told from no file. *)
LEMMA StoredIsAFile ==
    ASSUME used \in SUBSET PageIDs, memory \in [used -> Contents]
    PROVE  Stored \in Seq(Contents) /\ Stored # NoFile
  <1> DEFINE n == Cardinality(used)
  <1>1. n \in 0..MemPages /\ MemPages \in Nat
    BY FinitePages, MemPagesAssumption
  <1>2. DOMAIN Stored = 1..n /\ \A i \in DOMAIN Stored : Stored[i] \in Contents
    BY StoredPages
  <1>3. Stored = [i \in 1..n |-> Stored[i]]
    BY <1>2 DEF Stored
  <1>4. Stored \in [1..n -> Contents]
    <2> HIDE DEF n
    <2> QED
      BY <1>2, <1>3
  <1> HIDE DEF n
  <1> QED
    BY <1>1, <1>4, NoFileAssumption

(* A finished WriteBack brings back exactly what was in memory. *)
LEMMA StoredIsLoaded ==
    ASSUME used \in SUBSET PageIDs, memory \in [used -> Contents]
    PROVE  Loaded(used, Stored) = {memory}
  <1> DEFINE Rest == IF Stored = << >> THEN Contents ELSE {Stored[Len(Stored)]}
             Image(c) == [p \in used |-> IF Place(used, p) \in DOMAIN Stored
                                            THEN Stored[Place(used, p)] ELSE c]
  <1>1. \A c : Image(c) = memory
    <2>1. \A p \in used : /\ Place(used, p) \in DOMAIN Stored
                          /\ Stored[Place(used, p)] = memory[p]
      BY StoredPages, PlacesAreDistinct
    <2>2. memory = [p \in used |-> memory[p]]
      OBVIOUS
    <2> QED
      BY <2>1, <2>2
  <1>2. Rest # {}
    BY ContentsAssumption
  <1>3. Loaded(used, Stored) = {Image(c) : c \in Rest}
    BY DEF Loaded
  <1> HIDE DEF Rest, Image
  <1> QED
    BY <1>1, <1>2, <1>3

-----------------------------------------------------------------------------
(* The inductive invariant.  ThrowsOnlyWhenFull needs the types of the     *)
(* clock and of the used pages, WriteBack that its two halves agree.       *)

LEMMA InitIInv == Init => IInv
  <1> SUFFICES ASSUME Init PROVE IInv
    OBVIOUS
  <1>1. used = {} /\ memory \in [used -> Contents \union {Null}]
    BY DEF Init, used
  <1>2. clock \in PageIDs
    BY MemPagesAssumption DEF Init, PageIDs
  <1> QED
    BY <1>1, <1>2 DEF Init, IInv, TypeOK, ThrowsOnlyWhenFull, BitmapIsWritten

LEMMA NextIInv == IInv /\ [Next]_vars => IInv'
  <1> SUFFICES ASSUME IInv, [Next]_vars PROVE IInv'
    OBVIOUS
  <1> USE DEF IInv, TypeOK, ThrowsOnlyWhenFull, BitmapIsWritten
  <1>1. CASE NewPage
    <2> DEFINE p == FirstFree(used, clock)
    <2>1. CASE FreeSteps(used, clock) # {}
      <3>1. p \in PageIDs \ used
        BY <2>1, FirstFreeIsFree
      <3>2. /\ memory' = [q \in used \union {p} |-> IF q = p THEN Zero ELSE memory[q]]
            /\ clock' = p
            /\ answer' = "page"
            /\ UNCHANGED <<bitmapFile, pageFile, phase>>
            /\ phase = "up"
        BY <1>1, <2>1 DEF NewPage
      <3> HIDE DEF p
      <3>3. used' = used \union {p}
        BY <3>2 DEF used
      <3>4. memory' \in [used' -> Contents \union {Null}]
        BY <3>2, <3>3, ContentsAssumption
      <3> QED
        BY <3>1, <3>2, <3>3, <3>4
    <2>2. CASE FreeSteps(used, clock) = {}
      <3>1. used = PageIDs
        BY <2>2, ScanMissesNone
      <3>2. UNCHANGED <<memory, clock, bitmapFile, pageFile, phase>> /\ answer' = "NewPageException"
        BY <1>1, <2>2 DEF NewPage
      <3> QED
        BY <3>1, <3>2 DEF used
    <2> QED
      BY <2>1, <2>2
  <1>2. ASSUME NEW pid \in PageIDs, DeletePage(pid) PROVE IInv'
    BY <1>2 DEF DeletePage, used
  <1>3. ASSUME NEW pid \in PageIDs, NEW src \in Contents, WritePage(pid, src) PROVE IInv'
    BY <1>3 DEF WritePage, used
  <1>4. CASE StoreBitmap
    BY <1>4 DEF StoreBitmap, used
  <1>5. CASE StorePages
    <2>1. memory \in [used -> Contents]
      <3>1. \A p \in used : memory[p] \in Contents
        BY <1>5 DEF StorePages, Range, used
      <3> QED
        BY <3>1
    <2>2. pageFile' \in Seq(Contents)
      BY <1>5, <2>1, StoredIsAFile DEF StorePages
    <2> QED
      BY <1>5, <2>2 DEF StorePages, used
  <1>6. CASE Die
    <2>1. pageFile' \in {NoFile} \union Seq(Contents)
      <3>1. ASSUME NEW n \in 0..Cardinality(used), \A i \in 1..n : Stored[i] # Null
            PROVE  SubSeq(Stored, 1, n) \in Seq(Contents)
        <4>1. Cardinality(used) \in Nat
          BY FinitePages
        <4>2. \A i \in 1..n : i \in DOMAIN Stored
          BY <4>1, StoredPages
        <4>3. \A i \in 1..n : Stored[i] \in Contents
          BY <4>2, <3>1, StoredPages
        <4>4. SubSeq(Stored, 1, n) = [i \in 1..n |-> Stored[i]]
          BY <4>1
        <4> QED
          BY <4>1, <4>3, <4>4
      <3> QED
        BY <1>6, <3>1 DEF Die
    <2> QED
      BY <1>6, <2>1 DEF Die, used
  <1>7. CASE Load
    <2>1. PICK U \in SUBSET PageIDs : bitmapFile = U \/ (bitmapFile = NoFile /\ U = {})
      OBVIOUS
    <2>2. memory' \in [U -> Contents \union {Null}]
      BY <1>7, <2>1, LoadableImages DEF Load, Loadable
    <2>3. clock' \in PageIDs
      BY <1>7, MemPagesAssumption DEF Load, PageIDs
    <2>4. used' = U
      BY <2>2 DEF used
    <2> QED
      BY <1>7, <2>2, <2>3, <2>4 DEF Load
  <1>8. CASE UNCHANGED vars
    BY <1>8 DEF vars, used
  <1> QED
    BY <1>1, <1>2, <1>3, <1>4, <1>5, <1>6, <1>7, <1>8 DEF Next

LEMMA InvariantHolds == Spec => []IInv
  BY InitIInv, NextIInv, PTL DEF Spec

(* For every number of pages, the clock and the used pages stay within the *)
(* memory and THDB_PAGE holds pages.                                       *)
THEOREM TypeCorrect == Spec => []TypeOK
  <1>1. IInv => TypeOK
    BY DEF IInv
  <1> QED
    BY <1>1, InvariantHolds, PTL

(* For every number of pages, NewPage throws only when all are in use.     *)
THEOREM NoPageIsMissed == Spec => []ThrowsOnlyWhenFull
  <1>1. IInv => ThrowsOnlyWhenFull
    BY DEF IInv
  <1> QED
    BY <1>1, InvariantHolds, PTL

-----------------------------------------------------------------------------
(* MiniOS implements PageStore. *)

LEMMA InitImplements == Init => Pages!Init
  <1> SUFFICES ASSUME Init PROVE Pages!Init
    OBVIOUS
  <1>1. Loadable = {[p \in {} |-> Null]}
    BY DEF Init, Loadable, LoadableFrom
  <1>2. [p \in {} |-> Null] = << >>
    OBVIOUS
  <1> QED
    BY <1>1, <1>2 DEF Init, Pages!Init

LEMMA NextImplements == IInv /\ [Next]_vars => [Pages!Next]_(Pages!vars)
  <1> SUFFICES ASSUME IInv, [Next]_vars PROVE Pages!Next \/ UNCHANGED Pages!vars
    OBVIOUS
  <1> USE DEF IInv, TypeOK
  <1>1. CASE NewPage
    <2> DEFINE p == FirstFree(used, clock)
    <2>1. CASE FreeSteps(used, clock) # {}
      <3>1. p \in PageIDs \ used
        BY <2>1, FirstFreeIsFree
      <3>2. Pages!New
        BY <1>1, <2>1, <3>1 DEF NewPage, Pages!New, used, Loadable
      <3> QED
        BY <3>2 DEF Pages!Next
    <2>2. CASE FreeSteps(used, clock) = {}
      BY <1>1, <2>2 DEF NewPage, Pages!vars, Loadable
    <2> QED
      BY <2>1, <2>2
  <1>2. ASSUME NEW pid \in PageIDs, DeletePage(pid) PROVE Pages!Delete
    BY <1>2 DEF DeletePage, used, Pages!Delete, Pages!Restrict, Loadable
  <1>3. ASSUME NEW pid \in PageIDs, NEW src \in Contents, WritePage(pid, src) PROVE Pages!Write
    BY <1>3 DEF WritePage, used, Pages!Write, Loadable
  <1>4. ASSUME StoreBitmap PROVE Pages!BeginSave
    <2>1. Loadable' \subseteq [used -> Contents \union {Null}] /\ Loadable' # {}
      <3>1. /\ used \in SUBSET PageIDs
            /\ pageFile \in {NoFile} \union Seq(Contents)
            /\ bitmapFile' = used /\ pageFile' = pageFile
        BY <1>4 DEF StoreBitmap
      <3> HIDE DEF IInv, TypeOK
      <3> QED
        BY <3>1, LoadableImages DEF Loadable
    <2> HIDE DEF Loadable
    <2> QED
      BY <1>4, <2>1 DEF StoreBitmap, Pages!BeginSave, Pages!Images, used
  <1>5. ASSUME StorePages PROVE Pages!EndSave
    <2>1. memory \in [used -> Contents]
      <3>1. \A p \in used : memory[p] \in Contents
        BY <1>5 DEF StorePages, Range, used
      <3> QED
        BY <3>1
    <2>2. Stored # NoFile /\ used # NoFile
      BY <2>1, StoredIsAFile, NoFileAssumption
    <2>3. bitmapFile' = used /\ pageFile' = Stored
      BY <1>5 DEF StorePages, BitmapIsWritten
    <2>4. Loadable' = {memory}
      BY <2>1, <2>2, <2>3, StoredIsLoaded DEF Loadable, LoadableFrom
    <2> HIDE DEF Loadable
    <2> QED
      BY <1>5, <2>4 DEF StorePages, Pages!EndSave
  <1>6. ASSUME Die PROVE Pages!Die
    <2>1. CASE UNCHANGED pageFile /\ phase = "up"
      BY <1>6, <2>1 DEF Die, Pages!Die, Loadable
    <2>2. CASE phase = "storing"
      <3>1. pageFile' \in {NoFile} \union Seq(Contents)
        BY NextIInv
      <3>2. Loadable' \subseteq [used -> Contents \union {Null}] /\ Loadable' # {}
        BY <1>6, <2>2, <3>1, LoadableImages DEF Die, Loadable, BitmapIsWritten
      <3> HIDE DEF Loadable
      <3> QED
        BY <1>6, <2>2, <3>2 DEF Die, Pages!Die, Pages!Images, used
    <2> QED
      BY <1>6, <2>1, <2>2 DEF Die
  <1>7. ASSUME Load PROVE Pages!Load
    BY <1>7 DEF Load, Pages!Load, Loadable
  <1>8. ASSUME UNCHANGED vars PROVE UNCHANGED Pages!vars
    BY <1>8 DEF vars, Pages!vars, Loadable
  <1> QED
    BY <1>1, <1>2, <1>3, <1>4, <1>5, <1>6, <1>7, <1>8 DEF Next, Pages!Next

(* For every number of pages and contents MiniOS implements PageStore: ids *)
(* are given out once, fresh pages are zeroed, and a finished WriteBack is *)
(* what the next MiniOS comes up with.                                     *)
THEOREM Implements == Spec => ImplementsPageStore
  <1>1. Init => Pages!Init
    BY InitImplements
  <1>2. IInv /\ [Next]_vars => [Pages!Next]_(Pages!vars)
    BY NextImplements
  <1> QED
    BY <1>1, <1>2, InvariantHolds, PTL DEF Spec, ImplementsPageStore, Pages!Spec
=============================================================================
