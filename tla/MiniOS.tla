------------------------------- MODULE MiniOS -------------------------------
(***************************************************************************)
(* MiniOS: the pages in memory, the bitmap and clock that allocate them,   *)
(* and the two files the destructor writes and the constructor reads.  The *)
(* process may die between any two steps, also between the two files.      *)
(***************************************************************************)
EXTENDS Allocation, FiniteSets, Sequences, Functions

CONSTANTS
    Contents,       \* what a page can hold
    Zero,           \* the content of a new RawPage
    Null,           \* the pointer of a used page that LoadPages has not read
    NoFile          \* a file that does not exist

ASSUME ContentsAssumption == Zero \in Contents /\ Null \notin Contents
ASSUME NoFileAssumption ==
    /\ \A U \in SUBSET PageIDs : NoFile # U
    /\ \A n \in 0..MemPages : \A file \in [1..n -> Contents] : NoFile # file

VARIABLES
    memory,         \* _pMemory[p] of the used pages; its DOMAIN is _pUsed
    clock,          \* _nClock
    bitmapFile,     \* THDB_BITMAP
    pageFile,       \* THDB_PAGE: the used pages, in order of their ids
    answer,         \* what the last NewPage returned, or threw
    phase           \* "up"; "storing": the bitmap is written, the pages are
                    \* not; "down": WriteBack has come to its end, there is
                    \* no MiniOS object; "dead": there is no process

vars == <<memory, clock, bitmapFile, pageFile, answer, phase>>

used == DOMAIN memory

(* The place of page p among the used pages. *)
Place(U, p) == Cardinality({q \in U : q <= p})

(* THDB_PAGE as StorePages writes it. *)
Stored ==
    [i \in 1..Cardinality(used) |->
        memory[CHOOSE p \in used : Place(used, p) = i]]

(* Mutant: LoadPages skips the first page of the file. *)
Loaded_SkipsFirst(U, file) ==
    {[p \in U |-> IF Place(U, p) + 1 \in DOMAIN file THEN file[Place(U, p) + 1] ELSE c] :
        c \in Contents}

(* What LoadPages may make of the file for the pages U of the bitmap: its  *)
(* buffer keeps the last page read where the file is too short, and starts *)
(* with whatever the stack holds.                                          *)
Loaded(U, file) ==
    {[p \in U |-> IF Place(U, p) \in DOMAIN file THEN file[Place(U, p)] ELSE c] :
        c \in IF file = << >> THEN Contents ELSE {file[Len(file)]}}

(* The pages the constructor may come up with from the two files; it reads *)
(* none without THDB_PAGE.                                                 *)
LoadableFrom(bitmaps, file) ==
    LET bitmap == IF bitmaps = NoFile THEN {} ELSE bitmaps
    IN  IF file = NoFile THEN {[p \in bitmap |-> Null]} ELSE Loaded(bitmap, file)

Loadable == LoadableFrom(bitmapFile, pageFile)

Init ==
    /\ memory = << >>
    /\ clock = 0
    /\ bitmapFile = NoFile
    /\ pageFile = NoFile
    /\ answer = "none"
    /\ phase = "up"

-----------------------------------------------------------------------------
(* The clock stays on the new page; after a scan all round it is where it  *)
(* was.                                                                    *)
NewPage ==
    /\ phase = "up"
    /\ LET p == FirstFree(used, clock)
       IN  \/ /\ FreeSteps(used, clock) # {}
              /\ memory' = [q \in used \union {p} |-> IF q = p THEN Zero ELSE memory[q]]
              /\ clock' = p
              /\ answer' = "page"
           \/ /\ FreeSteps(used, clock) = {}
              /\ answer' = "NewPageException"
              /\ UNCHANGED <<memory, clock>>
    /\ UNCHANGED <<bitmapFile, pageFile, phase>>

DeletePage(pid) ==
    /\ phase = "up"
    /\ pid \in used
    /\ memory' = [q \in used \ {pid} |-> memory[q]]
    /\ answer' = "none"
    /\ UNCHANGED <<clock, bitmapFile, pageFile, phase>>

WritePage(pid, src) ==
    /\ phase = "up"
    /\ pid \in used
    /\ memory[pid] # Null
    /\ memory' = [memory EXCEPT ![pid] = src]
    /\ answer' = "none"
    /\ UNCHANGED <<clock, bitmapFile, pageFile, phase>>

(* WriteBack, first half.  Opening THDB_PAGE for writing comes after it.   *)
StoreBitmap ==
    /\ phase = "up"
    /\ bitmapFile' = used
    /\ phase' = "storing"
    /\ answer' = "none"
    /\ UNCHANGED <<memory, clock, pageFile>>

(* WriteBack, second half; the MiniOS object is gone. *)
StorePages ==
    /\ phase = "storing"
    /\ Null \notin Range(memory)
    /\ pageFile' = Stored
    /\ phase' = "down"
    /\ UNCHANGED <<memory, clock, bitmapFile, answer>>

(* The process dies, of a Null among other reasons.  Inside StorePages some *)
(* first pages are in the file.                                            *)
Die ==
    /\ phase \in {"up", "storing"}
    /\ \/ UNCHANGED pageFile
       \/ /\ phase = "storing"
          /\ \E n \in 0..Cardinality(used) :
                /\ \A i \in 1..n : Stored[i] # Null
                /\ pageFile' = SubSeq(Stored, 1, n)
    /\ phase' = "dead"
    /\ answer' = "none"
    /\ UNCHANGED <<memory, clock, bitmapFile>>

(* GetOS builds the object again. *)
Load ==
    /\ phase \in {"down", "dead"}
    /\ memory' \in Loadable
    /\ clock' = 0
    /\ phase' = "up"
    /\ answer' = "none"
    /\ UNCHANGED <<bitmapFile, pageFile>>

Next ==
    \/ NewPage
    \/ \E pid \in PageIDs :
        DeletePage(pid) \/ \E src \in Contents : WritePage(pid, src)
    \/ StoreBitmap
    \/ StorePages
    \/ Die
    \/ Load

Spec == Init /\ [][Next]_vars
-----------------------------------------------------------------------------
(* Correctness *)

(* Every variable keeps its type: the clock and the used pages stay within *)
(* the memory, THDB_PAGE holds pages.                                      *)
TypeOK ==
    /\ used \subseteq PageIDs
    /\ memory \in [used -> Contents \union {Null}]
    /\ clock \in PageIDs
    /\ bitmapFile \in {NoFile} \union SUBSET PageIDs
    /\ pageFile \in {NoFile} \union Seq(Contents)
    /\ answer \in {"none", "page", "NewPageException"}
    /\ phase \in {"up", "storing", "down", "dead"}

(* NewPage throws only when every page is in use: the scan of the bitmap   *)
(* misses none, wherever the clock stands.                                 *)
ThrowsOnlyWhenFull == answer = "NewPageException" => used = PageIDs

(* Between the two halves of WriteBack the bitmap of the files is that of  *)
(* the memory.                                                             *)
BitmapIsWritten == phase = "storing" => bitmapFile = used

(* The inductive invariant: WriteBack saves what MiniOS holds.             *)
IInv == TypeOK /\ ThrowsOnlyWhenFull /\ BitmapIsWritten

(* Pages reappear under their ids: MiniOS implements PageStore, whose      *)
(* saved pages are those that Load may find in the two files.              *)
Pages == INSTANCE PageStore WITH
    PageIDs <- PageIDs,
    Contents <- Contents,
    Zero <- Zero,
    Lost <- Null,
    pages <- memory,
    saved <- Loadable,
    status <- CASE phase = "up" -> "running"
                [] phase = "storing" -> "saving"
                [] phase = "down" -> "stopped"
                [] phase = "dead" -> "dead"

ImplementsPageStore == Pages!Spec
=============================================================================
