------------------------------ MODULE PageStore ------------------------------
(***************************************************************************)
(* What MiniOS promises the layers above it: page ids are given out once   *)
(* until they are deleted, fresh pages are zeroed, nothing but a write     *)
(* changes a page, and the process comes back to the pages of its last     *)
(* finished WriteBack.  A process that dies inside WriteBack comes back to *)
(* the page ids it was saving, but to no particular pages.                 *)
(***************************************************************************)
EXTENDS Functions

CONSTANTS
    PageIDs,
    Contents,   \* what a page can hold
    Zero,       \* the content of a page nobody has written to
    Lost        \* a used page that cannot be accessed

VARIABLES
    pages,      \* the used pages, in memory
    saved,      \* the pages the process may come back to
    status      \* "running", "saving", "stopped" (after a finished WriteBack)
                \* or "dead"

vars == <<pages, saved, status>>

Images == [DOMAIN pages -> Contents \union {Lost}]

Init ==
    /\ pages = << >>
    /\ saved = {<< >>}
    /\ status = "running"

New ==
    /\ status = "running"
    /\ \E p \in PageIDs \ DOMAIN pages :
        pages' = [q \in DOMAIN pages \union {p} |-> IF q = p THEN Zero ELSE pages[q]]
    /\ UNCHANGED <<saved, status>>

Delete ==
    /\ status = "running"
    /\ \E p \in DOMAIN pages : pages' = Restrict(pages, DOMAIN pages \ {p})
    /\ UNCHANGED <<saved, status>>

Write ==
    /\ status = "running"
    /\ \E p \in DOMAIN pages, c \in Contents : pages' = [pages EXCEPT ![p] = c]
    /\ UNCHANGED <<saved, status>>

BeginSave ==
    /\ status = "running"
    /\ saved' \in (SUBSET Images) \ {{}}
    /\ status' = "saving"
    /\ UNCHANGED pages

EndSave ==
    /\ status = "saving"
    /\ saved' = {pages}
    /\ status' = "stopped"
    /\ UNCHANGED pages

Die ==
    /\ \/ status = "running" /\ UNCHANGED saved
       \/ status = "saving" /\ saved' \in (SUBSET Images) \ {{}}
    /\ status' = "dead"
    /\ UNCHANGED pages

Load ==
    /\ status \in {"stopped", "dead"}
    /\ pages' \in saved
    /\ status' = "running"
    /\ UNCHANGED saved

Next == New \/ Delete \/ Write \/ BeginSave \/ EndSave \/ Die \/ Load

Spec == Init /\ [][Next]_vars
=============================================================================
