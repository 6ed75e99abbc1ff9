----------------------------- MODULE Allocation -----------------------------
(***************************************************************************)
(* How MiniOS picks the page of a NewPage: it scans its bitmap once round, *)
(* from the clock on.  MiniOS.tla models the allocator itself; the modules *)
(* above it use these operators.                                           *)
(***************************************************************************)
EXTENDS Integers

CONSTANT MemPages           \* the number of pages, 2^18 in the code

ASSUME MemPagesAssumption == MemPages \in Nat \ {0}

PageIDs == 0..MemPages-1

(* Mutant: the clock does not wrap. *)
Scanned_NoWrap(clock, k) == clock + k

(* The page the scan looks at after k steps. *)
Scanned(clock, k) == (clock + k) % MemPages

(* Mutant: the scan stops one page before it is round. *)
FreeSteps_OneShort(used, clock) ==
    {k \in 0..MemPages-2 : Scanned(clock, k) \notin used}

(* The steps at which the scan meets a free page. *)
FreeSteps(used, clock) == {k \in 0..MemPages-1 : Scanned(clock, k) \notin used}

(* The page NewPage returns; it exists when FreeSteps is not empty. *)
FirstFree(used, clock) ==
    Scanned(clock, CHOOSE k \in FreeSteps(used, clock) :
                        \A j \in FreeSteps(used, clock) : k <= j)
=============================================================================
