---------------------------- MODULE MCAllocators ----------------------------
(***************************************************************************)
(* The two allocators of the kernel, pages and heap.  The heap's area is   *)
(* fixed at boot and never asks for pages, so a behaviour exercises one.   *)
(***************************************************************************)
EXTENDS Pmm, Heap

VARIABLE allocator

allocVars == <<allocator, pmmVars, heapVars>>

AllocInit ==
    /\ allocator \in {"pages", "heap"}
    /\ pmm_init /\ heap_init
    /\ allocator = "heap" => used = Run(0, low_pages) \union Reserved

UsePages == allocator = "pages" /\ PmmNext /\ UNCHANGED <<allocator, heapVars>>
UseHeap == allocator = "heap" /\ HeapNext /\ UNCHANGED <<allocator, pmmVars>>

AllocSpec == AllocInit /\ [][UsePages \/ UseHeap]_allocVars

\* No page is in the hands of two callers or taken from the kernel's own; the
\* counter never falls below what the bitmap has free, although the fallback of
\* pmm_init counts the reserved pages in; and the scan of pmm_alloc_pages, which
\* skips ahead, finds the first run of free pages there is.
PagesSound == PmmTypeOK /\ GrantsDisjoint /\ CounterCovers /\ ScanIsFirstFit

\* The blocks of the heap tile it, linked both ways, no two neighbours are free,
\* and what kmalloc handed out is a used block as large as asked for: no two
\* callers' memory overlaps, and no request fails for want of a merge.
HeapSound == HeapTypeOK /\ Tiles /\ Coalesced /\ LiveIsIntact
=============================================================================
