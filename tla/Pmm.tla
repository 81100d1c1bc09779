--------------------------------- MODULE Pmm ---------------------------------
(***************************************************************************)
(* The physical page allocator: the bitmap, the free-memory counter and    *)
(* the search hint, through pmm_init and every allocation and release.     *)
(* Memory is counted in pages.  Callers release what they were given, and  *)
(* once; the allocator itself does not check that.                         *)
(***************************************************************************)
EXTENDS Integers, FiniteSets

CONSTANTS
    total_pages,
    low_pages,       \* pages below 1 MB, 0x100000 / PAGE_SIZE
    reserved_frames  \* pages holding the kernel and the bitmap, from page 0 on

Page == 0 .. total_pages - 1

ASSUME PmmAssumption ==
    /\ total_pages \in Nat /\ low_pages \in Nat /\ reserved_frames \in Nat
    /\ 0 < reserved_frames /\ reserved_frames < total_pages
    /\ low_pages < total_pages

VARIABLES
    used,             \* the pages whose bit is set
    free_memory,
    last_free_index,
    grants            \* what callers hold, as <<first page, number of pages>>

pmmVars == <<used, free_memory, last_free_index, grants>>

Free         == Page \ used
Run(i, n)    == i .. i + n - 1
Reserved     == Run(0, reserved_frames)

-----------------------------------------------------------------------------
\* What the memory map leaves free once the kernel and the bitmap are set aside.
\* Bits past the last whole byte of the bitmap are not initialised, and pages
\* of no map entry stay set, so any set of pages is possible.
FromMap(map) ==
    /\ map \ Reserved # {}
    /\ used = Page \ (map \ Reserved)
    /\ free_memory = Cardinality(map \ Reserved)

\* Nothing free in the map: everything above 1 MB is released and counted, and
\* the kernel and the bitmap are set aside again after the count.
Fallback ==
    LET high == Page \ Run(0, low_pages)
    IN  /\ used = (Page \ high) \union Reserved
        /\ free_memory = Cardinality(high)

pmm_init ==
    /\ (\E map \in SUBSET Page : FromMap(map)) \/ Fallback
    /\ last_free_index = 0
    /\ grants = {}

-----------------------------------------------------------------------------
Lowest(S) == CHOOSE i \in S : \A j \in S : i <= j

\* The search among the pages not in u starts at the hint and wraps around.
pmm_find_first_free(u, hint) ==
    LET above == {i \in Page \ u : i >= hint}
    IN  IF above # {} THEN Lowest(above)
        ELSE IF u # Page THEN Lowest(Page \ u) ELSE -1

\* Faulty variant: the hint is left one past the page, which may be the end.
pmm_alloc_page_HintPast ==
    LET found == pmm_find_first_free(used, last_free_index)
        u     == IF found = 0 THEN used \union {0} ELSE used
        bit   == IF found = 0 THEN pmm_find_first_free(u, 0) ELSE found
    IN  /\ bit # -1
        /\ used' = u \union {bit}
        /\ free_memory' = free_memory - 1
        /\ last_free_index' = bit + 1
        /\ grants' = grants \union {<<bit, 1>>}

\* pmm_alloc_page.  Page 0, whose address would read as failure, is set aside
\* when the search returns it, and the search repeated from there.
pmm_alloc_page ==
    LET found == pmm_find_first_free(used, last_free_index)
        u     == IF found = 0 THEN used \union {0} ELSE used
        bit   == IF found = 0 THEN pmm_find_first_free(u, 0) ELSE found
    IN  /\ bit # -1
        /\ used' = u \union {bit}
        /\ free_memory' = free_memory - 1
        /\ last_free_index' = bit
        /\ grants' = grants \union {<<bit, 1>>}

\* Faulty variant: the scan also skips the page behind the set bit.
FirstRun_SkipsOne(n) ==
    LET scan[i \in 0 .. total_pages + 1] ==
            IF i > total_pages - n THEN -1
            ELSE LET hit == Run(i, n) \intersect used
                 IN  IF hit = {} THEN i ELSE scan[Lowest(hit) + 2]
    IN  scan[0]

\* The scan of pmm_alloc_pages: at a set bit it goes on behind that bit.
FirstRun(n) ==
    LET scan[i \in 0 .. total_pages] ==
            IF i > total_pages - n THEN -1
            ELSE LET hit == Run(i, n) \intersect used
                 IN  IF hit = {} THEN i ELSE scan[Lowest(hit) + 1]
    IN  scan[0]

\* Faulty variant: the last page of the run is not marked.
pmm_alloc_pages_OneShort(n) ==
    LET i == FirstRun(n)
    IN  /\ i # -1
        /\ used' = used \union Run(i, n - 1)
        /\ free_memory' = free_memory - n
        /\ grants' = grants \union {<<i, n>>}
        /\ UNCHANGED last_free_index

pmm_alloc_pages(n) ==
    LET i == FirstRun(n)
    IN  /\ i # -1
        /\ used' = used \union Run(i, n)
        /\ free_memory' = free_memory - n
        /\ grants' = grants \union {<<i, n>>}
        /\ UNCHANGED last_free_index

\* The hint moves back to the lowest page released.
LowerHint(bit) == last_free_index' = IF bit < last_free_index THEN bit ELSE last_free_index

pmm_free_page(g) ==
    /\ g[2] = 1
    /\ used' = used \ {g[1]}
    /\ free_memory' = free_memory + 1
    /\ LowerHint(g[1])
    /\ grants' = grants \ {g}

\* Faulty variant: only one page is counted.
pmm_free_pages_CountsOne(g) ==
    /\ used' = used \ Run(g[1], g[2])
    /\ free_memory' = free_memory + 1
    /\ LowerHint(g[1])
    /\ grants' = grants \ {g}

pmm_free_pages(g) ==
    /\ used' = used \ Run(g[1], g[2])
    /\ free_memory' = free_memory + g[2]
    /\ LowerHint(g[1])
    /\ grants' = grants \ {g}

PmmNext ==
    \/ pmm_alloc_page
    \/ \E n \in 1 .. total_pages : pmm_alloc_pages(n)
    \/ \E g \in grants : pmm_free_page(g) \/ pmm_free_pages(g)

-----------------------------------------------------------------------------
\* The variables of the allocator keep their types.
PmmTypeOK ==
    /\ used \subseteq Page
    /\ free_memory \in Nat
    /\ last_free_index \in Page
    /\ grants \subseteq Page \X (1 .. total_pages)

\* No page is in the hands of two callers, and none of the kernel's own pages
\* in those of any: live grants are disjoint, marked used, and above the
\* reserved area.
GrantsDisjoint ==
    /\ \A g \in grants : /\ Run(g[1], g[2]) \subseteq used
                         /\ Run(g[1], g[2]) \intersect Reserved = {}
    /\ \A g, h \in grants : g # h => Run(g[1], g[2]) \intersect Run(h[1], h[2]) = {}

\* The counter never falls below what the bitmap has free, so it never wraps
\* below zero, although the fallback of pmm_init counts the reserved pages in.
CounterCovers == free_memory >= Cardinality(Free)

\* The scan of pmm_alloc_pages, which skips ahead, finds the first run there is,
\* and fails only when there is none.
ScanIsFirstFit ==
    \A n \in 1 .. total_pages :
        LET runs == {i \in 0 .. total_pages - n : Run(i, n) \subseteq Free}
        IN  FirstRun(n) = IF runs = {} THEN -1 ELSE Lowest(runs)
=============================================================================
