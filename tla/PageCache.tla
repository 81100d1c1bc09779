------------------------------ MODULE PageCache ------------------------------
(***************************************************************************)
(* The page cache of one file over the radix tree, and generic_file_read   *)
(* and generic_file_write, page by page.  Another process may come between *)
(* the miss and the insertion, which the code provides for, and while      *)
(* readpage, which belongs to the file system and is external, sleeps.     *)
(***************************************************************************)
EXTENDS RadixTree

CONSTANTS
    Accessor,   \* processes
    Index,      \* page indexes used
    PageId,     \* page frames, an interval from 1
    MaxCountUp  \* bound on failed reads

VARIABLES
    page_tree, nrpages,
    pages,      \* each page: its state, index and _count
    at, work    \* where each process is, and the page and index it works on

pcVars == <<page_tree, nrpages, pages, at, work>>

FreePages == {g \in PageId : pages[g].state = "free"}
NoPage == [state |-> "free", index |-> 0, count |-> 0, failed |-> 0]
Idle(p) == at' = [at EXCEPT ![p] = "idle"] /\ work' = [work EXCEPT ![p] = <<0, 0>>]
Go(p, l, g, i) == at' = [at EXCEPT ![p] = l] /\ work' = [work EXCEPT ![p] = <<g, i>>]

PcInit == /\ page_tree = EmptyTree /\ nrpages = 0
          /\ pages = [g \in PageId |-> NoPage]
          /\ at = [p \in Accessor |-> "idle"] /\ work = [p \in Accessor |-> <<0, 0>>]

\* find_get_page; on a miss a frame and a struct page, all zero, its count too.
find_get_page(p, i) ==
    LET g == radix_tree_lookup(page_tree, i)
    IN  /\ at[p] = "idle"
        /\ \/ /\ g # 0 /\ pages' = [pages EXCEPT ![g].count = @ + 1] /\ Go(p, "use", g, i)
           \/ /\ g = 0 /\ FreePages # {}
              /\ LET new == CHOOSE x \in FreePages : \A y \in FreePages : x <= y
                 IN  pages' = [pages EXCEPT ![new] = [NoPage EXCEPT !.state = "private"]] /\ Go(p, "miss", new, i)
        /\ UNCHANGED <<page_tree, nrpages>>

\* add_to_page_cache.  When the slot is taken or a node cannot be had, the page
\* is freed and the cache searched again.
add_to_page_cache(p, budget) ==
    LET g == work[p][1]
        i == work[p][2]
        r == radix_tree_insert(page_tree, i, g, budget)
        other == radix_tree_lookup(r.t, i)
    IN  /\ at[p] = "miss" /\ page_tree' = r.t
        /\ IF r.ok
           THEN /\ pages' = [pages EXCEPT ![g].state = "cached", ![g].index = i]
                /\ nrpages' = nrpages + 1 /\ Go(p, "fill", g, i)
           ELSE IF other # 0
           THEN /\ pages' = [pages EXCEPT ![g] = NoPage, ![other].count = @ + 1]
                /\ Go(p, "use", other, i) /\ UNCHANGED nrpages
           ELSE pages' = [pages EXCEPT ![g] = NoPage] /\ Idle(p) /\ UNCHANGED nrpages

\* readpage, or the clearing of the page.  A read whose readpage fails returns
\* at once, the page left in the cache; a write goes on.
readpage(p, ok) ==
    LET g == work[p][1]
    IN  /\ at[p] = "fill"
        /\ \/ Go(p, "use", g, work[p][2]) /\ UNCHANGED pages
           \/ ~ok /\ pages[g].failed < MaxCountUp
              /\ pages' = [pages EXCEPT ![g].failed = @ + 1] /\ Idle(p)
        /\ UNCHANGED <<page_tree, nrpages>>

\* The copy, and put_page, which frees nothing.
put_page(p) ==
    /\ at[p] = "use" /\ pages' = [pages EXCEPT ![work[p][1]].count = @ - 1] /\ Idle(p)
    /\ UNCHANGED <<page_tree, nrpages>>

\* delete_from_page_cache, once no process is at the page; nothing else frees
\* the page, and the model gives its frame back to have it used again.
delete_from_page_cache(g) ==
    /\ pages[g].state = "cached" /\ \A p \in Accessor : work[p][1] # g
    /\ page_tree' = radix_tree_delete(page_tree, pages[g].index)
    /\ nrpages' = nrpages - 1
    /\ pages' = [pages EXCEPT ![g] = NoPage]
    /\ UNCHANGED <<at, work>>

PcNext ==
    \/ \E p \in Accessor : \/ \E i \in Index : find_get_page(p, i)
                           \/ \E budget \in 0 .. 4 : add_to_page_cache(p, budget)
                           \/ \E ok \in BOOLEAN : readpage(p, ok)
                           \/ put_page(p)
    \/ \E g \in PageId : delete_from_page_cache(g)

-----------------------------------------------------------------------------
\* The tree holds exactly the cached pages, each at its index and nowhere else,
\* also after insertions that ran out of memory half way and after deletions
\* that freed nodes and lowered the tree; nrpages counts them; and every node
\* counts its children, which is what freeing and shrinking go by.  A page's
\* count is always one below the number of processes working on it (a failed
\* readpage keeps one more), for the page is entered with count 0, not 1; and a
\* frame not in the cache is held by the one process about to enter it.
PageCacheExact ==
    /\ \A i \in 0 .. Pow[4] - 1 :
         radix_tree_lookup(page_tree, i) =
             LET here == {g \in PageId : pages[g].state = "cached" /\ pages[g].index = i}
             IN  IF here = {} THEN 0 ELSE CHOOSE g \in here : TRUE
    /\ nrpages = Cardinality({g \in PageId : pages[g].state = "cached"})
    /\ CountsChildren(page_tree)
    /\ \A g \in PageId :
          LET users == {p \in Accessor : work[p][1] = g}
          IN  /\ pages[g].state = "cached"
                 => pages[g].count = Cardinality(users) - 1 + pages[g].failed
              /\ pages[g].state = "private" => Cardinality(users) = 1
=============================================================================
