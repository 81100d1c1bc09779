-------------------------------- MODULE Heap --------------------------------
(***************************************************************************)
(* kmalloc and kfree: first fit with splitting, and merging with both      *)
(* neighbours.  Addresses and sizes are in units of 8 bytes.  The block    *)
(* headers are kept as the code keeps them, linked both ways, at the       *)
(* address of their block.  The header of a block absorbed by a merge is   *)
(* dead memory no later call looks at, and is forgotten.                   *)
(* Both calls run under heap_lock and are one step; callers free what they *)
(* were given, and once.                                                   *)
(***************************************************************************)
EXTENDS Naturals, FiniteSets

CONSTANTS
    HeapSize,         \* size of the heap
    HEAP_BLOCK_SIZE,  \* size of a block header
    MinSplit,         \* a rest is split off only above header + this
    MaxSize           \* bound: largest request

ASSUME HeapAssumption ==
    /\ HeapSize \in Nat /\ HEAP_BLOCK_SIZE \in Nat \ {0} /\ MinSplit \in Nat
    /\ MaxSize \in Nat /\ HEAP_BLOCK_SIZE < HeapSize

Addr == 0 .. HeapSize - 1
Null == HeapSize               \* the null pointer; also the end of the heap

Header == [size : Nat, next : Addr \union {Null}, prev : Addr \union {Null},
           free : BOOLEAN, magic : BOOLEAN]

VARIABLES
    hdr,    \* hdr[a]: the header at address a, or NoHeader
    live    \* what callers hold: <<block, requested size>>

heapVars == <<hdr, live>>

free_list == 0                 \* the list starts at the first block, always

NoHeader == [size |-> 0, next |-> Null, prev |-> Null, free |-> FALSE, magic |-> FALSE]

heap_init ==
    /\ hdr = [a \in Addr |->
                IF a = 0 THEN [size |-> HeapSize - HEAP_BLOCK_SIZE, next |-> Null,
                               prev |-> Null, free |-> TRUE, magic |-> TRUE]
                ELSE NoHeader]
    /\ live = {}

\* The blocks the list runs through, from block b on.
Chain(b) ==
    LET walk[a \in Addr \union {Null}, n \in 0 .. HeapSize] ==
            IF a = Null \/ n = 0 THEN {} ELSE {a} \union walk[hdr[a].next, n - 1]
    IN  walk[b, HeapSize]

Blocks == Chain(free_list)

SetPrev(h, b, p) == IF b = Null THEN h ELSE [h EXCEPT ![b].prev = p]

-----------------------------------------------------------------------------
Split(h, b, n) ==
    LET rest == b + HEAP_BLOCK_SIZE + n
        h1   == [h EXCEPT ![rest] = [size  |-> h[b].size - n - HEAP_BLOCK_SIZE,
                                     next  |-> h[b].next, prev |-> b,
                                     free  |-> TRUE, magic |-> TRUE],
                          ![b].size = n, ![b].next = rest]
    IN  SetPrev(h1, h[b].next, rest)

\* Faulty variants: the rest is split off without room for its header; or used
\* blocks are handed out again.
kmalloc_SplitsAll(n) ==
    LET fit == {b \in Blocks : hdr[b].free /\ hdr[b].size >= n}
    IN  /\ fit # {}
        /\ LET b == CHOOSE b \in fit : \A c \in fit : b <= c
               h == IF hdr[b].size > n
                    THEN Split(hdr, b, n) ELSE hdr
           IN  hdr' = [h EXCEPT ![b].free = FALSE] /\ live' = live \union {<<b, n>>}
kmalloc_AnyBlock(n) ==
    LET fit == {b \in Blocks : hdr[b].size >= n}
    IN  /\ fit # {}
        /\ LET b == CHOOSE b \in fit : \A c \in fit : b <= c
               h == IF hdr[b].size > n + HEAP_BLOCK_SIZE + MinSplit
                    THEN Split(hdr, b, n) ELSE hdr
           IN  hdr' = [h EXCEPT ![b].free = FALSE] /\ live' = live \union {<<b, n>>}

\* n is the request, rounded up to the unit.
kmalloc(n) ==
    LET fit == {b \in Blocks : hdr[b].free /\ hdr[b].size >= n}
    IN  /\ fit # {}
        /\ LET b  == CHOOSE b \in fit : \A c \in fit : b <= c
               h1 == IF hdr[b].size > n + HEAP_BLOCK_SIZE + MinSplit
                     THEN Split(hdr, b, n) ELSE hdr
           IN  /\ hdr' = [h1 EXCEPT ![b].free = FALSE]
               /\ live' = live \union {<<b, n>>}

MergeNext(h, b) ==
    LET x == h[b].next
    IN  IF x # Null /\ h[x].free
        THEN SetPrev([h EXCEPT ![b].size = @ + HEAP_BLOCK_SIZE + h[x].size,
                               ![b].next = h[x].next,
                               ![x] = NoHeader],
                     h[x].next, b)
        ELSE h

\* Faulty variant: the successor keeps pointing back to the absorbed block.
MergePrev_NoBackLink(h, b) ==
    LET p == h[b].prev
    IN  IF p # Null /\ h[p].free
        THEN [h EXCEPT ![p].size = @ + HEAP_BLOCK_SIZE + h[b].size,
                       ![p].next = h[b].next, ![b] = NoHeader]
        ELSE h

MergePrev(h, b) ==
    LET p == h[b].prev
    IN  IF p # Null /\ h[p].free
        THEN SetPrev([h EXCEPT ![p].size = @ + HEAP_BLOCK_SIZE + h[b].size,
                               ![p].next = h[b].next,
                               ![b] = NoHeader],
                     h[b].next, p)
        ELSE h

\* Faulty variant: only the predecessor is merged with.
kfree_NoMergeNext(l) ==
    LET b == l[1]
        h == [hdr EXCEPT ![b].free = TRUE]
    IN  /\ hdr' = IF hdr[b].magic THEN MergePrev(h, b) ELSE hdr
        /\ live' = live \ {l}

\* A block whose magic is wrong is reported and left alone.
kfree(l) ==
    LET b == l[1]
        h == [hdr EXCEPT ![b].free = TRUE]
    IN  /\ hdr' = IF hdr[b].magic THEN MergePrev(MergeNext(h, b), b) ELSE hdr
        /\ live' = live \ {l}

HeapNext ==
    \/ \E n \in 1 .. MaxSize : kmalloc(n)
    \/ \E l \in live : kfree(l)

-----------------------------------------------------------------------------
\* The headers keep their type.
HeapTypeOK == hdr \in [Addr -> Header] /\ live \subseteq Addr \X (1 .. MaxSize)

End(b) == b + HEAP_BLOCK_SIZE + hdr[b].size

\* The list tiles the heap: each block ends where its successor starts, the last
\* one at the end of the heap, and prev is the inverse of next.
Tiles ==
    \A b \in Blocks : /\ End(b) = hdr[b].next
                      /\ hdr[b].next # Null => hdr[hdr[b].next].prev = b
                      /\ hdr[b].magic

\* Two free blocks are never neighbours, so no request fails for want of a merge.
Coalesced ==
    \A b \in Blocks : hdr[b].free /\ hdr[b].next # Null => ~hdr[hdr[b].next].free

\* What a caller holds is a used block of the list, big enough for the request;
\* with Tiles, no two callers' memory overlaps and no header lies in it.
LiveIsIntact ==
    /\ \A l \in live : l[1] \in Blocks /\ ~hdr[l[1]].free /\ hdr[l[1]].size >= l[2]
    /\ \A l, m \in live : l[1] = m[1] => l = m
    /\ \A b \in Blocks : ~hdr[b].free => \E l \in live : l[1] = b
=============================================================================
