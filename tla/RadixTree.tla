------------------------------ MODULE RadixTree ------------------------------
(***************************************************************************)
(* The radix tree.  A node is named by its path from the root, the         *)
(* sequence of slot offsets that leads to it, so a tree is its height, the *)
(* count field of each node there is, and the item at each leaf slot that  *)
(* is not null.  A call may run out of memory after `budget' new nodes.    *)
(***************************************************************************)
EXTENDS Integers, FiniteSets, SequencesExt

CONSTANT MAP_SIZE   \* slots of a node, 1 << RADIX_TREE_MAP_SHIFT

EmptyTree == [height |-> 0, count |-> <<>>, item |-> <<>>]

Pow[n \in Nat] == IF n = 0 THEN 1 ELSE MAP_SIZE * Pow[n - 1]
Offsets(index, height) == [k \in 1 .. height |-> (index \div Pow[height - k]) % MAP_SIZE]
Nodes(t) == DOMAIN t.count
HeightFor(index, from) ==   \* the least height, not below from, that reaches index
    CHOOSE h \in from .. from + index : index < Pow[h] /\ (h > from => index >= Pow[h - 1])

\* k new roots on top, each with the old root in slot 0.
Raised(t, k) ==
    LET zeros(n) == [i \in 1 .. n |-> 0]
        Up(f) == [p \in {zeros(k) \o q : q \in DOMAIN f} |-> f[SubSeq(p, k + 1, Len(p))]]
    IN  [height |-> t.height + k, item |-> Up(t.item),
         count |-> Up(t.count) @@ [p \in {zeros(n) : n \in 0 .. k - 1} |-> 1]]

\* radix_tree_extend: the tree, and the budget left, negative for failure.
radix_tree_extend(t, index, budget) ==
    LET h == HeightFor(index, t.height + 1)
        k == IF h - t.height <= budget THEN h - t.height ELSE budget
    IN  IF Nodes(t) = {} THEN [t |-> [t EXCEPT !.height = h], budget |-> budget]
        ELSE [t |-> Raised(t, k), budget |-> IF k < h - t.height THEN -1 ELSE budget - k]

Inc(f, p, n) == [f EXCEPT ![p] = @ + n]

\* A node at path p, counted in its parent, unless it is there.
Descend(a, p) ==
    IF a.budget < 0 \/ p \in Nodes(a.t) THEN a
    ELSE IF a.budget = 0 THEN [a EXCEPT !.budget = -1]
    ELSE [t |-> [a.t EXCEPT !.count = (p :> 0) @@ (IF p = <<>> THEN @ ELSE Inc(@, Front(p), 1))],
          budget |-> a.budget - 1]

\* radix_tree_insert: the tree afterwards, and whether the item is in.
radix_tree_insert(tree, index, item, budget) ==
    LET t0 == IF Nodes(tree) = {} /\ tree.height = 0
              THEN [tree EXCEPT !.height = HeightFor(index, 1)] ELSE tree
        a0 == IF index >= Pow[t0.height] THEN radix_tree_extend(t0, index, budget)
              ELSE [t |-> t0, budget |-> budget]
        path == Offsets(index, a0.t.height)
        a1 == FoldLeft(LAMBDA a, d : Descend(a, SubSeq(path, 1, d - 1)), a0, [d \in 1 .. Len(path) |-> d])
    IN  IF a1.budget < 0 \/ path \in DOMAIN a1.t.item THEN [t |-> a1.t, ok |-> FALSE]
        ELSE [t |-> [a1.t EXCEPT !.item = (path :> item) @@ @, !.count = Inc(@, Front(path), 1)],
              ok |-> TRUE]

\* radix_tree_lookup: the item, or 0.
radix_tree_lookup(t, index) ==
    LET path == Offsets(index, t.height)
    IN  IF t.height = 0 \/ index >= Pow[t.height] \/ path \notin DOMAIN t.item THEN 0
        ELSE t.item[path]

Without(f, p) == [q \in DOMAIN f \ {p} |-> f[q]]

\* Faulty variant: an emptied node is freed but stays counted in its parent.
Ascend_Counted(t, p) ==
    IF t.count[p] > 0 THEN t
    ELSE IF p = <<>> THEN EmptyTree
    ELSE [t EXCEPT !.count = Without(@, p)]

\* A node whose count has come to 0 is freed and its parent's slot cleared;
\* without a root the height is 0.
Ascend(t, p) ==
    IF t.count[p] > 0 THEN t
    ELSE IF p = <<>> THEN EmptyTree
    ELSE [t EXCEPT !.count = Inc(Without(@, p), Front(p), -1)]

\* Faulty variant: the only slot in use may be any of them.
OnlyFirst_Any(t) == t.height > 1 /\ t.count[<<>>] = 1

OnlyFirst(t) == t.height > 1 /\ t.count[<<>>] = 1 /\ <<0>> \in Nodes(t)

\* radix_tree_shrink: a root with nothing but slot 0 gives way to its child.
radix_tree_shrink(tree) ==
    LET Down(f) == [p \in {Tail(q) : q \in DOMAIN f \ {<<>>}} |->
                      f[CHOOSE q \in DOMAIN f \ {<<>>} : Tail(q) = p]]
        shrink[h \in Nat] ==   \* the tree after h rounds
            IF h = 0 THEN tree
            ELSE LET t == shrink[h - 1]
                 IN  IF t.height > 0 /\ OnlyFirst(t)
                     THEN [height |-> t.height - 1, count |-> Down(t.count), item |-> Down(t.item)]
                     ELSE t
    IN  shrink[tree.height]

radix_tree_delete(tree, index) ==
    LET path == Offsets(index, tree.height)
        cut  == [tree EXCEPT !.item = Without(@, path), !.count = Inc(@, Front(path), -1)]
        up   == FoldLeft(LAMBDA t, d : IF t.height = 0 THEN t ELSE Ascend(t, SubSeq(path, 1, Len(path) - d)),
                         cut, [d \in 1 .. Len(path) |-> d])
    IN  IF radix_tree_lookup(tree, index) = 0 THEN tree ELSE radix_tree_shrink(up)

\* Every node counts the slots of it that are not null.
CountsChildren(t) ==
    \A p \in Nodes(t) :
        t.count[p] = Cardinality({o \in 0 .. MAP_SIZE - 1 :
                                    p \o <<o>> \in Nodes(t) \union DOMAIN t.item})
=============================================================================
