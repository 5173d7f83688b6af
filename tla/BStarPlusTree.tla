----------------------------- MODULE BStarPlusTree -----------------------------
(***************************************************************************)
(* BaseBStarPlusTree built with BTREE_WITH_DELETION and                    *)
(* BTREE_WITH_REUSING_FREE_PAGES: the calls of StarBase plus remove() and  *)
(* removeAll().                                                            *)
(*                                                                         *)
(* remove() has no return statement behind the removal from a leaf: what   *)
(* its caller sees then is undefined, here either answer.                  *)
(***************************************************************************)
EXTENDS StarRemoval

IsPoor(n) == n # rootPageNum /\ Len(pages[n].keys) = MinKeys

\* Fault: a page with the minimum of keys can give one away.
IsRichTooSoon(n) == Len(pages[n].keys) >= MinKeys

IsRich(n) == Len(pages[n].keys) > MinKeys

\* The page n is visited next, through the root page in memory if it is the root.
GoTo(n) ==
    /\ Continue("remove", IF n = rootPageNum' THEN RootWrapper ELSE n)
    /\ UNCHANGED removeVars

\* Fault: the left neighbour keeps the key that is copied over.
BorrowFromLeftCopying(i) ==
    LET c == Data(at).cursors[i]
        left == pages[Data(at).cursors[i - 1]]
    IN  /\ pages' = [pages EXCEPT ![c] = WithFirst(@, Last(left.keys), LastCursor(left))]
        /\ Continue("remove", c)
        /\ UNCHANGED <<rootPage, rootPageNum, freePages, removeVars>>

\* The last key of the left neighbour moves over; the parent keeps its router.
BorrowFromLeft(i) ==
    LET c == Data(at).cursors[i]
        m == Data(at).cursors[i - 1]
        left == pages[m]
    IN  /\ pages' = [pages EXCEPT ![m] = WithoutLast(left),
                                  ![c] = WithFirst(@, Last(left.keys), LastCursor(left))]
        /\ Continue("remove", c)
        /\ UNCHANGED <<rootPage, rootPageNum, freePages, removeVars>>

\* The first key of the right neighbour moves over; the router changes in the
\* parent's wrapper, which is not written.
BorrowFromRight(i) ==
    LET c == Data(at).cursors[i]
        n == Data(at).cursors[i + 1]
        right == pages[n]
    IN  /\ pages' = [pages EXCEPT ![c] = WithLast(@, Head(right.keys), FirstCursor(right)),
                                  ![n] = WithoutFirst(right)]
        /\ rootPage' = IF at = RootWrapper THEN [rootPage EXCEPT !.keys[i] = Head(right.keys)]
                                           ELSE rootPage
        /\ Continue("remove", c)
        /\ UNCHANGED <<rootPageNum, freePages, removeVars>>

\* Two children become one: leaves are put together without the router.
mergeTwo(i) ==
    LET left == pages[Data(at).cursors[i]]
        right == pages[Data(at).cursors[i + 1]]
    IN  IF left.leaf THEN MergeInto(at, i, [left EXCEPT !.keys = @ \o right.keys])
                     ELSE mergeChildren(at, i)

\* Three children become two: between leaves the left router stays as it is.
mergeThree(i) ==
    IF pages[Data(at).cursors[i]].leaf THEN MergeThree(at, i, Data(at).keys[i])
                                       ELSE mergeThreeChildren(at, i)

\* The child under cursor i gets more keys from its neighbours or is merged.
RepairAndDescend(i) ==
    LET p == Data(at)
        c == p.cursors[i]
        fromLeft == i > 1 /\ IsRich(p.cursors[i - 1])
        fromRight == i <= Len(p.keys) /\ IsRich(p.cursors[i + 1])
    IN  \/ fromLeft /\ BorrowFromLeft(i)
        \/ ~fromLeft /\ fromRight /\ BorrowFromRight(i)
        \/ /\ ~fromLeft /\ ~fromRight /\ i > 1 /\ i <= Len(p.keys)
           /\ mergeThree(i - 1)
           /\ TryBoth(p.cursors[i - 1], c)
        \/ /\ ~fromLeft /\ ~fromRight /\ i > 1 /\ i > Len(p.keys)
           /\ Len(pages[p.cursors[i - 1]].keys) = MinKeys
           /\ mergeTwo(i - 1)
           /\ Continue("remove", p.cursors[i - 1])
           /\ UNCHANGED removeVars
        \/ ~fromRight /\ i = 1 /\ mergeTwo(i) /\ GoTo(c)

RemoveFromLeaf(i) ==
    LET p == Data(at)
        found == i <= Len(p.keys) /\ p.keys[i] = sought
    IN  \/ /\ found
           /\ Write(at, RemoveKey(p, i))
           /\ size' = size - 1
           /\ Done(1) \/ Fail
           /\ UNCHANGED <<rootPageNum, freePages>>
        \/ ~found /\ Fail /\ UNCHANGED <<treeVars, size>>

remove ==
    LET p == Data(at)
        i == FirstNotLess(p.keys, sought)
        c == p.cursors[i]
    IN  /\ fn = "remove"
        /\ \/ p.leaf /\ RemoveFromLeaf(i)
           \/ ~p.leaf /\ IsPoor(c) /\ RepairAndDescend(i) /\ UNCHANGED <<size, stack>>
           \/ ~p.leaf /\ ~IsPoor(c) /\ UNCHANGED <<treeVars, size, stack>> /\ GoTo(c)

-------------------------------------------------------------------------------
\* remove() merges the last child with its left neighbour only if that has exactly
\* MinKeys keys; otherwise it goes on to a right neighbour that does not exist.
RemoveThrows ==
    LET p == Data(at)
        i == FirstNotLess(p.keys, sought)
    IN  /\ fn = "remove" /\ ~p.leaf
        /\ IsPoor(p.cursors[i])
        /\ 1 < i /\ i = Len(p.keys) + 1
        /\ Len(pages[p.cursors[i - 1]].keys) < MinKeys

\* remove() never uses the wrapper of a neighbour it has not read: a poor last
\* child always has a left neighbour that it can borrow from or be merged with.
RemoveNeverThrows == ~RemoveThrows

-------------------------------------------------------------------------------
StarNext == (BaseNext /\ UNCHANGED removeVars) \/ RemoveCalls \/ remove

\* A call runs to its end in the caller's thread.
StarSpec ==
    /\ StarInit /\ [][StarNext]_starVars
    /\ WF_starVars((BaseStep /\ UNCHANGED removeVars) \/ remove)
===============================================================================
