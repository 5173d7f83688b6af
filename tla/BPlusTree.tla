------------------------------- MODULE BPlusTree -------------------------------
(***************************************************************************)
(* BaseBPlusTree built with BTREE_WITH_DELETION: the calls of TreeBase for *)
(* TreeType "B_PLUS_TREE" and the remove() of this class, which keeps all  *)
(* keys in the leaves and repairs a child before it descends into it.      *)
(***************************************************************************)
EXTENDS BTree

\* A child that is as short as it may be.
NeedsKey(n) == n # rootPageNum /\ Len(pages[n].keys) = MinKeysOf(pages[n])

\* Fault: a page with the minimum of keys has one to spare.
HasSpareTooSoon(n) == Len(pages[n].keys) >= MinKeysOf(pages[n])

HasSpare(n) == Len(pages[n].keys) > MinKeysOf(pages[n])

\* Fault: the left sibling keeps the key that is copied over.
BorrowFromLeftCopying(i) ==
    LET c == Data(at).cursors[i]
        left == pages[Data(at).cursors[i - 1]]
    IN  /\ pages' = [pages EXCEPT ![c] = WithFirst(@, Last(left.keys), LastCursor(left))]
        /\ UNCHANGED <<rootPage, rootPageNum, freePages>>

\* The left sibling's last key moves over; the parent keeps its router.
BorrowFromLeft(i) ==
    LET c == Data(at).cursors[i]
        m == Data(at).cursors[i - 1]
        left == pages[m]
    IN  /\ pages' = [pages EXCEPT ![m] = WithoutLast(@),
                                  ![c] = WithFirst(@, Last(left.keys), LastCursor(left))]
        /\ UNCHANGED <<rootPage, rootPageNum, freePages>>

\* The right sibling's first key moves over and becomes the router in the
\* parent's wrapper, which is not written.
BorrowFromRight(i) ==
    LET c == Data(at).cursors[i]
        n == Data(at).cursors[i + 1]
        right == pages[n]
    IN  /\ pages' = [pages EXCEPT ![c] = WithLast(@, Head(right.keys), FirstCursor(right)),
                                  ![n] = WithoutFirst(@)]
        /\ rootPage' = IF at = RootWrapper
                       THEN [rootPage EXCEPT !.keys[i] = Head(right.keys)] ELSE rootPage
        /\ UNCHANGED <<rootPageNum, freePages>>

\* Leaves merge without the router between them, inner pages around it.
mergeSiblings(i) ==
    LET left == pages[Data(at).cursors[i]]
        right == pages[Data(at).cursors[i + 1]]
    IN  IF left.leaf THEN MergeInto(at, i, [left EXCEPT !.keys = @ \o right.keys])
                     ELSE mergeChildren(at, i)

bplusRemove ==
    LET p == Data(at)
        i == FirstNotLess(p.keys, k)
        found == i <= Len(p.keys) /\ p.keys[i] = k
        c == p.cursors[i]
        fromLeft == i > 1 /\ HasSpare(p.cursors[i - 1])
        fromRight == i <= Len(p.keys) /\ HasSpare(p.cursors[i + 1])
    IN  /\ fn = "remove"
        /\ \/ /\ p.leaf /\ found
              /\ Continue("removeByKeyNum", at)
              /\ stack' = <<i>>
              /\ UNCHANGED <<treeVars, size>>
           \/ p.leaf /\ ~found /\ RemoveReturns(0) /\ UNCHANGED treeVars
           \/ /\ ~p.leaf
              /\ \/ ~NeedsKey(c) /\ UNCHANGED treeVars /\ Continue("remove", c)
                 \/ NeedsKey(c) /\ fromLeft /\ BorrowFromLeft(i) /\ Continue("remove", c)
                 \/ /\ NeedsKey(c) /\ ~fromLeft /\ fromRight
                    /\ BorrowFromRight(i) /\ Continue("remove", c)
                 \/ /\ NeedsKey(c) /\ ~fromLeft /\ ~fromRight /\ i > 1
                    /\ mergeSiblings(i - 1) /\ Continue("remove", p.cursors[i - 1])
                 \/ /\ NeedsKey(c) /\ ~fromLeft /\ ~fromRight /\ i = 1
                    /\ mergeSiblings(i)
                    /\ Continue("remove", IF c = rootPageNum' THEN RootWrapper ELSE c)
              /\ UNCHANGED <<size, stack>>

\* The leaf case of removeByKeyNum(), the only one a B+-tree reaches.
BPlusRemoveStep == bplusRemove \/ removeByKeyNum

BPlusNext ==
    BaseNext \/ BPlusRemoveStep \/ \E x \in Keys : RemoveCall(x) \/ RemoveAllCall(x)

\* A call runs to its end in the caller's thread.
BPlusSpec == Init /\ [][BPlusNext]_vars /\ WF_vars(BaseStep \/ BPlusRemoveStep)
===============================================================================
