--------------------------------- MODULE BTree ---------------------------------
(***************************************************************************)
(* BaseBTree built with BTREE_WITH_DELETION and                            *)
(* BTREE_WITH_REUSING_FREE_PAGES: the calls of TreeBase plus remove() and  *)
(* removeAll().  Again every recursive call is one step.                   *)
(***************************************************************************)
EXTENDS TreeBase, TreeRemoval

\* Fault: a page with the minimum of keys gives one away.
CanGiveTooMuch(n) == Len(pages[n].keys) >= MinKeys

CanGive(n) == Len(pages[n].keys) >= MinKeys + 1

\* prepareSubtree(): the child under cursor i gets more than MinKeys keys, from
\* its left neighbour, else its right one, else by a merge.  The function f
\* goes on with the page that now covers the child's range.
prepareSubtree(w, i, f) ==
    LET p == Data(w)
        c == p.cursors[i]
        fromLeft == i > 1 /\ CanGive(p.cursors[i - 1])
        fromRight == i <= Len(p.keys) /\ CanGive(p.cursors[i + 1])
    IN  \/ CanGive(c) /\ UNCHANGED treeVars /\ Continue(f, c)
        \/ /\ ~CanGive(c) /\ fromLeft
           /\ Moved(w, moveOneKeyFromLeft(Unmoved(w), i))
           /\ Continue(f, c) /\ UNCHANGED freePages
        \/ /\ ~CanGive(c) /\ ~fromLeft /\ fromRight
           /\ Moved(w, moveOneKeyFromRight(Unmoved(w), i))
           /\ Continue(f, c) /\ UNCHANGED freePages
        \/ /\ ~CanGive(c) /\ ~fromLeft /\ ~fromRight /\ i > 1
           /\ mergeChildren(w, i - 1) /\ Continue(f, p.cursors[i - 1])
        \/ /\ ~CanGive(c) /\ ~fromLeft /\ ~fromRight /\ i = 1
           /\ mergeChildren(w, i) /\ Continue(f, c)

-------------------------------------------------------------------------------
remove ==
    LET p == Data(at)
        i == FirstNotLess(p.keys, k)
        found == i <= Len(p.keys) /\ p.keys[i] = k
    IN  /\ fn = "remove"
        /\ \/ /\ found
              /\ Continue("removeByKeyNum", IF isRoot(at) THEN RootWrapper ELSE at)
              /\ stack' = <<i>>
              /\ UNCHANGED <<treeVars, size>>
           \/ ~found /\ p.leaf /\ RemoveReturns(0) /\ UNCHANGED treeVars
           \/ /\ ~found /\ ~p.leaf
              /\ prepareSubtree(at, i, "remove")
              /\ UNCHANGED <<size, stack>>

\* Removes the key at position Head(stack): from a leaf at once; in an inner
\* page the greatest key of its left child or the least of its right child
\* takes its place, or both children merge around it and it is removed there.
removeByKeyNum ==
    LET p == Data(at)
        i == Head(stack)
        left == p.cursors[i]
        right == p.cursors[i + 1]
    IN  /\ fn = "removeByKeyNum"
        /\ \/ /\ p.leaf
              /\ Write(at, RemoveKey(p, i))
              /\ RemoveReturns(1)
              /\ UNCHANGED <<rootPageNum, freePages>>
           \/ /\ ~p.leaf /\ CanGive(left)
              /\ Continue("getAndRemoveMaxKey", left)
              /\ stack' = <<at, i>>
              /\ UNCHANGED <<treeVars, size>>
           \/ /\ ~p.leaf /\ ~CanGive(left) /\ CanGive(right)
              /\ Continue("getAndRemoveMinKey", right)
              /\ stack' = <<at, i>>
              /\ UNCHANGED <<treeVars, size>>
           \/ /\ ~p.leaf /\ ~CanGive(left) /\ ~CanGive(right)
              /\ mergeChildren(at, i)
              /\ Continue("removeByKeyNum", IF left = rootPageNum' THEN RootWrapper ELSE left)
              /\ stack' = <<MaxKeys \div 2 + 1>>
              /\ UNCHANGED size

getAndRemoveMaxKey ==
    LET last == Len(pages[at].keys)
    IN  /\ fn = "getAndRemoveMaxKey"
        /\ \/ GiveReplacement(last)
           \/ /\ ~pages[at].leaf
              /\ prepareSubtree(at, last + 1, fn)
              /\ UNCHANGED <<size, stack>>

\* The least key of a leaf; below an inner page the code goes on with the child
\* under its last cursor.
getAndRemoveMinKey ==
    /\ fn = "getAndRemoveMinKey"
    /\ \/ GiveReplacement(1)
       \/ /\ ~pages[at].leaf
          /\ prepareSubtree(at, Len(pages[at].keys) + 1, fn)
          /\ UNCHANGED <<size, stack>>

-------------------------------------------------------------------------------
RemoveStep == remove \/ removeByKeyNum \/ getAndRemoveMaxKey \/ getAndRemoveMinKey

Next == BaseNext \/ RemoveStep \/ \E x \in Keys : RemoveCall(x) \/ RemoveAllCall(x)

\* A call runs to its end in the caller's thread.
Spec == Init /\ [][Next]_vars /\ WF_vars(BaseStep \/ RemoveStep)
===============================================================================
