------------------------------- MODULE BStarTree -------------------------------
(***************************************************************************)
(* BaseBStarTree built with BTREE_WITH_DELETION and                        *)
(* BTREE_WITH_REUSING_FREE_PAGES: the calls of StarBase plus remove() and  *)
(* removeAll().                                                            *)
(*                                                                         *)
(* The key is passed by pointer: removeByKeyNum() passes on a pointer into *)
(* the page it has just rearranged, so that the key sought may change.     *)
(***************************************************************************)
EXTENDS StarRemoval

\* Below the root a child that neither neighbour can help borrows through its
\* neighbour from the page behind it, or three pages are merged into two.
prepareBelowRoot(w, i, n) ==
    LET p == Data(w)
        c == p.cursors[i]
        last == Len(p.keys) + 1
        s == Unmoved(w)
    IN  \/ 1 < i /\ i < last /\ n = p.cursors[i - 1] /\ mergeThreeChildren(w, i - 1)
        \/ /\ i = last /\ CanGive(p.cursors[i - 2]) /\ n = c
           /\ Moved(w, moveOneKeyFromLeft(moveOneKeyFromLeft(s, i - 1), i))
           /\ UNCHANGED freePages
        \/ /\ i = last /\ ~CanGive(p.cursors[i - 2]) /\ n = p.cursors[i - 1]
           /\ mergeThreeChildren(w, i - 2)
        \/ /\ i = 1 /\ CanGive(p.cursors[3]) /\ n = c
           /\ Moved(w, moveOneKeyFromRight(moveOneKeyFromRight(s, 2), 1))
           /\ UNCHANGED freePages
        \/ i = 1 /\ ~CanGive(p.cursors[3]) /\ n = c /\ mergeThreeChildren(w, 1)

\* prepareSubtree(): the child under cursor i of wrapper w gets more than
\* MinKeys keys.  It returns n, the child, or its left neighbour when they were
\* merged.
prepareSubtree(w, i, n) ==
    LET p == Data(w)
        c == p.cursors[i]
        fromLeft == i > 1 /\ CanGive(p.cursors[i - 1])
        fromRight == i <= Len(p.keys) /\ CanGive(p.cursors[i + 1])
    IN  \/ CanGive(c) /\ n = c /\ UNCHANGED treeVars
        \/ /\ ~CanGive(c) /\ fromLeft /\ n = c
           /\ Moved(w, moveOneKeyFromLeft(Unmoved(w), i))
           /\ UNCHANGED freePages
        \/ /\ ~CanGive(c) /\ ~fromLeft /\ fromRight /\ n = c
           /\ Moved(w, moveOneKeyFromRight(Unmoved(w), i))
           /\ UNCHANGED freePages
        \/ /\ ~CanGive(c) /\ ~fromLeft /\ ~fromRight /\ isRoot(w)
           /\ \/ i > 1 /\ n = p.cursors[i - 1] /\ mergeChildren(w, i - 1)
              \/ i = 1 /\ n = c /\ mergeChildren(w, i)
        \/ ~CanGive(c) /\ ~fromLeft /\ ~fromRight /\ ~isRoot(w) /\ prepareBelowRoot(w, i, n)

-------------------------------------------------------------------------------
remove ==
    LET p == Data(at)
        i == FirstNotLess(p.keys, sought)
        found == i <= Len(p.keys) /\ p.keys[i] = sought
    IN  /\ fn = "remove"
        /\ \/ /\ found
              /\ Continue("removeByKeyNum", IF isRoot(at) THEN RootWrapper ELSE at)
              /\ stack' = <<i>>
              /\ UNCHANGED <<treeVars, size, removeVars>>
           \/ ~found /\ p.leaf /\ Fail /\ UNCHANGED <<treeVars, size>>
           \/ /\ ~found /\ ~p.leaf
              /\ \E n \in ToSet(p.cursors) : prepareSubtree(at, i, n) /\ TryBoth(n, p.cursors[i])
              /\ UNCHANGED <<size, stack>>

\* Removes the key at position Head(stack).  Below the root, when neither child
\* can give a key, remove() goes on with the left child and with whatever key
\* the page now has at that position.
removeByKeyNum ==
    LET p == Data(at)
        i == Head(stack)
        left == p.cursors[i]
        right == p.cursors[i + 1]
        neither == ~p.leaf /\ ~CanGive(left) /\ ~CanGive(right)
    IN  /\ fn = "removeByKeyNum"
        /\ \/ /\ p.leaf
              /\ Write(at, RemoveKey(p, i))
              /\ Done(1) /\ size' = size - 1
              /\ UNCHANGED <<rootPageNum, freePages>>
           \/ /\ ~p.leaf /\ CanGive(left)
              /\ Continue("getAndRemoveMaxKey", left)
              /\ stack' = <<at, i>>
              /\ UNCHANGED <<treeVars, size, removeVars>>
           \/ /\ ~p.leaf /\ ~CanGive(left) /\ CanGive(right)
              /\ Continue("getAndRemoveMinKey", right)
              /\ stack' = <<at, i>>
              /\ UNCHANGED <<treeVars, size, removeVars>>
           \/ /\ neither /\ isRoot(at)
              /\ mergeChildren(at, i)
              /\ Continue("removeByKeyNum", IF left = rootPageNum' THEN RootWrapper ELSE left)
              /\ stack' = <<MaxKeys \div 2 + 1>>
              /\ UNCHANGED <<size, removeVars>>
           \/ /\ neither /\ ~isRoot(at)
              /\ \E n \in ToSet(p.cursors) : prepareSubtree(at, i, n)
              /\ Continue("remove", left)
              /\ sought' = IF i <= Len(pages'[at].keys) THEN pages'[at].keys[i] ELSE p.keys[i]
              /\ UNCHANGED <<size, stack, fallback>>

\* Both functions descend to the last leaf of the subtree; one takes its last
\* key, the other its first.
getAndRemoveKey(f, position) ==
    /\ fn = f
    /\ \/ GiveReplacement(position) /\ fallback' = <<>> /\ sought' = k'
       \/ /\ ~pages[at].leaf
          /\ \E n \in ToSet(pages[at].cursors) :
                prepareSubtree(at, Len(pages[at].keys) + 1, n) /\ Continue(f, n)
          /\ UNCHANGED <<size, stack, removeVars>>

getAndRemoveMaxKey == getAndRemoveKey("getAndRemoveMaxKey", Len(pages[at].keys))
getAndRemoveMinKey == getAndRemoveKey("getAndRemoveMinKey", 1)

-------------------------------------------------------------------------------
RemoveStep == remove \/ removeByKeyNum \/ getAndRemoveMaxKey \/ getAndRemoveMinKey

StarNext == (BaseNext /\ UNCHANGED removeVars) \/ RemoveCalls \/ RemoveStep

\* A call runs to its end in the caller's thread.
StarSpec ==
    /\ StarInit /\ [][StarNext]_starVars
    /\ WF_starVars((BaseStep /\ UNCHANGED removeVars) \/ RemoveStep)
===============================================================================
