------------------------------ MODULE TreeRemoval ------------------------------
(***************************************************************************)
(* What the removals of the four trees share: the calls remove() and       *)
(* removeAll(), the moves of a key between neighbours, the merge of two    *)
(* children and the replacement of a key in an inner page by a key taken   *)
(* from a leaf.  While getAndRemoveMaxKey() or getAndRemoveMinKey()        *)
(* descends, stack holds the wrapper and the position that wait for the    *)
(* replacement.                                                            *)
(***************************************************************************)
EXTENDS TreeShape

RemoveCall(x) ==
    /\ Call("remove", x, "remove")
    /\ UNCHANGED <<treeVars, size, stack>>

RemoveAllCall(x) ==
    /\ Call("removeAll", x, "remove")
    /\ UNCHANGED <<treeVars, size, stack>>

\* Fault: removeAll() goes on when nothing was removed.
RemoveAnswersNever(r) ==
    \/ op = "remove" /\ Return(r)
    \/ /\ op = "removeAll"
       /\ fn' = "remove" /\ at' = RootWrapper /\ stack' = <<>>
       /\ answer' = answer + r
       /\ UNCHANGED <<op, k>>

\* remove() returns r (0 or 1); removeAll() counts and repeats it while it succeeds.
RemoveAnswers(r) ==
    \/ op = "remove" /\ Return(r)
    \/ op = "removeAll" /\ r = 0 /\ Return(answer)
    \/ /\ op = "removeAll" /\ r = 1
       /\ fn' = "remove" /\ at' = RootWrapper /\ stack' = <<>>
       /\ answer' = answer + 1
       /\ UNCHANGED <<op, k>>

\* So many keys have been removed, and remove() says so.
RemoveReturns(r) == size' = size - r /\ RemoveAnswers(r)

RemoveKey(p, i) == [p EXCEPT !.keys = RemoveAt(@, i)]

-------------------------------------------------------------------------------
(* Moving a key between neighbours. *)

WithoutLast(p) == [p EXCEPT !.keys = Front(@), !.cursors = IF p.leaf THEN @ ELSE Front(@)]
WithoutFirst(p) == [p EXCEPT !.keys = Tail(@), !.cursors = IF p.leaf THEN @ ELSE Tail(@)]
WithFirst(p, x, c) == [p EXCEPT !.keys = <<x>> \o @, !.cursors = IF p.leaf THEN @ ELSE <<c>> \o @]
WithLast(p, x, c) == [p EXCEPT !.keys = Append(@, x), !.cursors = IF p.leaf THEN @ ELSE Append(@, c)]

\* The first and the last cursor of a page; a leaf has none.
FirstCursor(p) == IF p.leaf THEN 0 ELSE Head(p.cursors)
LastCursor(p) == IF p.leaf THEN 0 ELSE Last(p.cursors)

\* Fault: the key of the left neighbour goes over without the parent.
moveOneKeyFromLeftUnrotated(s, i) ==
    LET m == s.node.cursors[i - 1]  left == s.disk[m]
        c == s.node.cursors[i]
    IN  [s EXCEPT !.disk[m] = WithoutLast(left),
                  !.disk[c] = WithFirst(s.disk[c], Last(left.keys), LastCursor(left))]

\* The key left of the cursor goes down, the last key of the left neighbour up.
moveOneKeyFromLeft(s, i) ==
    LET m == s.node.cursors[i - 1]  left == s.disk[m]
        c == s.node.cursors[i]
    IN  [s EXCEPT !.node.keys[i - 1] = Last(left.keys),
                  !.disk[m] = WithoutLast(left),
                  !.disk[c] = WithFirst(s.disk[c], s.node.keys[i - 1], LastCursor(left))]

\* Fault: the last key of the right neighbour goes up instead of the first.
moveOneKeyFromRightLast(s, i) ==
    LET c == s.node.cursors[i]
        n == s.node.cursors[i + 1]  right == s.disk[n]
    IN  [s EXCEPT !.node.keys[i] = Last(right.keys),
                  !.disk[c] = WithLast(s.disk[c], s.node.keys[i], FirstCursor(right)),
                  !.disk[n] = [WithoutFirst(right) EXCEPT !.keys = Front(right.keys)]]

\* The key right of the cursor goes down, the first key of the right neighbour up.
moveOneKeyFromRight(s, i) ==
    LET c == s.node.cursors[i]
        n == s.node.cursors[i + 1]  right == s.disk[n]
    IN  [s EXCEPT !.node.keys[i] = Head(right.keys),
                  !.disk[c] = WithLast(s.disk[c], s.node.keys[i], FirstCursor(right)),
                  !.disk[n] = WithoutFirst(right)]

-------------------------------------------------------------------------------
(* Merging the children on both sides of a key. *)

\* Fault: the old root is not freed.
MergeIntoLeaking(w, i, merged) ==
    LET p == Data(w)
        m == p.cursors[i]
        n == p.cursors[i + 1]
        rest == [p EXCEPT !.keys = RemoveAt(@, i), !.cursors = RemoveAt(@, i + 1)]
    IN  \/ /\ Len(p.keys) = 1
           /\ pages' = [pages EXCEPT ![m] = merged]
           /\ rootPageNum' = m
           /\ rootPage' = merged
           /\ freePages' = Append(freePages, n)
        \/ /\ Len(p.keys) # 1
           /\ pages' = [pages EXCEPT ![m] = merged, ![PageNum(w)] = rest]
           /\ rootPage' = IF w = RootWrapper THEN rest ELSE rootPage
           /\ freePages' = Append(freePages, n)
           /\ UNCHANGED rootPageNum

\* Key i of wrapper w goes and its two children become the page merged.  A parent
\* left without keys is freed; the merged page is the new root and is loaded
\* into memory.
MergeInto(w, i, merged) ==
    LET p == Data(w)
        m == p.cursors[i]
        n == p.cursors[i + 1]
        rest == [p EXCEPT !.keys = RemoveAt(@, i), !.cursors = RemoveAt(@, i + 1)]
    IN  \/ /\ Len(p.keys) = 1
           /\ pages' = [pages EXCEPT ![m] = merged]
           /\ rootPageNum' = m
           /\ rootPage' = merged
           /\ freePages' = freePages \o <<PageNum(w), n>>
        \/ /\ Len(p.keys) # 1
           /\ pages' = [pages EXCEPT ![m] = merged, ![PageNum(w)] = rest]
           /\ rootPage' = IF w = RootWrapper THEN rest ELSE rootPage
           /\ freePages' = Append(freePages, n)
           /\ UNCHANGED rootPageNum

\* Two children and the key between them.
mergeChildren(w, i) ==
    LET p == Data(w)
        left == pages[p.cursors[i]]
        right == pages[p.cursors[i + 1]]
    IN  MergeInto(w, i, [left EXCEPT !.keys = @ \o <<p.keys[i]>> \o right.keys,
                                     !.cursors = @ \o right.cursors])

-------------------------------------------------------------------------------
\* Fault: the replacement is taken from the leaf and not stored.
TakeReplacement(j) ==
    /\ pages[at].leaf
    /\ pages' = [pages EXCEPT ![at] = RemoveKey(pages[at], j)]
    /\ RemoveReturns(1)
    /\ UNCHANGED <<rootPage, rootPageNum, freePages>>

\* The leaf at loses its key j, which replaces the key that waits for it.
GiveReplacement(j) ==
    LET p == pages[at]
        w == stack[1]
        q == [Data(w) EXCEPT !.keys[stack[2]] = p.keys[j]]
    IN  /\ p.leaf
        /\ pages' = [pages EXCEPT ![at] = RemoveKey(p, j), ![PageNum(w)] = q]
        /\ rootPage' = IF w = RootWrapper THEN q ELSE rootPage
        /\ RemoveReturns(1)
        /\ UNCHANGED <<rootPageNum, freePages>>

-------------------------------------------------------------------------------
\* getAndRemoveMinKey(): "Returns the min key in the given subtree" (btree.h).
\* The leaf it ends at holds the least key of the subtree it was called for.
TakesMinKey ==
    fn = "getAndRemoveMinKey" /\ pages[at].leaf =>
        LET subtree == KeysBelow(Data(stack[1]).cursors[stack[2] + 1])
        IN  \A j \in 1..Len(subtree) : pages[at].keys[1] <= subtree[j]
===============================================================================
