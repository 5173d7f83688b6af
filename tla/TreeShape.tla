------------------------------- MODULE TreeShape -------------------------------
(***************************************************************************)
(* What makes the pages of TreeCore a B-tree: the properties of all the    *)
(* trees built on it, stated over the pages on disk.                       *)
(***************************************************************************)
EXTENDS TreeCore

Children(n) == {pages[n].cursors[i] : i \in 1..Len(pages[n].cursors)}

\* Level[d] is the set of the pages d steps below the root.
Levels ==
    LET Level[d \in 0..Len(pages)] ==
            IF d = 0 THEN {rootPageNum}
            ELSE UNION {Children(n) : n \in Level[d - 1] \cap 1..Len(pages)}
    IN  Level

Reachable == (UNION {Levels[d] : d \in 0..Len(pages)}) \cap 1..Len(pages)

\* The keys of the subtree of page top from left to right, routers included.
KeysBelow(top) ==
    LET Flat[d \in 0..Len(pages)] ==
            [n \in 1..Len(pages) |->
                LET p == pages[n]
                IN  IF p.leaf \/ d = 0 THEN p.keys
                    ELSE FlattenSeq([j \in 1..2 * Len(p.keys) + 1 |->
                                        IF j % 2 = 0 THEN <<p.keys[j \div 2]>>
                                        ELSE Flat[d - 1][p.cursors[(j + 1) \div 2]]])]
    IN  Flat[Len(pages)][top]

InOrder == KeysBelow(rootPageNum)

\* Where keys are stored: page, position and key.  In a B+-tree only the leaves
\* count.
Places ==
    UNION {{<<n, i, pages[n].keys[i]>> : i \in 1..Len(pages[n].keys)} :
              n \in {m \in Reachable : HoldsKeys(pages[m])}}

\* How often x occurs at the places s.
Occurrences(s, x) == Cardinality({e \in s : e[3] = x})

\* How often each key is stored.
Stored == [x \in Keys |-> Occurrences(Places, x)]

-------------------------------------------------------------------------------
TypeOK ==
    /\ pages \in Seq(Page)
    /\ rootPage \in Page
    /\ rootPageNum \in 1..Len(pages)
    /\ freePages \in Seq(1..Len(pages))
    /\ size \in 0..MaxSize
    /\ op \in {"none", "insert", "search", "searchAll", "remove", "removeAll"}
    /\ k \in Keys \cup {NoKey}
    /\ fn \in {"idle", "insertNonFull", "search", "searchAll", "remove",
               "removeByKeyNum", "getAndRemoveMaxKey", "getAndRemoveMinKey"}
    /\ at \in 0..Len(pages)
    /\ stack \in Seq(Nat)
    /\ answer \in Nat

\* The keys are in order across all the pages: an in-order walk never descends,
\* so every subtree lies between the keys to its left and right.
KeysInOrder ==
    \A i \in 1..Len(InOrder) - 1 : InOrder[i] <= InOrder[i + 1]

\* All the leaves are equally far from the root: on each level all the pages are
\* leaves or none is.
Balanced ==
    \A d \in 0..Len(pages) : \A m, n \in Levels[d] : pages[m].leaf = pages[n].leaf

\* Every page of the file hangs under exactly one cursor of one parent, is the
\* root, or is free exactly once: splits, merges and root changes neither leak
\* a page nor give one to two owners.
PagesAccounted ==
    LET free == {freePages[i] : i \in 1..Len(freePages)}
        links == UNION {{n} \X (1..Len(pages[n].cursors)) : n \in Reachable}
        target(e) == pages[e[1]].cursors[e[2]]
    IN  /\ \A i, j \in 1..Len(freePages) : i # j => freePages[i] # freePages[j]
        /\ free \cap Reachable = {}
        /\ free \cup Reachable = 1..Len(pages)
        /\ \A e, f \in links : e # f => target(e) # target(f)
        /\ \A e \in links : target(e) # rootPageNum

\* _rootPage: "The root page wrapper. Always stored in the memory" (btree.h).
\* The copy in memory is the root page on disk, so that closing and reopening
\* the file loses nothing.
RootInMemory == rootPage = pages[rootPageNum]

\* Every call of the tree has the effect and the answer of the same call on a
\* bag of keys: insert() stores one occurrence, search() finds a key exactly if
\* it is stored, searchAll() finds all its occurrences, remove() takes one away.
Index == INSTANCE KeyBag
    WITH bag <- Stored, answer <- IF fn = "idle" \/ op = "removeAll" THEN answer ELSE 0
ImplementsKeyBag == Index!Spec

\* searchAll(): "finds all its occurrences in the tree" (btree.h).
SearchAllFindsAll ==
    [][op = "searchAll" /\ op' = "none" => answer' = Stored[k]]_vars

\* search(): "finds the first its occurrence in the tree" (btree.h).
SearchFindsStored ==
    [][op = "search" /\ op' = "none" => (answer' = 1 <=> Stored[k] > 0)]_vars

\* remove(): "finds the first its occurrence in the tree and removes it from the
\* tree" (btree.h).  What search() finds has not been removed.
RemovedKeysAreGone ==
    [][op = "search" /\ op' = "none" /\ answer' = 1 => Stored[k] > 0]_vars

\* remove(): "returns true if the key is removed, otherwise false" (btree.h).  It
\* finds a stored key, removes it and says so; an absent one it does not find.
RemoveFindsStored ==
    [][op = "remove" /\ op' = "none" => (answer' = 1 <=> Stored[k] > 0)]_vars

\* A call changes how often its own key is stored and nothing else: splits,
\* merges and moves between pages neither lose nor duplicate another key.
OtherKeysKept ==
    [][\A before \in {Places}, after \in {Places'} : \A x \in Keys :
           x # k => Occurrences(after, x) = Occurrences(before, x)]_vars

\* Every call returns.
CallsReturn == fn # "idle" ~> fn = "idle"
===============================================================================
