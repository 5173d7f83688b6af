------------------------------- MODULE TreeBase -------------------------------
(***************************************************************************)
(* BaseBTree and BaseBPlusTree as built without BTREE_WITH_DELETION: the   *)
(* bounds on the keys of a page, the split of a full page and insertion,   *)
(* on top of the pages and the searches of TreeCore.                       *)
(***************************************************************************)
EXTENDS TreeShape

ASSUME TypeAssumption == TreeType \in {"B_TREE", "B_PLUS_TREE"}

MinKeys == Order - 1
MaxKeys == 2 * Order - 1

\* In a B+-tree a leaf holds one key more.
MinKeysOf(p) == IF TreeType = "B_PLUS_TREE" /\ p.leaf THEN MinKeys + 1 ELSE MinKeys
MaxKeysOf(p) == IF TreeType = "B_PLUS_TREE" /\ p.leaf THEN MaxKeys + 1 ELSE MaxKeys

isFull(p) == Len(p.keys) = MaxKeysOf(p)

-------------------------------------------------------------------------------
(* splitChild(): the upper half of a full page moves to a new right page   *)
(* and the median goes up.  A B+-tree leaf keeps the median.               *)

Median(p) == p.keys[MinKeys + 1]

\* Fault: the left half loses a key.
SplitLeftShort(p) ==
    [p EXCEPT !.keys = SubSeq(@, 1, MinKeysOf(p) - 1),
              !.cursors = IF p.leaf THEN <<>> ELSE SubSeq(@, 1, MinKeys + 1)]

SplitLeft(p) ==
    [p EXCEPT !.keys = SubSeq(@, 1, MinKeysOf(p)),
              !.cursors = IF p.leaf THEN <<>> ELSE SubSeq(@, 1, MinKeys + 1)]

\* Fault: the new page is always set up as a leaf.
SplitRightAsLeaf(p) ==
    [leaf |-> TRUE, cursors |-> <<>>,
     keys |-> SubSeq(p.keys, MinKeys + 2, MinKeys + 1 + MinKeysOf(p))]

SplitRight(p) ==
    [p EXCEPT !.keys = SubSeq(@, MinKeys + 2, MinKeys + 1 + MinKeysOf(p)),
              !.cursors = IF p.leaf THEN <<>> ELSE SubSeq(@, MinKeys + 2, 2 * MinKeys + 2)]

SplitParent(node, i, p, right) ==
    [node EXCEPT !.keys = InsertAt(@, i, Median(p)),
                 !.cursors = InsertAt(@, i + 1, right)]

-------------------------------------------------------------------------------
(* insert(): a full root first becomes the only child of a new root, which *)
(* is split.  splitChild() reads the old root from disk: it is not defined *)
(* when only the copy in memory is full.                                   *)

GrowRoot ==
    LET root == AllocPage(1)
        right == AllocPage(2)
        old == pages[rootPageNum]
        empty == [leaf |-> FALSE, keys |-> <<>>, cursors |-> <<rootPageNum>>]
        new == SplitParent(empty, 1, old, right)
        grown == WritePage(pages, root, new)
    IN  /\ isFull(old)
        /\ pages' = WritePage([grown EXCEPT ![rootPageNum] = SplitLeft(old)],
                              right, SplitRight(old))
        /\ rootPageNum' = root
        /\ rootPage' = new
        /\ freePages' = FreeAfterAlloc(2)

\* Fault: a full root is not split.
InsertWithoutGrowing(x) ==
    /\ size < MaxSize
    /\ Call("insert", x, "insertNonFull")
    /\ UNCHANGED <<treeVars, size, stack>>

Insert(x) ==
    /\ size < MaxSize
    /\ Call("insert", x, "insertNonFull")
    /\ IF isFull(rootPage) THEN GrowRoot ELSE UNCHANGED treeVars
    /\ UNCHANGED <<size, stack>>

Descend ==
    LET p == Data(at)
        c == p.cursors[AfterLastNotGreater(p.keys, k)]
    IN  /\ ~p.leaf
        /\ Exists(c)
        /\ ~isFull(pages[c])
        /\ Continue("insertNonFull", c)
        /\ UNCHANGED <<treeVars, size, stack>>

SplitAndDescend ==
    LET p == Data(at)
        i == AfterLastNotGreater(p.keys, k)
        c == p.cursors[i]
        child == pages[c]
        right == AllocPage(1)
        node == SplitParent(p, i, child, right)
    IN  /\ ~p.leaf
        /\ Exists(c)
        /\ isFull(child)
        /\ pages' = WritePage([pages EXCEPT ![PageNum(at)] = node, ![c] = SplitLeft(child)],
                              right, SplitRight(child))
        /\ rootPage' = IF at = RootWrapper THEN node ELSE rootPage
        /\ freePages' = FreeAfterAlloc(1)
        /\ Continue("insertNonFull", IF Median(child) < k THEN right ELSE c)
        /\ UNCHANGED <<rootPageNum, size, stack>>

insertNonFull ==
    /\ fn = "insertNonFull"
    /\ ~isFull(Data(at))
    /\ InsertIntoLeaf \/ Descend \/ SplitAndDescend

-------------------------------------------------------------------------------
\* The states in which the function running throws instead of taking its step:
\* insertNonFull() and splitChild() for a full page, readPage() for a cursor to
\* a page that does not exist.
InsertThrows ==
    LET p == Data(at)
    IN  /\ fn = "insertNonFull"
        /\ \/ isFull(p)
           \/ ~p.leaf /\ ~Exists(p.cursors[AfterLastNotGreater(p.keys, k)])

-------------------------------------------------------------------------------
\* No insertion or search ends in one of the exceptions of insertNonFull(),
\* splitChild() and readPage(): it never meets a full page that it has to insert
\* into or a cursor to a page that does not exist.
NeverThrows == ~InsertThrows /\ ~SearchThrows /\ ~SearchAllThrows

\* "from (_order - 1) to (2 * _order - 1) keys (excluding root, which contains
\* not less than 1 key for non-empty tree)" (btree.h), also in the middle of an
\* insertion; an inner page has one cursor more than keys.
Occupancy ==
    \A n \in Reachable :
        LET p == pages[n]
        IN  /\ Len(p.keys) <= MaxKeysOf(p)
            /\ n # rootPageNum => Len(p.keys) >= MinKeysOf(p)
            /\ n = rootPageNum /\ ~p.leaf => Len(p.keys) >= 1
            /\ Len(p.cursors) = IF p.leaf THEN 0 ELSE Len(p.keys) + 1

-------------------------------------------------------------------------------
BaseCall == \E x \in Keys : Insert(x) \/ Search(x) \/ SearchAll(x)

BaseStep == insertNonFull \/ search \/ searchAll

BaseNext == BaseCall \/ BaseStep \/ LoadTree

\* A call runs to its end in the caller's thread.
BaseSpec == Init /\ [][BaseNext]_vars /\ WF_vars(BaseStep)
===============================================================================
