------------------------------- MODULE StarBase -------------------------------
(***************************************************************************)
(* BaseBStarTree and BaseBStarPlusTree as built without                    *)
(* BTREE_WITH_DELETION.  A full page first shares its keys with a          *)
(* neighbour that has room; only when both neighbours are full (or the key *)
(* would land in the one that becomes full) two pages are split into       *)
(* three.  The leaves of a B*+-tree have no key of the parent between      *)
(* them, only a router: a copy of the last key of the left one.            *)
(***************************************************************************)
EXTENDS TreeShape

ASSUME StarAssumption ==
    /\ TreeType \in {"B_STAR_TREE", "B_STAR_PLUS_TREE"}
    /\ Order >= 4          \* setOrder() throws otherwise

(* setOrder() *)
MinKeys == (2 * Order - 2) \div 3
MaxKeys == Order
MaxRootKeys == 2 * MinKeys + 1
LeftProduct == (2 * Order - 1) \div 3
MiddleProduct == (2 * Order) \div 3
RightProduct == (2 * Order + 1) \div 3

\* A page has the space for so many keys.
Capacity == IF MaxRootKeys > MaxKeys THEN MaxRootKeys ELSE MaxKeys

isFull(w) == Len(Data(w).keys) = IF isRoot(w) THEN MaxRootKeys ELSE MaxKeys

-------------------------------------------------------------------------------
(* Neighbouring pages are laid out as one long page and cut again.         *)

\* How many keys of the layout go up between two neighbours: none if they are
\* leaves of a B*+-tree.
Gap(p) == IF p.leaf /\ TreeType = "B_STAR_PLUS_TREE" THEN 0 ELSE 1

Joined(left, x, right) ==
    [left EXCEPT !.keys = (IF Gap(left) = 0 THEN @ ELSE Append(@, x)) \o right.keys,
                 !.cursors = @ \o right.cursors]

\* Fault: a page that does not begin the layout is marked as a leaf.
CutAsLeaf(p, first, n) ==
    [leaf |-> p.leaf \/ first > 1,
     keys |-> SubSeq(p.keys, first, first + n - 1),
     cursors |-> IF p.leaf \/ first > 1 THEN <<>> ELSE SubSeq(p.cursors, first, first + n)]

\* n keys of the layout from position first on, with their cursors.
Cut(p, first, n) ==
    [p EXCEPT !.keys = SubSeq(@, first, first + n - 1),
              !.cursors = IF p.leaf THEN <<>> ELSE SubSeq(@, first, first + n)]

\* The layout in two pages, n keys in the left one.
LeftOf(p, n) == Cut(p, 1, n)
MedianOf(p, n) == p.keys[n + Gap(p)]
RightOf(p, n) == Cut(p, n + Gap(p) + 1, Len(p.keys) - n - Gap(p))

\* splitChild() and the merge of three pages leave half of the keys to the right.
Half(p) == Len(p.keys) - Len(p.keys) \div 2 - Gap(p)

-------------------------------------------------------------------------------
(* insert(): a root that is full in memory becomes the left child of a new *)
(* root and is split as it is on disk.                                     *)

GrowRoot ==
    LET root == AllocPage(1)
        right == AllocPage(2)
        old == pages[rootPageNum]
        new == [leaf |-> FALSE, keys |-> <<MedianOf(old, Half(old))>>,
                cursors |-> <<rootPageNum, right>>]
        grown == WritePage(pages, root, new)
    IN  /\ pages' = WritePage([grown EXCEPT ![rootPageNum] = LeftOf(old, Half(old))],
                              right, RightOf(old, Half(old)))
        /\ rootPageNum' = root
        /\ rootPage' = new
        /\ freePages' = FreeAfterAlloc(2)

Insert(x) ==
    /\ size < MaxSize
    /\ Call("insert", x, "insertNonFull")
    /\ IF isFull(RootWrapper) THEN GrowRoot ELSE UNCHANGED treeVars
    /\ UNCHANGED <<size, stack>>

\* The cursor of wrapper w the key goes to.
Position(w) == AfterLastNotGreater(Data(w).keys, k)

Descend ==
    LET c == Data(at).cursors[Position(at)]
    IN  /\ ~Data(at).leaf
        /\ Exists(c)
        /\ ~isFull(c)
        /\ Continue("insertNonFull", c)
        /\ UNCHANGED <<treeVars, size, stack>>

-------------------------------------------------------------------------------
(* shareKeysWithLeftChildAndInsert(), shareKeysWithRightChildAndInsert():  *)
(* the full child under cursor i and its neighbour get equally many keys,  *)
(* the neighbour the odd one.                                              *)

\* The keys of the neighbour afterwards.
Share(child, sibling) == (Len(child.keys) + Len(sibling.keys) + 1) \div 2

\* Refused when the neighbour becomes full and the key would go there.
RefusedByLeft(child, left) ==
    /\ Share(child, left) = MaxKeys
    /\ Share(child, left) - Len(left.keys) = 1
    /\ k < child.keys[1]

\* Fault: the neighbour is never refused for the key's sake.
NeverRefused(child, right) == FALSE

RefusedByRight(child, right) ==
    /\ Share(child, right) = MaxKeys
    /\ Share(child, right) - Len(right.keys) = 1
    /\ child.keys[Len(child.keys) - 1 + Gap(child)] < k

SharesLeft(i) ==
    LET p == Data(at)
    IN  i > 1 /\ ~isFull(p.cursors[i - 1])
              /\ ~RefusedByLeft(pages[p.cursors[i]], pages[p.cursors[i - 1]])

SharesRight(i) ==
    LET p == Data(at)
    IN  i <= Len(p.keys) /\ ~isFull(p.cursors[i + 1])
              /\ ~RefusedByRight(pages[p.cursors[i]], pages[p.cursors[i + 1]])

\* The pages when the layout of the children under cursors i and i + 1 is cut
\* after n keys.
CutBetween(i, n) ==
    LET p == Data(at)
        m == p.cursors[i]
        r == p.cursors[i + 1]
        both == Joined(pages[m], p.keys[i], pages[r])
    IN  [node |-> [p EXCEPT !.keys[i] = MedianOf(both, n)],
         disk |-> [pages EXCEPT ![m] = LeftOf(both, n), ![r] = RightOf(both, n)]]

ShareWithLeft(i) ==
    LET p == Data(at)
        s == CutBetween(i - 1, Share(pages[p.cursors[i]], pages[p.cursors[i - 1]]))
    IN  /\ SharesLeft(i)
        /\ Moved(at, s)
        /\ Continue("insertNonFull", p.cursors[IF k < s.node.keys[i - 1] THEN i - 1 ELSE i])
        /\ UNCHANGED freePages

ShareWithRight(i) ==
    LET p == Data(at)
        child == pages[p.cursors[i]]
        right == pages[p.cursors[i + 1]]
        s == CutBetween(i, Len(child.keys) - (Share(child, right) - Len(right.keys)))
    IN  /\ ~SharesLeft(i) /\ SharesRight(i)
        /\ Moved(at, s)
        /\ Continue("insertNonFull", p.cursors[IF s.node.keys[i] < k THEN i + 1 ELSE i])
        /\ UNCHANGED freePages

\* A neighbour with more keys than a full page takes fewer than the key of the
\* parent, or than none of a B*+-tree's leaf: copyKeys() is then called for a
\* negative number of keys, as UShort.
ShareFaults(i) ==
    LET p == Data(at)
        child == pages[p.cursors[i]]
        Takes(j) == Share(child, pages[p.cursors[j]]) >= Len(pages[p.cursors[j]].keys) + Gap(child)
    IN  /\ isFull(p.cursors[i])
        /\ \/ SharesLeft(i) /\ ~Takes(i - 1)
           \/ ~SharesLeft(i) /\ SharesRight(i) /\ ~Takes(i + 1)

-------------------------------------------------------------------------------
(* splitChildren(): the children under cursors i and i + 1 become three.   *)
(* The right one gets a key less when the neighbour of the full child was  *)
(* not full.                                                               *)

\* The left one gets n keys.
SplitAfter(i, short, n) ==
    LET p == Data(at)
        m == p.cursors[i]
        r == p.cursors[i + 1]
        both == Joined(pages[m], p.keys[i], pages[r])
        mid == AllocPage(1)
        midFirst == n + Gap(both) + 1
        midKeys == LeftProduct - n + MiddleProduct + 1 - Gap(both)
        rightFirst == midFirst + midKeys + Gap(both)
        node == [p EXCEPT
                   !.keys = InsertAt([@ EXCEPT ![i] = both.keys[midFirst - 1]], i + 1,
                                     both.keys[rightFirst - 1]),
                   !.cursors = InsertAt(@, i + 1, mid)]
    IN  /\ pages' = WritePage([pages EXCEPT
                                  ![PageNum(at)] = node,
                                  ![m] = Cut(both, 1, n),
                                  ![r] = Cut(both, rightFirst, RightProduct - short)],
                              mid, Cut(both, midFirst, midKeys))
        /\ rootPage' = IF at = RootWrapper THEN node ELSE rootPage
        /\ freePages' = FreeAfterAlloc(1)
        /\ Continue("insertNonFull", IF node.keys[i + 1] < k THEN r
                                     ELSE IF node.keys[i] < k THEN mid ELSE m)
        /\ UNCHANGED rootPageNum

\* Fault: the left page gets a key too few, the middle one a key too many.
splitChildrenUneven(i, short) == SplitAfter(i, short, LeftProduct - 1)

splitChildren(i, short) == SplitAfter(i, short, LeftProduct)

\* 1 if the page is not full.
Short(n) == IF isFull(n) THEN 0 ELSE 1

SplitsTwo(i) == ~SharesLeft(i) /\ ~SharesRight(i)

\* Two children become three, with the left neighbour if there is one.
SplitTwo(i) ==
    LET p == Data(at)
    IN  /\ SplitsTwo(i)
        /\ \/ i > 1 /\ splitChildren(i - 1, Short(p.cursors[i - 1]))
           \/ i = 1 /\ splitChildren(i, Short(p.cursors[i + 1]))

MakeRoomAndDescend ==
    LET p == Data(at)
        i == Position(at)
    IN  /\ ~p.leaf
        /\ Exists(p.cursors[i])
        /\ isFull(p.cursors[i])
        /\ ~ShareFaults(i)
        /\ ShareWithLeft(i) \/ ShareWithRight(i) \/ SplitTwo(i)
        /\ UNCHANGED <<size, stack>>

\* A page with more keys than a full one is not taken for full: it gets keys
\* that it has no space for.
Overflows ==
    LET p == Data(at)
        i == Position(at)
    IN  /\ Len(p.keys) >= Capacity
        /\ p.leaf \/ (isFull(p.cursors[i]) /\ SplitsTwo(i))

insertNonFull ==
    /\ fn = "insertNonFull"
    /\ ~isFull(at)
    /\ ~Overflows
    /\ InsertIntoLeaf \/ Descend \/ MakeRoomAndDescend

-------------------------------------------------------------------------------
\* The states in which insertNonFull() throws for a full page or a cursor to a
\* page that does not exist, or copies keys out of a page's bounds.
InsertThrows ==
    /\ fn = "insertNonFull"
    /\ \/ isFull(at)
       \/ Overflows
       \/ /\ ~Data(at).leaf
          /\ \/ ~Exists(Data(at).cursors[Position(at)])
             \/ ShareFaults(Position(at))

\* No insertion or search ends in an exception or copies keys out of bounds: it
\* never has to insert into a full page or one without space, never meets a
\* cursor to a page that does not exist and never shares keys with a page that
\* already has more.
NeverThrows == ~InsertThrows /\ ~SearchThrows /\ ~SearchAllThrows

\* Every page but the root holds between getMinKeys() and getMaxKeys() keys, the
\* root no more than getMaxRootKeys(), also in the middle of an insertion; an
\* inner page has one cursor more than keys.
Occupancy ==
    \A n \in Reachable :
        LET p == pages[n]
        IN  /\ Len(p.keys) <= IF n = rootPageNum THEN MaxRootKeys ELSE MaxKeys
            /\ n # rootPageNum => Len(p.keys) >= MinKeys
            /\ n = rootPageNum /\ ~p.leaf => Len(p.keys) >= 1
            /\ Len(p.cursors) = IF p.leaf THEN 0 ELSE Len(p.keys) + 1

-------------------------------------------------------------------------------
BaseCall == \E x \in Keys : Insert(x) \/ Search(x) \/ SearchAll(x)

BaseStep == insertNonFull \/ search \/ searchAll

BaseNext == BaseCall \/ BaseStep \/ LoadTree

\* A call runs to its end in the caller's thread.
BaseSpec == Init /\ [][BaseNext]_vars /\ WF_vars(BaseStep)
===============================================================================
