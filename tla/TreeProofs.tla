------------------------------ MODULE TreeProofs ------------------------------
(***************************************************************************)
(* Proofs about TreeBase, for every order, tree type, set of keys and      *)
(* bound.  Without deletion no call throws, every page keeps between its   *)
(* minimum and its maximum of keys, the root page in memory is the one on  *)
(* disk (part 1), the tree is balanced and every page of the file has      *)
(* exactly one owner (part 2), and the keys of the whole tree are in order *)
(* after every step (part 3).                                              *)
(***************************************************************************)
EXTENDS TreeBase, TreeLemmas

-------------------------------------------------------------------------------
(* The inductive invariant.  A cursor never leads to the root or back to   *)
(* its own page, so a local wrapper is never a second copy of _rootPage    *)
(* and a split never writes one page twice.                                *)

\* p is a page of legal size whose cursors lead to pages in S.
Shaped(p, S) ==
    /\ p \in Page
    /\ p.cursors \in Seq(S)
    /\ Len(p.cursors) = IF p.leaf THEN 0 ELSE Len(p.keys) + 1
    /\ Len(p.keys) <= MaxKeysOf(p)

\* Page n of the pages ps of a tree with root page r.
PageOK(ps, r, n) ==
    /\ Shaped(ps[n], (1..Len(ps)) \ {r, n})
    /\ n # r => Len(ps[n].keys) >= MinKeysOf(ps[n])
    /\ n = r /\ ~ps[n].leaf => Len(ps[n].keys) >= 1

PagesOK == \A n \in 1..Len(pages) : PageOK(pages, rootPageNum, n)

CallOK ==
    /\ fn \in {"idle", "insertNonFull", "search", "searchAll"}
    /\ fn # "idle" => k \in Keys
    /\ at # rootPageNum
    /\ fn = "insertNonFull" => ~isFull(Data(at)) /\ size < MaxSize
    /\ fn = "searchAll" => stack \in Seq(0..Len(pages)) /\ stack # <<>>

InsertInv == TypeOK /\ freePages = <<>> /\ RootInMemory /\ PagesOK /\ CallOK

-------------------------------------------------------------------------------
(* Pages. *)

\* The bounds of setOrder(): a page that was split is far from full.
LEMMA KeyBounds ==
    ASSUME NEW p \in Page
    PROVE  /\ MinKeys \in Nat \ {0} /\ MaxKeys = 2 * MinKeys + 1
           /\ MinKeysOf(p) \in MinKeys..MinKeys + 1
           /\ MaxKeysOf(p) = MinKeys + 1 + MinKeysOf(p)
           /\ MinKeysOf(p) < MaxKeysOf(p)
           /\ ~p.leaf => MinKeysOf(p) = MinKeys /\ MaxKeysOf(p) = MaxKeys
  BY OrderAssumption DEF MinKeys, MaxKeys, MinKeysOf, MaxKeysOf

\* Both bounds depend on the kind of the page only.
LEMMA SameBounds ==
    ASSUME NEW p, NEW q, p.leaf = q.leaf
    PROVE  MinKeysOf(p) = MinKeysOf(q) /\ MaxKeysOf(p) = MaxKeysOf(q)
  BY DEF MinKeysOf, MaxKeysOf

\* More targets do no harm.
LEMMA ShapedMonotonic ==
    ASSUME NEW S, NEW T, S \subseteq T, NEW p, Shaped(p, S)
    PROVE  Shaped(p, T)
<1>1. p.cursors \in Seq(T)
  BY SeqMonotonic DEF Shaped
<1> QED BY <1>1 DEF Shaped

\* The kinds of the parts of a page.
LEMMA ShapedTypes ==
    ASSUME NEW S, NEW p, Shaped(p, S)
    PROVE  /\ p \in Page /\ p.keys \in Seq(Keys) /\ p.leaf \in BOOLEAN
           /\ p.cursors \in Seq(S) /\ p.cursors \in Seq(Nat)
           /\ p.cursors \in Seq(Int) /\ p.keys \in Seq(Int)
<1>1. p \in Page /\ p.cursors \in Seq(S)
  BY DEF Shaped
<1>2. p.keys \in Seq(Keys) /\ p.leaf \in BOOLEAN /\ p.cursors \in Seq(Nat)
  BY <1>1 DEF Page
<1>3. p.keys \in Seq(Int)
  BY <1>2, KeysAssumption, SeqMonotonic
<1>4. p.cursors \in Seq(Int)
  <2>1. Nat \subseteq Int
    OBVIOUS
  <2> QED BY <1>2, <2>1, SeqMonotonic
<1> QED BY <1>1, <1>2, <1>3, <1>4

\* The left half of a full page, for any set of targets.
LEMMA SplitLeftShaped ==
    ASSUME NEW S, NEW p, Shaped(p, S), isFull(p)
    PROVE  /\ Shaped(SplitLeft(p), S)
           /\ Len(SplitLeft(p).keys) = MinKeysOf(p)
           /\ SplitLeft(p).leaf = p.leaf
<1> DEFINE q == SplitLeft(p)
           ks == SubSeq(p.keys, 1, MinKeysOf(p))
           cs == IF p.leaf THEN <<>> ELSE SubSeq(p.cursors, 1, MinKeys + 1)
<1>1. /\ p \in Page /\ p.keys \in Seq(Keys) /\ p.leaf \in BOOLEAN
      /\ p.cursors \in Seq(S) /\ p.cursors \in Seq(Nat)
      /\ p.cursors \in Seq(Int) /\ p.keys \in Seq(Int)
  BY ShapedTypes
<1>2. /\ MinKeys \in Nat \ {0}
      /\ MinKeysOf(p) \in Nat \ {0}
      /\ MinKeysOf(p) <= Len(p.keys)
      /\ Len(p.keys) \in Nat
      /\ ~p.leaf => Len(p.cursors) = 2 * MinKeys + 2
  <2>1. Len(p.keys) \in Nat /\ Len(p.keys) = MaxKeysOf(p)
    BY <1>1, LenProperties DEF isFull
  <2>2. ~p.leaf => Len(p.cursors) = Len(p.keys) + 1
    BY DEF Shaped
  <2> QED BY <1>1, <2>1, <2>2, KeyBounds
<1>3. ks \in Seq(Keys) /\ Len(ks) = MinKeysOf(p)
  <2>1. 1 \in Nat \ {0} /\ MinKeysOf(p) \in Nat /\ 1 + MinKeysOf(p) = MinKeysOf(p) + 1
    BY <1>2
  <2>2. ks \in Seq(Keys)
    BY ONLY <1>1, <1>2, <2>1, SubSeqIn, Zenon DEF ks
  <2>3. Len(ks) = MinKeysOf(p)
    BY ONLY <1>1, <1>2, <2>1, SubSeqLen, Zenon DEF ks
  <2> QED BY <2>2, <2>3
<1>4. cs \in Seq(S) /\ cs \in Seq(Nat) /\ Len(cs) = IF p.leaf THEN 0 ELSE MinKeys + 1
  <2>1. CASE p.leaf
    BY <2>1, EmptySeq
  <2>2. CASE ~p.leaf
    <3>1. /\ 1 \in Nat \ {0} /\ MinKeys + 1 \in Nat
          /\ 1 + (MinKeys + 1) = MinKeys + 1 + 1 /\ MinKeys + 1 <= Len(p.cursors)
      BY <1>2, <2>2
    <3>2. SubSeq(p.cursors, 1, MinKeys + 1) \in Seq(S)
      BY ONLY <1>1, <3>1, SubSeqIn, Zenon
    <3>3. SubSeq(p.cursors, 1, MinKeys + 1) \in Seq(Nat)
      BY ONLY <1>1, <3>1, SubSeqIn, Zenon
    <3>4. Len(SubSeq(p.cursors, 1, MinKeys + 1)) = MinKeys + 1
      BY ONLY <1>1, <3>1, SubSeqLen, Zenon
    <3> QED BY <2>2, <3>2, <3>3, <3>4
  <2> QED BY <2>1, <2>2
<1>5. q = [p EXCEPT !.keys = ks, !.cursors = cs]
  BY DEF SplitLeft
<1> HIDE DEF ks, cs
<1>6. q \in Page /\ q.keys = ks /\ q.cursors = cs /\ q.leaf = p.leaf
  BY <1>1, <1>3, <1>4, <1>5 DEF Page
<1> HIDE DEF q
<1>7. MaxKeysOf(q) = MaxKeysOf(p) /\ MinKeysOf(p) <= MaxKeysOf(p)
      /\ (~p.leaf => MinKeysOf(p) = MinKeys)
  BY <1>1, <1>6, SameBounds, KeyBounds
<1>8. Shaped(q, S)
  BY <1>3, <1>4, <1>6, <1>7 DEF Shaped
<1> QED BY <1>3, <1>6, <1>8 DEF q

\* The right half of a full page, likewise.
LEMMA SplitRightShaped ==
    ASSUME NEW S, NEW p, Shaped(p, S), isFull(p)
    PROVE  /\ Shaped(SplitRight(p), S)
           /\ Len(SplitRight(p).keys) = MinKeysOf(p)
           /\ SplitRight(p).leaf = p.leaf
<1> DEFINE q == SplitRight(p)
           ks == SubSeq(p.keys, MinKeys + 2, MinKeys + 1 + MinKeysOf(p))
           cs == IF p.leaf THEN <<>> ELSE SubSeq(p.cursors, MinKeys + 2, 2 * MinKeys + 2)
<1>1. /\ p \in Page /\ p.keys \in Seq(Keys) /\ p.leaf \in BOOLEAN
      /\ p.cursors \in Seq(S) /\ p.cursors \in Seq(Nat)
      /\ p.cursors \in Seq(Int) /\ p.keys \in Seq(Int)
  BY ShapedTypes
<1>2. /\ MinKeys \in Nat \ {0}
      /\ MinKeysOf(p) \in Nat \ {0}
      /\ Len(p.keys) = MinKeys + 1 + MinKeysOf(p)
      /\ ~p.leaf => Len(p.cursors) = 2 * MinKeys + 2
  <2>1. Len(p.keys) \in Nat /\ Len(p.keys) = MaxKeysOf(p)
    BY <1>1, LenProperties DEF isFull
  <2>2. ~p.leaf => Len(p.cursors) = Len(p.keys) + 1
    BY DEF Shaped
  <2> QED BY <1>1, <2>1, <2>2, KeyBounds
<1>3. ks \in Seq(Keys) /\ Len(ks) = MinKeysOf(p)
  <2>1. /\ MinKeys + 2 \in Nat \ {0} /\ MinKeys + 1 + MinKeysOf(p) \in Nat
        /\ MinKeysOf(p) \in Nat
        /\ MinKeys + 2 + MinKeysOf(p) = MinKeys + 1 + MinKeysOf(p) + 1
        /\ MinKeys + 1 + MinKeysOf(p) <= Len(p.keys)
    BY <1>2
  <2>2. ks \in Seq(Keys)
    BY ONLY <1>1, <2>1, SubSeqIn, Zenon DEF ks
  <2>3. Len(ks) = MinKeysOf(p)
    BY ONLY <1>1, <2>1, SubSeqLen, Zenon DEF ks
  <2> QED BY <2>2, <2>3
<1>4. cs \in Seq(S) /\ cs \in Seq(Nat) /\ Len(cs) = IF p.leaf THEN 0 ELSE MinKeys + 1
  <2>1. CASE p.leaf
    BY <2>1, EmptySeq
  <2>2. CASE ~p.leaf
    <3>1. /\ MinKeys + 2 \in Nat \ {0} /\ 2 * MinKeys + 2 \in Nat
          /\ MinKeys + 1 \in Nat
          /\ MinKeys + 2 + (MinKeys + 1) = 2 * MinKeys + 2 + 1
          /\ 2 * MinKeys + 2 <= Len(p.cursors)
      BY <1>2, <2>2
    <3>2. SubSeq(p.cursors, MinKeys + 2, 2 * MinKeys + 2) \in Seq(S)
      BY ONLY <1>1, <3>1, SubSeqIn, Zenon
    <3>3. SubSeq(p.cursors, MinKeys + 2, 2 * MinKeys + 2) \in Seq(Nat)
      BY ONLY <1>1, <3>1, SubSeqIn, Zenon
    <3>4. Len(SubSeq(p.cursors, MinKeys + 2, 2 * MinKeys + 2)) = MinKeys + 1
      BY ONLY <1>1, <3>1, SubSeqLen, Zenon
    <3> QED BY <2>2, <3>2, <3>3, <3>4
  <2> QED BY <2>1, <2>2
<1>5. q = [p EXCEPT !.keys = ks, !.cursors = cs]
  BY DEF SplitRight
<1> HIDE DEF ks, cs
<1>6. q \in Page /\ q.keys = ks /\ q.cursors = cs /\ q.leaf = p.leaf
  BY <1>1, <1>3, <1>4, <1>5 DEF Page
<1> HIDE DEF q
<1>7. MaxKeysOf(q) = MaxKeysOf(p) /\ MinKeysOf(p) <= MaxKeysOf(p)
      /\ (~p.leaf => MinKeysOf(p) = MinKeys)
  BY <1>1, <1>6, SameBounds, KeyBounds
<1>8. Shaped(q, S)
  BY <1>3, <1>4, <1>6, <1>7 DEF Shaped
<1> QED BY <1>3, <1>6, <1>8 DEF q

\* The parent of a split child: one key and one cursor more.
LEMMA SplitParentShaped ==
    ASSUME NEW S, NEW node, Shaped(node, S), ~node.leaf, ~isFull(node),
           NEW i \in 1..Len(node.keys) + 1, NEW T, NEW p, Shaped(p, T), isFull(p),
           NEW right \in S, right \in Nat
    PROVE  /\ Shaped(SplitParent(node, i, p, right), S)
           /\ Len(SplitParent(node, i, p, right).keys) > Len(node.keys)
           /\ SplitParent(node, i, p, right).leaf = FALSE
<1> DEFINE q == SplitParent(node, i, p, right)
           ks == InsertAt(node.keys, i, Median(p))
           cs == InsertAt(node.cursors, i + 1, right)
<1>1. /\ node \in Page /\ node.keys \in Seq(Keys) /\ node.leaf = FALSE
      /\ node.cursors \in Seq(S) /\ node.cursors \in Seq(Nat)
  BY ShapedTypes
<1>2. /\ Len(node.keys) \in Nat /\ Len(node.keys) < MaxKeysOf(node)
      /\ Len(node.cursors) = Len(node.keys) + 1
  <2>1. Len(node.keys) \in Nat
    BY <1>1, LenProperties
  <2>2. Len(node.keys) <= MaxKeysOf(node) /\ Len(node.keys) # MaxKeysOf(node)
    BY DEF Shaped, isFull
  <2>3. MaxKeysOf(node) \in Nat
    BY <1>1, KeyBounds
  <2>4. Len(node.cursors) = Len(node.keys) + 1
    BY <1>1 DEF Shaped
  <2> QED BY <2>1, <2>2, <2>3, <2>4
<1>3. Median(p) \in Keys
  <2>1. p \in Page /\ p.keys \in Seq(Keys) /\ Len(p.keys) = MaxKeysOf(p)
    BY ShapedTypes DEF isFull
  <2>2. MinKeys + 1 \in 1..Len(p.keys)
    BY <2>1, KeyBounds
  <2> QED BY <2>1, <2>2, ElementOfSeq DEF Median
<1>4. ks \in Seq(Keys) /\ Len(ks) = Len(node.keys) + 1
  BY ONLY <1>1, <1>3, i \in 1..Len(node.keys) + 1, InsertAtProperties, Zenon DEF ks
<1>5. i + 1 \in 1..Len(node.cursors) + 1
  BY <1>2
<1>6. cs \in Seq(S) /\ Len(cs) = Len(node.cursors) + 1
  BY ONLY <1>1, <1>5, right \in S, InsertAtProperties, Zenon DEF cs
<1>7. cs \in Seq(Nat)
  BY ONLY <1>1, <1>5, right \in Nat, InsertAtProperties, Zenon DEF cs
<1>8. q = [node EXCEPT !.keys = ks, !.cursors = cs]
  BY DEF SplitParent
<1> HIDE DEF ks, cs
<1>9. q \in Page /\ q.keys = ks /\ q.cursors = cs /\ q.leaf = FALSE
  BY <1>1, <1>4, <1>7, <1>8 DEF Page
<1> HIDE DEF q
<1>10. MaxKeysOf(q) = MaxKeysOf(node) /\ MaxKeysOf(node) \in Nat
  BY <1>1, <1>9, SameBounds, KeyBounds
<1>11. Shaped(q, S)
  <2>1. Len(ks) <= MaxKeysOf(q) /\ Len(cs) = Len(ks) + 1
    BY ONLY <1>2, <1>4, <1>6, <1>10
  <2> QED BY ONLY <1>6, <1>9, <2>1 DEF Shaped
<1>12. Len(q.keys) > Len(node.keys)
  BY <1>2, <1>4, <1>9
<1> QED BY <1>9, <1>11, <1>12 DEF q

-------------------------------------------------------------------------------
(* The steps. *)

\* A wrapper holds the page on disk.
LEMMA DataOnDisk ==
    ASSUME InsertInv
    PROVE  /\ Data(at) = pages[PageNum(at)]
           /\ PageNum(at) \in 1..Len(pages)
           /\ PageOK(pages, rootPageNum, PageNum(at))
           /\ at # RootWrapper => PageNum(at) = at /\ PageNum(at) # rootPageNum
<1>1. /\ at \in 0..Len(pages) /\ rootPageNum \in 1..Len(pages)
      /\ rootPage = pages[rootPageNum] /\ at # rootPageNum
  BY DEF InsertInv, TypeOK, RootInMemory, CallOK
<1>2. PageNum(at) \in 1..Len(pages)
  BY <1>1 DEF PageNum, RootWrapper
<1> QED BY <1>1, <1>2 DEF InsertInv, PagesOK, PageNum, Data, RootWrapper

\* A cursor leads to another page, which is not the root.
LEMMA CursorTarget ==
    ASSUME NEW ps, NEW r, NEW n, PageOK(ps, r, n), ~ps[n].leaf,
           NEW i \in 1..Len(ps[n].keys) + 1
    PROVE  ps[n].cursors[i] \in (1..Len(ps)) \ {r, n}
<1>1. ps[n].cursors \in Seq((1..Len(ps)) \ {r, n}) /\ i \in 1..Len(ps[n].cursors)
  BY DEF PageOK, Shaped
<1> QED BY <1>1, ElementOfSeq

\* createTree() builds a legal tree.
LEMMA InitInv == Init => InsertInv
<1> SUFFICES ASSUME Init PROVE InsertInv
  OBVIOUS
<1> DEFINE e == [leaf |-> TRUE, keys |-> <<>>, cursors |-> <<>>]
<1>1. e \in Page /\ Len(e.keys) = 0 /\ Len(e.cursors) = 0 /\ e.leaf = TRUE
  BY EmptySeq DEF Page
<1>2. MaxKeysOf(e) \in Nat
  BY <1>1, KeyBounds
<1>3. Shaped(e, (1..1) \ {1, 1})
  BY <1>1, <1>2, EmptySeq DEF Shaped
<1>4. pages = <<e>> /\ rootPage = e /\ rootPageNum = 1
  BY DEF Init
<1> HIDE DEF e
<1>5. pages \in Seq(Page) /\ Len(pages) = 1 /\ pages[1] = e
  BY <1>1, <1>4
<1>6. PagesOK
  <2>1. PageOK(pages, 1, 1)
    BY <1>1, <1>3, <1>5 DEF PageOK
  <2>2. 1..Len(pages) = {1}
    BY <1>5
  <2> QED BY <1>4, <2>1, <2>2 DEF PagesOK
<1>7. TypeOK
  BY <1>1, <1>4, <1>5, SizeAssumption, EmptySeq DEF Init, TypeOK, RootWrapper
<1>8. CallOK /\ RootInMemory /\ freePages = <<>>
  BY <1>4, <1>5 DEF Init, CallOK, RootInMemory, RootWrapper
<1> QED BY <1>6, <1>7, <1>8 DEF InsertInv

\* The invariant has what the searches rely on.
LEMMA InsertCore == InsertInv => CoreOK
<1> SUFFICES ASSUME InsertInv PROVE CoreOK
  OBVIOUS
<1>1. LinksOK(pages, rootPageNum)
  BY DEF InsertInv, PagesOK, PageOK, Shaped, Linked, LinksOK
<1> QED BY <1>1 DEF InsertInv, CallOK, CoreCall, CoreOK

\* A step that reads pages only keeps the invariant.
LEMMA ReadsKeep ==
    ASSUME InsertInv, CoreOK', ReadsOnly
    PROVE  InsertInv'
<1>1. pages' = pages /\ rootPageNum' = rootPageNum /\ fn' # "insertNonFull"
  BY DEF ReadsOnly, treeVars
<1>2. PagesOK'
  BY <1>1 DEF InsertInv, PagesOK
<1>3. CallOK'
  BY <1>1 DEF CoreOK, CoreCall, CallOK
<1> QED BY <1>2, <1>3 DEF InsertInv, CoreOK

\* The tail call of insertNonFull() on a child.
LEMMA DescendStep ==
    ASSUME InsertInv, fn = "insertNonFull", Descend
    PROVE  InsertInv'
<1> DEFINE p == Data(at)
           i == AfterLastNotGreater(p.keys, k)
           c == p.cursors[i]
<1>1. i \in 1..Len(p.keys) + 1
  <2>1. p.keys \in Seq(Keys)
    BY DataOnDisk, ShapedTypes DEF PageOK
  <2> QED BY <2>1, AfterLastNotGreaterRange
<1>2. /\ ~p.leaf /\ ~isFull(pages[c]) /\ Continue(fn, c)
      /\ UNCHANGED <<treeVars, size, stack>>
  BY DEF Descend
<1>3. CoreOK'
  <2> HIDE DEF i
  <2> QED BY <1>1, <1>2, InsertCore, TailCall
<1>4. c \in 1..Len(pages)
  <2> HIDE DEF i
  <2> QED BY <1>1, <1>2, InsertCore, CursorLeads
<1> HIDE DEF c
<1>5. /\ pages' = pages /\ rootPageNum' = rootPageNum /\ size' = size
      /\ at' = c /\ fn' = fn /\ rootPage' = rootPage
  BY <1>2 DEF treeVars, Continue
<1>6. Data(at)' = pages[c]
  BY <1>4, <1>5 DEF Data, RootWrapper
<1>7. CallOK'
  BY <1>2, <1>3, <1>5, <1>6 DEF CoreOK, CoreCall, CallOK, InsertInv
<1>8. PagesOK'
  BY <1>5 DEF InsertInv, PagesOK
<1> QED BY <1>3, <1>7, <1>8 DEF InsertInv, CoreOK

\* A key goes into a leaf that is not full.
LEMMA InsertIntoLeafStep ==
    ASSUME InsertInv, fn = "insertNonFull", ~isFull(Data(at)), InsertIntoLeaf
    PROVE  InsertInv'
<1> DEFINE n == PageNum(at)
           p == pages[n]
           i == AfterLastNotGreater(p.keys, k)
           ks == InsertAt(p.keys, i, k)
           q == [p EXCEPT !.keys = ks]
           S == (1..Len(pages)) \ {rootPageNum, n}
<1>1. /\ Data(at) = p /\ n \in 1..Len(pages) /\ PageOK(pages, rootPageNum, n)
      /\ (at # RootWrapper => n # rootPageNum)
  BY DataOnDisk
<1>2. /\ pages \in Seq(Page) /\ rootPageNum \in 1..Len(pages) /\ Len(pages) \in Nat
      /\ k \in Keys /\ size \in Nat /\ size < MaxSize /\ rootPage = pages[rootPageNum]
      /\ freePages = <<>> /\ rootPage \in Page
  BY LenProperties DEF InsertInv, TypeOK, CallOK, RootInMemory
<1>3. /\ pages' = [pages EXCEPT ![n] = q] /\ rootPage' = IF at = RootWrapper THEN q ELSE rootPage
      /\ size' = size + 1 /\ Return(0) /\ rootPageNum' = rootPageNum
      /\ freePages' = freePages /\ p.leaf
  BY <1>1 DEF InsertIntoLeaf, Write
<1> HIDE DEF n
<1>4. /\ p \in Page /\ p.keys \in Seq(Keys) /\ p.leaf = TRUE /\ Len(p.keys) \in Nat
  BY <1>1, <1>3, ShapedTypes, LenProperties DEF PageOK
<1>5. ks \in Seq(Keys) /\ Len(ks) = Len(p.keys) + 1
  <2>1. i \in 1..Len(p.keys) + 1
    BY <1>4, AfterLastNotGreaterRange
  <2> HIDE DEF i
  <2> QED BY ONLY <1>2, <1>4, <2>1, InsertAtProperties, Zenon DEF ks
<1> HIDE DEF ks
<1>6. q \in Page /\ q.keys = ks /\ q.cursors = p.cursors /\ q.leaf = TRUE
  BY <1>4, <1>5 DEF Page
<1> HIDE DEF q
<1>7. /\ MaxKeysOf(q) = MaxKeysOf(p) /\ MinKeysOf(q) = MinKeysOf(p)
      /\ MaxKeysOf(p) \in Nat /\ MinKeysOf(p) \in Nat
  <2>1. q.leaf = p.leaf
    BY <1>4, <1>6
  <2>2. MaxKeysOf(q) = MaxKeysOf(p) /\ MinKeysOf(q) = MinKeysOf(p)
    BY ONLY <2>1, SameBounds, Zenon
  <2> QED BY <1>4, <2>2, KeyBounds
<1>8. Shaped(p, S) /\ (n # rootPageNum => Len(p.keys) >= MinKeysOf(p))
  BY <1>1 DEF PageOK
<1>9. Len(p.keys) < MaxKeysOf(p)
  <2>1. Len(p.keys) # MaxKeysOf(p)
    BY <1>1 DEF isFull
  <2>2. Len(p.keys) <= MaxKeysOf(p)
    BY <1>8 DEF Shaped
  <2> QED BY <1>4, <1>7, <2>1, <2>2
<1> HIDE DEF p
<1>10. Shaped(q, S)
  <2>1. p.cursors \in Seq(S) /\ Len(p.cursors) = 0
    BY <1>4, <1>8 DEF Shaped
  <2> QED BY <1>4, <1>5, <1>6, <1>7, <1>9, <2>1 DEF Shaped
<1>11. /\ pages' \in Seq(Page) /\ Len(pages') = Len(pages)
       /\ \A m \in 1..Len(pages) : pages'[m] = IF m = n THEN q ELSE pages[m]
  BY <1>1, <1>2, <1>3, <1>6, ExceptSeq
<1>12. PagesOK'
  <2> SUFFICES ASSUME NEW m \in 1..Len(pages) PROVE PageOK(pages', rootPageNum, m)
    BY <1>3, <1>11 DEF PagesOK
  <2>1. CASE m = n
    BY <1>4, <1>5, <1>6, <1>7, <1>8, <1>10, <1>11, <2>1 DEF PageOK
  <2>2. CASE m # n
    BY <1>11, <2>2 DEF InsertInv, PagesOK, PageOK
  <2> QED BY <2>1, <2>2
<1>13. RootInMemory'
  BY <1>1, <1>2, <1>3, <1>11 DEF RootInMemory, PageNum, n
<1>14. CallOK'
  BY <1>2, <1>3, ReturnOK DEF CallOK, CoreCall
<1>15. TypeOK'
  BY <1>2, <1>3, <1>6, <1>11, SizeAssumption, EmptySeq DEF TypeOK, Return, RootWrapper
<1> QED BY <1>2, <1>3, <1>12, <1>13, <1>14, <1>15 DEF InsertInv

\* A full child is split: its page keeps the lower half, a new page gets the
\* upper half and the parent one key more.
LEMMA SplitAndDescendStep ==
    ASSUME InsertInv, fn = "insertNonFull", ~isFull(Data(at)), SplitAndDescend
    PROVE  InsertInv'
<1> DEFINE N == Len(pages)
           n == PageNum(at)
           p == pages[n]
           i == AfterLastNotGreater(p.keys, k)
           c == p.cursors[i]
           child == pages[c]
           right == N + 1
           node == SplitParent(p, i, child, right)
           lhalf == SplitLeft(child)
           rhalf == SplitRight(child)
           both == [pages EXCEPT ![n] = node, ![c] = lhalf]
<1>1. /\ Data(at) = p /\ n \in 1..N /\ PageOK(pages, rootPageNum, n)
      /\ (at # RootWrapper => n # rootPageNum) /\ (at = RootWrapper => n = rootPageNum)
  BY DataOnDisk DEF PageNum
<1>2. /\ pages \in Seq(Page) /\ rootPageNum \in 1..N /\ N \in Nat
      /\ k \in Keys /\ size \in Nat /\ size < MaxSize /\ rootPage = pages[rootPageNum]
      /\ freePages = <<>> /\ rootPage \in Page
  BY LenProperties DEF InsertInv, TypeOK, CallOK, RootInMemory
<1>3. AllocPage(1) = right /\ FreeAfterAlloc(1) = <<>>
  BY <1>2 DEF AllocPage, FreeAfterAlloc
<1>4. /\ ~p.leaf /\ isFull(child)
      /\ pages' = WritePage(both, right, rhalf)
      /\ rootPage' = IF at = RootWrapper THEN node ELSE rootPage
      /\ freePages' = <<>>
      /\ Continue("insertNonFull", IF Median(child) < k THEN right ELSE c)
      /\ rootPageNum' = rootPageNum /\ size' = size /\ stack' = stack
  BY <1>1, <1>3 DEF SplitAndDescend
<1> HIDE DEF n
<1>5. p.keys \in Seq(Keys) /\ i \in 1..Len(p.keys) + 1
  <2>1. p.keys \in Seq(Keys)
    BY <1>1, ShapedTypes DEF PageOK
  <2> QED BY <2>1, AfterLastNotGreaterRange
<1>6. c \in (1..N) \ {rootPageNum, n}
  <2> HIDE DEF i
  <2> QED BY <1>1, <1>4, <1>5, CursorTarget
<1> HIDE DEF i, c
<1>7. PageOK(pages, rootPageNum, c)
  BY <1>6 DEF InsertInv, PagesOK
<1> DEFINE Sp == (1..N + 1) \ {rootPageNum, n}
           Sc == (1..N) \ {rootPageNum, c}
<1>8. Shaped(p, Sp)
  <2>1. Shaped(p, (1..N) \ {rootPageNum, n})
    BY <1>1 DEF PageOK
  <2>2. (1..N) \ {rootPageNum, n} \subseteq Sp
    BY <1>2
  <2> HIDE DEF Sp, p
  <2> QED BY <2>1, <2>2, ShapedMonotonic
<1>9. Shaped(child, Sc)
  BY <1>7 DEF PageOK
<1>10. right \in Sp /\ right \in Nat
  BY <1>1, <1>2
<1>11. /\ Shaped(node, Sp) /\ Len(node.keys) > Len(p.keys) /\ node.leaf = FALSE
  <2>1. ~p.leaf /\ ~isFull(p) /\ isFull(child)
    BY <1>1, <1>4
  <2> HIDE DEF Sp, Sc, p, child, right
  <2>2. Shaped(node, Sp)
    BY ONLY <1>5, <1>8, <1>9, <1>10, <2>1, SplitParentShaped, ZenonT(30) DEF node
  <2>3. Len(node.keys) > Len(p.keys)
    BY ONLY <1>5, <1>8, <1>9, <1>10, <2>1, SplitParentShaped, ZenonT(30) DEF node
  <2>4. node.leaf = FALSE
    BY ONLY <1>5, <1>8, <1>9, <1>10, <2>1, SplitParentShaped, ZenonT(30) DEF node
  <2> QED BY <2>2, <2>3, <2>4
<1>12. /\ Shaped(lhalf, Sc) /\ Len(lhalf.keys) = MinKeysOf(child) /\ lhalf.leaf = child.leaf
       /\ Shaped(rhalf, Sc) /\ Len(rhalf.keys) = MinKeysOf(child) /\ rhalf.leaf = child.leaf
  <2>1. isFull(child)
    BY <1>4
  <2> HIDE DEF Sc, child
  <2> QED BY <1>9, <2>1, SplitLeftShaped, SplitRightShaped
<1> HIDE DEF node, lhalf, rhalf
<1>13. node \in Page /\ lhalf \in Page /\ rhalf \in Page /\ child \in Page
  BY <1>9, <1>11, <1>12 DEF Shaped
<1>14. /\ MinKeysOf(lhalf) = MinKeysOf(child) /\ MinKeysOf(rhalf) = MinKeysOf(child)
       /\ MaxKeysOf(lhalf) = MaxKeysOf(child) /\ MaxKeysOf(rhalf) = MaxKeysOf(child)
  <2> HIDE DEF child
  <2> QED BY <1>12, SameBounds
<1>15. ~isFull(lhalf) /\ ~isFull(rhalf)
  <2>1. MinKeysOf(child) < MaxKeysOf(child) /\ MinKeysOf(child) \in Nat /\ MaxKeysOf(child) \in Nat
    BY <1>13, KeyBounds
  <2> HIDE DEF child
  <2> QED BY <1>12, <1>14, <2>1 DEF isFull
<1>16. /\ pages' \in Seq(Page) /\ Len(pages') = N + 1
       /\ \A m \in 1..N + 1 : pages'[m] = IF m = right THEN rhalf ELSE IF m = c THEN lhalf
                                          ELSE IF m = n THEN node ELSE pages[m]
  <2>1. /\ both \in Seq(Page) /\ Len(both) = N
        /\ \A m \in 1..N : both[m] = IF m = c THEN lhalf ELSE IF m = n THEN node ELSE pages[m]
    <3> DEFINE one == [pages EXCEPT ![n] = node]
    <3>1. /\ one \in Seq(Page) /\ Len(one) = N
          /\ \A m \in 1..N : one[m] = IF m = n THEN node ELSE pages[m]
      BY <1>1, <1>2, <1>13, ExceptSeq
    <3>2. both = [one EXCEPT ![c] = lhalf]
      OBVIOUS
    <3> HIDE DEF one, both
    <3> QED BY <1>6, <1>13, <3>1, <3>2, ExceptSeq
  <2> HIDE DEF both
  <2>2. pages' = Append(both, rhalf)
    BY <1>4, <2>1 DEF WritePage
  <2>3. /\ pages' \in Seq(Page) /\ Len(pages') = N + 1
        /\ \A m \in 1..N : pages'[m] = both[m]
        /\ pages'[N + 1] = rhalf
    BY <1>13, <2>1, <2>2, AppendProperties
  <2> QED BY <1>2, <1>6, <2>1, <2>3
<1> HIDE DEF both
<1>17. PagesOK'
  <2> SUFFICES ASSUME NEW m \in 1..N + 1 PROVE PageOK(pages', rootPageNum, m)
    BY <1>4, <1>16 DEF PagesOK
  <2> DEFINE Sm == (1..N + 1) \ {rootPageNum, m}
  <2>1. CASE m = right
    <3>1. pages'[m] = rhalf /\ Sc \subseteq Sm /\ m # rootPageNum
      BY <1>2, <1>16, <2>1
    <3>2. Shaped(rhalf, Sm)
      <4> HIDE DEF Sc, Sm
      <4> QED BY <1>12, <3>1, ShapedMonotonic
    <3>3. Len(rhalf.keys) >= MinKeysOf(rhalf)
      BY <1>12, <1>13, <1>14, KeyBounds
    <3> QED BY <1>16, <3>1, <3>2, <3>3 DEF PageOK
  <2>2. CASE m = c
    <3>1. pages'[m] = lhalf /\ Sc \subseteq Sm /\ m # rootPageNum
      BY <1>2, <1>6, <1>16, <2>2
    <3>2. Shaped(lhalf, Sm)
      <4> HIDE DEF Sc, Sm
      <4> QED BY <1>12, <3>1, ShapedMonotonic
    <3>3. Len(lhalf.keys) >= MinKeysOf(lhalf)
      BY <1>12, <1>13, <1>14, KeyBounds
    <3> QED BY <1>16, <3>1, <3>2, <3>3 DEF PageOK
  <2>3. CASE m = n
    <3>1. pages'[m] = node /\ Sp = Sm
      BY <1>1, <1>2, <1>6, <1>16, <2>3
    <3>2. Len(p.keys) \in Nat /\ (n # rootPageNum => Len(p.keys) >= MinKeysOf(p))
      BY <1>1, <1>5, LenProperties DEF PageOK
    <3>3. MinKeysOf(node) = MinKeysOf(p) /\ MinKeysOf(p) \in Nat
      <4>1. node.leaf = p.leaf /\ p \in Page
        BY <1>1, <1>4, <1>11, ShapedTypes DEF PageOK
      <4> HIDE DEF p
      <4> QED BY <4>1, SameBounds, KeyBounds
    <3> HIDE DEF p
    <3>4. Len(node.keys) \in Nat
      BY <1>13, LenProperties DEF Page
    <3>5. Len(node.keys) >= 1 /\ (m # rootPageNum => Len(node.keys) >= MinKeysOf(node))
      BY <1>11, <2>3, <3>2, <3>3, <3>4
    <3> QED BY <1>11, <1>16, <3>1, <3>5 DEF PageOK
  <2>4. CASE m \notin {right, c, n}
    <3>1. pages'[m] = pages[m] /\ PageOK(pages, rootPageNum, m)
      BY <1>2, <1>16, <2>4 DEF InsertInv, PagesOK
    <3> DEFINE So == (1..N) \ {rootPageNum, m}
    <3>2. Shaped(pages[m], So) /\ So \subseteq Sm
      BY <1>2, <3>1 DEF PageOK
    <3>3. Shaped(pages[m], Sm)
      <4> HIDE DEF So, Sm
      <4> QED BY <3>2, ShapedMonotonic
    <3> QED BY <1>16, <3>1, <3>3 DEF PageOK
  <2> QED BY <2>1, <2>2, <2>3, <2>4
<1>18. RootInMemory'
  <2>1. rootPageNum # right /\ rootPageNum # c /\ rootPageNum \in 1..N + 1
    BY <1>2, <1>6
  <2> QED BY <1>1, <1>2, <1>4, <1>16, <2>1 DEF RootInMemory
<1>19. /\ at' \in {right, c} /\ at' \in 1..N + 1 /\ at' # rootPageNum /\ fn' = "insertNonFull"
       /\ k' = k /\ op' = op /\ answer' = answer
  BY <1>2, <1>4, <1>6 DEF Continue
<1>20. ~isFull(Data(at)')
  <2>1. Data(at)' = pages'[at']
    BY <1>19 DEF Data, RootWrapper
  <2>2. pages'[at'] \in {lhalf, rhalf}
    BY <1>2, <1>16, <1>19
  <2> QED BY <1>15, <2>1, <2>2
<1>21. CallOK'
  BY <1>2, <1>4, <1>19, <1>20 DEF CallOK
<1>22. TypeOK'
  <2>1. rootPage' \in Page /\ rootPageNum' \in 1..N + 1 /\ freePages' \in Seq(1..N + 1)
    BY <1>2, <1>4, <1>13, EmptySeq
  <2> QED BY <1>2, <1>4, <1>16, <1>19, <2>1 DEF TypeOK, InsertInv
<1> QED BY <1>4, <1>17, <1>18, <1>21, <1>22 DEF InsertInv

\* A full root is split under a new root.
LEMMA GrowRootStep ==
    ASSUME InsertInv, isFull(rootPage), GrowRoot
    PROVE  /\ PagesOK' /\ RootInMemory' /\ freePages' = <<>> /\ ~isFull(rootPage')
           /\ pages' \in Seq(Page) /\ rootPage' \in Page /\ Len(pages') = Len(pages) + 2
           /\ rootPageNum' \in 1..Len(pages') /\ Len(pages) \in Nat
<1> DEFINE N == Len(pages)
           r == rootPageNum
           old == pages[r]
           right == N + 2
           empty == [leaf |-> FALSE, keys |-> <<>>, cursors |-> <<r>>]
           new == SplitParent(empty, 1, old, right)
           lhalf == SplitLeft(old)
           rhalf == SplitRight(old)
           grown == Append(pages, new)
           both == [grown EXCEPT ![r] = lhalf]
<1>0. isFull(old)
  BY DEF InsertInv, RootInMemory
<1>1. /\ pages \in Seq(Page) /\ r \in 1..N /\ N \in Nat
      /\ freePages = <<>> /\ PageOK(pages, r, r) /\ r \in Nat
  BY LenProperties DEF InsertInv, TypeOK, RootInMemory, PagesOK
<1>2. AllocPage(1) = N + 1 /\ AllocPage(2) = right /\ FreeAfterAlloc(2) = <<>>
  BY <1>1 DEF AllocPage, FreeAfterAlloc
<1>3. WritePage(pages, N + 1, new) = grown
  BY DEF WritePage
<1>4. /\ pages' = WritePage(both, right, rhalf)
      /\ rootPageNum' = N + 1 /\ rootPage' = new /\ freePages' = <<>>
  <2> HIDE DEF new, lhalf, rhalf, grown
  <2> QED BY <1>2, <1>3 DEF GrowRoot, new, lhalf, rhalf
<1> DEFINE So == (1..N) \ {r, r}
           Sn == (1..N + 2) \ {N + 1}
<1>5. Shaped(old, So)
  BY <1>1 DEF PageOK
<1> HIDE DEF old
<1>6. /\ Shaped(lhalf, So) /\ Len(lhalf.keys) = MinKeysOf(old) /\ lhalf.leaf = old.leaf
      /\ Shaped(rhalf, So) /\ Len(rhalf.keys) = MinKeysOf(old) /\ rhalf.leaf = old.leaf
  <2> HIDE DEF So
  <2> QED BY <1>0, <1>5, SplitLeftShaped, SplitRightShaped
<1>7. /\ empty \in Page /\ empty.leaf = FALSE /\ Len(empty.keys) = 0
      /\ Len(empty.cursors) = 1 /\ empty.cursors \in Seq(Sn)
  <2>1. r \in Sn
    BY <1>1
  <2> HIDE DEF Sn
  <2> QED BY <1>1, <2>1, EmptySeq DEF Page
<1> HIDE DEF empty
<1>8. Shaped(empty, Sn) /\ ~isFull(empty) /\ MaxKeysOf(empty) = MaxKeys
  <2>1. MaxKeysOf(empty) = MaxKeys /\ MaxKeys = 2 * MinKeys + 1 /\ MinKeys \in Nat
    BY <1>7, KeyBounds
  <2> QED BY <1>7, <2>1 DEF Shaped, isFull
<1>9. /\ Shaped(new, Sn) /\ Len(new.keys) = 1 /\ new.leaf = FALSE
  <2>1. 1 \in 1..Len(empty.keys) + 1 /\ right \in Sn /\ right \in Nat /\ ~empty.leaf
    BY <1>1, <1>7
  <2> HIDE DEF Sn, So, right
  <2>2. PICK e, i, o, s, S, T : /\ e = empty /\ i = 1 /\ o = old /\ s = right /\ S = Sn /\ T = So
    OBVIOUS
  <2>3. /\ Shaped(e, S) /\ ~e.leaf /\ ~isFull(e) /\ i \in 1..Len(e.keys) + 1
        /\ Shaped(o, T) /\ isFull(o) /\ s \in S /\ s \in Nat
    BY ONLY <1>0, <1>5, <1>8, <2>1, <2>2
  <2>4. Shaped(new, Sn) /\ new.leaf = FALSE
    <3>1. Shaped(SplitParent(e, i, o, s), S) /\ SplitParent(e, i, o, s).leaf = FALSE
      BY ONLY <2>3, SplitParentShaped
    <3> QED BY ONLY <2>2, <3>1 DEF new
  <2>5. new.keys = InsertAt(<<>>, 1, Median(old)) /\ Median(old) \in Keys
    <3>1. old \in Page /\ old.keys \in Seq(Keys) /\ Len(old.keys) = MaxKeysOf(old)
      BY <1>0, <1>5, ShapedTypes DEF isFull
    <3>2. MinKeys + 1 \in 1..Len(old.keys)
      BY <3>1, KeyBounds
    <3>3. Median(old) \in Keys
      BY <3>1, <3>2, ElementOfSeq DEF Median
    <3> QED BY <3>3 DEF new, SplitParent, empty
  <2>6. Len(new.keys) = 1
    <3>1. <<>> \in Seq(Keys) /\ 1 \in 1..Len(<<>>) + 1 /\ Len(<<>>) = 0
      BY EmptySeq
    <3>2. Len(InsertAt(<<>>, 1, Median(old))) = Len(<<>>) + 1
      BY <2>5, <3>1, InsertAtProperties
    <3> QED BY <2>5, <3>1, <3>2
  <2> QED BY <2>4, <2>6
<1> HIDE DEF new, lhalf, rhalf
<1>10. new \in Page /\ lhalf \in Page /\ rhalf \in Page /\ old \in Page
  BY <1>5, <1>6, <1>9 DEF Shaped
<1>11. /\ MinKeysOf(lhalf) = MinKeysOf(old) /\ MinKeysOf(rhalf) = MinKeysOf(old)
       /\ MinKeysOf(old) \in Nat
  BY <1>6, <1>10, SameBounds, KeyBounds
<1>12. ~isFull(new)
  <2>1. MaxKeysOf(new) = 2 * MinKeys + 1 /\ MinKeys \in Nat \ {0}
    BY <1>9, <1>10, KeyBounds
  <2> QED BY <1>9, <2>1 DEF isFull
<1>13. /\ pages' \in Seq(Page) /\ Len(pages') = N + 2
       /\ \A m \in 1..N + 2 : pages'[m] = IF m = right THEN rhalf ELSE IF m = r THEN lhalf
                                          ELSE IF m = N + 1 THEN new ELSE pages[m]
  <2>1. /\ grown \in Seq(Page) /\ Len(grown) = N + 1
        /\ \A m \in 1..N : grown[m] = pages[m]
        /\ grown[N + 1] = new
    BY <1>1, <1>10, AppendProperties
  <2> HIDE DEF grown
  <2>2. /\ both \in Seq(Page) /\ Len(both) = N + 1
        /\ \A m \in 1..N + 1 : both[m] = IF m = r THEN lhalf ELSE grown[m]
    <3>1. r \in 1..Len(grown)
      BY <1>1, <2>1
    <3> QED BY <1>10, <2>1, <3>1, ExceptSeq
  <2> HIDE DEF both
  <2>3. pages' = Append(both, rhalf)
    BY <1>1, <1>4, <2>2 DEF WritePage
  <2>4. /\ pages' \in Seq(Page) /\ Len(pages') = N + 2
        /\ \A m \in 1..N + 1 : pages'[m] = both[m]
        /\ pages'[N + 2] = rhalf
    <3>1. /\ pages' \in Seq(Page) /\ Len(pages') = Len(both) + 1
          /\ \A m \in 1..Len(both) : pages'[m] = both[m]
          /\ pages'[Len(both) + 1] = rhalf
      BY <1>10, <2>2, <2>3, AppendProperties
    <3>2. Len(both) + 1 = N + 2
      BY <1>1, <2>2
    <3> QED BY <2>2, <3>1, <3>2
  <2>5. ASSUME NEW m \in 1..N + 2
        PROVE  pages'[m] = IF m = right THEN rhalf ELSE IF m = r THEN lhalf
                           ELSE IF m = N + 1 THEN new ELSE pages[m]
    <3>1. CASE m = N + 2
      BY <2>4, <3>1
    <3>2. CASE m = N + 1
      <4>1. m # right /\ m # r /\ m \in 1..N + 1
        BY <1>1, <3>2
      <4> QED BY <2>1, <2>2, <2>4, <3>2, <4>1
    <3>3. CASE m # N + 1 /\ m # N + 2
      <4>1. m \in 1..N /\ m \in 1..N + 1
        BY <1>1, <3>3
      <4> QED BY <2>1, <2>2, <2>4, <3>3, <4>1
    <3> QED BY <3>1, <3>2, <3>3
  <2> QED BY <2>4, <2>5
<1> HIDE DEF both, grown
<1>14. PagesOK'
  <2> SUFFICES ASSUME NEW m \in 1..N + 2 PROVE PageOK(pages', N + 1, m)
    BY <1>4, <1>13 DEF PagesOK
  <2> DEFINE Sm == (1..N + 2) \ {N + 1, m}
  <2>1. CASE m = right
    <3>1. pages'[m] = rhalf /\ So \subseteq Sm /\ m # N + 1
      BY <1>1, <1>13, <2>1
    <3>2. Shaped(rhalf, Sm)
      <4> HIDE DEF So, Sm
      <4> QED BY <1>6, <3>1, ShapedMonotonic
    <3> QED BY <1>6, <1>11, <1>13, <3>1, <3>2 DEF PageOK
  <2>2. CASE m = r
    <3>1. pages'[m] = lhalf /\ So \subseteq Sm /\ m # N + 1
      BY <1>1, <1>13, <2>2
    <3>2. Shaped(lhalf, Sm)
      <4> HIDE DEF So, Sm
      <4> QED BY <1>6, <3>1, ShapedMonotonic
    <3> QED BY <1>6, <1>11, <1>13, <3>1, <3>2 DEF PageOK
  <2>3. CASE m = N + 1
    <3>1. pages'[m] = new /\ Sn = Sm
      BY <1>1, <1>13, <2>3
    <3> HIDE DEF Sn
    <3>2. Shaped(pages'[m], (1..Len(pages')) \ {N + 1, m}) /\ Len(pages'[m].keys) = 1
      BY <1>9, <1>13, <3>1
    <3> QED BY <2>3, <3>2 DEF PageOK
  <2>4. CASE m \notin {right, r, N + 1}
    <3>1. /\ pages'[m] = pages[m] /\ PageOK(pages, r, m) /\ m # r /\ m # N + 1
      BY <1>1, <1>13, <2>4 DEF InsertInv, PagesOK
    <3> DEFINE Sb == (1..N) \ {r, m}
    <3>2. Shaped(pages[m], Sb) /\ Sb \subseteq Sm
      BY <1>1, <3>1 DEF PageOK
    <3>3. Shaped(pages[m], Sm)
      <4> HIDE DEF Sb, Sm
      <4> QED BY <3>2, ShapedMonotonic
    <3> QED BY <1>13, <3>1, <3>3 DEF PageOK
  <2> QED BY <2>1, <2>2, <2>3, <2>4
<1>15. RootInMemory'
  BY <1>1, <1>4, <1>13 DEF RootInMemory
<1> QED BY <1>1, <1>4, <1>10, <1>12, <1>13, <1>14, <1>15

\* A call of insert(), with or without a full root.
LEMMA InsertCallStep ==
    ASSUME InsertInv, NEW x \in Keys, Insert(x)
    PROVE  InsertInv'
<1>1. /\ op' = "insert" /\ k' = x /\ fn' = "insertNonFull" /\ at' = 0 /\ answer' = 0
      /\ size < MaxSize /\ size' = size /\ stack' = stack
      /\ IF isFull(rootPage) THEN GrowRoot ELSE UNCHANGED treeVars
  BY DEF Insert, Call, RootWrapper
<1>2. /\ PagesOK' /\ RootInMemory' /\ freePages' = <<>> /\ ~isFull(rootPage')
      /\ pages' \in Seq(Page) /\ rootPage' \in Page
      /\ rootPageNum' \in 1..Len(pages')
  <2>1. CASE isFull(rootPage)
    BY <1>1, <2>1, GrowRootStep
  <2>2. CASE ~isFull(rootPage)
    <3>1. /\ pages' = pages /\ rootPage' = rootPage /\ rootPageNum' = rootPageNum
          /\ freePages' = freePages
      BY <1>1, <2>2 DEF treeVars
    <3> QED BY <2>2, <3>1 DEF InsertInv, TypeOK, PagesOK, RootInMemory
  <2> QED BY <2>1, <2>2
<1>3. Data(at)' = rootPage' /\ at' # rootPageNum'
  BY <1>1, <1>2 DEF Data, RootWrapper
<1>4. CallOK'
  BY <1>1, <1>2, <1>3 DEF CallOK
<1>5. size \in 0..MaxSize /\ stack \in Seq(Nat) /\ Len(pages') \in Nat
  BY <1>2, LenProperties DEF InsertInv, TypeOK
<1>6. TypeOK'
  BY <1>1, <1>2, <1>5, EmptySeq DEF TypeOK
<1> QED BY <1>2, <1>4, <1>6 DEF InsertInv

-------------------------------------------------------------------------------
(* The theorems. *)

\* Every call, every recursive call and every reopening keeps the invariant.
LEMMA NextInv == InsertInv /\ [BaseNext]_vars => InsertInv'
<1> SUFFICES ASSUME InsertInv, [BaseNext]_vars PROVE InsertInv'
  OBVIOUS
<1>1. CASE BaseCall
  <2>1. ASSUME NEW x \in Keys, Search(x) \/ SearchAll(x) PROVE InsertInv'
    BY <2>1, InsertCore, SearchCallReads, SearchAllCallReads, ReadsKeep
  <2> QED BY <1>1, <2>1, InsertCallStep DEF BaseCall
<1>2. CASE insertNonFull
  <2>1. fn = "insertNonFull" /\ ~isFull(Data(at))
    BY <1>2 DEF insertNonFull
  <2>2. CASE InsertIntoLeaf
    BY <2>1, <2>2, InsertIntoLeafStep
  <2>3. CASE SplitAndDescend
    BY <2>1, <2>3, SplitAndDescendStep
  <2>4. CASE Descend
    BY <2>1, <2>4, DescendStep
  <2> QED BY <1>2, <2>2, <2>3, <2>4 DEF insertNonFull
<1>3. CASE search
  BY <1>3, InsertCore, SearchReads, ReadsKeep
<1>4. CASE searchAll
  BY <1>4, InsertCore, SearchAllReads, ReadsKeep
<1>5. CASE LoadTree
  BY <1>5, InsertCore, LoadTreeReads, ReadsKeep
<1>6. CASE UNCHANGED vars
  <2>1. /\ pages' = pages /\ rootPageNum' = rootPageNum /\ rootPage' = rootPage
        /\ freePages' = freePages /\ size' = size /\ op' = op /\ k' = k /\ fn' = fn
        /\ at' = at /\ stack' = stack /\ answer' = answer
    BY <1>6 DEF vars, treeVars, callVars
  <2>2. TypeOK' /\ RootInMemory' /\ PagesOK'
    BY <2>1 DEF InsertInv, TypeOK, RootInMemory, PagesOK
  <2>3. CallOK'
    BY <2>1 DEF InsertInv, CallOK, Data
  <2> QED BY <2>1, <2>2, <2>3 DEF InsertInv
<1> QED BY <1>1, <1>2, <1>3, <1>4, <1>5, <1>6 DEF BaseNext, BaseStep

\* The inductive invariant holds throughout.
LEMMA InvHolds == BaseSpec => []InsertInv
<1>1. Init => InsertInv
  BY InitInv
<1>2. InsertInv /\ [BaseNext]_vars => InsertInv'
  BY NextInv
<1> QED BY <1>1, <1>2, PTL DEF BaseSpec

\* Without deletion the variables of the tree keep their types: every cursor of
\* every page, every page on the stack of free pages and every wrapper stays
\* within the file.
THEOREM InsertTypeCorrect == BaseSpec => []TypeOK
<1>1. InsertInv => TypeOK
  BY DEF InsertInv
<1> QED BY <1>1, InvHolds, PTL

\* Whatever the order, the kind of tree and the keys, no sequence of insertions,
\* searches and reopenings ends in an exception of insertNonFull(), splitChild()
\* or readPage(): a page is split before it is full when a key has to go in, and
\* no cursor dangles.
THEOREM InsertNeverThrows == BaseSpec => []NeverThrows
<1>1. InsertInv => NeverThrows
  <2> SUFFICES ASSUME InsertInv PROVE ~InsertThrows /\ ~SearchThrows /\ ~SearchAllThrows
    BY DEF NeverThrows
  <2> DEFINE p == Data(at)
  <2>1. p.keys \in Seq(Keys)
    BY DataOnDisk, ShapedTypes DEF PageOK
  <2>2. \A i \in 1..Len(p.keys) + 1 : ~p.leaf => Exists(p.cursors[i])
    BY DataOnDisk, CursorTarget DEF Exists
  <2>3. ~InsertThrows
    <3>1. fn = "insertNonFull" => ~isFull(p)
      BY DEF InsertInv, CallOK
    <3> QED BY <2>1, <2>2, <3>1, AfterLastNotGreaterRange DEF InsertThrows
  <2>4. ~SearchThrows /\ ~SearchAllThrows
    BY InsertCore, SearchesReadPages
  <2> QED BY <2>3, <2>4
<1> QED BY <1>1, InvHolds, PTL

\* Every page of the tree has the number of keys that btree.h promises, between
\* any two steps of an insertion too: from MinKeysOf to MaxKeysOf, the root at
\* least one unless it is a leaf, and one cursor more than keys.
THEOREM InsertOccupancy == BaseSpec => []Occupancy
<1>1. InsertInv => Occupancy
  <2> SUFFICES ASSUME InsertInv, NEW n \in Reachable
               PROVE  LET p == pages[n]
                      IN  /\ Len(p.keys) <= MaxKeysOf(p)
                          /\ n # rootPageNum => Len(p.keys) >= MinKeysOf(p)
                          /\ n = rootPageNum /\ ~p.leaf => Len(p.keys) >= 1
                          /\ Len(p.cursors) = IF p.leaf THEN 0 ELSE Len(p.keys) + 1
    BY DEF Occupancy
  <2>1. n \in 1..Len(pages)
    BY DEF Reachable
  <2> QED BY <2>1 DEF InsertInv, PagesOK, PageOK, Shaped
<1> QED BY <1>1, InvHolds, PTL

\* The root page that BaseBTree keeps in memory is the root page on disk after
\* every step of an insertion, splits of the root included.
THEOREM InsertRootInMemory == BaseSpec => []RootInMemory
<1>1. InsertInv => RootInMemory
  BY DEF InsertInv
<1> QED BY <1>1, InvHolds, PTL

-------------------------------------------------------------------------------
(***************************************************************************)
(* Part 2.  Balanced and PagesAccounted speak of the pages that can be     *)
(* reached from the root, level by level, and are not inductive.  The      *)
(* invariant gives every page a height that goes down by one with every    *)
(* cursor, and says that every page but the root hangs under one cursor of *)
(* one page.                                                               *)
(***************************************************************************)

-------------------------------------------------------------------------------
(* What a split does to the cursors. *)

\* The parent of a page that is split gets the new page and keeps its other children.
LEMMA ParentKids ==
    ASSUME NEW S, NEW node, Shaped(node, S), S \subseteq Nat, ~node.leaf, OneCursorEach(node),
           NEW i \in 1..Len(node.keys) + 1, NEW p,
           NEW right \in Nat \ S, NEW q, q = SplitParent(node, i, p, right)
    PROVE  MoreKids(q, node, right)
<1> DEFINE u == i + 1
<1>1. /\ node.cursors \in Seq(S) /\ node.cursors \in Seq(Nat)
      /\ Len(node.cursors) = Len(node.keys) + 1 /\ Len(node.cursors) \in Nat
  BY ShapedTypes, LenProperties DEF Shaped
<1>2. right \in Nat \ Kids(node)
  BY <1>1, ElementOfSeq DEF Kids
<1>3. q.cursors = InsertAt(node.cursors, u, right) /\ q.leaf = node.leaf
  BY ShapedTypes DEF SplitParent, Shaped, Page
<1>4. u \in 1..Len(node.cursors) + 1
  BY <1>1
<1> HIDE DEF u
<1> QED BY ONLY <1>1, <1>2, <1>3, <1>4, OneCursorEach(node), InsertedKid

\* The two halves of a page that is split share its children between them.
LEMMA HalvesKids ==
    ASSUME NEW S, NEW p, Shaped(p, S), S \subseteq Nat, isFull(p), OneCursorEach(p)
    PROVE  Halves(SplitLeft(p), SplitRight(p), p)
<1> DEFINE l == SplitLeft(p)
           r == SplitRight(p)
           s == p.cursors
           m == MinKeys + 1
<1>1. p \in Page /\ s \in Seq(Int) /\ Len(s) = IF p.leaf THEN 0 ELSE Len(p.keys) + 1
  BY ShapedTypes DEF Shaped
<1>2. m \in Nat /\ m >= 1 /\ (~p.leaf => Len(s) = 2 * m)
  <2>1. MinKeys \in Nat /\ MaxKeys = 2 * MinKeys + 1 /\ (~p.leaf => MaxKeysOf(p) = MaxKeys)
    BY <1>1, KeyBounds
  <2> QED BY <1>1, <2>1 DEF isFull
<1>3. /\ l.leaf = p.leaf /\ r.leaf = p.leaf
      /\ l.cursors = IF p.leaf THEN <<>> ELSE SubSeq(s, 1, m)
      /\ r.cursors = IF p.leaf THEN <<>> ELSE SubSeq(s, m + 1, 2 * m)
  <2>1. m + 1 = MinKeys + 2 /\ 2 * m = 2 * MinKeys + 2
    BY <1>1, KeyBounds
  <2> QED BY <1>1, <2>1 DEF SplitLeft, SplitRight, Page
<1>4. CASE p.leaf
  <2>1. Len(s) = 0 /\ Len(l.cursors) = 0 /\ Len(r.cursors) = 0
    BY <1>1, <1>3, <1>4
  <2>2. Kids(p) = {} /\ Kids(l) = {} /\ Kids(r) = {} /\ OneCursorEach(l) /\ OneCursorEach(r)
    BY <2>1 DEF Kids, OneCursorEach
  <2> QED BY <1>3, <2>2 DEF Halves
<1>5. CASE ~p.leaf
  <2> HIDE DEF l, r, m
  <2>1. /\ Len(l.cursors) = m /\ Len(r.cursors) = m /\ Len(s) = 2 * m
        /\ \A j \in 1..m : l.cursors[j] = s[j] /\ r.cursors[j] = s[m + j]
    <3>1. /\ Len(SubSeq(s, 1, m)) = m
          /\ \A j \in 1..m : SubSeq(s, 1, m)[j] = s[1 + j - 1]
      <4>1. 1 \in Nat \ {0} /\ 1 + m = m + 1 /\ m <= Len(s)
        BY <1>2, <1>5
      <4> QED BY <1>1, <1>2, <4>1, SubSeqElements
    <3>2. /\ Len(SubSeq(s, m + 1, 2 * m)) = m
          /\ \A j \in 1..m : SubSeq(s, m + 1, 2 * m)[j] = s[m + 1 + j - 1]
      <4>1. m + 1 \in Nat \ {0} /\ 2 * m \in Nat /\ (m + 1) + m = 2 * m + 1 /\ 2 * m <= Len(s)
        BY <1>2, <1>5
      <4> QED BY <1>1, <1>2, <4>1, SubSeqElements
    <3>3. \A j \in 1..m : 1 + j - 1 = j /\ m + 1 + j - 1 = m + j
      BY <1>2
    <3> QED BY <1>2, <1>3, <1>5, <3>1, <3>2, <3>3
  <2>2. \A i, j \in 1..2 * m : s[i] = s[j] => i = j
    BY <2>1 DEF OneCursorEach
  <2>3. \A j \in 1..m : j \in 1..2 * m /\ m + j \in 1..2 * m /\ m + j # j
    BY <1>2
  <2> HIDE DEF s
  <2>4. OneCursorEach(l) /\ OneCursorEach(r)
    <3>1. \A i, j \in 1..m : m + i = m + j => i = j
      BY <1>2
    <3>2. \A i, j \in 1..m : l.cursors[i] = l.cursors[j] => i = j
      BY <2>1, <2>2, <2>3
    <3>3. \A i, j \in 1..m : r.cursors[i] = r.cursors[j] => i = j
      BY <2>1, <2>2, <2>3, <3>1
    <3> QED BY <2>1, <3>2, <3>3 DEF OneCursorEach
  <2>5. Kids(l) = {s[j] : j \in 1..m} /\ Kids(r) = {s[m + j] : j \in 1..m}
    BY <2>1 DEF Kids
  <2>6. Kids(l) \cap Kids(r) = {}
    <3>1. \A i, j \in 1..m : i # m + j
      BY <1>2
    <3> QED BY <2>2, <2>3, <2>5, <3>1
  <2>7. Kids(p) = {s[j] : j \in 1..2 * m}
    BY <2>1 DEF Kids, s
  <2>8. \A j \in 1..2 * m : j \in 1..m \/ \E i \in 1..m : j = m + i
    <3> TAKE j \in 1..2 * m
    <3>1. j \in 1..m \/ (j - m \in 1..m /\ j = m + (j - m))
      BY <1>2
    <3> QED BY <3>1
  <2>9. Kids(l) \cup Kids(r) = Kids(p)
    BY <2>3, <2>5, <2>7, <2>8
  <2> QED BY <1>3, <2>4, <2>6, <2>9 DEF Halves, l, r
<1> QED BY <1>4, <1>5

-------------------------------------------------------------------------------
(* What a split and a new root do to the tree. *)

\* splitChild() on pages: what it writes is a split.
LEMMA SplitChildSplits ==
    ASSUME NEW ps, NEW qs, Len(ps) \in Nat, NEW r, NEW n \in 1..Len(ps), NEW i, NEW c,
           Shaped(ps[n], (1..Len(ps)) \ {r}), ~ps[n].leaf, i \in 1..Len(ps[n].keys) + 1,
           c = ps[n].cursors[i], c # n, OneCursorEach(ps[n]), OneCursorEach(ps[c]),
           Shaped(ps[c], 1..Len(ps)), isFull(ps[c]),
           Written(ps, qs, n, c, SplitParent(ps[n], i, ps[c], Len(ps) + 1),
                   SplitLeft(ps[c]), SplitRight(ps[c]))
    PROVE  IsSplit(ps, qs, n, c)
<1> DEFINE p == ps[n]
           child == ps[c]
           right == Len(ps) + 1
           P == (1..Len(ps)) \ {r}
           Q == 1..Len(ps)
<1>1. /\ Shaped(p, P) /\ P \subseteq Nat /\ ~p.leaf /\ OneCursorEach(p)
      /\ i \in 1..Len(p.keys) + 1 /\ right \in Nat \ P
      /\ Shaped(child, Q) /\ Q \subseteq Nat /\ isFull(child) /\ OneCursorEach(child)
  OBVIOUS
<1>2. c \in Kids(p)
  <2>1. i \in 1..Len(p.cursors)
    BY DEF Shaped
  <2> QED BY <2>1 DEF Kids
<1> HIDE DEF p, child, right, P, Q
<1>3. MoreKids(SplitParent(p, i, child, right), p, right)
  BY ONLY <1>1, ParentKids, ZenonT(30)
<1>4. Halves(SplitLeft(child), SplitRight(child), child)
  BY ONLY <1>1, HalvesKids, ZenonT(30)
<1> QED BY <1>2, <1>3, <1>4 DEF IsSplit, Written, p, child, right

-------------------------------------------------------------------------------
(* The inductive invariant. *)

\* An insertion into a leaf changes no cursor.
LEMMA LeafKeepsTree ==
    ASSUME InsertInv, TreeInv, InsertIntoLeaf
    PROVE  TreeInv'
<1> DEFINE n == PageNum(at)
           p == pages[n]
           ks == InsertAt(p.keys, AfterLastNotGreater(p.keys, k), k)
<1>1. Data(at) = p /\ n \in 1..Len(pages) /\ p \in Page /\ pages \in Seq(Page)
  BY DataOnDisk, ShapedTypes DEF PageOK, InsertInv, TypeOK
<1>2. pages' = [pages EXCEPT ![n] = [p EXCEPT !.keys = ks]] /\ rootPageNum' = rootPageNum
  BY <1>1 DEF InsertIntoLeaf, Write
<1> HIDE DEF n, ks
<1>3. Len(pages') = Len(pages)
  BY <1>1, <1>2
<1>4. \A m \in 1..Len(pages) : /\ pages'[m].leaf = pages[m].leaf
                               /\ pages'[m].cursors = pages[m].cursors
  BY <1>1, <1>2 DEF Page
<1>5. \A m \in 1..Len(pages) : /\ Kids(pages'[m]) = Kids(pages[m])
                               /\ OneCursorEach(pages'[m]) <=> OneCursorEach(pages[m])
  BY <1>4 DEF Kids, OneCursorEach
<1>6. Owned(pages', rootPageNum)
  BY <1>3, <1>5 DEF Owned, TreeInv
<1>7. PICK h : Heights(pages, rootPageNum, h)
  BY DEF TreeInv
<1>8. Heights(pages', rootPageNum, h)
  BY <1>3, <1>4, <1>5, <1>7 DEF Heights
<1> QED BY <1>2, <1>6, <1>8 DEF TreeInv

\* The split of a child on the way down writes the parent, the child and a new page.
LEMMA DescentWrites ==
    ASSUME InsertInv, SplitAndDescend,
           NEW n, n = PageNum(at), NEW i, i = AfterLastNotGreater(pages[n].keys, k),
           NEW c, c = pages[n].cursors[i]
    PROVE  /\ n \in 1..Len(pages) /\ ~pages[n].leaf /\ i \in 1..Len(pages[n].keys) + 1
           /\ c \in (1..Len(pages)) \ {rootPageNum, n} /\ isFull(pages[c])
           /\ Written(pages, pages', n, c, SplitParent(pages[n], i, pages[c], Len(pages) + 1),
                      SplitLeft(pages[c]), SplitRight(pages[c]))
<1> DEFINE N == Len(pages)
           p == pages[n]
           node == SplitParent(p, i, pages[c], N + 1)
           l == SplitLeft(pages[c])
           rt == SplitRight(pages[c])
           T == Page \cup {node, l, rt}
<1>1. /\ Data(at) = p /\ n \in 1..N /\ PageOK(pages, rootPageNum, n)
  BY DataOnDisk
<1>2. /\ pages \in Seq(Page) /\ rootPageNum \in 1..N /\ N \in Nat /\ freePages = <<>>
  BY LenProperties DEF InsertInv, TypeOK
<1>3. AllocPage(1) = N + 1
  BY <1>2 DEF AllocPage
<1>4. /\ ~p.leaf /\ isFull(pages[c])
      /\ pages' = WritePage([pages EXCEPT ![n] = node, ![c] = l], N + 1, rt)
  BY <1>1, <1>3 DEF SplitAndDescend
<1>5. i \in 1..Len(p.keys) + 1
  <2>1. p.keys \in Seq(Keys)
    BY <1>1, ShapedTypes DEF PageOK
  <2> QED BY <2>1, AfterLastNotGreaterRange
<1>6. c \in (1..N) \ {rootPageNum, n}
  BY <1>1, <1>4, <1>5, CursorTarget
<1>7. Written(pages, pages', n, c, node, l, rt)
  <2>1. Page \subseteq T /\ node \in T /\ l \in T /\ rt \in T
    OBVIOUS
  <2> HIDE DEF T, node, l, rt
  <2>2. pages \in Seq(T)
    BY <1>2, <2>1, SeqMonotonic
  <2>3. n \in 1..N /\ c \in 1..N /\ n # c
    BY <1>1, <1>6
  <2>4. Written(pages, WritePage([pages EXCEPT ![n] = node, ![c] = l], N + 1, rt),
                n, c, node, l, rt)
    BY <2>1, <2>2, <2>3, ThreeWrites
  <2> QED BY <1>4, <2>4
<1> QED BY <1>1, <1>4, <1>5, <1>6, <1>7

\* Every page has its cursors lead to pages of the tree.
LEMMA PagesShaped ==
    ASSUME InsertInv
    PROVE  \A m \in 1..Len(pages) : Shaped(pages[m], 1..Len(pages))
<1> SUFFICES ASSUME NEW m \in 1..Len(pages) PROVE Shaped(pages[m], 1..Len(pages))
  OBVIOUS
<1>1. /\ Shaped(pages[m], (1..Len(pages)) \ {rootPageNum, m})
      /\ (1..Len(pages)) \ {rootPageNum, m} \subseteq 1..Len(pages)
  BY DEF InsertInv, PagesOK, PageOK
<1> DEFINE S == (1..Len(pages)) \ {rootPageNum, m}
           T == 1..Len(pages)
<1>2. Shaped(pages[m], S) /\ S \subseteq T
  BY <1>1
<1> HIDE DEF S, T
<1>3. Shaped(pages[m], T)
  BY <1>2, ShapedMonotonic
<1> QED BY <1>3 DEF T

\* So the tree stays a tree.
LEMMA DescentKeepsTree ==
    ASSUME InsertInv, TreeInv, SplitAndDescend
    PROVE  TreeInv'
<1> DEFINE n == PageNum(at)
           i == AfterLastNotGreater(pages[n].keys, k)
           c == pages[n].cursors[i]
           qs == pages'
<1>1. /\ n \in 1..Len(pages) /\ ~pages[n].leaf /\ i \in 1..Len(pages[n].keys) + 1
      /\ c \in (1..Len(pages)) \ {rootPageNum, n} /\ isFull(pages[c])
      /\ Written(pages, qs, n, c, SplitParent(pages[n], i, pages[c], Len(pages) + 1),
                 SplitLeft(pages[c]), SplitRight(pages[c]))
  BY DescentWrites
<1>2. rootPageNum \in 1..Len(pages) /\ Len(pages) \in Nat /\ rootPageNum' = rootPageNum
  BY LenProperties DEF InsertInv, TypeOK, SplitAndDescend
<1>3. c = pages[n].cursors[i]
  OBVIOUS
<1> HIDE DEF n, i, c, qs
<1>4. OneCursorEach(pages[n]) /\ OneCursorEach(pages[c])
  BY <1>1 DEF TreeInv, Owned
<1>5. Shaped(pages[n], (1..Len(pages)) \ {rootPageNum})
  <2> DEFINE S == (1..Len(pages)) \ {rootPageNum, n}
             T == (1..Len(pages)) \ {rootPageNum}
  <2>1. Shaped(pages[n], S) /\ S \subseteq T
    BY <1>1 DEF InsertInv, PagesOK, PageOK
  <2> HIDE DEF S, T
  <2>2. Shaped(pages[n], T)
    BY <2>1, ShapedMonotonic
  <2> QED BY <2>2 DEF T
<1>6. Shaped(pages[c], 1..Len(pages))
  BY <1>1, PagesShaped
<1>7. IsSplit(pages, qs, n, c)
  <2>1. c # n
    BY <1>1
  <2> QED BY <1>1, <1>2, <1>3, <1>4, <1>5, <1>6, <2>1, SplitChildSplits
<1>8. PICK h : Heights(pages, rootPageNum, h)
  BY DEF TreeInv
<1>9. Owned(qs, rootPageNum) /\ \E g : Heights(qs, rootPageNum, g)
  BY <1>2, <1>7, <1>8, SplitKeepsTree DEF TreeInv
<1> QED BY <1>2, <1>9 DEF TreeInv, qs

\* The new root of insert() before its child, the old root r, is split.
NewRoot(r) == [leaf |-> FALSE, keys |-> <<>>, cursors |-> <<r>>]

\* Page e has page r as its only child.
IsNewRoot(e, r, N) ==
    /\ e.leaf = FALSE /\ Len(e.keys) = 0 /\ Len(e.cursors) = 1 /\ e.cursors[1] = r
    /\ Kids(e) = {r} /\ OneCursorEach(e)
    /\ Shaped(e, 1..N)

\* The new root is such a page.
LEMMA NewRootShaped ==
    ASSUME NEW N \in Nat, NEW r \in 1..N, NEW e, e = NewRoot(r)
    PROVE  IsNewRoot(e, r, N)
<1>1. /\ e.leaf = FALSE /\ Len(e.keys) = 0 /\ Len(e.cursors) = 1 /\ e.cursors[1] = r
      /\ e \in Page /\ e.cursors \in Seq(1..N)
  <2>1. r \in Nat
    OBVIOUS
  <2> QED BY <2>1, EmptySeq DEF Page, NewRoot
<1>2. MaxKeysOf(e) \in Nat
  BY <1>1, KeyBounds
<1>3. Kids(e) = {r} /\ OneCursorEach(e)
  BY <1>1 DEF Kids, OneCursorEach
<1> QED BY <1>1, <1>2, <1>3 DEF Shaped, IsNewRoot

\* The pages qs when root becomes the root page above page r, which is split; ps are
\* the pages in between.
Grows(ps, qs, r, root) ==
    /\ Len(ps) = root /\ root \in Nat /\ ps[root] = NewRoot(r)
    /\ \A m \in 1..Len(pages) : ps[m] = pages[m]
    /\ r \in 1..Len(pages) /\ isFull(ps[r])
    /\ Written(ps, qs, root, r, SplitParent(ps[root], 1, ps[r], root + 1),
               SplitLeft(ps[r]), SplitRight(ps[r]))

\* insert() into a full root: a new root above it, whose only child is split.
LEMMA GrowthWrites ==
    ASSUME InsertInv, GrowRoot, NEW ps, ps = Append(pages, NewRoot(rootPageNum)),
           NEW r, r = rootPageNum, NEW root, root = Len(pages) + 1
    PROVE  Grows(ps, pages', r, root) /\ rootPageNum' = root
<1> DEFINE N == Len(pages)
           old == pages[r]
           empty == NewRoot(r)
           new == SplitParent(empty, 1, old, N + 2)
           l == SplitLeft(old)
           rt == SplitRight(old)
           T == Page \cup {empty, new, l, rt}
<1>1. pages \in Seq(Page) /\ r \in 1..N /\ N \in Nat /\ freePages = <<>>
  BY LenProperties DEF InsertInv, TypeOK
<1>2. AllocPage(1) = root /\ AllocPage(2) = N + 2
  BY <1>1 DEF AllocPage
<1>3. WritePage(pages, root, new) = Append(pages, new)
  BY DEF WritePage
<1>4. /\ isFull(old) /\ rootPageNum' = root
      /\ pages' = WritePage([Append(pages, new) EXCEPT ![r] = l], N + 2, rt)
  <2> HIDE DEF new, l, rt
  <2> QED BY <1>2, <1>3 DEF GrowRoot, new, l, rt, NewRoot
<1>5. /\ pages \in Seq(T) /\ empty \in T /\ new \in T /\ l \in T /\ rt \in T
  <2>1. Page \subseteq T /\ empty \in T /\ new \in T /\ l \in T /\ rt \in T
    OBVIOUS
  <2> HIDE DEF T, new, l, rt, empty
  <2> QED BY <1>1, <2>1, SeqMonotonic
<1>6. ps = Append(pages, empty)
  OBVIOUS
<1> HIDE DEF T, new, l, rt, empty
<1>7. /\ Len(ps) = root /\ ps[root] = empty /\ \A m \in 1..N : ps[m] = pages[m]
      /\ ps \in Seq(T)
  BY <1>5, <1>6, AppendProperties
<1>8. [ps EXCEPT ![root] = new] = Append(pages, new)
  <2> DEFINE a == [ps EXCEPT ![root] = new]
             b == Append(pages, new)
  <2>1. /\ a \in Seq(T) /\ Len(a) = root
        /\ \A m \in 1..root : a[m] = IF m = root THEN new ELSE ps[m]
    <3>1. root \in 1..Len(ps)
      BY <1>1, <1>7
    <3> QED BY ONLY <1>5, <1>7, <3>1, ExceptSeq
  <2>2. b \in Seq(T) /\ Len(b) = root /\ b[root] = new /\ \A m \in 1..N : b[m] = pages[m]
    BY <1>5, AppendProperties
  <2> HIDE DEF a, b
  <2>3. \A m \in 1..Len(a) : a[m] = b[m]
    <3>1. \A m \in 1..root : m = root \/ m \in 1..N
      BY <1>1
    <3> QED BY <1>7, <2>1, <2>2, <3>1
  <2>4. a = b
    BY <2>1, <2>2, <2>3, SeqEqual
  <2> QED BY <2>4 DEF a, b
<1>9. pages' = WritePage([ps EXCEPT ![root] = new, ![r] = l], Len(ps) + 1, rt)
  <2>1. [ps EXCEPT ![root] = new, ![r] = l] = [[ps EXCEPT ![root] = new] EXCEPT ![r] = l]
    OBVIOUS
  <2>2. Len(ps) + 1 = N + 2
    BY <1>1, <1>7
  <2> QED BY <1>4, <1>8, <2>1, <2>2
<1>10. Written(ps, pages', root, r, new, l, rt)
  <2>1. root \in 1..Len(ps) /\ r \in 1..Len(ps) /\ root # r
    BY <1>1, <1>7
  <2>2. Written(ps, WritePage([ps EXCEPT ![root] = new, ![r] = l], Len(ps) + 1, rt),
                root, r, new, l, rt)
    BY <1>5, <1>7, <2>1, ThreeWrites
  <2> QED BY <1>9, <2>2
<1>11. ps[r] = old /\ root + 1 = N + 2 /\ root \in Nat
  BY <1>1, <1>7
<1> QED BY <1>1, <1>4, <1>7, <1>10, <1>11 DEF Grows, new, l, rt, empty

\* The tree with the new root is a tree, before the split and after it.
LEMMA GrowthKeepsTree ==
    ASSUME InsertInv, TreeInv, GrowRoot,
           NEW ps, ps = Append(pages, NewRoot(rootPageNum))
    PROVE  Owned(ps, Len(ps)) /\ TreeInv'
<1> DEFINE r == rootPageNum
           root == Len(pages) + 1
           qs == pages'
<1>0. Grows(ps, qs, r, root) /\ rootPageNum' = root
  <2>1. r = rootPageNum /\ root = Len(pages) + 1
    OBVIOUS
  <2> HIDE DEF r, root
  <2> QED BY <2>1, GrowthWrites
<1>2. Len(pages) \in Nat /\ root = Len(pages) + 1
  BY LenProperties DEF InsertInv, TypeOK
<1> HIDE DEF r, root, qs
<1>1. /\ Len(ps) = root /\ root \in Nat /\ ps[root] = NewRoot(r) /\ rootPageNum' = root
      /\ \A m \in 1..Len(pages) : ps[m] = pages[m]
      /\ r \in 1..Len(pages) /\ isFull(ps[r])
      /\ Written(ps, qs, root, r, SplitParent(ps[root], 1, ps[r], root + 1),
                 SplitLeft(ps[r]), SplitRight(ps[r]))
  BY <1>0 DEF Grows
<1>3. /\ ps[root].leaf = FALSE /\ Len(ps[root].keys) = 0 /\ ps[root].cursors[1] = r
      /\ Kids(ps[root]) = {r} /\ OneCursorEach(ps[root])
      /\ Shaped(ps[root], 1..Len(pages))
  <2> DEFINE N == Len(pages)
             e == ps[root]
  <2>1. N \in Nat /\ r \in 1..N /\ e = NewRoot(r)
    BY <1>1, <1>2
  <2> HIDE DEF N, e
  <2>2. IsNewRoot(e, r, N)
    BY ONLY <2>1, NewRootShaped
  <2> QED BY <2>2 DEF IsNewRoot, N, e
<1>4. Owned(pages, r)
  BY DEF TreeInv, r
<1>5. PICK h : Heights(pages, r, h)
  BY DEF TreeInv, r
<1>6. Owned(ps, root) /\ \E g : Heights(ps, root, g)
  <2>1. /\ Len(ps) = Len(pages) + 1 /\ Kids(ps[Len(ps)]) = {r} /\ OneCursorEach(ps[Len(ps)])
        /\ ps[Len(ps)].leaf = FALSE /\ \A m \in 1..Len(pages) : ps[m] = pages[m]
        /\ r \in 1..Len(pages)
    BY <1>1, <1>2, <1>3
  <2>2. Owned(ps, Len(ps)) /\ \E g : Heights(ps, Len(ps), g)
    BY ONLY <1>2, <1>4, <1>5, <2>1, NewRootKeepsTree
  <2> QED BY <1>1, <2>2
<1>7. PICK g : Heights(ps, root, g)
  BY <1>6
<1>8. IsSplit(ps, qs, root, r)
  <2>1. /\ Len(ps) \in Nat /\ root \in 1..Len(ps) /\ ~ps[root].leaf
        /\ 1 \in 1..Len(ps[root].keys) + 1 /\ r = ps[root].cursors[1] /\ r # root
        /\ OneCursorEach(ps[root]) /\ OneCursorEach(ps[r])
        /\ (1..Len(ps)) \ {root} = 1..Len(pages) /\ 1..Len(pages) \subseteq 1..Len(ps)
    BY <1>1, <1>2, <1>3, <1>6 DEF Owned
  <2>2. Shaped(ps[root], (1..Len(ps)) \ {root})
    BY <1>3, <2>1
  <2>3. Shaped(ps[r], 1..Len(ps))
    <3>1. Shaped(ps[r], 1..Len(pages))
      BY <1>1, PagesShaped
    <3> DEFINE S == 1..Len(pages)
               T == 1..Len(ps)
    <3>2. Shaped(ps[r], S) /\ S \subseteq T
      BY <2>1, <3>1
    <3> HIDE DEF S, T
    <3>3. Shaped(ps[r], T)
      BY <3>2, ShapedMonotonic
    <3> QED BY <3>3 DEF T
  <2>4. Written(ps, qs, root, r, SplitParent(ps[root], 1, ps[r], Len(ps) + 1),
                SplitLeft(ps[r]), SplitRight(ps[r]))
    BY <1>1
  <2> QED BY <1>1, <2>1, <2>2, <2>3, <2>4, SplitChildSplits
<1>9. Owned(qs, root) /\ \E f : Heights(qs, root, f)
  <2>1. root \in 1..Len(ps) /\ Len(ps) \in Nat
    BY <1>1, <1>2
  <2> QED BY <1>6, <1>7, <1>8, <2>1, SplitKeepsTree
<1> QED BY <1>1, <1>6, <1>9 DEF TreeInv, qs

\* The inductive invariant of both theorems.
ShapeInv == InsertInv /\ TreeInv

\* Every step keeps the pages a tree.
LEMMA ShapeStep == ShapeInv /\ [BaseNext]_vars => ShapeInv'
<1> SUFFICES ASSUME InsertInv, TreeInv, [BaseNext]_vars PROVE TreeInv'
  BY NextInv DEF ShapeInv
<1>1. ASSUME NEW x \in Keys, Insert(x) PROVE TreeInv'
  <2>1. CASE GrowRoot
    BY <2>1, GrowthKeepsTree
  <2>2. CASE UNCHANGED treeVars
    BY <2>2, QuietKeepsTree DEF treeVars
  <2> QED BY <1>1, <2>1, <2>2 DEF Insert
<1>2. ASSUME NEW x \in Keys, Search(x) \/ SearchAll(x) PROVE TreeInv'
  BY <1>2, QuietKeepsTree DEF Search, SearchAll, treeVars
<1>3. CASE InsertIntoLeaf
  BY <1>3, LeafKeepsTree
<1>4. CASE SplitAndDescend
  BY <1>4, DescentKeepsTree
<1>5. CASE Descend
  BY <1>5, QuietKeepsTree DEF Descend, treeVars
<1>6. CASE search
  BY <1>6, QuietKeepsTree DEF search, treeVars
<1>7. CASE searchAll
  BY <1>7, QuietKeepsTree DEF searchAll, treeVars
<1>8. CASE LoadTree
  BY <1>8, QuietKeepsTree DEF LoadTree
<1>9. CASE UNCHANGED vars
  BY <1>9, QuietKeepsTree DEF vars, treeVars
<1> QED BY <1>1, <1>2, <1>3, <1>4, <1>5, <1>6, <1>7, <1>8, <1>9
        DEF BaseNext, BaseCall, BaseStep, insertNonFull

\* The invariant holds in every state.
LEMMA ShapeHolds == BaseSpec => []ShapeInv
<1>1. Init => ShapeInv
  BY InitInv, InitTree DEF ShapeInv
<1>2. ShapeInv /\ [BaseNext]_vars => ShapeInv'
  BY ShapeStep
<1> QED BY <1>1, <1>2, PTL DEF BaseSpec

\* All the leaves are equally far from the root, after every step of every sequence
\* of insertions: insert() adds a level at the root only, and splitChild() puts the
\* new page on the level of the old one.
THEOREM InsertBalanced == BaseSpec => []Balanced
<1>1. ShapeInv => Balanced
  <2> SUFFICES ASSUME ShapeInv PROVE Balanced
    OBVIOUS
  <2>1. /\ rootPageNum \in 1..Len(pages) /\ Len(pages) \in Nat
        /\ \A n \in 1..Len(pages) : pages[n].leaf \in BOOLEAN
    <3>1. pages \in Seq(Page) /\ rootPageNum \in 1..Len(pages)
      BY DEF ShapeInv, InsertInv, TypeOK
    <3>2. \A n \in 1..Len(pages) : pages[n] \in Page
      BY <3>1, ElementOfSeq
    <3> QED BY <3>1, <3>2, LenProperties DEF Page
  <2>2. PICK h : Heights(pages, rootPageNum, h)
    BY DEF ShapeInv, TreeInv
  <2> QED BY <2>1, <2>2, HeightsBalance DEF ShapeInv, TreeInv
<1> QED BY <1>1, ShapeHolds, PTL

\* Every page of the file is the root or hangs under exactly one cursor of one
\* page, after every step of every sequence of insertions: no split and no new root
\* leaks a page or gives it to two owners.
THEOREM InsertPagesAccounted == BaseSpec => []PagesAccounted
<1>1. ShapeInv => PagesAccounted
  <2> SUFFICES ASSUME ShapeInv PROVE PagesAccounted
    OBVIOUS
  <2>1. /\ rootPageNum \in 1..Len(pages) /\ Len(pages) \in Nat /\ freePages = <<>>
    BY LenProperties DEF ShapeInv, InsertInv, TypeOK
  <2>2. PICK h : Heights(pages, rootPageNum, h)
    BY DEF ShapeInv, TreeInv
  <2> QED BY <2>1, <2>2, OwnedAccounts DEF ShapeInv, TreeInv
<1> QED BY <1>1, ShapeHolds, PTL

-------------------------------------------------------------------------------
(***************************************************************************)
(* Part 3.  KeysInOrder speaks of the walk through all the pages and is    *)
(* not inductive.  The invariant gives every page a set of keys that may   *)
(* go below it: the keys of the page are taken from its set and the sets   *)
(* of its children lie between them.  A split divides the set of the child *)
(* at the median, a step down adds the key to the set of the page it goes  *)
(* to.                                                                     *)
(***************************************************************************)

-------------------------------------------------------------------------------
(* Sequences in order. *)

\* No element is followed by a smaller one.
Ascending(s) == \A i, j \in 1..Len(s) : i < j => s[i] <= s[j]

\* No element of s is greater than one of t.
AtMost(s, t) == \A i \in 1..Len(s), j \in 1..Len(t) : s[i] <= t[j]

\* Two sequences in order, the first at most the second, make one in order.
LEMMA ConcatAscends ==
    ASSUME NEW S, S \subseteq Int, NEW s \in Seq(S), NEW t \in Seq(S),
           Ascending(s), Ascending(t), AtMost(s, t)
    PROVE  /\ s \o t \in Seq(S) /\ Ascending(s \o t)
           /\ \A w : AtMost(s, w) /\ AtMost(t, w) => AtMost(s \o t, w)
<1> DEFINE c == s \o t
           m == Len(s)
           n == Len(t)
<1>1. /\ c \in Seq(S) /\ Len(c) = m + n /\ m \in Nat /\ n \in Nat
      /\ \A i \in 1..m + n : c[i] = IF i <= m THEN s[i] ELSE t[i - m]
  BY ConcatProperties, LenProperties
<1>2. \A i \in 1..m : s[i] \in Int
  BY ElementOfSeq
<1>3. \A i \in 1..n : t[i] \in Int
  BY ElementOfSeq
<1>4. \A i \in 1..m + n : \/ i \in 1..m /\ c[i] = s[i]
                          \/ i > m /\ i - m \in 1..n /\ c[i] = t[i - m]
  BY <1>1
<1> HIDE DEF c, m, n
<1>5. ASSUME NEW i \in 1..m + n, NEW j \in 1..m + n, i < j PROVE c[i] <= c[j]
  <2>1. CASE i \in 1..m /\ c[i] = s[i] /\ j \in 1..m /\ c[j] = s[j]
    BY <1>5, <2>1 DEF Ascending, m
  <2>2. CASE i \in 1..m /\ c[i] = s[i] /\ j > m /\ j - m \in 1..n /\ c[j] = t[j - m]
    BY <2>2 DEF AtMost, m, n
  <2>3. CASE i > m /\ i - m \in 1..n /\ c[i] = t[i - m] /\ j > m /\ j - m \in 1..n /\ c[j] = t[j - m]
    <3>1. i - m < j - m
      BY <1>1, <1>5
    <3> QED BY <2>3, <3>1 DEF Ascending, n
  <2>4. ~(i > m /\ j \in 1..m)
    BY <1>1, <1>5
  <2> QED BY <1>4, <2>1, <2>2, <2>3, <2>4
<1>6. ASSUME NEW w, AtMost(s, w), AtMost(t, w), NEW i \in 1..m + n, NEW j \in 1..Len(w)
      PROVE  c[i] <= w[j]
  BY <1>4, <1>6 DEF AtMost, m, n
<1>7. s \o t \in Seq(S) /\ Ascending(s \o t)
  BY <1>1, <1>5 DEF c, Ascending
<1>8. \A w : AtMost(s, w) /\ AtMost(t, w) => AtMost(s \o t, w)
  BY <1>1, <1>6 DEF c, AtMost
<1> QED BY <1>7, <1>8

\* The recursion of FlattenSeq() has a solution.
LEMMA FlattenRecursion ==
    ASSUME NEW t, Len(t) \in Nat \ {0}
    PROVE  \E f : /\ FlattenSeq(t) = f[Len(t)]
                  /\ f[1] = t[1]
                  /\ \A i \in 2..Len(t) : f[i] = f[i - 1] \o t[i]
<1> DEFINE N == Len(t)
           Sol(f, m) == f = [i \in 1..m |-> IF i = 1 THEN t[i] ELSE f[i - 1] \o t[i]]
<1>1. \A m \in 1..N : \E f : Sol(f, m)
  <2> DEFINE Solvable(m) == \E f : Sol(f, m)
             T == {m \in 1..N : ~Solvable(m)}
  <2> HIDE DEF Solvable
  <2> SUFFICES ASSUME T # {} PROVE FALSE
    BY DEF Solvable
  <2>1. PICK m \in T : \A e \in T : m <= e
    <3>1. T \subseteq Nat
      OBVIOUS
    <3> HIDE DEF T
    <3> QED BY <3>1, LeastNumber
  <2>2. m \in 1..N /\ ~Solvable(m)
    BY <2>1
  <2>3. m # 1
    <3> DEFINE f == [i \in 1..1 |-> t[1]]
    <3>1. Sol(f, 1)
      <4>1. \A i \in 1..1 : i = 1
        OBVIOUS
      <4>2. f = [i \in 1..1 |-> IF i = 1 THEN t[i] ELSE f[i - 1] \o t[i]]
        BY <4>1
      <4> QED BY <4>2
    <3> HIDE DEF f, Sol
    <3> QED BY <2>2, <3>1 DEF Solvable
  <2>4. Solvable(m - 1)
    <3>1. m - 1 \in 1..N /\ ~(m <= m - 1)
      BY <2>2, <2>3
    <3> QED BY <2>1, <3>1
  <2>5. PICK f : Sol(f, m - 1)
    BY <2>4 DEF Solvable
  <2> DEFINE g == [i \in 1..m |-> IF i = m THEN f[m - 1] \o t[m] ELSE f[i]]
  <2>6. \A i \in 1..m - 1 : f[i] = IF i = 1 THEN t[i] ELSE f[i - 1] \o t[i]
    <3> DEFINE F == [i \in 1..m - 1 |-> IF i = 1 THEN t[i] ELSE f[i - 1] \o t[i]]
    <3>1. f = F
      BY <2>5
    <3>2. \A i \in 1..m - 1 : F[i] = IF i = 1 THEN t[i] ELSE f[i - 1] \o t[i]
      OBVIOUS
    <3> HIDE DEF F
    <3> QED BY <3>1, <3>2
  <2>7. \A i \in 1..m : g[i] = IF i = 1 THEN t[i] ELSE g[i - 1] \o t[i]
    <3> TAKE i \in 1..m
    <3>1. CASE i = m
      <4>1. m - 1 \in 1..m /\ m - 1 # m /\ m # 1
        BY <2>2, <2>3
      <4> QED BY <3>1, <4>1
    <3>2. CASE i # m
      <4>1. i \in 1..m - 1 /\ (i # 1 => i - 1 \in 1..m /\ i - 1 # m)
        BY <2>2, <3>2
      <4> QED BY <2>6, <3>2, <4>1
    <3> QED BY <3>1, <3>2
  <2>8. Sol(g, m)
    <3>1. g = [i \in 1..m |-> g[i]]
      OBVIOUS
    <3> HIDE DEF g
    <3> QED BY <2>7, <3>1
  <2> HIDE DEF g, Sol
  <2> QED BY <2>2, <2>8 DEF Solvable
<1> DEFINE f == CHOOSE x : Sol(x, N)
<1>2. FlattenSeq(t) = f[Len(t)]
  BY DEF FlattenSeq
<1>3. Sol(f, N)
  <2> HIDE DEF Sol
  <2>1. \E x : Sol(x, N)
    <3>1. N \in 1..N
      OBVIOUS
    <3> QED BY <1>1, <3>1
  <2> QED BY <2>1
<1> HIDE DEF f
<1>4. \A i \in 1..N : f[i] = IF i = 1 THEN t[i] ELSE f[i - 1] \o t[i]
  <2> DEFINE F == [i \in 1..N |-> IF i = 1 THEN t[i] ELSE f[i - 1] \o t[i]]
  <2>1. f = F
    BY <1>3
  <2>2. \A i \in 1..N : F[i] = IF i = 1 THEN t[i] ELSE f[i - 1] \o t[i]
    OBVIOUS
  <2> HIDE DEF F
  <2> QED BY <2>1, <2>2
<1>5. f[1] = t[1] /\ \A i \in 2..N : f[i] = f[i - 1] \o t[i]
  <2>1. 1 \in 1..N /\ \A i \in 2..N : i \in 1..N /\ i # 1
    OBVIOUS
  <2> QED BY <1>4, <2>1
<1> QED BY <1>2, <1>5

\* Sequences in ascending order that follow each other in ascending order make one.
LEMMA FlattenAscends ==
    ASSUME NEW S, S \subseteq Int, NEW t, Len(t) \in Nat \ {0},
           \A i \in 1..Len(t) : t[i] \in Seq(S) /\ Ascending(t[i]),
           \A i, j \in 1..Len(t) : i < j => AtMost(t[i], t[j])
    PROVE  FlattenSeq(t) \in Seq(S) /\ Ascending(FlattenSeq(t))
<1> DEFINE N == Len(t)
<1>1. PICK f : /\ FlattenSeq(t) = f[N]
               /\ f[1] = t[1]
               /\ \A i \in 2..N : f[i] = f[i - 1] \o t[i]
  BY FlattenRecursion
<1> DEFINE P(m) == /\ f[m] \in Seq(S) /\ Ascending(f[m])
                   /\ \A j \in m + 1..N : AtMost(f[m], t[j])
<1>2. P(1)
  <2>1. 1 \in 1..N /\ \A j \in 1 + 1..N : j \in 1..N /\ 1 < j
    OBVIOUS
  <2> QED BY <1>1, <2>1
<1>3. ASSUME NEW m \in 2..N, P(m - 1) PROVE P(m)
  <2> DEFINE a == f[m - 1]
             b == t[m]
  <2>1. /\ m \in 1..N /\ (m - 1) + 1 = m /\ m \in (m - 1) + 1..N
        /\ \A j \in m + 1..N : j \in (m - 1) + 1..N /\ j \in 1..N /\ m < j
    OBVIOUS
  <2>2. /\ a \in Seq(S) /\ b \in Seq(S) /\ Ascending(a) /\ Ascending(b) /\ AtMost(a, b)
        /\ f[m] = a \o b
        /\ \A j \in m + 1..N : AtMost(a, t[j]) /\ AtMost(b, t[j])
    BY <1>1, <1>3, <2>1
  <2> HIDE DEF a, b
  <2>3. /\ a \o b \in Seq(S) /\ Ascending(a \o b)
        /\ \A w : AtMost(a, w) /\ AtMost(b, w) => AtMost(a \o b, w)
    BY <2>2, ConcatAscends
  <2> QED BY <2>2, <2>3
<1>4. P(N)
  <2> DEFINE T == {m \in 1..N : ~P(m)}
  <2> HIDE DEF P
  <2>0. N \in 1..N
    OBVIOUS
  <2> SUFFICES ASSUME T # {} PROVE FALSE
    BY <2>0
  <2>1. PICK m \in T : \A e \in T : m <= e
    <3>1. T \subseteq Nat
      OBVIOUS
    <3> HIDE DEF T
    <3> QED BY <3>1, LeastNumber
  <2>2. m \in 1..N /\ ~P(m)
    BY <2>1
  <2>3. m # 1
    BY <1>2, <2>2
  <2>4. m \in 2..N /\ P(m - 1)
    BY <2>1, <2>2, <2>3
  <2> QED BY <1>3, <2>2, <2>4
<1> QED BY <1>1, <1>4

-------------------------------------------------------------------------------
(* The scan of insertNonFull(). *)

\* Key x belongs in front of position i of the keys s.
Between(s, i, x) ==
    \A j \in 1..Len(s) : (j < i => s[j] <= x) /\ (j >= i => x <= s[j])

\* The scan stops where the key belongs.
LEMMA ScanStopsBetween ==
    ASSUME NEW s \in Seq(Int), Ascending(s), NEW x \in Int
    PROVE  Between(s, AfterLastNotGreater(s, x), x)
<1> DEFINE L == Len(s)
           T == {j \in 1..L : \A i \in j..L : x < s[i]}
<1>1. L \in Nat /\ \A j \in 1..L : s[j] \in Int
  BY LenProperties, ElementOfSeq
<1>2. AfterLastNotGreater(s, x) = 1 + L - Cardinality(T)
  BY DEF AfterLastNotGreater
<1>3. \A j \in 1..L : j \in T <=> x < s[j]
  <2> SUFFICES ASSUME NEW j \in 1..L PROVE (\A i \in j..L : x < s[i]) <=> x < s[j]
    OBVIOUS
  <2>1. ASSUME x < s[j], NEW i \in j..L PROVE x < s[i]
    BY <1>1, <2>1 DEF Ascending
  <2> QED BY <1>1, <2>1
<1>4. T \subseteq 1..L
  OBVIOUS
<1> HIDE DEF T
<1>5. CASE T = {}
  <2>1. AfterLastNotGreater(s, x) = 1 + L
    BY <1>1, <1>2, <1>5, FS_EmptySet
  <2> QED BY <1>1, <1>3, <1>5, <2>1 DEF Between
<1>6. CASE T # {}
  <2>1. PICK m \in T : \A y \in T : m <= y
    <3>1. T \subseteq Nat
      BY <1>4
    <3> QED BY <1>6, <3>1, LeastNumber
  <2>2. m \in 1..L /\ x < s[m]
    BY <1>3, <1>4, <2>1
  <2>3. T = m..L
    <3>1. ASSUME NEW j \in m..L PROVE j \in T
      <4>1. j \in 1..L /\ (m < j => s[m] <= s[j])
        BY <2>2 DEF Ascending
      <4> QED BY <1>1, <1>3, <2>2, <4>1
    <3>2. ASSUME NEW j \in T PROVE j \in m..L
      BY <1>4, <2>1
    <3> QED BY <3>1, <3>2
  <2>4. Cardinality(T) = L - m + 1
    BY <1>1, <2>2, <2>3, FS_Interval
  <2>5. AfterLastNotGreater(s, x) = m
    BY <1>1, <1>2, <2>2, <2>4
  <2>6. ASSUME NEW j \in 1..L PROVE (j < m => s[j] <= x) /\ (j >= m => x <= s[j])
    <3>1. j < m => j \notin T
      BY <2>1, <2>2
    <3>2. j >= m => j \in T
      BY <2>2, <2>3
    <3> QED BY <1>1, <1>3, <3>1, <3>2
  <2> QED BY <2>5, <2>6 DEF Between
<1> QED BY <1>5, <1>6

\* The sequence t is s with e at position i.
Inserted(t, s, i, e) ==
    /\ Len(t) = Len(s) + 1
    /\ \A j \in 1..i - 1 : t[j] = s[j]
    /\ t[i] = e
    /\ \A j \in i + 1..Len(s) + 1 : t[j] = s[j - 1]

\* InsertAt() returns that sequence.
LEMMA InsertAtInserts ==
    ASSUME NEW S, NEW s \in Seq(S), NEW i \in 1..Len(s) + 1, NEW e \in S
    PROVE  Inserted(InsertAt(s, i, e), s, i, e)
  BY InsertAtElements DEF Inserted

\* A key inserted where it belongs leaves the keys in order.
LEMMA InsertAscends ==
    ASSUME NEW s \in Seq(Int), Ascending(s), NEW i \in 1..Len(s) + 1, NEW x \in Int,
           Between(s, i, x)
    PROVE  Ascending(InsertAt(s, i, x))
<1> DEFINE t == InsertAt(s, i, x)
           L == Len(s)
<1>1. /\ Len(t) = L + 1
      /\ \A j \in 1..i - 1 : t[j] = s[j]
      /\ t[i] = x
      /\ \A j \in i + 1..L + 1 : t[j] = s[j - 1]
  BY InsertAtElements
<1>2. L \in Nat /\ i \in 1..L + 1 /\ \A j \in 1..L : s[j] \in Int
  BY LenProperties, ElementOfSeq
<1> HIDE DEF t
<1>3. \A j \in 1..L : (j < i => s[j] <= x) /\ (j >= i => x <= s[j])
  BY DEF Between
<1>4. \A a, b \in 1..L : a <= b => s[a] <= s[b]
  BY <1>2 DEF Ascending
<1> HIDE DEF L
<1> SUFFICES ASSUME NEW a \in 1..L + 1, NEW b \in 1..L + 1, a < b PROVE t[a] <= t[b]
  BY <1>1 DEF Ascending, t
<1>5. CASE b < i
  <2>1. t[a] = s[a] /\ t[b] = s[b] /\ a \in 1..L /\ b \in 1..L /\ a <= b
    BY <1>1, <1>2, <1>5
  <2> QED BY <1>4, <2>1
<1>6. CASE b = i
  BY <1>1, <1>2, <1>3, <1>6
<1>7. CASE b > i /\ a < i
  <2>1. t[a] = s[a] /\ t[b] = s[b - 1] /\ a \in 1..L /\ b - 1 \in 1..L /\ a <= b - 1
    BY <1>1, <1>2, <1>7
  <2> QED BY <1>4, <2>1
<1>8. CASE a = i
  <2>1. t[a] = x /\ t[b] = s[b - 1] /\ b - 1 \in 1..L /\ b - 1 >= i
    BY <1>1, <1>2, <1>8
  <2> QED BY <1>3, <2>1
<1>9. CASE a > i
  <2>1. t[a] = s[a - 1] /\ t[b] = s[b - 1] /\ a - 1 \in 1..L /\ b - 1 \in 1..L /\ a - 1 <= b - 1
    BY <1>1, <1>2, <1>9
  <2> QED BY <1>4, <2>1
<1> QED BY <1>2, <1>5, <1>6, <1>7, <1>8, <1>9

-------------------------------------------------------------------------------
(* Every page has a set of keys that may go below it. *)

\* Page p holds keys of U in order, and the sets u of its children lie between them.
PageOrdered(p, U, u) ==
    /\ Ascending(p.keys)
    /\ \A j \in 1..Len(p.keys) : p.keys[j] \in U
    /\ \A i \in 1..Len(p.cursors) : \A x \in u[p.cursors[i]] :
          x \in U /\ Between(p.keys, i, x)

\* The sets u of the pages ps.
Ordered(ps, u) ==
    /\ u \in [1..Len(ps) -> SUBSET Int]
    /\ \A n \in 1..Len(ps) : PageOrdered(ps[n], u[n], u)

\* A key may go below page c if it may go below its parent and belongs there.
LEMMA WidenOrdered ==
    ASSUME NEW ps, NEW u, Ordered(ps, u), NEW c \in 1..Len(ps), NEW x \in Int,
           \A n \in 1..Len(ps) : \A i \in 1..Len(ps[n].cursors) :
              ps[n].cursors[i] = c => x \in u[n] /\ Between(ps[n].keys, i, x),
           \A n \in 1..Len(ps) : Kids(ps[n]) \subseteq 1..Len(ps)
    PROVE  Ordered(ps, [u EXCEPT ![c] = @ \cup {x}])
<1> DEFINE v == [u EXCEPT ![c] = @ \cup {x}]
           N == Len(ps)
<1>1. u \in [1..N -> SUBSET Int]
  BY DEF Ordered
<1>2. /\ v \in [1..N -> SUBSET Int] /\ v[c] = u[c] \cup {x}
      /\ \A n \in 1..N : (n # c => v[n] = u[n]) /\ u[n] \subseteq v[n]
  BY <1>1
<1> HIDE DEF v, N
<1>3. ASSUME NEW n \in 1..N PROVE PageOrdered(ps[n], v[n], v)
  <2> DEFINE p == ps[n]
  <2>1. PageOrdered(p, u[n], u)
    BY DEF Ordered, N
  <2>2. ASSUME NEW i \in 1..Len(p.cursors), NEW y \in v[p.cursors[i]]
        PROVE  y \in v[n] /\ Between(p.keys, i, y)
    <3>1. p.cursors[i] \in 1..N
      BY DEF Kids, N
    <3>2. CASE y \in u[p.cursors[i]]
      BY <1>2, <2>1, <3>2 DEF PageOrdered
    <3>3. CASE p.cursors[i] = c /\ y = x
      BY <1>2, <3>3 DEF N
    <3> QED BY <1>2, <2>2, <3>1, <3>2, <3>3
  <2> HIDE DEF p
  <2>3. \A j \in 1..Len(p.keys) : p.keys[j] \in v[n]
    BY <1>2, <2>1 DEF PageOrdered
  <2>4. Ascending(p.keys)
    BY <2>1 DEF PageOrdered
  <2> QED BY <2>2, <2>3, <2>4 DEF PageOrdered, p
<1> QED BY <1>2, <1>3 DEF Ordered, v, N

\* The sets v after the set of page c was divided at the median that goes up.
Divided(u, v, c, right, x) ==
    /\ v[c] = {y \in u[c] : y <= x}
    /\ v[right] = {y \in u[c] : x <= y}

\* splitChild() puts the median where it belongs in the parent.
LEMMA ParentOrdered ==
    ASSUME NEW node, node \in Page, NEW i \in 1..Len(node.keys) + 1,
           Len(node.cursors) = Len(node.keys) + 1, OneCursorEach(node),
           NEW U \in SUBSET Int, NEW u, PageOrdered(node, U, u),
           NEW c, c = node.cursors[i], NEW p, Median(p) \in u[c], Median(p) \in Keys,
           NEW right \in Nat, right \notin Kids(node), NEW v,
           Divided(u, v, c, right, Median(p)), \A m \in Kids(node) \ {c} : v[m] = u[m],
           NEW q, q = SplitParent(node, i, p, right)
    PROVE  PageOrdered(q, U, v)
<1> DEFINE s == node.keys
           t == q.keys
           cs == node.cursors
           ct == q.cursors
           x == Median(p)
           L == Len(s)
           w == i + 1
<1>1. /\ s \in Seq(Int) /\ cs \in Seq(Nat) /\ L \in Nat /\ x \in Int
      /\ \A j \in 1..L : s[j] \in Int /\ s[j] \in U
      /\ Len(cs) = L + 1
  <2>1. s \in Seq(Keys) /\ cs \in Seq(Nat) /\ Keys \subseteq Int
    BY KeysAssumption DEF Page
  <2>2. s \in Seq(Int)
    BY <2>1, SeqMonotonic
  <2> QED BY <2>1, <2>2, LenProperties, ElementOfSeq DEF PageOrdered
<1>2. t = InsertAt(s, i, x) /\ ct = InsertAt(cs, w, right)
  BY DEF SplitParent, Page
<1>3. /\ i \in 1..L + 1 /\ w \in 1..Len(cs) + 1
      /\ \A j \in 1..L + 1 : cs[j] = c => j = i
      /\ \A j \in 1..L + 1 : cs[j] \in Kids(node) /\ cs[j] # right
      /\ c = cs[i]
  BY <1>1 DEF OneCursorEach, Kids
<1>4. /\ Ascending(s)
      /\ \A j \in 1..L + 1 : \A y \in u[cs[j]] : y \in U /\ Between(s, j, y)
  BY <1>1 DEF PageOrdered
<1>5. x \in U /\ Between(s, i, x)
  BY <1>3, <1>4
<1> HIDE DEF s, t, cs, ct, x, L, w
<1>6. /\ Len(t) = L + 1
      /\ \A j \in 1..i - 1 : t[j] = s[j]
      /\ t[i] = x
      /\ \A j \in i + 1..L + 1 : t[j] = s[j - 1]
  <2>1. s \in Seq(Int) /\ i \in 1..Len(s) + 1 /\ x \in Int
    BY <1>1, <1>3 DEF L
  <2>2. Inserted(t, s, i, x)
    <3>1. Inserted(InsertAt(s, i, x), s, i, x)
      BY ONLY <2>1, InsertAtInserts, ZenonT(30)
    <3> QED BY <1>2, <3>1
  <2> QED BY <2>2 DEF Inserted, L
<1>7. /\ Len(ct) = L + 2
      /\ \A j \in 1..i : ct[j] = cs[j]
      /\ ct[w] = right
      /\ \A j \in i + 2..L + 2 : ct[j] = cs[j - 1]
  <2>1. /\ Len(ct) = Len(cs) + 1
        /\ \A j \in 1..w - 1 : ct[j] = cs[j]
        /\ ct[w] = right
        /\ \A j \in w + 1..Len(cs) + 1 : ct[j] = cs[j - 1]
    <3>1. cs \in Seq(Nat) /\ w \in 1..Len(cs) + 1 /\ right \in Nat
      BY <1>1, <1>3
    <3>2. Inserted(InsertAt(cs, w, right), cs, w, right)
      BY ONLY <3>1, InsertAtInserts, ZenonT(30)
    <3> QED BY <1>2, <3>2 DEF Inserted
  <2>2. Len(cs) + 1 = L + 2 /\ w - 1 = i /\ w + 1 = i + 2
    BY <1>1, <1>3 DEF w
  <2> QED BY <2>1, <2>2
<1>8. Ascending(t)
  BY <1>1, <1>2, <1>3, <1>4, <1>5, InsertAscends DEF L
\* Position j of the keys with the median is position j or j - 1 of the old ones.
<1>9. \A j \in 1..L + 1 : \/ j < i /\ j \in 1..L /\ t[j] = s[j]
                          \/ j = i /\ t[j] = x
                          \/ j > i /\ j - 1 \in 1..L /\ t[j] = s[j - 1]
  BY <1>1, <1>3, <1>6
<1>10. \A j \in 1..L + 1 : t[j] \in U
  BY <1>1, <1>5, <1>9
<1>11. ASSUME NEW l \in 1..L + 1, NEW y \in Int, Between(s, l, y),
              NEW j \in 1..L + 2,
              \/ j = l /\ j <= i /\ y <= x
              \/ j = l + 1 /\ j > i /\ x <= y
       PROVE  Between(t, j, y)
  <2> SUFFICES ASSUME NEW a \in 1..L + 1
               PROVE  (a < j => t[a] <= y) /\ (a >= j => y <= t[a])
    BY <1>6 DEF Between
  <2>1. \A b \in 1..L : (b < l => s[b] <= y) /\ (b >= l => y <= s[b])
    BY <1>11 DEF Between, L
  <2> DEFINE side == (j = l /\ j <= i /\ y <= x) \/ (j = l + 1 /\ j > i /\ x <= y)
  <2>0. /\ L \in Nat /\ i \in 1..L + 1 /\ l \in 1..L + 1 /\ j \in 1..L + 2
        /\ x \in Int /\ y \in Int /\ side
    BY <1>1, <1>3, <1>11
  <2>2. CASE a < i /\ a \in 1..L /\ t[a] = s[a]
    BY ONLY <2>0, <2>1, <2>2
  <2>3. CASE a = i /\ t[a] = x
    BY ONLY <2>0, <2>3
  <2>4. CASE a > i /\ a - 1 \in 1..L /\ t[a] = s[a - 1]
    BY ONLY <2>0, <2>1, <2>4
  <2> QED BY <1>9, <2>2, <2>3, <2>4
<1>12. \A b \in 1..L : (b < i => s[b] <= x) /\ (b >= i => x <= s[b])
  BY <1>5 DEF Between, L
<1>13. ASSUME NEW j \in 1..L + 2, NEW y \in v[ct[j]]
       PROVE  y \in U /\ Between(t, j, y)
  <2>1. CASE j < i
    <3>1. j \in 1..L /\ j \in 1..L + 1 /\ ct[j] = cs[j] /\ cs[j] # c
      BY <1>1, <1>3, <1>7, <2>1
    <3>2. y \in u[cs[j]]
      BY <1>3, <1>13, <3>1
    <3>3. y \in U /\ Between(s, j, y) /\ y \in Int
      BY <1>4, <3>1, <3>2
    <3>4. y <= s[j]
      BY <3>1, <3>3 DEF Between, L
    <3>5. y <= x
      BY <1>1, <1>12, <2>1, <3>1, <3>3, <3>4
    <3> QED BY <1>3, <1>11, <2>1, <3>1, <3>3, <3>5
  <2>2. CASE j = i
    <3>1. ct[j] = c /\ y \in u[c] /\ y <= x
      BY <1>1, <1>3, <1>7, <1>13, <2>2 DEF Divided, x
    <3>2. y \in U /\ Between(s, j, y) /\ y \in Int
      BY <1>3, <1>4, <2>2, <3>1
    <3> QED BY <1>3, <1>11, <2>2, <3>1, <3>2
  <2>3. CASE j = i + 1
    <3>1. ct[j] = right /\ y \in u[c] /\ x <= y
      BY <1>1, <1>3, <1>7, <1>13, <2>3 DEF Divided, x, w
    <3>2. y \in U /\ Between(s, i, y) /\ y \in Int
      BY <1>3, <1>4, <3>1
    <3>3. j > i
      BY <2>3
    <3> QED BY <1>3, <1>11, <2>3, <3>1, <3>2, <3>3
  <2>4. CASE j > i + 1
    <3>1. /\ j \in i + 2..L + 2 /\ j - 1 \in 1..L + 1 /\ i \in 1..L /\ i < j - 1
          /\ j = (j - 1) + 1 /\ j > i
      BY <1>1, <1>3, <2>4
    <3>2. ct[j] = cs[j - 1] /\ cs[j - 1] # c
      BY <1>3, <1>7, <3>1
    <3>3. y \in u[cs[j - 1]]
      BY <1>3, <1>13, <3>1, <3>2
    <3>4. y \in U /\ Between(s, j - 1, y) /\ y \in Int
      BY <1>4, <3>1, <3>3
    <3>5. s[i] <= y
      BY <3>1, <3>4 DEF Between, L
    <3>6. x <= y
      BY <1>1, <1>12, <3>1, <3>4, <3>5
    <3> QED BY <1>11, <3>1, <3>4, <3>6
  <2> QED BY <1>1, <1>3, <2>1, <2>2, <2>3, <2>4
<1> QED BY <1>6, <1>7, <1>8, <1>10, <1>13 DEF PageOrdered, t, ct

\* The elements of a part of an ordered page are in order, and so are its children.
LEMMA PartOrdered ==
    ASSUME NEW s \in Seq(Int), Ascending(s), NEW t, NEW d \in Nat, NEW l \in Nat,
           d + l <= Len(s), Len(t) = l, \A j \in 1..l : t[j] = s[d + j]
    PROVE  /\ Ascending(t)
           /\ \A i \in 1..l + 1 : \A y : Between(s, d + i, y) => Between(t, i, y)
<1>0. Len(s) \in Nat
  BY LenProperties
<1>1. Len(s) \in Nat /\ \A j \in 1..l : d + j \in 1..Len(s)
  BY <1>0
<1>2. Ascending(t)
  <2> SUFFICES ASSUME NEW i \in 1..l, NEW j \in 1..l, i < j PROVE t[i] <= t[j]
    BY DEF Ascending
  <2>1. d + i \in 1..Len(s) /\ d + j \in 1..Len(s) /\ d + i < d + j
    BY <1>1
  <2>2. s[d + i] <= s[d + j]
    BY <2>1 DEF Ascending
  <2> QED BY <2>2
<1>3. ASSUME NEW i \in 1..l + 1, NEW y, Between(s, d + i, y) PROVE Between(t, i, y)
  <2> SUFFICES ASSUME NEW j \in 1..l PROVE (j < i => t[j] <= y) /\ (j >= i => y <= t[j])
    BY DEF Between
  <2>1. /\ d + j \in 1..Len(s) /\ t[j] = s[d + j]
        /\ (j < i => d + j < d + i) /\ (j >= i => d + j >= d + i)
    BY <1>1
  <2> QED BY <1>3, <2>1 DEF Between
<1> QED BY <1>2, <1>3

\* The half of page p behind its first d keys and cursors.
HalfOf(q, p, d, l) ==
    /\ Len(q.keys) = l /\ d + l <= Len(p.keys) /\ \A j \in 1..l : q.keys[j] = p.keys[d + j]
    /\ p.leaf => Len(q.cursors) = 0
    /\ ~p.leaf => /\ Len(q.cursors) = l + 1
                  /\ \A j \in 1..l + 1 : q.cursors[j] = p.cursors[d + j]

\* The two halves of a page that is split.
LEMMA SplitHalves ==
    ASSUME NEW S, NEW p, Shaped(p, S), isFull(p)
    PROVE  /\ HalfOf(SplitLeft(p), p, 0, MinKeysOf(p))
           /\ HalfOf(SplitRight(p), p, MinKeys + 1, MinKeysOf(p))
<1> DEFINE ks == p.keys
           cs == p.cursors
           m == MinKeys
           l == MinKeysOf(p)
           a == SubSeq(ks, 1, l)
           b == SubSeq(ks, m + 2, m + 1 + l)
<1>1. /\ p \in Page /\ ks \in Seq(Int) /\ cs \in Seq(Int)
      /\ Len(cs) = IF p.leaf THEN 0 ELSE Len(ks) + 1
  BY ShapedTypes DEF Shaped
<1>2. /\ m \in Nat /\ l \in Nat /\ Len(ks) = m + 1 + l /\ (~p.leaf => l = m)
  BY <1>1, KeyBounds DEF isFull
<1>3. /\ SplitLeft(p).keys = a /\ SplitRight(p).keys = b
      /\ SplitLeft(p).cursors = IF p.leaf THEN <<>> ELSE SubSeq(cs, 1, m + 1)
      /\ SplitRight(p).cursors = IF p.leaf THEN <<>> ELSE SubSeq(cs, m + 2, 2 * m + 2)
  BY <1>1 DEF SplitLeft, SplitRight, Page
<1> HIDE DEF ks, cs, m, l
<1>4. Len(a) = l /\ \A j \in 1..l : a[j] = ks[0 + j]
  <2>1. 1 \in Nat \ {0} /\ 1 + l = l + 1 /\ l <= Len(ks)
    BY <1>2
  <2>2. Len(SubSeq(ks, 1, l)) = l /\ \A j \in 1..l : SubSeq(ks, 1, l)[j] = ks[1 + j - 1]
    BY <1>1, <1>2, <2>1, SubSeqElements
  <2>3. \A j \in 1..l : 1 + j - 1 = 0 + j
    BY <1>2
  <2> QED BY <2>2, <2>3
<1>5. Len(b) = l /\ \A j \in 1..l : b[j] = ks[m + 1 + j]
  <2>1. m + 2 \in Nat \ {0} /\ m + 1 + l \in Nat /\ m + 2 + l = m + 1 + l + 1 /\ m + 1 + l <= Len(ks)
    BY <1>2
  <2>2. /\ Len(SubSeq(ks, m + 2, m + 1 + l)) = l
        /\ \A j \in 1..l : SubSeq(ks, m + 2, m + 1 + l)[j] = ks[m + 2 + j - 1]
    BY <1>1, <1>2, <2>1, SubSeqElements
  <2>3. \A j \in 1..l : m + 2 + j - 1 = m + 1 + j
    BY <1>2
  <2> QED BY <2>2, <2>3
<1>6. ASSUME ~p.leaf
      PROVE  /\ Len(SubSeq(cs, 1, m + 1)) = m + 1
             /\ \A j \in 1..m + 1 : SubSeq(cs, 1, m + 1)[j] = cs[0 + j]
  <2>1. 1 \in Nat \ {0} /\ m + 1 \in Nat /\ 1 + (m + 1) = (m + 1) + 1 /\ m + 1 <= Len(cs)
    BY <1>1, <1>2, <1>6
  <2>2. /\ Len(SubSeq(cs, 1, m + 1)) = m + 1
        /\ \A j \in 1..m + 1 : SubSeq(cs, 1, m + 1)[j] = cs[1 + j - 1]
    BY <1>1, <2>1, SubSeqElements
  <2>3. \A j \in 1..m + 1 : 1 + j - 1 = 0 + j
    BY <1>2
  <2> QED BY <2>2, <2>3
<1>7. ASSUME ~p.leaf
      PROVE  /\ Len(SubSeq(cs, m + 2, 2 * m + 2)) = m + 1
             /\ \A j \in 1..m + 1 : SubSeq(cs, m + 2, 2 * m + 2)[j] = cs[m + 1 + j]
  <2>1. /\ m + 2 \in Nat \ {0} /\ 2 * m + 2 \in Nat /\ m + 1 \in Nat
        /\ m + 2 + (m + 1) = 2 * m + 2 + 1 /\ 2 * m + 2 <= Len(cs)
    BY <1>1, <1>2, <1>7
  <2>2. /\ Len(SubSeq(cs, m + 2, 2 * m + 2)) = m + 1
        /\ \A j \in 1..m + 1 : SubSeq(cs, m + 2, 2 * m + 2)[j] = cs[m + 2 + j - 1]
    BY <1>1, <2>1, SubSeqElements
  <2>3. \A j \in 1..m + 1 : m + 2 + j - 1 = m + 1 + j
    BY <1>2
  <2> QED BY <2>2, <2>3
<1> HIDE DEF a, b
<1>8. 0 + l <= Len(ks) /\ m + 1 + l <= Len(ks)
  BY <1>2
<1>9. Len(<<>>) = 0
  OBVIOUS
<1>10. HalfOf(SplitLeft(p), p, 0, l)
  <2>1. CASE p.leaf
    BY <1>3, <1>4, <1>8, <1>9, <2>1 DEF HalfOf, ks
  <2>2. CASE ~p.leaf
    BY <1>2, <1>3, <1>4, <1>6, <1>8, <2>2 DEF HalfOf, ks, cs
  <2> QED BY <2>1, <2>2
<1>11. HalfOf(SplitRight(p), p, m + 1, l)
  <2>1. CASE p.leaf
    BY <1>3, <1>5, <1>8, <1>9, <2>1 DEF HalfOf, ks
  <2>2. CASE ~p.leaf
    BY <1>2, <1>3, <1>5, <1>7, <1>8, <2>2 DEF HalfOf, ks, cs
  <2> QED BY <2>1, <2>2
<1> QED BY <1>10, <1>11 DEF l, m

\* Half of an ordered page is ordered, below the keys V on its side of the median.
LEMMA HalfOrdered ==
    ASSUME NEW p \in Page, Len(p.cursors) = IF p.leaf THEN 0 ELSE Len(p.keys) + 1,
           NEW q, NEW d \in Nat, NEW l \in Nat, HalfOf(q, p, d, l),
           NEW U, NEW u, PageOrdered(p, U, u), NEW V,
           \A j \in d + 1..d + l : p.keys[j] \in V,
           \A i \in d + 1..d + l + 1 : \A y \in U :
              ~p.leaf /\ Between(p.keys, i, y) => y \in V,
           NEW v, \A m \in Kids(p) : v[m] = u[m]
    PROVE  PageOrdered(q, V, v)
<1> DEFINE s == p.keys
           t == q.keys
<1>1. /\ s \in Seq(Int) /\ Len(s) \in Nat /\ Ascending(s)
  <2>1. s \in Seq(Keys) /\ Keys \subseteq Int
    BY KeysAssumption DEF Page
  <2>2. s \in Seq(Int)
    BY <2>1, SeqMonotonic
  <2> QED BY <2>2, LenProperties DEF PageOrdered
<1>2. Len(t) = l /\ d + l <= Len(s) /\ \A j \in 1..l : t[j] = s[d + j]
  BY DEF HalfOf
<1>3. /\ Ascending(t)
      /\ \A i \in 1..l + 1 : \A y : Between(s, d + i, y) => Between(t, i, y)
  <2> HIDE DEF s, t
  <2> QED BY <1>1, <1>2, PartOrdered
<1>4. \A j \in 1..l : t[j] \in V
  <2>1. \A j \in 1..l : d + j \in d + 1..d + l
    OBVIOUS
  <2> QED BY <1>2, <2>1
<1>5. ASSUME NEW i \in 1..Len(q.cursors), NEW y \in v[q.cursors[i]]
      PROVE  y \in V /\ Between(t, i, y)
  <2>1. ~p.leaf
    BY DEF HalfOf
  <2>2. Len(q.cursors) = l + 1 /\ Len(p.cursors) = Len(s) + 1 /\ q.cursors[i] = p.cursors[d + i]
    BY <2>1 DEF HalfOf
  <2>3. d + i \in 1..Len(p.cursors) /\ d + i \in d + 1..d + l + 1 /\ i \in 1..l + 1
    BY <1>1, <1>2, <2>2
  <2>4. y \in u[p.cursors[d + i]]
    BY <1>5, <2>2, <2>3 DEF Kids
  <2>5. y \in U /\ Between(s, d + i, y)
    BY <2>3, <2>4 DEF PageOrdered
  <2> QED BY <1>3, <2>1, <2>3, <2>5
<1> QED BY <1>2, <1>3, <1>4, <1>5 DEF PageOrdered

\* The sets of the pages after the split of page c at the key x.
Halved(u, c, right, x) ==
    [m \in 1..right |-> IF m = c THEN {y \in u[c] : y <= x}
                        ELSE IF m = right THEN {y \in u[c] : x <= y} ELSE u[m]]

\* The pages qs after splitChild() of the full child c = cursor i of page n.
SplitsChild(ps, qs, n, i, c) ==
    /\ n \in 1..Len(ps) /\ c \in 1..Len(ps) /\ n # c
    /\ i \in 1..Len(ps[n].keys) + 1 /\ c = ps[n].cursors[i] /\ ~ps[n].leaf
    /\ isFull(ps[c])
    /\ Written(ps, qs, n, c, SplitParent(ps[n], i, ps[c], Len(ps) + 1),
               SplitLeft(ps[c]), SplitRight(ps[c]))

\* Every page of ps is a page of legal size with cursors to pages of ps.
AllShaped(ps) == Len(ps) \in Nat /\ \A m \in 1..Len(ps) : Shaped(ps[m], 1..Len(ps))

\* splitChild() keeps the pages ordered.
LEMMA SplitKeepsOrder ==
    ASSUME NEW ps, NEW qs, NEW n, NEW i, NEW c, SplitsChild(ps, qs, n, i, c),
           AllShaped(ps), NEW r, Owned(ps, r), NEW u, Ordered(ps, u)
    PROVE  Ordered(qs, Halved(u, c, Len(ps) + 1, Median(ps[c])))
<1> USE DEF SplitsChild, AllShaped
<1> DEFINE N == Len(ps)
           right == N + 1
           p == ps[c]
           node == ps[n]
           x == Median(p)
           v == Halved(u, c, right, x)
<1>1. u \in [1..N -> SUBSET Int] /\ \A m \in 1..N : PageOrdered(ps[m], u[m], u)
  BY DEF Ordered
<1>2. /\ v \in [1..right -> SUBSET Int] /\ Divided(u, v, c, right, x)
      /\ \A m \in (1..N) \ {c} : v[m] = u[m]
  <2> HIDE DEF x
  <2>1. \A m \in 1..right : m = right \/ m \in 1..N
    OBVIOUS
  <2>2. right \in 1..right /\ right # c /\ \A m \in 1..N : m \in 1..right /\ m # right
    OBVIOUS
  <2> HIDE DEF right, N
  <2> QED BY <1>1, <2>1, <2>2 DEF Halved, Divided, N
<1> HIDE DEF v
<1>3. /\ \A m \in 1..N : Kids(ps[m]) \subseteq 1..N
      /\ c \in Kids(node) /\ \A m \in (1..N) \ {n} : c \notin Kids(ps[m])
      /\ \A m \in 1..N : ps[m] \in Page
      /\ \A m \in 1..N : Len(ps[m].cursors) = IF ps[m].leaf THEN 0 ELSE Len(ps[m].keys) + 1
  <2>1. ASSUME NEW m \in 1..N, NEW j \in 1..Len(ps[m].cursors) PROVE ps[m].cursors[j] \in 1..N
    <3>1. ps[m].cursors \in Seq(1..N)
      BY DEF Shaped
    <3> QED BY <2>1, <3>1, ElementOfSeq
  <2>2. \A m \in 1..N : Kids(ps[m]) \subseteq 1..N
    BY <2>1 DEF Kids
  <2>3. c \in Kids(node)
    <3>1. Len(node.cursors) = Len(node.keys) + 1
      BY DEF Shaped
    <3> QED BY <3>1 DEF Kids
  <2>4. \A m \in (1..N) \ {n} : c \notin Kids(ps[m])
    BY <2>3 DEF Owned
  <2> QED BY <2>2, <2>3, <2>4 DEF Shaped
<1>4. /\ Len(p.keys) = MinKeys + 1 + MinKeysOf(p) /\ MinKeys \in Nat /\ MinKeysOf(p) \in Nat
      /\ MinKeysOf(p) <= MinKeys + 1 /\ (~p.leaf => MinKeysOf(p) = MinKeys)
  <2>1. p \in Page /\ isFull(p)
    BY <1>3
  <2> HIDE DEF p
  <2> QED BY <2>1, KeyBounds DEF isFull
<1>5. /\ MinKeys + 1 \in 1..Len(p.keys) /\ x = p.keys[MinKeys + 1] /\ x \in u[c] /\ x \in Keys
      /\ u[c] \in SUBSET Int /\ x \in Int
  <2>1. MinKeys + 1 \in 1..Len(p.keys) /\ x = p.keys[MinKeys + 1]
    BY <1>4 DEF Median
  <2>2. x \in u[c]
    BY <1>1, <2>1 DEF PageOrdered
  <2>3. x \in Keys
    <3>1. p.keys \in Seq(Keys)
      BY <1>3 DEF Page
    <3> HIDE DEF x, p
    <3> QED BY <2>1, <3>1, ElementOfSeq
  <2> QED BY <1>1, <2>1, <2>2, <2>3
<1>6. /\ Len(qs) = right /\ qs[n] = SplitParent(node, i, p, right)
      /\ qs[c] = SplitLeft(p) /\ qs[right] = SplitRight(p)
      /\ \A m \in (1..N) \ {n, c} : qs[m] = ps[m]
  BY DEF Written
<1>7. \A m \in Kids(p) : v[m] = u[m]
  BY <1>2, <1>3
<1>8. PageOrdered(qs[n], v[n], v)
  <2>1. /\ node \in Page /\ i \in 1..Len(node.keys) + 1
        /\ Len(node.cursors) = Len(node.keys) + 1 /\ OneCursorEach(node)
        /\ u[n] \in SUBSET Int /\ PageOrdered(node, u[n], u) /\ c = node.cursors[i]
        /\ right \in Nat /\ right \notin Kids(node)
        /\ \A m \in Kids(node) \ {c} : v[m] = u[m]
    <3>1. Len(node.cursors) = Len(node.keys) + 1 /\ OneCursorEach(node)
      BY <1>3 DEF Owned
    <3>2. right \in Nat /\ right \notin 1..N
      OBVIOUS
    <3>3. right \notin Kids(node) /\ \A m \in Kids(node) \ {c} : v[m] = u[m]
      BY <1>2, <1>3, <3>2
    <3> QED BY <1>1, <1>3, <3>1, <3>2, <3>3
  <2>2. Median(p) \in u[c] /\ Median(p) \in Keys /\ Divided(u, v, c, right, Median(p))
    BY <1>2, <1>5
  <2> DEFINE q == SplitParent(node, i, p, right)
  <2>3. v[n] = u[n] /\ q = SplitParent(node, i, p, right)
    BY <1>2
  <2> DEFINE U == u[n]
  <2> HIDE DEF q, node, right, p, U
  <2>4. PageOrdered(q, U, v)
    BY <2>1, <2>2, <2>3, ParentOrdered DEF U
  <2> QED BY <1>6, <2>3, <2>4 DEF U
<1>9. \A j \in 1..Len(p.keys) : /\ p.keys[j] \in u[c]
                                /\ (j <= MinKeys + 1 => p.keys[j] <= x)
                                /\ (j >= MinKeys + 1 => x <= p.keys[j])
  <2>1. PageOrdered(p, u[c], u)
    BY <1>1
  <2> HIDE DEF p, x
  <2> QED BY <1>5, <2>1 DEF PageOrdered, Ascending
<1>10. HalfOf(SplitLeft(p), p, 0, MinKeysOf(p)) /\ HalfOf(SplitRight(p), p, MinKeys + 1, MinKeysOf(p))
  <2>1. Shaped(p, 1..N) /\ isFull(p)
    OBVIOUS
  <2> HIDE DEF p, N
  <2> QED BY <2>1, SplitHalves
<1>11. /\ p \in Page /\ Len(p.cursors) = IF p.leaf THEN 0 ELSE Len(p.keys) + 1
       /\ PageOrdered(p, u[c], u)
  BY <1>1, <1>3
<1>12. PageOrdered(qs[c], v[c], v)
  <2> DEFINE q == SplitLeft(p)
             l == MinKeysOf(p)
             U == u[c]
             V == {y \in U : y <= x}
             d == 0
  <2> HIDE DEF p, x
  <2>1. \A j \in d + 1..d + l : p.keys[j] \in V
    <3>1. \A j \in d + 1..d + l : j \in 1..Len(p.keys) /\ j <= MinKeys + 1
      BY <1>4
    <3> QED BY <1>9, <3>1
  <2>2. ASSUME NEW j \in d + 1..d + l + 1, NEW y \in U, ~p.leaf /\ Between(p.keys, j, y)
        PROVE  y \in V
    <3>1. MinKeys + 1 >= j
      BY <1>4, <2>2
    <3> QED BY <1>5, <2>2, <3>1 DEF Between
  <2>3. d \in Nat /\ l \in Nat /\ HalfOf(q, p, d, l) /\ PageOrdered(p, U, u)
    <3>1. d \in Nat /\ l \in Nat
      BY <1>4
    <3> QED BY <1>10, <1>11, <3>1, Zenon
  <2>4. qs[c] = q /\ v[c] = V
    BY <1>2, <1>6 DEF Divided
  <2> HIDE DEF q, l, U, V, d
  <2>5. \A j \in d + 1..d + l + 1 : \A y \in U : ~p.leaf /\ Between(p.keys, j, y) => y \in V
    BY <2>2
  <2>6. PageOrdered(q, V, v)
    BY <1>7, <1>11, <2>1, <2>3, <2>5, HalfOrdered, SMTT(30)
  <2> QED BY <2>4, <2>6
<1>13. PageOrdered(qs[right], v[right], v)
  <2> DEFINE q == SplitRight(p)
             l == MinKeysOf(p)
             U == u[c]
             V == {y \in U : x <= y}
             d == MinKeys + 1
  <2> HIDE DEF p, x
  <2>1. \A j \in d + 1..d + l : p.keys[j] \in V
    <3>1. \A j \in d + 1..d + l : j \in 1..Len(p.keys) /\ j >= MinKeys + 1
      BY <1>4
    <3> QED BY <1>9, <3>1
  <2>2. ASSUME NEW j \in d + 1..d + l + 1, NEW y \in U, ~p.leaf /\ Between(p.keys, j, y)
        PROVE  y \in V
    <3>1. MinKeys + 1 < j
      BY <1>4, <2>2
    <3> QED BY <1>5, <2>2, <3>1 DEF Between
  <2>3. d \in Nat /\ l \in Nat /\ HalfOf(q, p, d, l) /\ PageOrdered(p, U, u)
    <3>1. d \in Nat /\ l \in Nat
      BY <1>4
    <3> QED BY <1>10, <1>11, <3>1, Zenon
  <2>4. qs[right] = q /\ v[right] = V
    BY <1>2, <1>6 DEF Divided
  <2> HIDE DEF q, l, U, V, d
  <2>5. \A j \in d + 1..d + l + 1 : \A y \in U : ~p.leaf /\ Between(p.keys, j, y) => y \in V
    BY <2>2
  <2>6. PageOrdered(q, V, v)
    BY <1>7, <1>11, <2>1, <2>3, <2>5, HalfOrdered, SMTT(30)
  <2> QED BY <2>4, <2>6
<1>14. ASSUME NEW m \in (1..N) \ {n, c} PROVE PageOrdered(qs[m], v[m], v)
  <2> DEFINE o == ps[m]
  <2>1. qs[m] = o /\ v[m] = u[m] /\ PageOrdered(o, u[m], u)
    BY <1>1, <1>2, <1>6
  <2>2. \A j \in 1..Len(o.cursors) : v[o.cursors[j]] = u[o.cursors[j]]
    <3>1. \A y \in Kids(o) : v[y] = u[y]
      BY <1>2, <1>3
    <3> QED BY <3>1 DEF Kids
  <2> HIDE DEF o
  <2> QED BY <2>1, <2>2 DEF PageOrdered
<1>15. \A m \in 1..right : m \in {n, c, right} \/ m \in (1..N) \ {n, c}
  OBVIOUS
<1>16. \A m \in 1..right : PageOrdered(qs[m], v[m], v)
  <2> HIDE DEF right, N
  <2> QED BY <1>8, <1>12, <1>13, <1>14, <1>15
<1>17. Ordered(qs, v)
  BY <1>2, <1>6, <1>16 DEF Ordered
<1> QED BY <1>17 DEF v

\* A new root takes over the keys of the old one.
LEMMA NewRootOrdered ==
    ASSUME NEW ps, NEW qs, Len(ps) \in Nat, Len(qs) = Len(ps) + 1, NEW r \in 1..Len(ps),
           \A m \in 1..Len(ps) : qs[m] = ps[m], IsNewRoot(qs[Len(qs)], r, Len(ps)),
           \A m \in 1..Len(ps) : Kids(ps[m]) \subseteq 1..Len(ps),
           NEW u, Ordered(ps, u)
    PROVE  Ordered(qs, [m \in 1..Len(qs) |-> IF m = Len(qs) THEN u[r] ELSE u[m]])
<1> DEFINE N == Len(ps)
           root == Len(qs)
           v == [m \in 1..root |-> IF m = root THEN u[r] ELSE u[m]]
           e == qs[root]
<1>1. u \in [1..N -> SUBSET Int] /\ \A m \in 1..N : PageOrdered(ps[m], u[m], u)
  BY DEF Ordered
<1>2. /\ \A m \in 1..root : m = root \/ m \in 1..N
      /\ root \in 1..root /\ \A m \in 1..N : m \in 1..root /\ m # root
  OBVIOUS
<1>3. /\ v \in [1..root -> SUBSET Int] /\ v[root] = u[r] /\ \A m \in 1..N : v[m] = u[m]
  <2> HIDE DEF N, root
  <2> QED BY <1>1, <1>2 DEF N
<1> HIDE DEF v
<1>4. PageOrdered(e, v[root], v)
  <2>1. Len(e.keys) = 0 /\ Len(e.cursors) = 1 /\ e.cursors[1] = r
    BY DEF IsNewRoot
  <2>2. v[r] = u[r]
    BY <1>3
  <2> HIDE DEF e
  <2>3. Ascending(e.keys) /\ \A i, x : Between(e.keys, i, x)
    BY <2>1 DEF Ascending, Between
  <2> QED BY <1>3, <2>1, <2>2, <2>3 DEF PageOrdered
<1>5. ASSUME NEW m \in 1..N PROVE PageOrdered(qs[m], v[m], v)
  <2> DEFINE p == ps[m]
  <2>1. \A j \in 1..Len(p.cursors) : v[p.cursors[j]] = u[p.cursors[j]]
    BY <1>3 DEF Kids
  <2>2. PageOrdered(p, u[m], u) /\ qs[m] = p /\ v[m] = u[m]
    BY <1>1, <1>3
  <2> HIDE DEF p
  <2> QED BY <2>1, <2>2 DEF PageOrdered
<1>6. \A m \in 1..root : PageOrdered(qs[m], v[m], v)
  <2> HIDE DEF N, root
  <2> QED BY <1>2, <1>4, <1>5
<1>7. Ordered(qs, v)
  BY <1>3, <1>6 DEF Ordered
<1> QED BY <1>7 DEF v

\* A leaf with a key more.
LEMMA LeafOrdered ==
    ASSUME NEW p \in Page, NEW U \in SUBSET Int, NEW u, PageOrdered(p, U, u),
           Len(p.cursors) = 0, NEW x \in U, NEW i, i = AfterLastNotGreater(p.keys, x)
    PROVE  PageOrdered([p EXCEPT !.keys = InsertAt(p.keys, i, x)], U, u)
<1> DEFINE s == p.keys
           t == InsertAt(s, i, x)
           q == [p EXCEPT !.keys = t]
<1>1. s \in Seq(Keys) /\ s \in Seq(Int) /\ x \in Int /\ Ascending(s)
  <2>1. s \in Seq(Keys) /\ Keys \subseteq Int
    BY KeysAssumption DEF Page
  <2> QED BY <2>1, SeqMonotonic DEF PageOrdered
<1>2. i \in 1..Len(s) + 1
  BY <1>1, AfterLastNotGreaterRange
<1>3. q.keys = t /\ q.cursors = p.cursors
  BY DEF Page
<1>4. Len(s) \in Nat /\ \A j \in 1..Len(s) : s[j] \in U
  BY <1>1, LenProperties DEF PageOrdered
<1> HIDE DEF s
<1>5. Between(s, i, x)
  BY <1>1, ScanStopsBetween DEF s
<1>6. Ascending(t)
  BY <1>1, <1>2, <1>5, InsertAscends
<1>7. Inserted(t, s, i, x)
  BY <1>1, <1>2, InsertAtInserts
<1> HIDE DEF t, q
<1>8. \A j \in 1..Len(t) : t[j] \in U
  <2>1. Len(t) = Len(s) + 1
    BY <1>7 DEF Inserted
  <2> TAKE j \in 1..Len(t)
  <2>2. CASE j \in 1..i - 1
    <3>1. j \in 1..Len(s)
      BY <1>2, <1>4, <2>2
    <3> QED BY <1>4, <1>7, <2>2, <3>1 DEF Inserted
  <2>3. CASE j = i
    BY <1>7, <2>3 DEF Inserted
  <2>4. CASE j \in i + 1..Len(s) + 1
    <3>1. j - 1 \in 1..Len(s)
      BY <1>2, <1>4, <2>4
    <3> QED BY <1>4, <1>7, <2>4, <3>1 DEF Inserted
  <2> QED BY <1>2, <1>4, <2>1, <2>2, <2>3, <2>4
<1>9. PageOrdered(q, U, u)
  BY <1>3, <1>6, <1>8 DEF PageOrdered
<1> QED BY <1>9 DEF q, t, s

-------------------------------------------------------------------------------
(* The inductive invariant. *)

\* The key on its way down may go below the page it has reached.
OrderInv ==
    \E u : Ordered(pages, u) /\ (fn = "insertNonFull" => k \in u[PageNum(at)])

\* createTree() starts with nothing below the root.
LEMMA InitOrder == Init => OrderInv
<1> SUFFICES ASSUME Init PROVE OrderInv
  OBVIOUS
<1> DEFINE u == [n \in 1..1 |-> {}]
           p == pages[1]
<1>1. Len(pages) = 1 /\ Len(p.keys) = 0 /\ Len(p.cursors) = 0 /\ fn = "idle"
  BY DEF Init
<1> HIDE DEF p
<1>2. PageOrdered(p, u[1], u)
  BY <1>1 DEF PageOrdered, Ascending
<1>3. Ordered(pages, u)
  <2>1. \A n \in 1..1 : n = 1
    OBVIOUS
  <2>2. u \in [1..1 -> SUBSET Int]
    OBVIOUS
  <2> HIDE DEF u
  <2> QED BY <1>1, <1>2, <2>1, <2>2 DEF Ordered, p
<1> QED BY <1>1, <1>3 DEF OrderInv

\* Steps that write no page and insert no key.
LEMMA QuietKeepsOrder ==
    ASSUME OrderInv, UNCHANGED pages, fn' # "insertNonFull"
    PROVE  OrderInv'
<1>1. PICK u : Ordered(pages, u)
  BY DEF OrderInv
<1> QED BY <1>1 DEF OrderInv

\* The facts about the pages that the steps below use.
LEMMA TreeFacts ==
    ASSUME ShapeInv
    PROVE  /\ Len(pages) \in Nat /\ rootPageNum \in 1..Len(pages) /\ pages \in Seq(Page)
           /\ \A m \in 1..Len(pages) : /\ Shaped(pages[m], 1..Len(pages))
                                       /\ Kids(pages[m]) \subseteq (1..Len(pages)) \ {rootPageNum}
                                       /\ pages[m] \in Page
           /\ Owned(pages, rootPageNum)
<1>1. Len(pages) \in Nat /\ rootPageNum \in 1..Len(pages) /\ pages \in Seq(Page)
  BY LenProperties DEF ShapeInv, InsertInv, TypeOK
<1>2. Owned(pages, rootPageNum)
  BY DEF ShapeInv, TreeInv
<1>3. \A m \in 1..Len(pages) : Shaped(pages[m], 1..Len(pages)) /\ pages[m] \in Page
  BY PagesShaped DEF ShapeInv, Shaped
<1>4. ASSUME NEW m \in 1..Len(pages), NEW j \in 1..Len(pages[m].cursors)
      PROVE  pages[m].cursors[j] \in (1..Len(pages)) \ {rootPageNum}
  <2> DEFINE S == (1..Len(pages)) \ {rootPageNum, m}
             s == pages[m].cursors
  <2>1. s \in Seq(S)
    BY DEF ShapeInv, InsertInv, PagesOK, PageOK, Shaped
  <2>2. s[j] \in S
    <3> HIDE DEF S, s
    <3>1. j \in 1..Len(s)
      BY <1>4 DEF s
    <3> QED BY <2>1, <3>1, ElementOfSeq
  <2> QED BY <2>2
<1>5. \A m \in 1..Len(pages) : Kids(pages[m]) \subseteq (1..Len(pages)) \ {rootPageNum}
  BY <1>4 DEF Kids
<1> QED BY <1>1, <1>2, <1>3, <1>5

\* insert() may put any key below the root.
LEMMA RootTakesKey ==
    ASSUME ShapeInv, NEW x \in Int, NEW u, Ordered(pages, u)
    PROVE  Ordered(pages, [u EXCEPT ![rootPageNum] = @ \cup {x}])
<1> DEFINE r == rootPageNum
<1>1. /\ r \in 1..Len(pages)
      /\ \A m \in 1..Len(pages) : Kids(pages[m]) \subseteq 1..Len(pages) /\ r \notin Kids(pages[m])
  BY TreeFacts
<1>2. \A m \in 1..Len(pages) : \A j \in 1..Len(pages[m].cursors) : pages[m].cursors[j] # r
  BY <1>1 DEF Kids
<1> HIDE DEF r
<1>3. Ordered(pages, [u EXCEPT ![r] = @ \cup {x}])
  BY <1>1, <1>2, WidenOrdered
<1> QED BY <1>3 DEF r

\* The child to which insertNonFull() goes on may take the key.
LEMMA ChildTakesKey ==
    ASSUME ShapeInv, NEW n \in 1..Len(pages), NEW u, Ordered(pages, u), NEW x \in u[n],
           NEW i, i = AfterLastNotGreater(pages[n].keys, x), ~pages[n].leaf,
           NEW c, c = pages[n].cursors[i]
    PROVE  /\ i \in 1..Len(pages[n].keys) + 1 /\ c \in Kids(pages[n])
           /\ Ordered(pages, [u EXCEPT ![c] = @ \cup {x}])
<1> DEFINE p == pages[n]
           N == Len(pages)
<1>1. /\ p.keys \in Seq(Keys) /\ p.keys \in Seq(Int) /\ Len(p.cursors) = Len(p.keys) + 1
      /\ Len(p.keys) \in Nat
  BY TreeFacts, ShapedTypes, LenProperties DEF Shaped
<1>2. x \in Int /\ Ascending(p.keys)
  BY DEF Ordered, PageOrdered
<1>3. i \in 1..Len(p.keys) + 1
  BY <1>1, AfterLastNotGreaterRange
<1>4. Between(p.keys, i, x)
  BY <1>1, <1>2, ScanStopsBetween
<1>5. c \in Kids(p)
  BY <1>1, <1>3 DEF Kids
<1>6. /\ c \in 1..N /\ \A m \in 1..N : Kids(pages[m]) \subseteq 1..N
      /\ \A m \in 1..N : c \in Kids(pages[m]) => m = n
      /\ OneCursorEach(p)
  BY <1>5, TreeFacts DEF Owned
<1>7. \A m \in 1..N : \A j \in 1..Len(pages[m].cursors) :
         pages[m].cursors[j] = c => x \in u[m] /\ Between(pages[m].keys, j, x)
  <2> SUFFICES ASSUME NEW m \in 1..N, NEW j \in 1..Len(pages[m].cursors),
                      pages[m].cursors[j] = c
               PROVE  x \in u[m] /\ Between(pages[m].keys, j, x)
    OBVIOUS
  <2>1. m = n
    BY <1>6 DEF Kids
  <2>2. j = i
    BY <1>1, <1>3, <1>6, <2>1 DEF OneCursorEach
  <2> QED BY <1>4, <2>1, <2>2
<1>8. Ordered(pages, [u EXCEPT ![c] = @ \cup {x}])
  BY <1>2, <1>6, <1>7, WidenOrdered
<1> QED BY <1>3, <1>5, <1>8

\* A key that has reached its leaf.
LEMMA LeafKeepsOrder ==
    ASSUME ShapeInv, OrderInv, fn = "insertNonFull", InsertIntoLeaf
    PROVE  OrderInv'
<1> DEFINE n == PageNum(at)
           p == pages[n]
           i == AfterLastNotGreater(p.keys, k)
           q == [p EXCEPT !.keys = InsertAt(p.keys, i, k)]
           qs == pages'
<1>1. PICK u : Ordered(pages, u) /\ k \in u[n]
  BY DEF OrderInv
<1>2. Data(at) = p /\ n \in 1..Len(pages)
  BY DataOnDisk DEF ShapeInv
<1>3. qs = [pages EXCEPT ![n] = q] /\ p.leaf /\ fn' = "idle"
  BY <1>2 DEF InsertIntoLeaf, Write, Return
<1>4. p \in Page /\ Len(p.cursors) = 0 /\ pages \in Seq(Page) /\ Len(pages) \in Nat
  BY <1>2, <1>3, TreeFacts DEF Shaped
<1>5. u[n] \in SUBSET Int /\ PageOrdered(p, u[n], u)
  BY <1>1, <1>2 DEF Ordered
<1>6. PageOrdered(q, u[n], u)
  <2> DEFINE U == u[n]
             j == i
  <2>1. U \in SUBSET Int /\ PageOrdered(p, U, u) /\ k \in U /\ j = AfterLastNotGreater(p.keys, k)
    BY <1>1, <1>5
  <2> HIDE DEF U, n, j
  <2>2. PageOrdered([p EXCEPT !.keys = InsertAt(p.keys, j, k)], U, u)
    <3> HIDE DEF p
    <3> QED BY <1>4, <2>1, LeafOrdered
  <2> QED BY <2>2 DEF U, j
<1> HIDE DEF q, n
<1>7. Len(qs) = Len(pages) /\ qs[n] = q /\ \A m \in 1..Len(pages) : m # n => qs[m] = pages[m]
  BY <1>2, <1>3, <1>4
<1> HIDE DEF qs
<1>8. Ordered(qs, u)
  BY <1>1, <1>6, <1>7 DEF Ordered
<1> QED BY <1>3, <1>8 DEF OrderInv, qs

\* The way down to a child that is not full.
LEMMA DescendKeepsOrder ==
    ASSUME ShapeInv, OrderInv, fn = "insertNonFull", Descend
    PROVE  OrderInv'
<1> DEFINE n == PageNum(at)
           i == AfterLastNotGreater(pages[n].keys, k)
           c == pages[n].cursors[i]
<1>1. PICK u : Ordered(pages, u) /\ k \in u[n]
  BY DEF OrderInv
<1>2. Data(at) = pages[n] /\ n \in 1..Len(pages)
  BY DataOnDisk DEF ShapeInv
<1>3. /\ ~pages[n].leaf /\ at' = c /\ pages' = pages /\ k' = k /\ rootPageNum' = rootPageNum
  BY <1>2 DEF Descend, Continue, treeVars
<1>4. i = AfterLastNotGreater(pages[n].keys, k) /\ c = pages[n].cursors[i]
  OBVIOUS
<1> HIDE DEF n, i, c
<1> DEFINE v == [u EXCEPT ![c] = @ \cup {k}]
<1>5. c \in Kids(pages[n]) /\ Ordered(pages, v)
  BY <1>1, <1>2, <1>3, <1>4, ChildTakesKey
<1>6. c \in (1..Len(pages)) /\ c # 0
  BY <1>2, <1>5, TreeFacts
<1>7. k \in v[c]
  BY <1>1, <1>6 DEF Ordered
<1>8. PageNum(at)' = c
  BY <1>3, <1>6 DEF PageNum, RootWrapper
<1> HIDE DEF v
<1> QED BY <1>3, <1>5, <1>7, <1>8 DEF OrderInv

\* The way down to one half of a full child.
LEMMA SplitDescentKeepsOrder ==
    ASSUME ShapeInv, OrderInv, fn = "insertNonFull", SplitAndDescend
    PROVE  OrderInv'
<1> DEFINE n == PageNum(at)
           i == AfterLastNotGreater(pages[n].keys, k)
           c == pages[n].cursors[i]
           right == Len(pages) + 1
           x == Median(pages[c])
           qs == pages'
<1>1. PICK u : Ordered(pages, u) /\ k \in u[n]
  BY DEF OrderInv
<1>2. /\ n \in 1..Len(pages) /\ ~pages[n].leaf /\ i \in 1..Len(pages[n].keys) + 1
      /\ c \in (1..Len(pages)) \ {rootPageNum, n} /\ isFull(pages[c])
      /\ Written(pages, qs, n, c, SplitParent(pages[n], i, pages[c], Len(pages) + 1),
                 SplitLeft(pages[c]), SplitRight(pages[c]))
  BY DescentWrites DEF ShapeInv
<1>3. /\ at' = IF x < k THEN right ELSE c
      /\ k' = k /\ rootPageNum' = rootPageNum
  <2>1. Data(at) = pages[n] /\ freePages = <<>>
    BY DataOnDisk DEF ShapeInv, InsertInv
  <2>2. AllocPage(1) = right
    BY <2>1 DEF AllocPage
  <2> QED BY <2>1, <2>2 DEF SplitAndDescend, Continue
<1>4. i = AfterLastNotGreater(pages[n].keys, k) /\ c = pages[n].cursors[i]
  OBVIOUS
<1> HIDE DEF n, i, c, qs
<1> DEFINE w == [u EXCEPT ![c] = @ \cup {k}]
           v == Halved(w, c, right, x)
<1>5. Ordered(pages, w)
  BY <1>1, <1>2, <1>4, ChildTakesKey
<1>6. k \in w[c] /\ k \in Int
  BY <1>1, <1>2 DEF Ordered
<1>7. w[c] \in SUBSET Int /\ x \in Int
  <2>1. w[c] \in SUBSET Int /\ PageOrdered(pages[c], w[c], w)
    BY <1>2, <1>5 DEF Ordered
  <2>2. pages[c] \in Page /\ Len(pages[c].keys) = MaxKeysOf(pages[c])
    BY <1>2, TreeFacts DEF isFull
  <2>3. MinKeys + 1 \in 1..Len(pages[c].keys)
    BY <2>2, KeyBounds
  <2>4. x \in w[c]
    BY <2>1, <2>3 DEF PageOrdered, Median
  <2> QED BY <2>1, <2>4
<1>8. Ordered(qs, v)
  <2> HIDE DEF w
  <2>1. /\ Len(pages) \in Nat /\ c \in 1..Len(pages) /\ n # c
        /\ AllShaped(pages) /\ Owned(pages, rootPageNum)
    BY <1>2, TreeFacts DEF AllShaped
  <2>3. SplitsChild(pages, qs, n, i, c)
    BY <1>2, <1>4, <2>1 DEF SplitsChild
  <2>2. Ordered(qs, Halved(w, c, Len(pages) + 1, Median(pages[c])))
    BY ONLY <1>5, <2>1, <2>3, SplitKeepsOrder, ZenonT(30)
  <2> QED BY <2>2
<1>9. /\ right \in 1..right /\ c \in 1..right /\ right # c /\ c # 0 /\ right # 0
  BY <1>2, TreeFacts
<1> HIDE DEF w, x, right
<1>10. v[c] = {y \in w[c] : y <= x} /\ v[right] = {y \in w[c] : x <= y}
  BY <1>9 DEF Halved
<1> HIDE DEF v
<1>11. PageNum(at)' = IF x < k THEN right ELSE c
  BY <1>3, <1>9 DEF PageNum, RootWrapper
<1>12. k \in v[PageNum(at)']
  <2>1. CASE x < k
    BY <1>6, <1>7, <1>10, <1>11, <2>1
  <2>2. CASE ~(x < k)
    BY <1>6, <1>7, <1>10, <1>11, <2>2
  <2> QED BY <2>1, <2>2
<1> QED BY <1>3, <1>8, <1>12 DEF OrderInv, qs

\* The call of insert() when the root is not full.
LEMMA CallKeepsOrder ==
    ASSUME ShapeInv, OrderInv, NEW x \in Keys, Insert(x), UNCHANGED treeVars
    PROVE  OrderInv'
<1>1. PICK u : Ordered(pages, u)
  BY DEF OrderInv
<1>2. pages' = pages /\ rootPageNum' = rootPageNum /\ k' = x /\ at' = 0
  BY DEF Insert, Call, treeVars, RootWrapper
<1> DEFINE v == [u EXCEPT ![rootPageNum] = @ \cup {x}]
<1>3. Ordered(pages, v)
  BY <1>1, KeysAssumption, RootTakesKey
<1>4. x \in v[rootPageNum]
  BY <1>1, TreeFacts DEF Ordered
<1>5. PageNum(at)' = rootPageNum
  BY <1>2 DEF PageNum, RootWrapper
<1> HIDE DEF v
<1> QED BY <1>2, <1>3, <1>4, <1>5 DEF OrderInv

\* The call of insert() when the root is full.
LEMMA GrowthKeepsOrder ==
    ASSUME ShapeInv, OrderInv, NEW x \in Keys, Insert(x), GrowRoot
    PROVE  OrderInv'
<1> DEFINE r == rootPageNum
           N == Len(pages)
           root == N + 1
           ps == Append(pages, NewRoot(rootPageNum))
           qs == pages'
<1>0. PICK u : Ordered(pages, u)
  BY DEF OrderInv
<1>1. Grows(ps, qs, r, root) /\ rootPageNum' = root
  <2>1. r = rootPageNum /\ root = Len(pages) + 1 /\ ps = Append(pages, NewRoot(rootPageNum))
    OBVIOUS
  <2> HIDE DEF r, root, ps
  <2> QED BY <2>1, GrowthWrites DEF ShapeInv
<1>2. Owned(ps, Len(ps))
  <2>1. ps = Append(pages, NewRoot(rootPageNum))
    OBVIOUS
  <2> HIDE DEF ps
  <2> QED BY <2>1, GrowthKeepsTree DEF ShapeInv
<1>3. k' = x /\ at' = 0 /\ x \in Int
  BY KeysAssumption DEF Insert, Call, RootWrapper
<1>4. N \in Nat /\ r \in 1..N /\ root = N + 1
  BY TreeFacts
<1> DEFINE w == [u EXCEPT ![r] = @ \cup {x}]
           v == [m \in 1..Len(ps) |-> IF m = Len(ps) THEN w[r] ELSE w[m]]
<1>5. Ordered(pages, w) /\ x \in w[r]
  <2>1. Ordered(pages, w)
    BY <1>0, <1>3, RootTakesKey
  <2>2. u \in [1..N -> SUBSET Int]
    BY <1>0 DEF Ordered
  <2> QED BY <1>4, <2>1, <2>2
<1>6. /\ \A m \in 1..N : Shaped(pages[m], 1..N) /\ Kids(pages[m]) \subseteq 1..N
  BY TreeFacts
<1> HIDE DEF r, root, ps, qs, w, N
<1>7. /\ Len(ps) = root /\ ps[root] = NewRoot(r)
      /\ \A m \in 1..N : ps[m] = pages[m]
      /\ isFull(ps[r])
      /\ Written(ps, qs, root, r, SplitParent(ps[root], 1, ps[r], root + 1),
                 SplitLeft(ps[r]), SplitRight(ps[r]))
  BY <1>1 DEF Grows, N
<1>8. IsNewRoot(ps[root], r, N)
  BY <1>4, <1>7, NewRootShaped
<1>9. Ordered(ps, v)
  <2>1. /\ Len(pages) \in Nat /\ Len(ps) = Len(pages) + 1 /\ r \in 1..Len(pages)
        /\ \A m \in 1..Len(pages) : ps[m] = pages[m]
        /\ IsNewRoot(ps[Len(ps)], r, Len(pages))
        /\ \A m \in 1..Len(pages) : Kids(pages[m]) \subseteq 1..Len(pages)
    BY <1>4, <1>6, <1>7, <1>8 DEF N
  <2> QED BY ONLY <1>5, <2>1, NewRootOrdered, SMTT(30)
<1>10. v[root] = w[r]
  BY <1>4, <1>7
<1> HIDE DEF v
<1>11. \A m \in 1..Len(ps) : Shaped(ps[m], 1..Len(ps))
  <2> SUFFICES ASSUME NEW m \in 1..root PROVE Shaped(ps[m], 1..root)
    BY <1>7
  <2> DEFINE S == 1..N
             T == 1..root
             p == ps[m]
  <2>1. m = root \/ m \in 1..N
    BY <1>4
  <2>2. Shaped(p, S)
    BY <1>6, <1>7, <1>8, <2>1 DEF IsNewRoot
  <2>3. S \subseteq T
    BY <1>4
  <2> HIDE DEF S, T, p
  <2>4. Shaped(p, T)
    BY <2>2, <2>3, ShapedMonotonic
  <2> QED BY <2>4 DEF p, T
<1> DEFINE y == Median(ps[r])
           z == Halved(v, r, Len(ps) + 1, y)
<1>12. Ordered(qs, z)
  <2>1. /\ Len(ps) \in Nat /\ root \in 1..Len(ps) /\ r \in 1..Len(ps) /\ root # r
        /\ 1 \in 1..Len(ps[root].keys) + 1 /\ r = ps[root].cursors[1] /\ ~ps[root].leaf
    BY <1>4, <1>7, <1>8 DEF IsNewRoot
  <2>2. Written(ps, qs, root, r, SplitParent(ps[root], 1, ps[r], Len(ps) + 1),
                SplitLeft(ps[r]), SplitRight(ps[r])) /\ isFull(ps[r])
    BY <1>7
  <2>3. SplitsChild(ps, qs, root, 1, r) /\ AllShaped(ps)
    BY <1>11, <2>1, <2>2 DEF SplitsChild, AllShaped
  <2> QED BY ONLY <1>2, <1>9, <2>3, SplitKeepsOrder, ZenonT(30)
<1>13. z[root] = v[root]
  <2>1. root \in 1..Len(ps) + 1 /\ root # r /\ root # Len(ps) + 1
    BY <1>4, <1>7
  <2> HIDE DEF y
  <2> QED BY <2>1 DEF Halved
<1> HIDE DEF z
<1>14. PageNum(at)' = root
  BY <1>1, <1>3 DEF PageNum, RootWrapper
<1> QED BY <1>3, <1>5, <1>10, <1>12, <1>13, <1>14 DEF OrderInv, qs

\* Every step keeps the keys in order.
LEMMA OrderStep == ShapeInv /\ OrderInv /\ [BaseNext]_vars => OrderInv'
<1> SUFFICES ASSUME ShapeInv, OrderInv, [BaseNext]_vars PROVE OrderInv'
  OBVIOUS
<1>1. ASSUME NEW x \in Keys, Insert(x) PROVE OrderInv'
  <2>1. CASE GrowRoot
    BY <1>1, <2>1, GrowthKeepsOrder
  <2>2. CASE UNCHANGED treeVars
    BY <1>1, <2>2, CallKeepsOrder
  <2> QED BY <1>1, <2>1, <2>2 DEF Insert
<1>2. ASSUME NEW x \in Keys, Search(x) \/ SearchAll(x) PROVE OrderInv'
  BY <1>2, QuietKeepsOrder DEF Search, SearchAll, Call, treeVars
<1>3. CASE insertNonFull
  BY <1>3, LeafKeepsOrder, DescendKeepsOrder, SplitDescentKeepsOrder DEF insertNonFull
<1>4. CASE search
  BY <1>4, QuietKeepsOrder DEF search, Return, Continue, treeVars
<1>5. CASE searchAll
  BY <1>5, QuietKeepsOrder DEF searchAll, Return, treeVars
<1>6. CASE LoadTree
  BY <1>6, QuietKeepsOrder DEF LoadTree, callVars
<1>7. CASE UNCHANGED vars
  BY <1>7 DEF vars, treeVars, callVars, OrderInv, PageNum
<1> QED BY <1>1, <1>2, <1>3, <1>4, <1>5, <1>6, <1>7 DEF BaseNext, BaseCall, BaseStep

-------------------------------------------------------------------------------
(* The walk through the pages. *)

\* The keys of the subtree of page p, when f[d - 1] gives those of the others.
FlatPage(p, f, d) ==
    IF p.leaf \/ d = 0 THEN p.keys
    ELSE FlattenSeq([j \in 1..2 * Len(p.keys) + 1 |->
                        IF j % 2 = 0 THEN <<p.keys[j \div 2]>>
                        ELSE f[d - 1][p.cursors[(j + 1) \div 2]]])

\* The places of the walk alternate between cursors and keys.
LEMMA HalfPositions ==
    ASSUME NEW L \in Nat, NEW j \in 1..2 * L + 1
    PROVE  \/ j % 2 = 0 /\ \E a \in 1..L : j \div 2 = a /\ j = 2 * a
           \/ j % 2 = 1 /\ \E b \in 1..L + 1 : (j + 1) \div 2 = b /\ j = 2 * b - 1
<1>1. CASE j % 2 = 0
  <2>1. j \div 2 \in 1..L /\ j = 2 * (j \div 2)
    BY <1>1
  <2> QED BY <1>1, <2>1
<1>2. CASE j % 2 # 0
  <2>1. j % 2 = 1 /\ (j + 1) \div 2 \in 1..L + 1 /\ j = 2 * ((j + 1) \div 2) - 1
    BY <1>2
  <2> QED BY <2>1
<1> QED BY <1>1, <1>2

\* They depend on the subtrees of the children only.
LEMMA FlatPageSame ==
    ASSUME NEW S, NEW p, Shaped(p, S), NEW f, NEW g, NEW d,
           d # 0 => \A m \in S : f[d - 1][m] = g[d - 1][m]
    PROVE  FlatPage(p, f, d) = FlatPage(p, g, d)
<1> DEFINE L == Len(p.keys)
           a == [j \in 1..2 * L + 1 |-> IF j % 2 = 0 THEN <<p.keys[j \div 2]>>
                        ELSE f[d - 1][p.cursors[(j + 1) \div 2]]]
           b == [j \in 1..2 * L + 1 |-> IF j % 2 = 0 THEN <<p.keys[j \div 2]>>
                        ELSE g[d - 1][p.cursors[(j + 1) \div 2]]]
<1> SUFFICES ASSUME ~p.leaf, d # 0 PROVE a = b
  BY DEF FlatPage
<1>1. L \in Nat
  BY ShapedTypes, LenProperties
<1>2. \A l \in 1..L + 1 : f[d - 1][p.cursors[l]] = g[d - 1][p.cursors[l]]
  <2>1. \A l \in 1..L + 1 : p.cursors[l] \in S
    BY ElementOfSeq DEF Shaped
  <2> QED BY <2>1
<1>3. ASSUME NEW j \in 1..2 * L + 1 PROVE a[j] = b[j]
  <2>1. CASE j % 2 = 0
    BY <2>1
  <2>2. CASE j % 2 = 1
    <3>1. (j + 1) \div 2 \in 1..L + 1
      BY <1>1, <2>2
    <3> QED BY <1>2, <2>2, <3>1
  <2> QED BY <1>1, <2>1, <2>2, HalfPositions
<1> QED BY <1>3

\* The recursion of KeysBelow() has a solution.
LEMMA FlatRecursion ==
    ASSUME NEW N \in Nat, Len(pages) = N, \A m \in 1..N : Shaped(pages[m], 1..N)
    PROVE  \E f : /\ \A top \in 1..N : KeysBelow(top) = f[N][top]
                  /\ \A d \in 0..N, n \in 1..N : f[d][n] = FlatPage(pages[n], f, d)
<1> DEFINE Level(f, d) == [n \in 1..N |-> FlatPage(pages[n], f, d)]
           Sol(f, m) == f = [d \in 0..m |-> Level(f, d)]
<1>1. ASSUME NEW f, NEW m \in 0..N, Sol(f, m), NEW d \in 0..m PROVE f[d] = Level(f, d)
  <2> HIDE DEF Level
  <2> DEFINE F == [e \in 0..m |-> Level(f, e)]
  <2>1. f = F
    BY <1>1
  <2>2. F[d] = Level(f, d)
    OBVIOUS
  <2> HIDE DEF F
  <2> QED BY <2>1, <2>2
<1>2. ASSUME NEW f, NEW g, NEW d \in 0..N, d # 0 => f[d - 1] = g[d - 1]
      PROVE  Level(f, d) = Level(g, d)
  <2>1. ASSUME NEW n \in 1..N PROVE FlatPage(pages[n], f, d) = FlatPage(pages[n], g, d)
    BY <1>2, FlatPageSame
  <2> QED BY <2>1
<1>3. \A m \in 0..N : \E f : Sol(f, m)
  <2> DEFINE Solvable(m) == \E f : Sol(f, m)
             T == {m \in 0..N : ~Solvable(m)}
  <2>0. \A m \in 0..N : Solvable(m) => \E f : Sol(f, m)
    OBVIOUS
  <2> HIDE DEF Solvable, Sol, Level
  <2> SUFFICES ASSUME T # {} PROVE FALSE
    BY <2>0
  <2>1. PICK m \in T : \A e \in T : m <= e
    <3>1. T \subseteq Nat
      OBVIOUS
    <3> HIDE DEF T
    <3> QED BY <3>1, LeastNumber
  <2>2. m \in 0..N /\ ~Solvable(m)
    BY <2>1
  <2>3. ASSUME NEW f, m = 0 \/ Sol(f, m - 1) PROVE FALSE
    <3> DEFINE g == [d \in 0..m |-> IF d = m THEN Level(f, d) ELSE f[d]]
    <3>1. ASSUME NEW d \in 0..m PROVE g[d] = Level(g, d)
      <4>1. d \in 0..N
        BY <2>2
      <4>2. g[d] = Level(f, d)
        <5>1. CASE d = m
          BY <5>1
        <5>2. CASE d # m
          <6>1. d \in 0..m - 1 /\ m - 1 \in 0..N /\ m # 0
            BY <2>2, <5>2
          <6>2. f[d] = Level(f, d)
            BY <1>1, <2>3, <6>1
          <6> QED BY <5>2, <6>2
        <5> QED BY <5>1, <5>2
      <4>3. d # 0 => f[d - 1] = g[d - 1]
        <5>1. d # 0 => d - 1 \in 0..m /\ d - 1 # m
          BY <2>2
        <5> QED BY <5>1
      <4> HIDE DEF g
      <4> QED BY <1>2, <4>1, <4>2, <4>3
    <3>2. g = [d \in 0..m |-> g[d]]
      OBVIOUS
    <3> HIDE DEF g
    <3>3. Sol(g, m)
      BY <3>1, <3>2 DEF Sol
    <3> QED BY <2>2, <3>3 DEF Solvable
  <2>4. m # 0
    BY <2>3
  <2>5. m - 1 \in 0..N /\ m - 1 \notin T
    BY <2>1, <2>2, <2>4
  <2>6. Solvable(m - 1)
    BY <2>5
  <2> QED BY <2>3, <2>6 DEF Solvable
<1> DEFINE f == CHOOSE x : Sol(x, N)
<1>4. Sol(f, N)
  <2> HIDE DEF Sol
  <2>1. \E x : Sol(x, N)
    BY <1>3
  <2> QED BY <2>1
<1>5. \A top \in 1..N : KeysBelow(top) = f[N][top]
  BY DEF KeysBelow, FlatPage
<1> HIDE DEF f
<1>6. \A d \in 0..N : f[d] = Level(f, d)
  <2> HIDE DEF Sol, Level
  <2> QED BY <1>1, <1>4
<1>7. \A d \in 0..N, n \in 1..N : f[d][n] = FlatPage(pages[n], f, d)
  <2> TAKE d \in 0..N, n \in 1..N
  <2>1. f[d] = Level(f, d)
    BY <1>6
  <2>2. Level(f, d)[n] = FlatPage(pages[n], f, d)
    OBVIOUS
  <2> HIDE DEF Level
  <2> QED BY <2>1, <2>2
<1> QED BY <1>5, <1>7

\* The keys of the subtree of a page are in order and may go below the page.
LEMMA FlatOrdered ==
    ASSUME NEW S, NEW p, Shaped(p, S), NEW u, NEW U \in SUBSET Int, PageOrdered(p, U, u),
           NEW f, NEW d,
           d # 0 => \A m \in S : f[d - 1][m] \in Seq(u[m]) /\ Ascending(f[d - 1][m])
    PROVE  FlatPage(p, f, d) \in Seq(U) /\ Ascending(FlatPage(p, f, d))
<1> DEFINE s == p.keys
           cs == p.cursors
           L == Len(s)
           t == [j \in 1..2 * L + 1 |-> IF j % 2 = 0 THEN <<s[j \div 2]>>
                        ELSE f[d - 1][cs[(j + 1) \div 2]]]
<1>1. /\ L \in Nat /\ s \in Seq(Int) /\ s \in Seq(U) /\ Ascending(s)
      /\ \A j \in 1..L : s[j] \in U /\ s[j] \in Int
  <2>1. s \in Seq(Int) /\ L \in Nat
    BY ShapedTypes, LenProperties
  <2>2. \A j \in 1..L : s[j] \in U
    BY DEF PageOrdered
  <2>3. s \in Seq(U)
    BY <2>1, <2>2, LenProperties
  <2> QED BY <2>1, <2>2, <2>3 DEF PageOrdered
<1>2. CASE p.leaf \/ d = 0
  BY <1>1, <1>2 DEF FlatPage
<1>3. CASE ~p.leaf /\ d # 0
  <2>1. FlatPage(p, f, d) = FlattenSeq(t)
    BY <1>3 DEF FlatPage
  <2> DEFINE w(b) == f[d - 1][cs[b]]
  <2>2. \A b \in 1..L + 1 : w(b) \in Seq(u[cs[b]]) /\ Ascending(w(b)) /\ u[cs[b]] \subseteq U
    <3>1. \A b \in 1..L + 1 : cs[b] \in S /\ b \in 1..Len(cs)
      BY <1>3, ElementOfSeq DEF Shaped
    <3> QED BY <1>3, <3>1 DEF PageOrdered
  <2>3. \A b \in 1..L + 1 : w(b) \in Seq(U) /\ Len(w(b)) \in Nat
    <3> TAKE b \in 1..L + 1
    <3> DEFINE q == w(b)
               V == u[cs[b]]
    <3>1. q \in Seq(V) /\ V \subseteq U
      BY <2>2
    <3> HIDE DEF q, V
    <3>2. q \in Seq(U) /\ Len(q) \in Nat
      BY <3>1, SeqMonotonic, LenProperties
    <3> QED BY <3>2 DEF q
  <2>4. \A b \in 1..L + 1 : \A e \in 1..Len(w(b)) :
           w(b)[e] \in Int /\ \A a \in 1..L : (a < b => s[a] <= w(b)[e]) /\ (a >= b => w(b)[e] <= s[a])
    <3> SUFFICES ASSUME NEW b \in 1..L + 1, NEW e \in 1..Len(w(b))
                 PROVE  w(b)[e] \in Int /\ Between(s, b, w(b)[e])
      BY DEF Between
    <3>1. w(b)[e] \in u[cs[b]]
      <4> DEFINE q == w(b)
                 V == u[cs[b]]
      <4>1. q \in Seq(V) /\ e \in 1..Len(q)
        BY <2>2
      <4> HIDE DEF q, V
      <4>2. q[e] \in V
        BY <4>1, ElementOfSeq
      <4> QED BY <4>2 DEF q, V
    <3>2. b \in 1..Len(cs)
      BY <1>3 DEF Shaped
    <3> QED BY <3>1, <3>2 DEF PageOrdered
  \* Every place of t holds a key of the page or the keys below a cursor.
  <2>5. \A j \in 1..2 * L + 1 :
           \/ \E a \in 1..L : j = 2 * a /\ t[j] = <<s[a]>>
           \/ \E b \in 1..L + 1 : j = 2 * b - 1 /\ t[j] = w(b)
    <3> TAKE j \in 1..2 * L + 1
    <3>1. CASE j % 2 = 0
      <4>1. j \div 2 \in 1..L /\ j = 2 * (j \div 2)
        BY <1>1, <3>1
      <4> QED BY <3>1, <4>1
    <3>2. CASE j % 2 # 0
      <4>1. (j + 1) \div 2 \in 1..L + 1 /\ j = 2 * ((j + 1) \div 2) - 1
        BY <1>1, <3>2
      <4> QED BY <3>2, <4>1
    <3> QED BY <3>1, <3>2
  <2>6. \A a \in 1..L : <<s[a]>> \in Seq(U) /\ Len(<<s[a]>>) = 1 /\ <<s[a]>>[1] = s[a]
    BY <1>1
  <2>7. Len(t) = 2 * L + 1 /\ Len(t) \in Nat \ {0}
    BY <1>1
  <2> HIDE DEF t, w, s, L
  <2>8. \A j \in 1..Len(t) : t[j] \in Seq(U) /\ Ascending(t[j])
    <3> SUFFICES ASSUME NEW j \in 1..2 * L + 1 PROVE t[j] \in Seq(U) /\ Ascending(t[j])
      BY <2>7
    <3>1. ASSUME NEW a \in 1..L, t[j] = <<s[a]>> PROVE Ascending(t[j])
      BY <2>6, <3>1 DEF Ascending
    <3> QED BY <2>2, <2>3, <2>5, <2>6, <3>1
  <2>9. \A i, j \in 1..Len(t) : i < j => AtMost(t[i], t[j])
    <3> SUFFICES ASSUME NEW i \in 1..2 * L + 1, NEW j \in 1..2 * L + 1, i < j
                 PROVE  AtMost(t[i], t[j])
      BY <2>7
    <3>1. ASSUME NEW a \in 1..L, i = 2 * a, t[i] = <<s[a]>>,
                 NEW b \in 1..L, j = 2 * b, t[j] = <<s[b]>>
          PROVE  AtMost(t[i], t[j])
      <4>1. a < b
        BY <3>1
      <4>2. s[a] <= s[b]
        BY <1>1, <4>1 DEF Ascending, L
      <4> QED BY <2>6, <3>1, <4>2 DEF AtMost
    <3>2. ASSUME NEW a \in 1..L, i = 2 * a, t[i] = <<s[a]>>,
                 NEW b \in 1..L + 1, j = 2 * b - 1, t[j] = w(b)
          PROVE  AtMost(t[i], t[j])
      <4>1. a < b
        BY <3>2
      <4> QED BY <2>4, <2>6, <3>2, <4>1 DEF AtMost
    <3>3. ASSUME NEW a \in 1..L + 1, i = 2 * a - 1, t[i] = w(a),
                 NEW b \in 1..L, j = 2 * b, t[j] = <<s[b]>>
          PROVE  AtMost(t[i], t[j])
      <4>1. b >= a
        BY <3>3
      <4> QED BY <2>4, <2>6, <3>3, <4>1 DEF AtMost
    <3>4. ASSUME NEW a \in 1..L + 1, i = 2 * a - 1, t[i] = w(a),
                 NEW b \in 1..L + 1, j = 2 * b - 1, t[j] = w(b)
          PROVE  AtMost(t[i], t[j])
      <4>1. a \in 1..L /\ a < b /\ a >= a
        BY <1>1, <3>4
      <4>2. ASSUME NEW e \in 1..Len(w(a)), NEW g \in 1..Len(w(b)) PROVE w(a)[e] <= w(b)[g]
        <5>1. w(a)[e] \in Int /\ w(b)[g] \in Int /\ s[a] \in Int
          BY <1>1, <2>4, <4>1
        <5>2. w(a)[e] <= s[a] /\ s[a] <= w(b)[g]
          BY <2>4, <4>1
        <5> QED BY <5>1, <5>2
      <4> QED BY <3>4, <4>2 DEF AtMost
    <3> QED BY <2>5, <3>1, <3>2, <3>3, <3>4
  <2>10. FlattenSeq(t) \in Seq(U) /\ Ascending(FlattenSeq(t))
    BY <2>7, <2>8, <2>9, FlattenAscends
  <2> QED BY <2>1, <2>10
<1> QED BY <1>2, <1>3

\* Ordered pages are in order.
LEMMA OrderedKeys ==
    ASSUME ShapeInv, NEW u, Ordered(pages, u)
    PROVE  KeysInOrder
<1> DEFINE N == Len(pages)
<1>1. /\ N \in Nat /\ rootPageNum \in 1..N /\ \A m \in 1..N : Shaped(pages[m], 1..N)
  BY TreeFacts
<1>2. u \in [1..N -> SUBSET Int] /\ \A m \in 1..N : PageOrdered(pages[m], u[m], u)
  BY DEF Ordered
<1>3. PICK f : /\ \A top \in 1..N : KeysBelow(top) = f[N][top]
               /\ \A d \in 0..N, n \in 1..N : f[d][n] = FlatPage(pages[n], f, d)
  <2>1. Len(pages) = N
    OBVIOUS
  <2> HIDE DEF N
  <2> QED BY <1>1, <2>1, FlatRecursion
<1> DEFINE P(d) == \A n \in 1..N : f[d][n] \in Seq(u[n]) /\ Ascending(f[d][n])
           T == {d \in 0..N : ~P(d)}
<1>4. ASSUME NEW d \in 0..N, d # 0 => P(d - 1) PROVE P(d)
  <2> TAKE n \in 1..N
  <2> DEFINE S == 1..N
             p == pages[n]
             U == u[n]
  <2>1. /\ Shaped(p, S) /\ U \in SUBSET Int /\ PageOrdered(p, U, u)
        /\ d # 0 => \A m \in S : f[d - 1][m] \in Seq(u[m]) /\ Ascending(f[d - 1][m])
    BY <1>1, <1>2, <1>4
  <2>2. f[d][n] = FlatPage(p, f, d)
    BY <1>3
  <2> HIDE DEF S, p, U
  <2>3. FlatPage(p, f, d) \in Seq(U) /\ Ascending(FlatPage(p, f, d))
    BY <2>1, FlatOrdered
  <2> QED BY <2>2, <2>3 DEF U
<1>5. P(N)
  <2> HIDE DEF P
  <2>0. N \in 0..N
    BY <1>1
  <2> SUFFICES ASSUME T # {} PROVE FALSE
    BY <2>0
  <2>1. PICK d \in T : \A e \in T : d <= e
    <3>1. T \subseteq Nat
      OBVIOUS
    <3> HIDE DEF T
    <3> QED BY <3>1, LeastNumber
  <2>2. d \in 0..N /\ ~P(d)
    BY <2>1
  <2>3. d # 0 => d - 1 \in 0..N /\ d - 1 \notin T
    BY <1>1, <2>1, <2>2
  <2> QED BY <1>4, <2>2, <2>3
<1>6. InOrder \in Seq(u[rootPageNum]) /\ Ascending(InOrder)
  BY <1>1, <1>3, <1>5 DEF InOrder
<1>7. Len(InOrder) \in Nat
  BY <1>6, LenProperties
<1>8. \A i \in 1..Len(InOrder) - 1 : i \in 1..Len(InOrder) /\ i + 1 \in 1..Len(InOrder) /\ i < i + 1
  BY <1>7
<1> QED BY <1>6, <1>8 DEF KeysInOrder, Ascending

\* An in-order walk of the whole tree never descends, after every step of every
\* sequence of insertions, for every order, tree type and set of keys: the scan of
\* insertNonFull() stops where the key belongs, splitChild() moves the median up
\* between its halves, and neither leaves a key outside the bounds that the pages
\* above it set.
THEOREM InsertKeysInOrder == BaseSpec => []KeysInOrder
<1>1. Init => ShapeInv /\ OrderInv
  BY InitInv, InitTree, InitOrder DEF ShapeInv
<1>2. ShapeInv /\ OrderInv /\ [BaseNext]_vars => ShapeInv' /\ OrderInv'
  BY ShapeStep, OrderStep
<1>3. ShapeInv /\ OrderInv => KeysInOrder
  BY OrderedKeys DEF OrderInv
<1> QED BY <1>1, <1>2, <1>3, PTL DEF BaseSpec
===============================================================================
