------------------------------- MODULE TreeCore -------------------------------
(***************************************************************************)
(* What the four trees have in common: the pages, the root page kept in    *)
(* memory, the two searches and the insertion into a leaf.                 *)
(*                                                                         *)
(* Every recursive call of insertNonFull(), search() and searchAll() is    *)
(* one step.  The calls are in tail position (searchAll() keeps the pages  *)
(* it has yet to visit), so a step needs the page it works on and nothing  *)
(* else of its callers.  A page is worked on through a PageWrapper:        *)
(* wrapper 0 is BaseBTree::_rootPage, which lives as long as the tree;     *)
(* wrapper n > 0 is a local one that has just read page n.                 *)
(*                                                                         *)
(* Positions in a page count from 1: key i of the code is key i + 1 here.  *)
(* The pages come from the page store that FreePages specifies.            *)
(***************************************************************************)
EXTENDS Integers, FiniteSets, Sequences, SequencesExt

CONSTANTS TreeType,      \* the BaseBTree::TreeType
          Order,         \* BaseBTree::_order
          Keys,          \* the keys in use, compared as integers
          NoKey,
          MaxSize        \* bound on the number of keys ever stored at once

ASSUME OrderAssumption == Order \in Nat /\ Order >= 2     \* setOrder() throws otherwise
ASSUME KeysAssumption == Keys \subseteq Int /\ NoKey \notin Keys
ASSUME SizeAssumption == MaxSize \in Nat

VARIABLES pages,        \* the pages on disk, pages[n] is page n
          rootPageNum,  \* _rootPageNum
          rootPage,     \* the contents of _rootPage
          freePages,    \* the stack of free page numbers
          size,         \* history: how many keys are stored
          op, k,        \* the public call in progress and its key
          fn,           \* the function running, "idle" between calls
          at,           \* the wrapper it works on
          stack,        \* what its suspended callers still have to do
          answer        \* the result of the call

treeVars == <<pages, rootPageNum, rootPage, freePages>>
callVars == <<op, k, fn, at, stack, answer>>
vars == <<treeVars, size, callVars>>

-------------------------------------------------------------------------------
(* Pages. *)

Page == [leaf : BOOLEAN, keys : Seq(Keys), cursors : Seq(Nat)]

RootWrapper == 0
Data(w) == IF w = RootWrapper THEN rootPage ELSE pages[w]
PageNum(w) == IF w = RootWrapper THEN rootPageNum ELSE w
isRoot(w) == PageNum(w) = rootPageNum

\* readPage() throws for a page that does not exist.
Exists(n) == n \in 1..Len(pages)

\* The scan from the left past the keys less than x.
FirstNotLess(s, x) == 1 + Cardinality({j \in 1..Len(s) : \A i \in 1..j : s[i] < x})

\* Fault: no scan, the key goes behind the last one.
BehindLast(s, x) == 1 + Len(s)

\* The scan from the right past the keys greater than x.
AfterLastNotGreater(s, x) ==
    1 + Len(s) - Cardinality({j \in 1..Len(s) : \A i \in j..Len(s) : x < s[i]})

\* Fault: the page counter is incremented twice.
AllocPageSkipping(n) == Len(pages) + n + 1

\* The n-th page that allocPage() hands out from now on, and what it leaves free.
AllocPage(n) ==
    IF n <= Len(freePages) THEN freePages[Len(freePages) - n + 1]
                           ELSE Len(pages) + n - Len(freePages)
FreeAfterAlloc(n) ==
    IF n <= Len(freePages) THEN SubSeq(freePages, 1, Len(freePages) - n) ELSE <<>>

\* Fault: a new page is written twice.
WritePageTwice(ps, n, p) ==
    IF n = Len(ps) + 1 THEN ps \o <<p, p>> ELSE [ps EXCEPT ![n] = p]

\* The disk after page n was written.
WritePage(ps, n, p) == IF n = Len(ps) + 1 THEN Append(ps, p) ELSE [ps EXCEPT ![n] = p]

-------------------------------------------------------------------------------
(* Calls. *)

Call(o, x, f) ==
    /\ fn = "idle"
    /\ op' = o /\ k' = x /\ fn' = f
    /\ at' = RootWrapper
    /\ answer' = 0

Return(r) ==
    /\ op' = "none" /\ k' = NoKey /\ fn' = "idle"
    /\ at' = RootWrapper
    /\ stack' = <<>>
    /\ answer' = r

\* The tail call f on wrapper w.
Continue(f, w) ==
    /\ fn' = f /\ at' = w
    /\ UNCHANGED <<op, k, answer>>

-------------------------------------------------------------------------------
\* Fault: the root page in memory is not updated.
WriteDiskOnly(w, p) ==
    /\ pages' = [pages EXCEPT ![PageNum(w)] = p]
    /\ UNCHANGED rootPage

\* The write of a wrapper's page, through the root page in memory or not.
Write(w, p) ==
    /\ pages' = [pages EXCEPT ![PageNum(w)] = p]
    /\ rootPage' = IF w = RootWrapper THEN p ELSE rootPage

\* A wrapper's page, node, and the pages on disk while keys move between pages,
\* and the writes that follow.
Unmoved(w) == [node |-> Data(w), disk |-> pages]

Moved(w, s) ==
    /\ pages' = [s.disk EXCEPT ![PageNum(w)] = s.node]
    /\ rootPage' = IF w = RootWrapper THEN s.node ELSE rootPage
    /\ UNCHANGED rootPageNum

InsertIntoLeaf ==
    LET p == Data(at)
        i == AfterLastNotGreater(p.keys, k)
    IN  /\ p.leaf
        /\ Write(at, [p EXCEPT !.keys = InsertAt(@, i, k)])
        /\ size' = size + 1
        /\ Return(0)
        /\ UNCHANGED <<rootPageNum, freePages>>

-------------------------------------------------------------------------------
(* search() stops at the first page that holds the key; in a B+-tree and   *)
(* in a B*+-tree only a leaf can hold it.                                  *)

HoldsKeys(p) == p.leaf \/ TreeType \notin {"B_PLUS_TREE", "B_STAR_PLUS_TREE"}

Search(x) ==
    /\ Call("search", x, "search")
    /\ UNCHANGED <<treeVars, size, stack>>

search ==
    LET p == Data(at)
        i == FirstNotLess(p.keys, k)
        found == HoldsKeys(p) /\ i <= Len(p.keys) /\ p.keys[i] = k
    IN  /\ fn = "search"
        /\ \/ found /\ Return(1) /\ UNCHANGED <<treeVars, size>>
           \/ ~found /\ p.leaf /\ Return(0) /\ UNCHANGED <<treeVars, size>>
           \/ /\ ~found /\ ~p.leaf /\ Exists(p.cursors[i])
              /\ Continue("search", p.cursors[i])
              /\ UNCHANGED <<treeVars, size, stack>>

\* searchAll() visits the child left of the first key that is not less, the
\* children around the following equal keys, and the child right of them.
SearchAll(x) ==
    /\ Call("searchAll", x, "searchAll")
    /\ stack' = <<RootWrapper>>
    /\ UNCHANGED <<treeVars, size>>

\* Fault: the loop ends after one key.
EqualRunOfOne(s, first, x) == IF first > Len(s) THEN 0 ELSE 1

\* How many keys of s the loop of searchAll() passes from position first on.
EqualRun(s, first, x) ==
    IF first > Len(s) THEN 0
    ELSE 1 + Cardinality({j \in first + 1..Len(s) : \A i \in first + 1..j : s[i] = x})

\* readPage() throws for a page to visit that does not exist.
SearchAllThrows ==
    fn = "searchAll" /\ \E j \in 1..Len(stack) : stack[j] # RootWrapper /\ ~Exists(stack[j])

searchAll ==
    LET p == Data(Head(stack))
        first == FirstNotLess(p.keys, k)
        next == first + EqualRun(p.keys, first, k)
        hits == IF HoldsKeys(p)
                THEN Cardinality({j \in first..next - 1 : p.keys[j] = k}) ELSE 0
        rest == (IF p.leaf THEN <<>> ELSE SubSeq(p.cursors, first, next)) \o Tail(stack)
    IN  /\ fn = "searchAll"
        /\ ~SearchAllThrows
        /\ \/ /\ rest = <<>>
              /\ Return(answer + hits)
              /\ UNCHANGED <<treeVars, size>>
           \/ /\ rest # <<>>
              /\ stack' = rest
              /\ answer' = answer + hits
              /\ UNCHANGED <<treeVars, size, op, k, fn, at>>

\* readPage() throws for a cursor to a page that does not exist.
SearchThrows ==
    LET p == Data(at)
    IN  fn = "search" /\ ~p.leaf /\ ~Exists(p.cursors[FirstNotLess(p.keys, k)])

-------------------------------------------------------------------------------
\* createTree(): an empty leaf is the root.
Init ==
    LET empty == [leaf |-> TRUE, keys |-> <<>>, cursors |-> <<>>]
    IN  /\ pages = <<empty>>
        /\ rootPageNum = 1
        /\ rootPage = empty
        /\ freePages = <<>>
        /\ size = 0
        /\ op = "none" /\ k = NoKey /\ fn = "idle" /\ at = RootWrapper
        /\ stack = <<>> /\ answer = 0

\* The file is closed and opened again: loadTree() reads the root page.
LoadTree ==
    /\ fn = "idle"
    /\ rootPage' = pages[rootPageNum]
    /\ UNCHANGED <<pages, rootPageNum, freePages, size, callVars>>
===============================================================================
