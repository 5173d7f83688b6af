------------------------------ MODULE TreeLemmas ------------------------------
(***************************************************************************)
(* What the proofs about insertion into the trees share: the sequences of  *)
(* a page, the pages as a tree, and the steps that all trees take from     *)
(* TreeCore.                                                               *)
(***************************************************************************)
EXTENDS TreeShape, SequenceLemmas

-------------------------------------------------------------------------------
(* The scans of a page. *)

\* The scan of search() stops at a key or one past the last one.
LEMMA FirstNotLessRange ==
    ASSUME NEW s \in Seq(Keys), NEW x
    PROVE  FirstNotLess(s, x) \in 1..Len(s) + 1
<1> DEFINE T == {j \in 1..Len(s) : \A i \in 1..j : s[i] < x}
<1>1. Len(s) \in Nat
  BY LenProperties
<1>2. T \in SUBSET (1..Len(s))
  OBVIOUS
<1>3. FirstNotLess(s, x) = 1 + Cardinality(T)
  BY DEF FirstNotLess
<1> HIDE DEF T
<1>4. Cardinality(T) \in Nat /\ Cardinality(T) <= Len(s)
  <2>1. 1 \in Nat /\ 1 <= Len(s) + 1
    BY <1>1
  <2>2. Cardinality(T) \in Nat /\ Cardinality(T) <= Len(s) - 1 + 1
    BY ONLY <1>1, <1>2, <2>1, CountBound, Zenon
  <2> QED BY <1>1, <2>2
<1> QED BY <1>1, <1>3, <1>4

\* The scan of insertNonFull() stops there too.
LEMMA AfterLastNotGreaterRange ==
    ASSUME NEW s \in Seq(Keys), NEW x
    PROVE  AfterLastNotGreater(s, x) \in 1..Len(s) + 1
<1> DEFINE T == {j \in 1..Len(s) : \A i \in j..Len(s) : x < s[i]}
<1>1. Len(s) \in Nat
  BY LenProperties
<1>2. T \in SUBSET (1..Len(s))
  OBVIOUS
<1>3. AfterLastNotGreater(s, x) = 1 + Len(s) - Cardinality(T)
  BY DEF AfterLastNotGreater
<1> HIDE DEF T
<1>4. Cardinality(T) \in Nat /\ Cardinality(T) <= Len(s)
  <2>1. 1 \in Nat /\ 1 <= Len(s) + 1
    BY <1>1
  <2>2. Cardinality(T) \in Nat /\ Cardinality(T) <= Len(s) - 1 + 1
    BY ONLY <1>1, <1>2, <2>1, CountBound, Zenon
  <2> QED BY <1>1, <2>2
<1> QED BY <1>1, <1>3, <1>4

\* The loop of searchAll() ends at most one past the last key.
LEMMA EqualRunRange ==
    ASSUME NEW s \in Seq(Keys), NEW x, NEW first \in 1..Len(s) + 1
    PROVE  EqualRun(s, first, x) \in Nat /\ first + EqualRun(s, first, x) <= Len(s) + 1
<1> DEFINE T == {j \in first + 1..Len(s) : \A i \in first + 1..j : s[i] = x}
<1>1. Len(s) \in Nat
  BY LenProperties
<1>2. CASE first > Len(s)
  BY <1>1, <1>2 DEF EqualRun
<1>3. CASE ~(first > Len(s))
  <2>1. /\ first + 1 \in Nat /\ T \in SUBSET (first + 1..Len(s))
        /\ first + 1 <= Len(s) + 1
    BY <1>1, <1>3
  <2>2. EqualRun(s, first, x) = 1 + Cardinality(T)
    BY <1>3 DEF EqualRun
  <2> HIDE DEF T
  <2>3. Cardinality(T) \in Nat /\ Cardinality(T) <= Len(s) - (first + 1) + 1
    BY ONLY <1>1, <2>1, CountBound, Zenon
  <2> QED BY <1>1, <2>2, <2>3
<1> QED BY <1>2, <1>3

-------------------------------------------------------------------------------
(* Trees of pages. *)

\* The children of page p.
Kids(p) == {p.cursors[i] : i \in 1..Len(p.cursors)}

\* No two cursors of page p lead to the same page.
OneCursorEach(p) ==
    \A i, j \in 1..Len(p.cursors) : p.cursors[i] = p.cursors[j] => i = j

\* h gives the heights of the pages ps of a tree with root page r: 0 for the leaves,
\* one more than that of its children for every other page.
Heights(ps, r, h) ==
    /\ h \in [1..Len(ps) -> Nat] /\ h[r] < Len(ps)
    /\ \A n \in 1..Len(ps) :
          /\ ps[n].leaf <=> h[n] = 0
          /\ \A m \in Kids(ps[n]) : m \in 1..Len(ps) /\ h[n] = h[m] + 1
          /\ n # r => h[n] < h[r]

\* Every page but the root page r hangs under exactly one cursor of one page.
Owned(ps, r) ==
    /\ \A n \in (1..Len(ps)) \ {r} : \E m \in 1..Len(ps) : n \in Kids(ps[m])
    /\ \A n \in 1..Len(ps) : OneCursorEach(ps[n])
    /\ \A m, n \in 1..Len(ps) : m # n => Kids(ps[m]) \cap Kids(ps[n]) = {}

\* A solution of the recursion that defines the levels is a property of Levels.
LEMMA LevelsRecursion ==
    ASSUME NEW L,
           L = [d \in 0..Len(pages) |->
                  IF d = 0 THEN {rootPageNum}
                  ELSE UNION {Children(n) : n \in L[d - 1] \cap 1..Len(pages)}]
    PROVE  Levels = [d \in 0..Len(pages) |->
                  IF d = 0 THEN {rootPageNum}
                  ELSE UNION {Children(n) : n \in Levels[d - 1] \cap 1..Len(pages)}]
<1> DEFINE P(f) == f = [d \in 0..Len(pages) |->
                  IF d = 0 THEN {rootPageNum}
                  ELSE UNION {Children(n) : n \in f[d - 1] \cap 1..Len(pages)}]
<1>1. Levels = CHOOSE f : P(f)
  BY DEF Levels
<1>2. P(L)
  OBVIOUS
<1>3. P(CHOOSE f : P(f))
  <2> HIDE DEF P
  <2> QED BY <1>2
<1> HIDE DEF Levels
<1>4. P(Levels)
  <2> HIDE DEF P
  <2> QED BY <1>1, <1>3
<1> QED BY <1>4

\* The pages d levels below the root are those whose height is that of the root
\* less d.
LEMMA LevelsAreHeights ==
    ASSUME rootPageNum \in 1..Len(pages), Len(pages) \in Nat,
           NEW h, Heights(pages, rootPageNum, h), Owned(pages, rootPageNum)
    PROVE  \A d \in 0..Len(pages) :
              Levels[d] = {n \in 1..Len(pages) : h[n] + d = h[rootPageNum]}
<1> DEFINE N == Len(pages)
           At(d) == {n \in 1..N : h[n] + d = h[rootPageNum]}
           L == [d \in 0..N |-> At(d)]
           Below(S) == UNION {Children(n) : n \in S \cap 1..N}
<1>1. /\ h \in [1..N -> Nat]
      /\ \A n \in 1..N : \A m \in Children(n) : m \in 1..N /\ h[n] = h[m] + 1
      /\ \A n \in 1..N : n # rootPageNum =>
            h[n] < h[rootPageNum] /\ \E m \in 1..N : n \in Children(m)
  BY DEF Heights, Owned, Kids, Children
<1>2. At(0) = {rootPageNum}
  BY <1>1
<1>3. \A d \in 1..N : At(d) = Below(At(d - 1))
  <2> TAKE d \in 1..N
  <2>1. ASSUME NEW n \in At(d - 1), NEW m \in Children(n) PROVE m \in At(d)
    BY <1>1, <2>1
  <2>2. ASSUME NEW m \in At(d) PROVE \E n \in At(d - 1) : m \in Children(n)
    <3>1. m # rootPageNum
      BY <1>1, <2>2
    <3>2. PICK n \in 1..N : m \in Children(n)
      BY <1>1, <2>2, <3>1
    <3>3. h[n] = h[m] + 1 /\ h[m] \in Nat /\ h[m] + d = h[rootPageNum]
      BY <1>1, <2>2, <3>2
    <3>4. n \in At(d - 1)
      BY <3>3
    <3> QED BY <3>2, <3>4
  <2>3. At(d - 1) \cap 1..N = At(d - 1)
    OBVIOUS
  <2> HIDE DEF At
  <2> QED BY <2>1, <2>2, <2>3
<1> HIDE DEF At
<1>4. Levels = [d \in 0..N |-> IF d = 0 THEN {rootPageNum} ELSE Below(Levels[d - 1])]
  <2>1. L = [d \in 0..N |-> IF d = 0 THEN {rootPageNum} ELSE Below(L[d - 1])]
    <3>1. \A d \in 1..N : d - 1 \in 0..N
      OBVIOUS
    <3> HIDE DEF Below
    <3>2. \A d \in 0..N : At(d) = IF d = 0 THEN {rootPageNum} ELSE Below(L[d - 1])
      BY <1>2, <1>3, <3>1
    <3> QED BY <3>2
  <2> HIDE DEF L
  <2> QED BY <2>1, LevelsRecursion
<1> HIDE DEF Below
<1>5. \A d \in 0..N : Levels[d] = At(d)
  <2> DEFINE T == {d \in 0..N : Levels[d] # At(d)}
  <2> SUFFICES ASSUME T # {} PROVE FALSE
    OBVIOUS
  <2>1. PICK d \in T : \A e \in T : d <= e
    <3>1. T \subseteq Nat
      OBVIOUS
    <3> HIDE DEF T
    <3> QED BY <3>1, LeastNumber
  <2>2. Levels[0] = {rootPageNum} /\ \A e \in 1..N : Levels[e] = Below(Levels[e - 1])
    <3> DEFINE F == [e \in 0..N |-> IF e = 0 THEN {rootPageNum} ELSE Below(Levels[e - 1])]
    <3>1. F[0] = {rootPageNum} /\ \A e \in 1..N : F[e] = Below(Levels[e - 1])
      <4>1. 0 \in 0..N /\ \A e \in 1..N : e \in 0..N /\ e # 0
        OBVIOUS
      <4> QED BY <4>1
    <3>2. Levels = F
      BY <1>4
    <3> HIDE DEF F
    <3> QED BY <3>1, <3>2
  <2>3. d \in 1..N
    <3>1. d \in 0..N /\ Levels[d] # At(d)
      BY <2>1
    <3>2. Levels[0] = At(0)
      BY <1>2, <2>2
    <3>3. d # 0
      BY <3>1, <3>2
    <3> QED BY <3>1, <3>3
  <2>4. Levels[d - 1] = At(d - 1)
    BY <2>1, <2>3
  <2>5. Levels[d] = Below(Levels[d - 1])
    BY <2>2, <2>3
  <2> QED BY <1>3, <2>1, <2>3, <2>4, <2>5
<1> QED BY <1>5 DEF At

\* Every page can be reached.
LEMMA AllReachable ==
    ASSUME rootPageNum \in 1..Len(pages), Len(pages) \in Nat,
           NEW h, Heights(pages, rootPageNum, h), Owned(pages, rootPageNum)
    PROVE  Reachable = 1..Len(pages)
<1>1. /\ h \in [1..Len(pages) -> Nat] /\ h[rootPageNum] < Len(pages)
      /\ \A n \in 1..Len(pages) : n # rootPageNum => h[n] < h[rootPageNum]
  BY DEF Heights
<1>2. \A n \in 1..Len(pages) :
         /\ h[rootPageNum] - h[n] \in 0..Len(pages)
         /\ h[n] + (h[rootPageNum] - h[n]) = h[rootPageNum]
  BY <1>1
<1>3. \A n \in 1..Len(pages) : n \in Levels[h[rootPageNum] - h[n]]
  BY <1>2, LevelsAreHeights
<1> QED BY <1>2, <1>3 DEF Reachable

\* So all the pages of a level are leaves or none is.
LEMMA HeightsBalance ==
    ASSUME rootPageNum \in 1..Len(pages), Len(pages) \in Nat,
           \A n \in 1..Len(pages) : pages[n].leaf \in BOOLEAN,
           NEW h, Heights(pages, rootPageNum, h), Owned(pages, rootPageNum)
    PROVE  Balanced
<1> SUFFICES ASSUME NEW d \in 0..Len(pages), NEW m \in Levels[d], NEW n \in Levels[d]
             PROVE  pages[m].leaf = pages[n].leaf
  BY DEF Balanced
<1>1. /\ m \in 1..Len(pages) /\ n \in 1..Len(pages)
      /\ h[m] + d = h[rootPageNum] /\ h[n] + d = h[rootPageNum]
  BY LevelsAreHeights
<1>2. h \in [1..Len(pages) -> Nat]
      /\ \A q \in 1..Len(pages) : pages[q].leaf <=> h[q] = 0
  BY DEF Heights
<1>3. h[m] = h[n]
  BY <1>1, <1>2
<1> QED BY <1>1, <1>2, <1>3

\* So every page is accounted for when none is free.
LEMMA OwnedAccounts ==
    ASSUME rootPageNum \in 1..Len(pages), Len(pages) \in Nat, freePages = <<>>,
           NEW h, Heights(pages, rootPageNum, h), Owned(pages, rootPageNum)
    PROVE  PagesAccounted
<1> DEFINE free == {freePages[i] : i \in 1..Len(freePages)}
           links == UNION {{n} \X (1..Len(pages[n].cursors)) : n \in Reachable}
           target(e) == pages[e[1]].cursors[e[2]]
<1>1. Len(freePages) = 0 /\ free = {}
  OBVIOUS
<1>2. Reachable = 1..Len(pages)
  BY AllReachable
<1>3. \A e \in links : /\ e = <<e[1], e[2]>> /\ e[1] \in 1..Len(pages)
                       /\ e[2] \in 1..Len(pages[e[1]].cursors)
                       /\ target(e) \in Kids(pages[e[1]])
  BY <1>2 DEF Kids
<1>4. \A e, f \in links : e # f => target(e) # target(f)
  <2> SUFFICES ASSUME NEW e \in links, NEW f \in links, target(e) = target(f)
               PROVE  e = f
    OBVIOUS
  <2> HIDE DEF links
  <2>1. e[1] = f[1]
    <3> HIDE DEF target
    <3> QED BY <1>3 DEF Owned
  <2>2. e[2] = f[2]
    BY <1>3, <2>1 DEF Owned, OneCursorEach
  <2> QED BY <1>3, <2>1, <2>2
<1>5. \A e \in links : target(e) # rootPageNum
  <2> SUFFICES ASSUME NEW e \in links, target(e) = rootPageNum
               PROVE  FALSE
    OBVIOUS
  <2> HIDE DEF links
  <2>1. rootPageNum \in Kids(pages[e[1]]) /\ e[1] \in 1..Len(pages)
    BY <1>3
  <2>2. /\ h[e[1]] = h[rootPageNum] + 1 /\ h \in [1..Len(pages) -> Nat]
        /\ (e[1] # rootPageNum => h[e[1]] < h[rootPageNum])
    BY <2>1 DEF Heights
  <2> QED BY <2>1, <2>2
<1> HIDE DEF links
<1>6. /\ \A i, j \in 1..Len(freePages) : i # j => freePages[i] # freePages[j]
      /\ free \cap Reachable = {} /\ free \cup Reachable = 1..Len(pages)
  BY <1>1, <1>2
<1> QED BY <1>4, <1>5, <1>6 DEF PagesAccounted, links

-------------------------------------------------------------------------------
(* What a step does to the tree. *)

\* The pages qs of the tree ps after the pages A, children of page n, have shared
\* their children with each other and with new pages, which page n gets too.
Spread(ps, qs, n, A) ==
    LET new == Len(ps) + 1..Len(qs)
        B == A \cup new
    IN  /\ Len(qs) \in Nat /\ Len(qs) >= Len(ps)
        /\ n \in 1..Len(ps) /\ A \subseteq Kids(ps[n]) /\ A # {}
        /\ \A m \in (1..Len(ps)) \ (A \cup {n}) : qs[m] = ps[m]
        /\ qs[n].leaf = ps[n].leaf /\ OneCursorEach(qs[n])
        /\ Kids(qs[n]) = Kids(ps[n]) \cup new
        /\ \A x \in B : OneCursorEach(qs[x]) /\ \A y \in A : qs[x].leaf = ps[y].leaf
        /\ UNION {Kids(qs[x]) : x \in B} = UNION {Kids(ps[y]) : y \in A}
        /\ \A x, y \in B : x # y => Kids(qs[x]) \cap Kids(qs[y]) = {}

\* The new pages get the height of the old ones.
LEMMA SpreadKeepsTree ==
    ASSUME NEW ps, Len(ps) \in Nat, NEW qs, NEW r \in 1..Len(ps), NEW n, NEW A,
           Spread(ps, qs, n, A), NEW h, Heights(ps, r, h), Owned(ps, r)
    PROVE  Owned(qs, r) /\ \E g : Heights(qs, r, g)
<1> DEFINE N == Len(ps)
           M == Len(qs)
           new == N + 1..M
           B == A \cup new
<1>1. /\ h \in [1..N -> Nat] /\ h[r] < N
      /\ \A m \in 1..N : /\ ps[m].leaf <=> h[m] = 0
                         /\ \A x \in Kids(ps[m]) : x \in 1..N /\ h[m] = h[x] + 1
                         /\ m # r => h[m] < h[r]
  BY DEF Heights
<1>2. /\ N \in Nat /\ M \in Nat /\ M >= N /\ n \in 1..N /\ r \in 1..N
      /\ A \subseteq Kids(ps[n]) /\ A # {}
      /\ \A m \in (1..N) \ (A \cup {n}) : qs[m] = ps[m]
      /\ qs[n].leaf = ps[n].leaf /\ OneCursorEach(qs[n])
      /\ Kids(qs[n]) = Kids(ps[n]) \cup new
      /\ \A x \in B : OneCursorEach(qs[x]) /\ \A y \in A : qs[x].leaf = ps[y].leaf
      /\ UNION {Kids(qs[x]) : x \in B} = UNION {Kids(ps[y]) : y \in A}
      /\ \A x, y \in B : x # y => Kids(qs[x]) \cap Kids(qs[y]) = {}
  BY DEF Spread
<1>3. PICK a \in A : TRUE
  BY <1>2
<1>4. \A x \in A : x \in 1..N /\ h[n] = h[x] + 1 /\ h[x] = h[a]
  BY <1>1, <1>2, <1>3
<1> DEFINE g == [m \in 1..M |-> IF m \in 1..N THEN h[m] ELSE h[a]]
<1>5. /\ \A m \in 1..N : m \in 1..M
      /\ \A m \in 1..M : m \in 1..N \/ m \in new
      /\ \A m \in new : m \in 1..M /\ m \notin 1..N
  BY <1>2
<1>6. /\ g \in [1..M -> Nat] /\ \A m \in 1..N : g[m] = h[m]
      /\ \A m \in B : m \in 1..M /\ g[m] = h[a]
  BY <1>1, <1>4, <1>5
<1>7. n \notin A /\ r \notin A /\ n \notin new /\ h[a] + 1 = h[n] /\ h[a] \in Nat
  BY <1>1, <1>2, <1>3, <1>4, <1>5
<1>8. h[a] < h[r]
  BY <1>1, <1>3, <1>4, <1>7
<1> HIDE DEF g, N, M, new
<1>9. \A m \in 1..M : m \in B \/ m = n \/ (m \in 1..N /\ m \notin A /\ qs[m] = ps[m])
  BY <1>2, <1>5
<1> HIDE DEF B
<1>10. \A m \in B : \A x \in Kids(qs[m]) : \E y \in A : x \in Kids(ps[y])
  BY <1>2
<1>11. Heights(qs, r, g)
  <2>1. g[r] < M
    BY <1>1, <1>2, <1>6
  <2>2. ASSUME NEW m \in 1..M PROVE qs[m].leaf <=> g[m] = 0
    <3>1. CASE m \in B
      <4>1. qs[m].leaf = ps[a].leaf /\ g[m] = h[a]
        BY <1>2, <1>3, <1>6, <3>1
      <4> QED BY <1>1, <1>3, <1>4, <4>1
    <3>2. CASE m = n
      BY <1>1, <1>2, <1>6, <3>2
    <3>3. CASE m \in 1..N /\ m \notin A /\ qs[m] = ps[m]
      BY <1>1, <1>6, <3>3
    <3> QED BY <1>9, <3>1, <3>2, <3>3
  <2>3. ASSUME NEW m \in 1..M, m # r PROVE g[m] < g[r]
    <3>1. g[r] = h[r]
      BY <1>2, <1>6
    <3>2. CASE m \in B
      BY <1>6, <1>8, <3>1, <3>2
    <3>3. CASE m \in 1..N
      BY <1>1, <1>6, <2>3, <3>1, <3>3
    <3> QED BY <1>2, <1>9, <3>2, <3>3
  <2>4. ASSUME NEW m \in 1..M, NEW x \in Kids(qs[m])
        PROVE  x \in 1..M /\ g[m] = g[x] + 1
    <3>1. CASE m \in B
      <4>1. PICK y \in A : x \in Kids(ps[y])
        BY <1>10, <2>4, <3>1
      <4>2. y \in 1..N /\ h[y] = h[a] /\ x \in 1..N /\ h[y] = h[x] + 1
        BY <1>1, <1>4, <4>1
      <4> QED BY <1>5, <1>6, <3>1, <4>2
    <3>2. CASE m = n
      <4>1. CASE x \in Kids(ps[n])
        <5>1. n \in 1..N /\ x \in 1..N /\ h[n] = h[x] + 1
          BY <1>1, <1>2, <4>1
        <5> QED BY <1>5, <1>6, <3>2, <5>1
      <4>2. CASE x \in new
        BY <1>2, <1>5, <1>6, <1>7, <3>2, <4>2 DEF B
      <4> QED BY <1>2, <2>4, <3>2, <4>1, <4>2
    <3>3. CASE m \in 1..N /\ m \notin A /\ qs[m] = ps[m]
      <4>1. x \in 1..N /\ h[m] = h[x] + 1
        BY <1>1, <2>4, <3>3
      <4> QED BY <1>5, <1>6, <3>3, <4>1
    <3> QED BY <1>9, <3>1, <3>2, <3>3
  <2> QED BY <1>6, <2>1, <2>2, <2>3, <2>4 DEF Heights, M
<1>12. /\ \A m \in (1..N) \ {r} : \E x \in 1..N : m \in Kids(ps[x])
       /\ \A m \in 1..N : OneCursorEach(ps[m])
       /\ \A m, x \in 1..N : m # x => Kids(ps[m]) \cap Kids(ps[x]) = {}
  BY DEF Owned, N
<1>13. \A m \in 1..N : Kids(ps[m]) \subseteq 1..N
  BY <1>1
<1>14. Owned(qs, r)
  <2>1. ASSUME NEW m \in (1..M) \ {r} PROVE \E x \in 1..M : m \in Kids(qs[x])
    <3>1. CASE m \in new
      BY <1>2, <1>5, <3>1
    <3>2. CASE m \in 1..N
      <4>1. PICK x \in 1..N : m \in Kids(ps[x])
        BY <1>12, <2>1, <3>2
      <4>2. CASE x \in A
        <5>1. m \in UNION {Kids(qs[y]) : y \in B}
          BY <1>2, <4>1, <4>2
        <5> QED BY <1>6, <5>1
      <4>3. CASE x = n
        BY <1>2, <1>5, <4>1, <4>3
      <4>4. CASE x \notin A /\ x # n
        <5>1. qs[x] = ps[x]
          BY <1>2, <4>4
        <5> QED BY <1>5, <4>1, <5>1
      <4> QED BY <4>2, <4>3, <4>4
    <3> QED BY <1>5, <3>1, <3>2
  <2>2. ASSUME NEW m \in 1..M PROVE OneCursorEach(qs[m])
    BY <1>2, <1>9, <1>12
  <2> DEFINE owner(m) == IF m \in B THEN A ELSE {m}
  <2>3. ASSUME NEW m \in 1..M, NEW y \in Kids(qs[m])
        PROVE  (y \in new /\ m = n) \/ \E x \in owner(m) : x \in 1..N /\ y \in Kids(ps[x])
    <3>1. CASE m \in B
      BY <1>4, <1>10, <2>3, <3>1
    <3>2. CASE m = n
      <4>1. m \notin B
        BY <1>7, <3>2 DEF B
      <4> QED BY <1>2, <2>3, <3>2, <4>1
    <3>3. CASE m \in 1..N /\ m \notin A /\ qs[m] = ps[m]
      <4>1. m \notin B
        BY <1>5, <3>3 DEF B
      <4> QED BY <2>3, <3>3, <4>1
    <3> QED BY <1>9, <3>1, <3>2, <3>3
  <2>4. ASSUME NEW m \in 1..M, NEW x \in 1..M, m # x,
               NEW y \in Kids(qs[m]), y \in Kids(qs[x])
        PROVE  FALSE
    <3>1. CASE y \in new
      <4>1. \A z \in 1..M : y \in Kids(qs[z]) => z = n
        BY <1>5, <1>13, <2>3, <3>1
      <4> QED BY <2>4, <4>1
    <3>2. CASE y \notin new
      <4>1. PICK u \in owner(m) : u \in 1..N /\ y \in Kids(ps[u])
        BY <2>3, <3>2
      <4>2. PICK v \in owner(x) : v \in 1..N /\ y \in Kids(ps[v])
        BY <2>3, <2>4, <3>2
      <4>3. u = v
        BY <1>12, <4>1, <4>2
      <4>4. m \in B /\ x \in B
        BY <2>4, <4>1, <4>2, <4>3 DEF B
      <4> QED BY <1>2, <2>4, <4>4
    <3> QED BY <3>1, <3>2
  <2> QED BY <2>1, <2>2, <2>4 DEF Owned, M
<1> QED BY <1>11, <1>14

\* Page q is page node with one child more.
MoreKids(q, node, right) ==
    /\ Kids(q) = Kids(node) \cup {right} /\ OneCursorEach(q)
    /\ q.leaf = node.leaf

\* A cursor inserted into a page gives it one child more.
LEMMA InsertedKid ==
    ASSUME NEW node, node.cursors \in Seq(Nat), OneCursorEach(node),
           NEW right \in Nat \ Kids(node), NEW u \in 1..Len(node.cursors) + 1,
           NEW q, q.cursors = InsertAt(node.cursors, u, right), q.leaf = node.leaf
    PROVE  MoreKids(q, node, right)
<1> DEFINE s == node.cursors
           t == q.cursors
<1>1. /\ s \in Seq(Nat) /\ Len(s) \in Nat /\ \A j \in 1..Len(s) : s[j] # right
  BY LenProperties DEF Kids
<1>2. t = InsertAt(s, u, right) /\ q.leaf = node.leaf
  OBVIOUS
<1>3. u \in 1..Len(s) + 1 /\ right \in Nat
  OBVIOUS
<1> HIDE DEF s, t
<1>4. /\ Len(t) = Len(s) + 1
      /\ \A j \in 1..u - 1 : t[j] = s[j]
      /\ t[u] = right
      /\ \A j \in u + 1..Len(s) + 1 : t[j] = s[j - 1]
  <2>1. s \in Seq(Nat)
    BY <1>1
  <2>2. \A j \in 1..Len(s) + 1 : \A e \in Nat :
           /\ Len(InsertAt(s, j, e)) = Len(s) + 1
           /\ \A l \in 1..j - 1 : InsertAt(s, j, e)[l] = s[l]
           /\ InsertAt(s, j, e)[j] = e
           /\ \A l \in j + 1..Len(s) + 1 : InsertAt(s, j, e)[l] = s[l - 1]
    BY ONLY <2>1, InsertAtElements
  <2> QED BY <1>2, <1>3, <2>2
<1> DEFINE old(j) == IF j < u THEN j ELSE j - 1
<1>5. \A j \in 1..Len(t) : j # u => old(j) \in 1..Len(s) /\ t[j] = s[old(j)]
  <2> TAKE j \in 1..Len(t)
  <2>1. CASE j < u
    <3>1. j \in 1..u - 1 /\ j \in 1..Len(s) /\ old(j) = j
      BY <1>1, <1>3, <1>4, <2>1
    <3> QED BY <1>4, <3>1
  <2>2. CASE j > u
    <3>1. j \in u + 1..Len(s) + 1 /\ j - 1 \in 1..Len(s) /\ old(j) = j - 1
      BY <1>1, <1>3, <1>4, <2>2
    <3> QED BY <1>4, <3>1
  <2> QED BY <1>1, <1>3, <1>4, <2>1, <2>2
<1>6. \A l \in 1..Len(s) : \E j \in 1..Len(t) : j # u /\ old(j) = l
  <2> TAKE l \in 1..Len(s)
  <2>1. CASE l < u
    <3>1. l \in 1..Len(t) /\ l # u /\ old(l) = l
      BY <1>1, <1>3, <1>4, <2>1
    <3> HIDE DEF old
    <3> QED BY ONLY <3>1
  <2>2. CASE l >= u
    <3>1. l + 1 \in 1..Len(t) /\ l + 1 # u /\ old(l + 1) = l
      BY <1>1, <1>3, <1>4, <2>2
    <3> HIDE DEF old
    <3> QED BY ONLY <3>1
  <2>3. l < u \/ l >= u
    BY ONLY <1>1, <1>3, l \in 1..Len(s)
  <2> HIDE DEF old
  <2> QED BY ONLY <2>1, <2>2, <2>3
<1>7. \A j, l \in 1..Len(t) : j # u /\ l # u /\ old(j) = old(l) => j = l
  <2>1. u \in Int /\ Len(t) \in Int
    BY <1>1, <1>3, <1>4
  <2> QED BY ONLY <2>1
<1>8. u \in 1..Len(t)
  BY <1>1, <1>3, <1>4
<1> HIDE DEF old
<1>9. {t[j] : j \in 1..Len(t)} = {s[j] : j \in 1..Len(s)} \cup {right}
  <2>1. PICK T, S : T = {t[j] : j \in 1..Len(t)} /\ S = {s[j] : j \in 1..Len(s)}
    OBVIOUS
  <2>2. \A x : x \in T <=> \E j \in 1..Len(t) : x = t[j]
    BY ONLY <2>1
  <2>3. \A x : x \in S <=> \E l \in 1..Len(s) : x = s[l]
    BY ONLY <2>1
  <2>4. ASSUME NEW x \in T PROVE x \in S \cup {right}
    <3>1. PICK j \in 1..Len(t) : x = t[j]
      BY <2>2, <2>4
    <3>2. CASE j = u
      BY <1>4, <3>1, <3>2
    <3>3. CASE j # u
      <4>1. old(j) \in 1..Len(s) /\ x = s[old(j)]
        BY <1>5, <3>1, <3>3
      <4> QED BY <2>3, <4>1
    <3> QED BY <3>2, <3>3
  <2>5. ASSUME NEW x \in S PROVE x \in T
    <3>1. PICK l \in 1..Len(s) : x = s[l]
      BY <2>3, <2>5
    <3>2. PICK j \in 1..Len(t) : j # u /\ old(j) = l
      BY <1>6, <3>1
    <3>3. x = t[j]
      BY <1>5, <3>1, <3>2
    <3> QED BY <2>2, <3>2, <3>3
  <2>6. right \in T
    BY <1>4, <1>8, <2>2
  <2>7. T = S \cup {right}
    BY ONLY <2>4, <2>5, <2>6
  <2> QED BY ONLY <2>1, <2>7
<1>10. \A j, l \in 1..Len(t) : t[j] = t[l] => j = l
  <2>1. \A j, l \in 1..Len(s) : s[j] = s[l] => j = l
    BY DEF OneCursorEach, s
  <2>2. \A j \in 1..Len(t) : j # u => t[j] # right
    BY <1>1, <1>5
  <2>3. ASSUME NEW j \in 1..Len(t), NEW l \in 1..Len(t), t[j] = t[l], j # u, l # u
        PROVE  j = l
    <3>1. old(j) \in 1..Len(s) /\ old(l) \in 1..Len(s) /\ s[old(j)] = s[old(l)]
      BY <1>5, <2>3
    <3> QED BY <1>7, <2>1, <2>3, <3>1
  <2> QED BY <1>4, <1>8, <2>2, <2>3
<1> QED BY <1>2, <1>9, <1>10 DEF MoreKids, Kids, OneCursorEach, s, t

\* Pages l and r share the children of page p.
Halves(l, r, p) ==
    /\ Kids(l) \cup Kids(r) = Kids(p) /\ Kids(l) \cap Kids(r) = {}
    /\ OneCursorEach(l) /\ OneCursorEach(r)
    /\ l.leaf = p.leaf /\ r.leaf = p.leaf

\* The pages qs of the tree ps with root page r after its page c, a child of page
\* n, was split: a page more, which gets a part of the children of page c.
IsSplit(ps, qs, n, c) ==
    /\ n \in 1..Len(ps) /\ c \in Kids(ps[n]) /\ n # c
    /\ Len(qs) = Len(ps) + 1
    /\ \A m \in (1..Len(ps)) \ {n, c} : qs[m] = ps[m]
    /\ MoreKids(qs[n], ps[n], Len(ps) + 1)
    /\ Halves(qs[c], qs[Len(ps) + 1], ps[c])

\* The halves of a page have its height and share its children.
LEMMA SplitKeepsTree ==
    ASSUME NEW ps, Len(ps) \in Nat, NEW qs, NEW r \in 1..Len(ps), NEW n, NEW c,
           IsSplit(ps, qs, n, c), NEW h, Heights(ps, r, h), Owned(ps, r)
    PROVE  Owned(qs, r) /\ \E g : Heights(qs, r, g)
<1> DEFINE N == Len(ps)
           A == {c}
           B == A \cup {N + 1}
<1>1. /\ n \in 1..N /\ c \in Kids(ps[n]) /\ n # c /\ Len(qs) = N + 1
      /\ \A m \in (1..N) \ {n, c} : qs[m] = ps[m]
      /\ Kids(qs[n]) = Kids(ps[n]) \cup {N + 1}
      /\ Kids(qs[c]) \cup Kids(qs[N + 1]) = Kids(ps[c])
      /\ Kids(qs[c]) \cap Kids(qs[N + 1]) = {}
      /\ qs[n].leaf = ps[n].leaf
      /\ qs[c].leaf = ps[c].leaf /\ qs[N + 1].leaf = ps[c].leaf
      /\ OneCursorEach(qs[n]) /\ OneCursorEach(qs[c]) /\ OneCursorEach(qs[N + 1])
  BY DEF IsSplit, MoreKids, Halves
<1>2. N + 1..Len(qs) = {N + 1} /\ Len(qs) \in Nat /\ Len(qs) >= N
  BY <1>1
<1>3. UNION {Kids(qs[x]) : x \in B} = UNION {Kids(ps[y]) : y \in A}
  BY <1>1
<1>4. Spread(ps, qs, n, A)
  BY <1>1, <1>2, <1>3 DEF Spread
<1> QED BY <1>4, SpreadKeepsTree

\* A new root above page r.
LEMMA NewRootKeepsTree ==
    ASSUME NEW ps, Len(ps) \in Nat, NEW qs, NEW r \in 1..Len(ps),
           Len(qs) = Len(ps) + 1, \A m \in 1..Len(ps) : qs[m] = ps[m],
           Kids(qs[Len(qs)]) = {r}, OneCursorEach(qs[Len(qs)]), qs[Len(qs)].leaf = FALSE,
           NEW h, Heights(ps, r, h), Owned(ps, r)
    PROVE  Owned(qs, Len(qs)) /\ \E g : Heights(qs, Len(qs), g)
<1> DEFINE N == Len(ps)
           root == N + 1
           g == [m \in 1..root |-> IF m = root THEN h[r] + 1 ELSE h[m]]
<1>1. /\ h \in [1..N -> Nat] /\ h[r] < N
      /\ \A m \in 1..N : /\ ps[m].leaf <=> h[m] = 0
                         /\ \A x \in Kids(ps[m]) : x \in 1..N /\ h[m] = h[x] + 1
                         /\ m # r => h[m] < h[r]
  BY DEF Heights
<1>2. /\ \A m \in 1..N : m \in 1..root /\ m # root
      /\ \A m \in 1..root : m = root \/ m \in 1..N
      /\ root \in 1..root
  OBVIOUS
<1>3. /\ g \in [1..root -> Nat] /\ g[root] = h[r] + 1
      /\ \A m \in 1..N : g[m] = h[m]
  BY <1>1, <1>2
<1>4. r \notin Kids(ps[r]) /\ \A m \in 1..N : r \notin Kids(ps[m])
  BY <1>1
<1>5. g[root] < root
  BY <1>1, <1>3
<1>6. /\ Len(qs) = root /\ \A m \in 1..N : qs[m] = ps[m]
      /\ Kids(qs[root]) = {r} /\ OneCursorEach(qs[root]) /\ qs[root].leaf = FALSE
      /\ r \in 1..N
  OBVIOUS
<1> HIDE DEF root, N, g
<1>7. Heights(qs, root, g)
  <2>1. ASSUME NEW m \in 1..root PROVE qs[m].leaf <=> g[m] = 0
    <3>1. CASE m = root
      BY <1>1, <1>3, <1>6, <3>1
    <3>2. CASE m \in 1..N
      BY <1>1, <1>3, <1>6, <3>2
    <3> QED BY <1>2, <3>1, <3>2
  <2>2. ASSUME NEW m \in 1..root, m # root PROVE g[m] < g[root]
    <3>1. m \in 1..N /\ h[r] \in Nat /\ h[m] \in Nat /\ h[m] <= h[r]
      BY <1>1, <1>2, <1>6, <2>2
    <3> QED BY <1>3, <3>1
  <2>3. ASSUME NEW m \in 1..root, NEW x \in Kids(qs[m])
        PROVE  x \in 1..root /\ g[m] = g[x] + 1
    <3>1. CASE m = root
      BY <1>2, <1>3, <1>6, <2>3, <3>1
    <3>2. CASE m \in 1..N
      <4>1. qs[m] = ps[m] /\ x \in 1..N /\ h[m] = h[x] + 1
        BY <1>1, <1>6, <2>3, <3>2
      <4> QED BY <1>2, <1>3, <3>2, <4>1
    <3> QED BY <1>2, <3>1, <3>2
  <2> QED BY <1>3, <1>5, <1>6, <2>1, <2>2, <2>3 DEF Heights
<1>8. /\ \A m \in (1..N) \ {r} : \E x \in 1..N : m \in Kids(ps[x])
      /\ \A m \in 1..N : OneCursorEach(ps[m])
      /\ \A m, x \in 1..N : m # x => Kids(ps[m]) \cap Kids(ps[x]) = {}
  BY DEF Owned, N
<1>9. Owned(qs, root)
  <2>1. ASSUME NEW m \in (1..root) \ {root} PROVE \E x \in 1..root : m \in Kids(qs[x])
    <3>1. CASE m = r
      BY <1>2, <1>6, <3>1
    <3>2. CASE m # r
      BY <1>2, <1>6, <1>8, <3>2
    <3> QED BY <3>1, <3>2
  <2>2. ASSUME NEW m \in 1..root PROVE OneCursorEach(qs[m])
    BY <1>2, <1>6, <1>8
  <2>3. ASSUME NEW m \in 1..root, NEW x \in 1..root, m # x
        PROVE  Kids(qs[m]) \cap Kids(qs[x]) = {}
    <3>1. CASE m \in 1..N /\ x \in 1..N
      BY <1>6, <1>8, <2>3, <3>1
    <3>2. CASE m = root
      BY <1>2, <1>4, <1>6, <2>3, <3>2
    <3>3. CASE x = root
      BY <1>2, <1>4, <1>6, <2>3, <3>3
    <3> QED BY <1>2, <3>1, <3>2, <3>3
  <2> QED BY <1>6, <2>1, <2>2, <2>3 DEF Owned
<1> QED BY <1>6, <1>7, <1>9

\* The pages qs after splitChild() has written x to page n, y to page c and z to a
\* new page.
Written(ps, qs, n, c, x, y, z) ==
    /\ Len(qs) = Len(ps) + 1
    /\ qs[n] = x /\ qs[c] = y /\ qs[Len(ps) + 1] = z
    /\ \A m \in (1..Len(ps)) \ {n, c} : qs[m] = ps[m]

\* The three writes of splitChild().
LEMMA ThreeWrites ==
    ASSUME NEW S, NEW ps \in Seq(S), NEW n \in 1..Len(ps), NEW c \in 1..Len(ps), n # c,
           NEW x \in S, NEW y \in S, NEW z \in S
    PROVE  Written(ps, WritePage([ps EXCEPT ![n] = x, ![c] = y], Len(ps) + 1, z),
                   n, c, x, y, z)
<1> DEFINE one == [ps EXCEPT ![n] = x]
           both == [ps EXCEPT ![n] = x, ![c] = y]
<1>1. /\ one \in Seq(S) /\ Len(one) = Len(ps)
      /\ \A m \in 1..Len(ps) : one[m] = IF m = n THEN x ELSE ps[m]
  BY ExceptSeq
<1>2. both = [one EXCEPT ![c] = y]
  OBVIOUS
<1> HIDE DEF one, both
<1>3. /\ both \in Seq(S) /\ Len(both) = Len(ps)
      /\ \A m \in 1..Len(ps) : both[m] = IF m = c THEN y ELSE one[m]
  BY <1>1, <1>2, ExceptSeq
<1>4. WritePage(both, Len(ps) + 1, z) = Append(both, z)
  BY <1>3 DEF WritePage
<1>5. /\ Len(Append(both, z)) = Len(ps) + 1
      /\ \A m \in 1..Len(ps) : Append(both, z)[m] = both[m]
      /\ Append(both, z)[Len(ps) + 1] = z
  BY <1>3, AppendProperties
<1>6. both[n] = x /\ both[c] = y /\ \A m \in (1..Len(ps)) \ {n, c} : both[m] = ps[m]
  BY <1>1, <1>3
<1>7. Written(ps, WritePage(both, Len(ps) + 1, z), n, c, x, y, z)
  BY <1>4, <1>5, <1>6 DEF Written
<1> QED BY <1>7 DEF both

-------------------------------------------------------------------------------
(* The pages of a state. *)

\* The pages are a tree.
TreeInv ==
    /\ Owned(pages, rootPageNum)
    /\ \E h : Heights(pages, rootPageNum, h)

\* createTree() builds a tree of one page.
LEMMA InitTree == Init => TreeInv
<1> SUFFICES ASSUME Init PROVE TreeInv
  OBVIOUS
<1>1. /\ Len(pages) = 1 /\ rootPageNum = 1
      /\ pages[1].leaf = TRUE /\ Len(pages[1].cursors) = 0
  BY DEF Init
<1>2. Kids(pages[1]) = {} /\ OneCursorEach(pages[1])
  BY <1>1 DEF Kids, OneCursorEach
<1>3. \A n \in 1..Len(pages) : n = 1
  BY <1>1
<1>4. Owned(pages, rootPageNum)
  BY <1>1, <1>2, <1>3 DEF Owned
<1>5. Heights(pages, rootPageNum, [n \in 1..1 |-> 0])
  BY <1>1, <1>2, <1>3 DEF Heights
<1> QED BY <1>4, <1>5 DEF TreeInv

\* Nor does a step that writes no page.
LEMMA QuietKeepsTree ==
    ASSUME TreeInv, UNCHANGED <<pages, rootPageNum>>
    PROVE  TreeInv'
  BY DEF TreeInv

-------------------------------------------------------------------------------
(* The steps of TreeCore that read pages only, for any tree whose cursors  *)
(* lead to its pages.                                                      *)

\* Page p has one cursor more than keys, or none, and they lead to pages in S.
Linked(p, S) ==
    /\ p \in Page
    /\ p.cursors \in Seq(S)
    /\ Len(p.cursors) = IF p.leaf THEN 0 ELSE Len(p.keys) + 1

\* No cursor of the pages ps leads to the root page r or back to its own page.
LinksOK(ps, r) == \A n \in 1..Len(ps) : Linked(ps[n], (1..Len(ps)) \ {r, n})

\* The call in progress works on pages that exist, through _rootPage on the root.
CoreCall ==
    /\ fn \in {"idle", "insertNonFull", "search", "searchAll"}
    /\ fn # "idle" => k \in Keys
    /\ at # rootPageNum
    /\ fn = "searchAll" => stack \in Seq(0..Len(pages)) /\ stack # <<>>

\* What the searches rely on.  Without deletion no page is ever free.
CoreOK ==
    /\ TypeOK /\ freePages = <<>> /\ RootInMemory
    /\ LinksOK(pages, rootPageNum)
    /\ CoreCall

\* A step that leaves the tree alone and goes on with no insertion.
ReadsOnly == UNCHANGED <<treeVars, size>> /\ fn' # "insertNonFull"

\* The kinds of the parts of a page.
LEMMA LinkedTypes ==
    ASSUME NEW S, NEW p, Linked(p, S)
    PROVE  /\ p.keys \in Seq(Keys) /\ p.leaf \in BOOLEAN /\ Len(p.keys) \in Nat
           /\ p.cursors \in Seq(S) /\ p.cursors \in Seq(Nat)
<1>1. p \in Page /\ p.cursors \in Seq(S)
  BY DEF Linked
<1>2. p.keys \in Seq(Keys) /\ p.leaf \in BOOLEAN /\ p.cursors \in Seq(Nat)
  BY <1>1 DEF Page
<1> QED BY <1>1, <1>2, LenProperties

\* The cursors of a tree lead to its pages, but not to the root or back.
LEMMA HeightsLink ==
    ASSUME NEW ps, NEW r, NEW h, Heights(ps, r, h),
           \A n \in 1..Len(ps) :
              /\ ps[n] \in Page
              /\ Len(ps[n].cursors) = IF ps[n].leaf THEN 0 ELSE Len(ps[n].keys) + 1
    PROVE  LinksOK(ps, r)
<1> SUFFICES ASSUME NEW n \in 1..Len(ps)
             PROVE  Linked(ps[n], (1..Len(ps)) \ {r, n})
  BY DEF LinksOK
<1> DEFINE p == ps[n]
           S == (1..Len(ps)) \ {r, n}
<1>1. p.cursors \in Seq(Nat) /\ Len(p.cursors) \in Nat
  BY LenProperties DEF Page
<1>2. \A i \in 1..Len(p.cursors) : p.cursors[i] \in S
  <2> TAKE i \in 1..Len(p.cursors)
  <2> DEFINE m == p.cursors[i]
  <2>1. m \in Kids(ps[n])
    BY DEF Kids
  <2> HIDE DEF m
  <2>2. /\ h \in [1..Len(ps) -> Nat] /\ m \in 1..Len(ps) /\ h[n] = h[m] + 1
        /\ (n # r => h[n] < h[r])
    BY <2>1 DEF Heights
  <2>3. m # n /\ m # r
    BY <2>2
  <2> QED BY <2>2, <2>3 DEF m
<1> HIDE DEF S
<1>3. p.cursors \in Seq(S)
  <2> DEFINE l == Len(p.cursors)
  <2>1. p.cursors \in [1..l -> Nat]
    BY <1>1, LenProperties
  <2>2. p.cursors \in [1..l -> S]
    BY <1>2, <2>1
  <2> HIDE DEF l, p
  <2>3. l \in Nat
    BY <1>1 DEF l
  <2> QED BY <2>2, <2>3, SeqDef
<1> QED BY <1>3 DEF Linked, S

\* A wrapper holds the page on disk.
LEMMA WrapperOnDisk ==
    ASSUME CoreOK
    PROVE  /\ Data(at) = pages[PageNum(at)]
           /\ PageNum(at) \in 1..Len(pages)
           /\ Linked(Data(at), (1..Len(pages)) \ {rootPageNum, PageNum(at)})
           /\ at # RootWrapper => PageNum(at) = at /\ PageNum(at) # rootPageNum
           /\ at = RootWrapper => PageNum(at) = rootPageNum
<1>1. /\ at \in 0..Len(pages) /\ rootPageNum \in 1..Len(pages)
      /\ rootPage = pages[rootPageNum] /\ at # rootPageNum
  BY DEF CoreOK, TypeOK, RootInMemory, CoreCall
<1>2. PageNum(at) \in 1..Len(pages)
  BY <1>1 DEF PageNum, RootWrapper
<1> QED BY <1>1, <1>2 DEF CoreOK, LinksOK, PageNum, Data, RootWrapper

\* A cursor of the page a wrapper holds leads to another page, not the root.
LEMMA CursorLeads ==
    ASSUME CoreOK, ~Data(at).leaf, NEW i \in 1..Len(Data(at).keys) + 1
    PROVE  Data(at).cursors[i] \in (1..Len(pages)) \ {rootPageNum, PageNum(at)}
<1> DEFINE S == (1..Len(pages)) \ {rootPageNum, PageNum(at)}
           p == Data(at)
<1>1. Linked(p, S)
  BY WrapperOnDisk
<1>2. p.cursors \in Seq(S) /\ i \in 1..Len(p.cursors)
  BY <1>1 DEF Linked
<1> HIDE DEF S, p
<1>3. p.cursors[i] \in S
  BY <1>2, ElementOfSeq
<1> QED BY <1>3 DEF S, p

\* A step that leaves the tree alone keeps the rest if it keeps the call legal.
LEMMA ReadStep ==
    ASSUME CoreOK, ReadsOnly, CoreCall',
           op' \in {"none", "insert", "search", "searchAll", "remove", "removeAll"},
           k' \in Keys \cup {NoKey}, at' \in 0..Len(pages),
           stack' \in Seq(Nat), answer' \in Nat
    PROVE  CoreOK'
<1>1. /\ pages' = pages /\ rootPageNum' = rootPageNum /\ rootPage' = rootPage
      /\ freePages' = freePages /\ size' = size
  BY DEF ReadsOnly, treeVars
<1>2. TypeOK'
  BY <1>1 DEF CoreOK, TypeOK, CoreCall
<1>3. LinksOK(pages, rootPageNum)' /\ RootInMemory' /\ freePages' = <<>>
  BY <1>1 DEF CoreOK, LinksOK, RootInMemory
<1> QED BY <1>2, <1>3 DEF CoreOK

\* The end of a call.
LEMMA ReturnOK ==
    ASSUME NEW r, Return(r), rootPageNum' \in Nat \ {0}
    PROVE  CoreCall' /\ fn' = "idle"
  BY DEF Return, CoreCall, RootWrapper

\* A call of search() changes no page.
LEMMA SearchCallReads ==
    ASSUME CoreOK, NEW x \in Keys, Search(x)
    PROVE  CoreOK' /\ ReadsOnly
<1>1. /\ fn' = "search" /\ op' = "search" /\ k' = x /\ at' = 0 /\ answer' = 0
      /\ stack' = stack /\ rootPageNum' = rootPageNum /\ UNCHANGED <<treeVars, size>>
  BY DEF Search, Call, RootWrapper, treeVars
<1>2. /\ rootPageNum \in 1..Len(pages) /\ stack \in Seq(Nat) /\ at \in 0..Len(pages)
      /\ pages \in Seq(Page)
  BY DEF CoreOK, TypeOK
<1>3. CoreCall' /\ ReadsOnly
  BY <1>1, <1>2 DEF CoreCall, ReadsOnly
<1> QED BY <1>1, <1>2, <1>3, ReadStep, LenProperties

\* A call of searchAll() changes no page and starts with the root.
LEMMA SearchAllCallReads ==
    ASSUME CoreOK, NEW x \in Keys, SearchAll(x)
    PROVE  CoreOK' /\ ReadsOnly
<1>1. /\ fn' = "searchAll" /\ op' = "searchAll" /\ k' = x /\ at' = 0 /\ answer' = 0
      /\ stack' = <<0>> /\ pages' = pages /\ rootPageNum' = rootPageNum
      /\ UNCHANGED <<treeVars, size>>
  BY DEF SearchAll, Call, RootWrapper, treeVars
<1>2. /\ rootPageNum \in 1..Len(pages) /\ at \in 0..Len(pages) /\ Len(pages) \in Nat
  BY LenProperties DEF CoreOK, TypeOK
<1>3. stack' \in Seq(0..Len(pages)) /\ stack' \in Seq(Nat) /\ stack' # <<>>
  BY <1>1, <1>2
<1>4. CoreCall' /\ ReadsOnly
  BY <1>1, <1>2, <1>3 DEF CoreCall, ReadsOnly
<1> QED BY <1>1, <1>2, <1>3, <1>4, ReadStep

\* loadTree() finds the root page that was already in memory.
LEMMA LoadTreeReads ==
    ASSUME CoreOK, LoadTree
    PROVE  CoreOK' /\ ReadsOnly
<1>1. rootPage' = rootPage /\ UNCHANGED <<treeVars, size, callVars>>
  BY DEF LoadTree, CoreOK, RootInMemory, treeVars
<1>2. /\ op' = op /\ k' = k /\ at' = at /\ stack' = stack /\ answer' = answer /\ fn' = fn
      /\ fn = "idle" /\ rootPageNum' = rootPageNum
  BY <1>1 DEF callVars, treeVars, LoadTree
<1>3. CoreCall' /\ ReadsOnly
  BY <1>1, <1>2 DEF CoreCall, CoreOK, ReadsOnly
<1> QED BY <1>1, <1>2, <1>3, ReadStep DEF CoreOK, TypeOK

\* A call that ends and changed no page.
LEMMA ReturnReads ==
    ASSUME CoreOK, NEW r \in Nat, Return(r), UNCHANGED <<treeVars, size>>
    PROVE  CoreOK' /\ ReadsOnly
<1>1. /\ fn' = "idle" /\ at' = 0 /\ op' = "none" /\ k' = NoKey /\ answer' = r
      /\ stack' = <<>> /\ rootPageNum' = rootPageNum
  BY DEF Return, treeVars, RootWrapper
<1>2. rootPageNum \in 1..Len(pages) /\ Len(pages) \in Nat
  BY LenProperties DEF CoreOK, TypeOK
<1>3. CoreCall' /\ ReadsOnly
  BY <1>1, <1>2, ReturnOK DEF ReadsOnly
<1>4. stack' \in Seq(Nat) /\ at' \in 0..Len(pages)
  BY <1>1, <1>2, EmptySeq
<1> QED BY <1>1, <1>3, <1>4, ReadStep

\* The tail call of insertNonFull() or search() on a child.
LEMMA TailCall ==
    ASSUME CoreOK, fn \in {"insertNonFull", "search"}, ~Data(at).leaf,
           NEW i \in 1..Len(Data(at).keys) + 1,
           Continue(fn, Data(at).cursors[i]), UNCHANGED <<treeVars, size, stack>>
    PROVE  CoreOK'
<1> DEFINE c == Data(at).cursors[i]
<1>1. c \in (1..Len(pages)) \ {rootPageNum, PageNum(at)}
  BY CursorLeads
<1> HIDE DEF c
<1>2. /\ fn' = fn /\ at' = c /\ op' = op /\ k' = k /\ answer' = answer /\ stack' = stack
      /\ pages' = pages /\ rootPageNum' = rootPageNum /\ rootPage' = rootPage
      /\ size' = size /\ freePages' = freePages
  BY DEF Continue, treeVars, c
<1>3. CoreCall'
  BY <1>1, <1>2 DEF CoreOK, CoreCall
<1>4. TypeOK'
  BY <1>1, <1>2 DEF CoreOK, TypeOK
<1> QED BY <1>2, <1>3, <1>4 DEF CoreOK, LinksOK, RootInMemory

\* One recursive call of search().
LEMMA SearchReads ==
    ASSUME CoreOK, search
    PROVE  CoreOK' /\ ReadsOnly
<1> DEFINE p == Data(at)
           i == FirstNotLess(p.keys, k)
<1>1. i \in 1..Len(p.keys) + 1
  <2>1. p.keys \in Seq(Keys)
    BY WrapperOnDisk, LinkedTypes
  <2> QED BY <2>1, FirstNotLessRange
<1>2. CASE (Return(0) \/ Return(1)) /\ UNCHANGED <<treeVars, size>>
  BY <1>2, ReturnReads
<1>3. CASE /\ ~p.leaf /\ Continue("search", p.cursors[i])
           /\ UNCHANGED <<treeVars, size, stack>>
  <2>1. fn = "search"
    BY DEF search
  <2>2. ReadsOnly
    BY <1>3 DEF ReadsOnly, Continue
  <2> QED BY <1>1, <1>3, <2>1, <2>2, TailCall
<1> QED BY <1>2, <1>3 DEF search

\* One recursive call of searchAll(): the pages yet to visit exist.
LEMMA SearchAllReads ==
    ASSUME CoreOK, searchAll
    PROVE  CoreOK' /\ ReadsOnly
<1> DEFINE h == Head(stack)
           p == Data(h)
           first == FirstNotLess(p.keys, k)
           next == first + EqualRun(p.keys, first, k)
           T == {j \in first..next - 1 : p.keys[j] = k}
           hits == IF HoldsKeys(p) THEN Cardinality(T) ELSE 0
           below == IF p.leaf THEN <<>> ELSE SubSeq(p.cursors, first, next)
           rest == below \o Tail(stack)
<1>1. /\ stack \in Seq(0..Len(pages)) /\ stack # <<>> /\ fn = "searchAll" /\ k \in Keys
      /\ rootPageNum \in 1..Len(pages) /\ Len(pages) \in Nat /\ answer \in Nat
      /\ at \in 0..Len(pages)
  BY LenProperties DEF searchAll, CoreOK, CoreCall, TypeOK
<1>2. h \in 0..Len(pages) /\ Tail(stack) \in Seq(0..Len(pages))
  BY <1>1, HeadTailProperties
<1>3. \E n \in 1..Len(pages) : p = pages[n]
  BY <1>1, <1>2 DEF CoreOK, RootInMemory, Data, RootWrapper
<1>4. PICK n \in 1..Len(pages) :
         p = pages[n] /\ Linked(pages[n], (1..Len(pages)) \ {rootPageNum, n})
  BY <1>3 DEF CoreOK, LinksOK
<1> DEFINE S == (1..Len(pages)) \ {rootPageNum, n}
<1> HIDE DEF p, h
<1>5. /\ p.keys \in Seq(Keys) /\ p.cursors \in Seq(S) /\ Len(p.keys) \in Nat
      /\ (~p.leaf => Len(p.cursors) = Len(p.keys) + 1)
  <2>1. Linked(p, S)
    BY <1>4
  <2> HIDE DEF S
  <2>2. p.keys \in Seq(Keys) /\ p.cursors \in Seq(S)
    BY <2>1, LinkedTypes
  <2>3. ~p.leaf => Len(p.cursors) = Len(p.keys) + 1
    BY <2>1 DEF Linked
  <2> QED BY <2>2, <2>3, LenProperties
<1>6. first \in 1..Len(p.keys) + 1
  BY <1>5, FirstNotLessRange
<1> HIDE DEF first
<1>7. EqualRun(p.keys, first, k) \in Nat /\ next <= Len(p.keys) + 1
  BY <1>5, <1>6, EqualRunRange
<1>8. next \in Nat /\ first <= next
  BY <1>6, <1>7
<1> HIDE DEF next
<1>9. hits \in Nat
  <2>1. T \in SUBSET (1..Len(p.keys))
    BY <1>5, <1>6, <1>7, <1>8
  <2>2. 1 \in Nat /\ 1 <= Len(p.keys) + 1
    BY <1>5
  <2> HIDE DEF T
  <2>3. Cardinality(T) \in Nat
    BY ONLY <1>5, <2>1, <2>2, CountBound, Zenon
  <2> QED BY <2>3
<1>10. below \in Seq(0..Len(pages))
  <2>1. CASE p.leaf
    BY <2>1, EmptySeq
  <2>2. CASE ~p.leaf
    <3>1. first \in Nat \ {0} /\ first + (next - first + 1) = next + 1
          /\ next - first + 1 \in Nat /\ next <= Len(p.cursors)
      BY <1>5, <1>6, <1>7, <1>8, <2>2
    <3> HIDE DEF S
    <3>2. SubSeq(p.cursors, first, next) \in Seq(S)
      BY ONLY <1>5, <1>8, <3>1, SubSeqIn, Zenon
    <3>3. S \subseteq 0..Len(pages)
      BY <1>1 DEF S
    <3> QED BY <2>2, <3>2, <3>3, SeqMonotonic
  <2> QED BY <2>1, <2>2
<1> HIDE DEF below, hits
<1>11. rest \in Seq(0..Len(pages)) /\ rest \in Seq(Nat)
  <2>1. rest \in Seq(0..Len(pages))
    BY <1>2, <1>10, ConcatProperties
  <2>2. 0..Len(pages) \subseteq Nat
    OBVIOUS
  <2> QED BY <2>1, <2>2, SeqMonotonic
<1> HIDE DEF rest
<1>12. answer + hits \in Nat
  BY <1>1, <1>9
<1>13. \/ Return(answer + hits) /\ UNCHANGED <<treeVars, size>>
       \/ /\ rest # <<>> /\ stack' = rest /\ answer' = answer + hits
          /\ UNCHANGED <<treeVars, size, op, k, fn, at>>
  BY DEF searchAll, rest, below, hits, next, first, p, h
<1>14. CASE Return(answer + hits) /\ UNCHANGED <<treeVars, size>>
  BY <1>12, <1>14, ReturnReads
<1>15. CASE /\ rest # <<>> /\ stack' = rest /\ answer' = answer + hits
            /\ UNCHANGED <<treeVars, size, op, k, fn, at>>
  <2>1. /\ pages' = pages /\ rootPageNum' = rootPageNum
        /\ op' = op /\ k' = k /\ fn' = fn /\ at' = at
    BY <1>15 DEF treeVars
  <2>2. CoreCall' /\ ReadsOnly
    BY <1>1, <1>11, <1>15, <2>1 DEF CoreOK, CoreCall, ReadsOnly
  <2> QED BY <1>1, <1>11, <1>12, <1>15, <2>1, <2>2, ReadStep DEF CoreOK, TypeOK
<1> QED BY <1>13, <1>14, <1>15

\* No search throws.
LEMMA SearchesReadPages ==
    ASSUME CoreOK
    PROVE  ~SearchThrows /\ ~SearchAllThrows
<1>1. ~SearchThrows
  <2> DEFINE p == Data(at)
  <2>1. p.keys \in Seq(Keys)
    BY WrapperOnDisk, LinkedTypes
  <2>2. \A i \in 1..Len(p.keys) + 1 : ~p.leaf => Exists(p.cursors[i])
    BY CursorLeads DEF Exists
  <2> QED BY <2>1, <2>2, FirstNotLessRange DEF SearchThrows
<1>2. ~SearchAllThrows
  <2> SUFFICES ASSUME fn = "searchAll", NEW j \in 1..Len(stack), stack[j] # RootWrapper
               PROVE  Exists(stack[j])
    BY DEF SearchAllThrows
  <2>1. stack \in Seq(0..Len(pages))
    BY DEF CoreOK, CoreCall
  <2>2. stack[j] \in 0..Len(pages)
    BY <2>1, ElementOfSeq
  <2> QED BY <2>2 DEF Exists, RootWrapper
<1> QED BY <1>1, <1>2
===============================================================================
