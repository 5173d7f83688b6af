---------------------------- MODULE TreeBagProofs ----------------------------
(***************************************************************************)
(* Proofs about TreeBase, for every order, tree type, set of keys and      *)
(* bound: without deletion the B-tree and the B+-tree are bags of keys, as *)
(* KeyBag specifies them.                                                  *)
(*                                                                         *)
(* How often a key is stored is counted by bijections between the places   *)
(* of the key before and after a step.  For the searches the invariant     *)
(* says that search() has not passed a stored key, that searchAll() has    *)
(* counted the places outside the subtrees it has still to visit, which    *)
(* are disjoint, and, for the B+-tree, where only the leaves count, that   *)
(* every router is also stored in a leaf below the cursor in front of it.  *)
(***************************************************************************)
EXTENDS TreeProofs

-------------------------------------------------------------------------------
(* The pages below a page. *)

\* With a page of S its children are in S.
Closed(ps, S) == \A n \in S : Kids(ps[n]) \subseteq S

\* The pages of the subtree of page n.
Under(ps, n) ==
    {m \in 1..Len(ps) : \A S \in SUBSET (1..Len(ps)) : n \in S /\ Closed(ps, S) => m \in S}

\* The cursors of the pages ps lead to pages.
KidsExist(ps) == \A m \in 1..Len(ps) : Kids(ps[m]) \subseteq 1..Len(ps)

\* The subtree of a page is closed.
LEMMA UnderClosed ==
    ASSUME NEW ps, KidsExist(ps), NEW n \in 1..Len(ps)
    PROVE  n \in Under(ps, n) /\ Under(ps, n) \subseteq 1..Len(ps) /\ Closed(ps, Under(ps, n))
<1>1. n \in Under(ps, n) /\ Under(ps, n) \subseteq 1..Len(ps)
  BY DEF Under
<1>2. ASSUME NEW m \in Under(ps, n), NEW c \in Kids(ps[m]) PROVE c \in Under(ps, n)
  <2>1. m \in 1..Len(ps) /\ c \in 1..Len(ps)
    BY <1>1 DEF KidsExist
  <2>2. ASSUME NEW S \in SUBSET (1..Len(ps)), n \in S, Closed(ps, S) PROVE c \in S
    <3>1. m \in S
      BY <2>2 DEF Under
    <3> QED BY <2>2, <3>1 DEF Closed
  <2> QED BY <2>1, <2>2 DEF Under
<1> QED BY <1>1, <1>2 DEF Closed

\* It is the least closed set with the page.
LEMMA UnderLeast ==
    ASSUME NEW ps, NEW n, NEW S \in SUBSET (1..Len(ps)), n \in S, Closed(ps, S)
    PROVE  Under(ps, n) \subseteq S
  BY DEF Under

\* The subtree of a child lies in that of its parent.
LEMMA UnderKid ==
    ASSUME NEW ps, KidsExist(ps), NEW n \in 1..Len(ps), NEW c \in Kids(ps[n])
    PROVE  c \in 1..Len(ps) /\ Under(ps, c) \subseteq Under(ps, n)
<1>1. n \in Under(ps, n) /\ Under(ps, n) \in SUBSET (1..Len(ps)) /\ Closed(ps, Under(ps, n))
  BY UnderClosed
<1>2. c \in Under(ps, n)
  BY <1>1 DEF Closed
<1> QED BY <1>1, <1>2, UnderLeast

\* Below a page are the page itself and what is below its children.
LEMMA UnderKids ==
    ASSUME NEW ps, KidsExist(ps), NEW n \in 1..Len(ps), NEW m \in Under(ps, n), m # n
    PROVE  \E c \in Kids(ps[n]) : m \in Under(ps, c)
<1> DEFINE K == Kids(ps[n])
           S == {n} \cup UNION {Under(ps, c) : c \in K}
<1>1. \A c \in K : c \in 1..Len(ps) /\ c \in Under(ps, c)
                   /\ Under(ps, c) \subseteq 1..Len(ps) /\ Closed(ps, Under(ps, c))
  BY UnderKid, UnderClosed
<1> HIDE DEF K
<1>2. S \in SUBSET (1..Len(ps)) /\ n \in S
  BY <1>1
<1>3. Closed(ps, S)
  <2> SUFFICES ASSUME NEW a \in S, NEW b \in Kids(ps[a]) PROVE b \in S
    BY DEF Closed
  <2>1. CASE a = n
    BY <1>1, <2>1 DEF K
  <2>2. CASE a # n
    <3>1. PICK c \in K : a \in Under(ps, c)
      BY <2>2
    <3>2. b \in Under(ps, c)
      BY <1>1, <3>1 DEF Closed
    <3> QED BY <3>1, <3>2
  <2> QED BY <2>1, <2>2
<1>4. m \in S
  <2> HIDE DEF S
  <2> QED BY <1>2, <1>3, UnderLeast
<1> QED BY <1>4 DEF K

\* A page below another one hangs under a page that is below it too.
LEMMA UnderOwner ==
    ASSUME NEW ps, KidsExist(ps), NEW n \in 1..Len(ps), NEW m \in Under(ps, n), m # n
    PROVE  \E a \in Under(ps, n) : m \in Kids(ps[a])
<1> SUFFICES ASSUME \A a \in Under(ps, n) : m \notin Kids(ps[a]) PROVE FALSE
  OBVIOUS
<1> DEFINE S == Under(ps, n) \ {m}
<1>1. n \in Under(ps, n) /\ Under(ps, n) \subseteq 1..Len(ps) /\ Closed(ps, Under(ps, n))
  BY UnderClosed
<1>2. S \in SUBSET (1..Len(ps)) /\ n \in S /\ m \notin S
  BY <1>1
<1>3. Closed(ps, S)
  BY <1>1 DEF Closed
<1> HIDE DEF S
<1> QED BY <1>2, <1>3, UnderLeast

\* A page is higher than the pages below it.
LEMMA UnderLower ==
    ASSUME NEW ps, KidsExist(ps), NEW r, NEW h, Heights(ps, r, h), NEW n \in 1..Len(ps),
           NEW m \in Under(ps, n)
    PROVE  h[m] \in Nat /\ h[n] \in Nat /\ h[m] <= h[n] /\ (m # n => h[m] < h[n])
<1> DEFINE S == {a \in 1..Len(ps) : h[a] <= h[n] /\ (a # n => h[a] < h[n])}
<1>1. \A a \in 1..Len(ps) : h[a] \in Nat /\ \A b \in Kids(ps[a]) : h[a] = h[b] + 1
  BY DEF Heights
<1>2. S \in SUBSET (1..Len(ps)) /\ n \in S
  BY <1>1
<1>3. Closed(ps, S)
  <2> SUFFICES ASSUME NEW a \in S, NEW b \in Kids(ps[a]) PROVE b \in S
    BY DEF Closed
  <2>1. b \in 1..Len(ps)
    BY DEF KidsExist
  <2>2. h[a] = h[b] + 1 /\ h[a] \in Nat /\ h[b] \in Nat /\ h[n] \in Nat /\ h[a] <= h[n]
    BY <1>1, <2>1
  <2>3. h[b] < h[n] /\ h[b] <= h[n]
    BY <2>2
  <2> QED BY <2>1, <2>3
<1>4. m \in S
  <2> HIDE DEF S
  <2> QED BY <1>2, <1>3, UnderLeast
<1> QED BY <1>1, <1>4

\* No page is below two children of a page.
LEMMA UnderDisjoint ==
    ASSUME NEW ps, KidsExist(ps), NEW r, NEW h, Heights(ps, r, h), Owned(ps, r),
           NEW n \in 1..Len(ps), NEW c \in Kids(ps[n]), NEW d \in Kids(ps[n]), c # d
    PROVE  Under(ps, c) \cap Under(ps, d) = {}
<1> DEFINE C == Under(ps, c)
           D == Under(ps, d)
           T == {h[n] - h[m] : m \in C \cap D}
<1> SUFFICES ASSUME C \cap D # {} PROVE FALSE
  OBVIOUS
<1>1. c \in 1..Len(ps) /\ d \in 1..Len(ps)
  BY DEF KidsExist
<1>2. /\ \A a \in 1..Len(ps) : h[a] \in Nat /\ \A b \in Kids(ps[a]) : h[a] = h[b] + 1
      /\ \A a, b \in 1..Len(ps) : a # b => Kids(ps[a]) \cap Kids(ps[b]) = {}
  BY DEF Heights, Owned
<1>3. \A m \in C : m \in 1..Len(ps) /\ h[m] <= h[c]
  BY <1>1, UnderLower, UnderClosed
<1>4. \A m \in D : m \in 1..Len(ps) /\ h[m] <= h[d]
  BY <1>1, UnderLower, UnderClosed
<1>5. h[n] = h[c] + 1 /\ h[n] = h[d] + 1 /\ h[c] \in Nat /\ h[d] \in Nat /\ h[n] \in Nat
  BY <1>1, <1>2
<1>6. \A m \in C \cap D : h[n] - h[m] \in Nat
  <2> SUFFICES ASSUME NEW m \in C \cap D PROVE h[n] - h[m] \in Nat
    OBVIOUS
  <2>1. h[m] \in Nat /\ h[m] <= h[c]
    BY <1>2, <1>3
  <2> QED BY <1>5, <2>1
<1> HIDE DEF C, D
<1>7. T \subseteq Nat /\ T # {}
  BY <1>6
<1>8. PICK t \in T : \A y \in T : t <= y
  <2> HIDE DEF T
  <2> QED BY <1>7, LeastNumber
<1>9. PICK m \in C \cap D : t = h[n] - h[m]
  BY <1>8
<1>10. n \notin C /\ n \notin D
  <2>1. ~(h[n] <= h[c]) /\ ~(h[n] <= h[d])
    BY <1>5
  <2> QED BY <1>3, <1>4, <2>1
<1>11. m # c
  <2> SUFFICES ASSUME m = c PROVE FALSE
    OBVIOUS
  <2>1. PICK a \in D : c \in Kids(ps[a])
    BY <1>1, <1>9, UnderOwner DEF D
  <2>2. a = n
    BY <1>2, <1>4, <2>1
  <2> QED BY <1>10, <2>1, <2>2
<1>12. m # d
  <2> SUFFICES ASSUME m = d PROVE FALSE
    OBVIOUS
  <2>1. PICK a \in C : d \in Kids(ps[a])
    BY <1>1, <1>9, UnderOwner DEF C
  <2>2. a = n
    BY <1>2, <1>3, <2>1
  <2> QED BY <1>10, <2>1, <2>2
<1>13. PICK a \in C : m \in Kids(ps[a])
  BY <1>1, <1>9, <1>11, UnderOwner DEF C
<1>14. PICK b \in D : m \in Kids(ps[b])
  BY <1>1, <1>9, <1>12, UnderOwner DEF D
<1>15. a = b
  BY <1>2, <1>3, <1>4, <1>13, <1>14
<1>16. a \in C \cap D /\ h[a] = h[m] + 1 /\ h[m] \in Nat /\ h[a] \in Nat
  BY <1>2, <1>3, <1>9, <1>13, <1>14, <1>15
<1>17. h[n] - h[a] \in T
  BY <1>16
<1>18. h[n] - h[m] <= h[n] - h[a]
  BY <1>8, <1>9, <1>17
<1> QED BY ONLY <1>5, <1>16, <1>18

\* All the pages are below the root.
LEMMA UnderRoot ==
    ASSUME NEW ps, KidsExist(ps), NEW r \in 1..Len(ps), NEW h, Heights(ps, r, h), Owned(ps, r)
    PROVE  Under(ps, r) = 1..Len(ps)
<1> DEFINE U == Under(ps, r)
           V == (1..Len(ps)) \ U
           T == {h[r] - h[m] : m \in V}
<1>1. r \in U /\ U \subseteq 1..Len(ps) /\ Closed(ps, U)
  BY UnderClosed
<1> SUFFICES ASSUME V # {} PROVE FALSE
  BY <1>1
<1>2. /\ \A a \in 1..Len(ps) : h[a] \in Nat /\ \A b \in Kids(ps[a]) : h[a] = h[b] + 1
      /\ \A a \in 1..Len(ps) : a # r => h[a] < h[r]
      /\ \A a \in (1..Len(ps)) \ {r} : \E b \in 1..Len(ps) : a \in Kids(ps[b])
  BY DEF Heights, Owned
<1> HIDE DEF U
<1>3. \A m \in V : h[r] - h[m] \in Nat
  <2> SUFFICES ASSUME NEW m \in V PROVE h[r] - h[m] \in Nat
    OBVIOUS
  <2>1. h[m] \in Nat /\ h[r] \in Nat /\ h[m] < h[r]
    BY <1>1, <1>2
  <2> QED BY <2>1
<1> HIDE DEF V
<1>4. T \subseteq Nat /\ T # {}
  BY <1>3
<1>5. PICK t \in T : \A y \in T : t <= y
  <2> HIDE DEF T
  <2> QED BY <1>4, LeastNumber
<1>6. PICK m \in V : t = h[r] - h[m]
  BY <1>5
<1>7. m \in (1..Len(ps)) \ {r} /\ m \notin U
  BY <1>1, <1>6 DEF V
<1>8. PICK a \in 1..Len(ps) : m \in Kids(ps[a])
  BY <1>2, <1>7
<1>9. a \in V
  BY <1>1, <1>7, <1>8 DEF Closed, V
<1>10. h[a] = h[m] + 1 /\ h[m] \in Nat /\ h[a] \in Nat /\ h[r] \in Nat
  BY <1>2, <1>7, <1>8
<1>11. h[r] - h[m] <= h[r] - h[a]
  BY <1>5, <1>6, <1>9
<1> QED BY ONLY <1>10, <1>11
-------------------------------------------------------------------------------
(* Counting keys. *)

\* Two sets whose elements f and g take to each other have the same size.
LEMMA SameSize ==
    ASSUME NEW S, NEW T, IsFiniteSet(S), NEW f, NEW g,
           \A e \in S : f[e] \in T /\ g[f[e]] = e,
           \A e \in T : g[e] \in S /\ f[g[e]] = e
    PROVE  IsFiniteSet(T) /\ Cardinality(T) = Cardinality(S)
<1> DEFINE b == [e \in S |-> f[e]]
<1>1. b \in [S -> T] /\ \A e \in S : b[e] = f[e]
  OBVIOUS
<1> HIDE DEF b
<1>2. b \in Injection(S, T)
  BY <1>1 DEF Injection, IsInjective
<1>3. b \in Surjection(S, T)
  BY <1>1 DEF Surjection
<1>4. ExistsBijection(S, T)
  BY <1>2, <1>3 DEF ExistsBijection, Bijection
<1> QED BY <1>4, FS_Bijection

\* Key x is stored at position j of page a.
At(ps, x, a, j) ==
    /\ a \in 1..Len(ps) /\ HoldsKeys(ps[a])
    /\ j \in 1..Len(ps[a].keys) /\ ps[a].keys[j] = x

\* Where key x is stored.
Spots(ps, x) == {e \in Nat \X Nat : At(ps, x, e[1], e[2])}

\* A place is a pair of a page and a position.
LEMMA SpotIn ==
    ASSUME NEW ps, NEW x, NEW a \in Nat, NEW j \in Nat, At(ps, x, a, j)
    PROVE  <<a, j>> \in Spots(ps, x)
  BY DEF Spots

\* There are only as many places as pages and positions.
LEMMA SpotsFinite ==
    ASSUME NEW ps, Len(ps) \in Nat, NEW b \in Nat,
           \A n \in 1..Len(ps) : Len(ps[n].keys) \in 0..b, NEW x
    PROVE  IsFiniteSet(Spots(ps, x))
<1>1. IsFiniteSet(1..Len(ps)) /\ IsFiniteSet(1..b)
  BY FS_Interval
<1>2. IsFiniteSet((1..Len(ps)) \X (1..b))
  BY <1>1, FS_Product
<1>3. ASSUME NEW e \in Spots(ps, x) PROVE e \in (1..Len(ps)) \X (1..b)
  <2>1. e \in Nat \X Nat /\ e[1] \in 1..Len(ps) /\ e[2] \in 1..Len(ps[e[1]].keys)
    BY DEF Spots, At
  <2>2. e[2] \in 1..b
    BY <2>1
  <2> QED BY <2>1, <2>2
<1>4. Spots(ps, x) \in SUBSET ((1..Len(ps)) \X (1..b))
  BY <1>3
<1> QED BY <1>2, <1>4, FS_Subset

\* The split of page c into l keys, a median at m + 1 and l keys for the new page
\* right, with the median at position i of page n: the sizes of the pages.
HalvesSizes(ps, qs, n, i, c, m, l, right) ==
    /\ Len(ps) \in Nat /\ right = Len(ps) + 1 /\ Len(qs) = right
    /\ n \in 1..Len(ps) /\ c \in 1..Len(ps) /\ n # c
    /\ m \in Nat /\ l \in Nat /\ (l = m \/ l = m + 1)
    /\ Len(ps[n].keys) \in Nat /\ i \in 1..Len(ps[n].keys) + 1
    /\ Len(ps[c].keys) = m + 1 + l /\ Len(qs[c].keys) = l /\ Len(qs[right].keys) = l
    /\ Len(qs[n].keys) = Len(ps[n].keys) + 1

\* Where the keys are.
HalvesMoves(ps, qs, n, i, c, m, l, right) ==
    /\ \A j \in 1..l : qs[c].keys[j] = ps[c].keys[j]
    /\ \A j \in 1..l : qs[right].keys[j] = ps[c].keys[m + 1 + j]
    /\ \A j \in 1..i - 1 : qs[n].keys[j] = ps[n].keys[j]
    /\ qs[n].keys[i] = ps[c].keys[m + 1]
    /\ \A j \in i + 1..Len(ps[n].keys) + 1 : qs[n].keys[j] = ps[n].keys[j - 1]
    /\ \A a \in (1..Len(ps)) \ {n, c} : qs[a] = ps[a]

\* Which pages hold keys: the parent does when the median leaves the child.
HalvesHold(ps, qs, n, c, m, l, right) ==
    /\ HoldsKeys(qs[c]) <=> HoldsKeys(ps[c])
    /\ HoldsKeys(qs[right]) <=> HoldsKeys(ps[c])
    /\ HoldsKeys(qs[n]) <=> HoldsKeys(ps[n])
    /\ HoldsKeys(ps[n]) <=> (HoldsKeys(ps[c]) /\ l = m)

HalvesKeys(ps, qs, n, i, c, m, l, right) ==
    /\ HalvesSizes(ps, qs, n, i, c, m, l, right)
    /\ HalvesMoves(ps, qs, n, i, c, m, l, right)
    /\ HalvesHold(ps, qs, n, c, m, l, right)

\* Where the key at position e goes.
Moves(n, i, c, m, l, right) ==
    [e \in Nat \X Nat |->
        IF e[1] = c /\ e[2] > l
        THEN IF e[2] = m + 1 THEN <<n, i>> ELSE <<right, e[2] - (m + 1)>>
        ELSE IF e[1] = n /\ e[2] >= i THEN <<n, e[2] + 1>> ELSE e]

\* And where it came from.
Comes(n, i, c, m, right) ==
    [e \in Nat \X Nat |->
        IF e[1] = right THEN <<c, e[2] + m + 1>>
        ELSE IF e[1] = n /\ e[2] = i THEN <<c, m + 1>>
        ELSE IF e[1] = n /\ e[2] > i THEN <<n, e[2] - 1>> ELSE e]

\* Every key has a new place.
LEMMA KeysMove ==
    ASSUME NEW ps, NEW qs, NEW n, NEW i, NEW c, NEW m, NEW l, NEW right,
           HalvesKeys(ps, qs, n, i, c, m, l, right), NEW x, NEW e \in Spots(ps, x),
           NEW f, f = Moves(n, i, c, m, l, right), NEW g, g = Comes(n, i, c, m, right)
    PROVE  f[e] \in Spots(qs, x) /\ g[f[e]] = e
<1>1. HalvesSizes(ps, qs, n, i, c, m, l, right)
  BY DEF HalvesKeys
<1>2. HalvesMoves(ps, qs, n, i, c, m, l, right)
  BY DEF HalvesKeys
<1>3. HalvesHold(ps, qs, n, c, m, l, right)
  BY DEF HalvesKeys
<1>4. right \in Nat /\ n \in Nat /\ c \in Nat /\ i \in Nat /\ m \in Nat /\ l \in Nat
      /\ n # right /\ c # right /\ n # c
  BY ONLY <1>1 DEF HalvesSizes
<1>5. PICK a \in Nat, j \in Nat : e = <<a, j>> /\ a \in Nat /\ j \in Nat /\ At(ps, x, a, j)
  BY DEF Spots
<1>6. \A b, d \in Nat :
         /\ b = c /\ d > l /\ d = m + 1 => f[<<b, d>>] = <<n, i>>
         /\ b = c /\ d > l /\ d # m + 1 => f[<<b, d>>] = <<right, d - (m + 1)>>
         /\ b = n /\ d >= i => f[<<b, d>>] = <<n, d + 1>>
         /\ ~(b = c /\ d > l) /\ ~(b = n /\ d >= i) => f[<<b, d>>] = <<b, d>>
  BY <1>4 DEF Moves
<1>7. \A b, d \in Nat :
         /\ b = right => g[<<b, d>>] = <<c, d + m + 1>>
         /\ b = n /\ d = i => g[<<b, d>>] = <<c, m + 1>>
         /\ b = n /\ d > i => g[<<b, d>>] = <<n, d - 1>>
         /\ b # right /\ ~(b = n /\ d >= i) => g[<<b, d>>] = <<b, d>>
  BY <1>4 DEF Comes
<1>8. a \in 1..Len(ps) /\ HoldsKeys(ps[a]) /\ j \in 1..Len(ps[a].keys) /\ ps[a].keys[j] = x
  BY ONLY <1>5 DEF At
<1>9. CASE a = c /\ j <= l
  <2>1. a \in 1..Len(qs) /\ j \in 1..l /\ j \in 1..Len(qs[a].keys)
        /\ ~(a = c /\ j > l) /\ ~(a = n /\ j >= i) /\ a # right
    <3>1. /\ c \in 1..Len(ps) /\ Len(ps) \in Nat /\ Len(qs) = Len(ps) + 1
          /\ Len(qs[c].keys) = l /\ Len(ps[c].keys) = m + 1 + l
      BY ONLY <1>1 DEF HalvesSizes
    <3>2. j \in Nat /\ j >= 1 /\ j <= l
      BY ONLY <1>4, <1>8, <1>9, <3>1
    <3>3. a \in 1..Len(qs)
      BY ONLY <1>9, <3>1
    <3> QED BY ONLY <1>4, <1>9, <3>1, <3>2, <3>3
  <2>4. HoldsKeys(qs[a])
    BY ONLY <1>3, <1>5, <1>8, <2>1, <1>9, <1>2 DEF HalvesHold
  <2>5. qs[a].keys[j] = x
    BY ONLY <1>2, <1>5, <1>8, <2>1, <1>9 DEF HalvesMoves
  <2>6. f[<<a, j>>] = <<a, j>>
    BY ONLY <1>4, <1>5, <2>1, <1>9, <1>6
  <2>7. g[<<a, j>>] = <<a, j>>
    BY ONLY <1>4, <1>5, <2>1, <1>9, <1>7
  <2>8. At(qs, x, a, j)
    BY ONLY <1>2, <1>8, <2>1, <2>4, <2>5 DEF At, HalvesMoves
  <2>9. a \in Nat /\ j \in Nat
    BY ONLY <1>4, <1>5
  <2>10. <<a, j>> \in Spots(qs, x)
    BY ONLY <2>8, <2>9, SpotIn
  <2> QED BY ONLY <1>5, <2>6, <2>7, <2>10
<1>10. CASE a = c /\ j > l /\ j = m + 1
  <2>1. n \in 1..Len(qs) /\ i \in 1..Len(qs[n].keys) /\ l = m
    BY ONLY <1>1, <1>4, <1>5, <1>8, <1>10 DEF HalvesSizes
  <2>4. HoldsKeys(qs[n])
    BY ONLY <1>3, <1>5, <1>8, <2>1, <1>10, <1>2 DEF HalvesHold
  <2>5. qs[n].keys[i] = x
    BY ONLY <1>2, <1>5, <1>8, <2>1, <1>10 DEF HalvesMoves
  <2>6. f[<<a, j>>] = <<n, i>>
    BY ONLY <1>4, <1>5, <2>1, <1>10, <1>6
  <2>7. g[<<n, i>>] = <<a, j>>
    BY ONLY <1>4, <1>5, <2>1, <1>10, <1>7
  <2>8. At(qs, x, n, i)
    BY ONLY <2>1, <2>4, <2>5 DEF At
  <2>9. n \in Nat /\ i \in Nat
    BY ONLY <1>4, <1>5
  <2>10. <<n, i>> \in Spots(qs, x)
    BY ONLY <2>8, <2>9, SpotIn
  <2> QED BY ONLY <1>5, <2>6, <2>7, <2>10
<1>11. CASE a = c /\ j > l /\ j # m + 1
  <2>1. right \in 1..Len(qs) /\ j - (m + 1) \in 1..l /\ j \in 1..m + 1 + l
    BY ONLY <1>1, <1>4, <1>5, <1>8, <1>11 DEF HalvesSizes
  <2>2. PICK d : d = j - (m + 1)
    OBVIOUS
  <2>3. d \in Nat /\ d \in 1..l /\ d \in 1..Len(qs[right].keys) /\ j = m + 1 + d /\ j = d + m + 1 /\ j - (m + 1) = d
    BY ONLY <1>1, <1>4, <1>5, <2>1, <2>2, <1>11 DEF HalvesSizes
  <2>4. HoldsKeys(qs[right])
    BY ONLY <1>3, <1>5, <1>8, <2>1, <1>11, <1>2, <2>3 DEF HalvesHold
  <2>5. qs[right].keys[d] = x
    BY ONLY <1>2, <1>5, <1>8, <2>1, <1>11, <2>3 DEF HalvesMoves
  <2>6. f[<<a, j>>] = <<right, d>>
    BY ONLY <1>4, <1>5, <2>1, <1>11, <1>6, <2>3
  <2>11. g[<<right, d>>] = <<c, d + m + 1>>
    BY ONLY <1>4, <1>7, <2>3
  <2>7. g[<<right, d>>] = <<a, j>>
    BY ONLY <1>11, <2>3, <2>11
  <2>8. At(qs, x, right, d)
    BY ONLY <2>1, <2>4, <2>5, <2>3 DEF At
  <2>9. right \in Nat /\ d \in Nat
    BY ONLY <1>4, <1>5, <2>3
  <2>10. <<right, d>> \in Spots(qs, x)
    BY ONLY <2>8, <2>9, SpotIn
  <2> QED BY ONLY <1>5, <2>6, <2>7, <2>10
<1>12. CASE a = n /\ j >= i
  <2>1. n \in 1..Len(qs) /\ j + 1 \in i + 1..Len(ps[n].keys) + 1
    BY ONLY <1>1, <1>4, <1>5, <1>8, <1>12 DEF HalvesSizes
  <2>2. PICK d : d = j + 1
    OBVIOUS
  <2>3. d \in Nat /\ d \in i + 1..Len(ps[n].keys) + 1 /\ d \in 1..Len(qs[n].keys) /\ d - 1 = j /\ j + 1 = d /\ d > i
    BY ONLY <1>1, <1>4, <1>5, <2>1, <2>2, <1>12 DEF HalvesSizes
  <2>4. HoldsKeys(qs[n])
    BY ONLY <1>3, <1>5, <1>8, <2>1, <1>12, <1>2, <2>3 DEF HalvesHold
  <2>5. qs[n].keys[d] = x
    BY ONLY <1>2, <1>5, <1>8, <2>1, <1>12, <2>3 DEF HalvesMoves
  <2>12. f[<<n, j>>] = <<n, j + 1>>
    BY ONLY <1>4, <1>5, <1>6, <1>12
  <2>6. f[<<a, j>>] = <<n, d>>
    BY ONLY <1>12, <2>3, <2>12
  <2>11. g[<<n, d>>] = <<n, d - 1>>
    BY ONLY <1>4, <1>7, <2>3
  <2>7. g[<<n, d>>] = <<a, j>>
    BY ONLY <1>12, <2>3, <2>11
  <2>8. At(qs, x, n, d)
    BY ONLY <2>1, <2>4, <2>5, <2>3 DEF At
  <2>9. n \in Nat /\ d \in Nat
    BY ONLY <1>4, <1>5, <2>3
  <2>10. <<n, d>> \in Spots(qs, x)
    BY ONLY <2>8, <2>9, SpotIn
  <2> QED BY ONLY <1>5, <2>6, <2>7, <2>10
<1>13. CASE a = n /\ j < i
  <2>1. a \in 1..Len(qs) /\ j \in 1..i - 1 /\ j \in 1..Len(qs[a].keys)
        /\ ~(a = c /\ j > l) /\ ~(a = n /\ j >= i) /\ a # right
    BY ONLY <1>1, <1>4, <1>5, <1>8, <1>13 DEF HalvesSizes
  <2>4. HoldsKeys(qs[a])
    BY ONLY <1>3, <1>5, <1>8, <2>1, <1>13, <1>2 DEF HalvesHold
  <2>5. qs[a].keys[j] = x
    BY ONLY <1>2, <1>5, <1>8, <2>1, <1>13 DEF HalvesMoves
  <2>6. f[<<a, j>>] = <<a, j>>
    BY ONLY <1>4, <1>5, <2>1, <1>13, <1>6
  <2>7. g[<<a, j>>] = <<a, j>>
    BY ONLY <1>4, <1>5, <2>1, <1>13, <1>7
  <2>8. At(qs, x, a, j)
    BY ONLY <1>2, <1>8, <2>1, <2>4, <2>5 DEF At, HalvesMoves
  <2>9. a \in Nat /\ j \in Nat
    BY ONLY <1>4, <1>5
  <2>10. <<a, j>> \in Spots(qs, x)
    BY ONLY <2>8, <2>9, SpotIn
  <2> QED BY ONLY <1>5, <2>6, <2>7, <2>10
<1>14. CASE a # n /\ a # c
  <2>1. a \in 1..Len(qs) /\ a \in (1..Len(ps)) \ {n, c}
        /\ ~(a = c /\ j > l) /\ ~(a = n /\ j >= i) /\ a # right
    BY ONLY <1>1, <1>4, <1>5, <1>8, <1>14 DEF HalvesSizes
  <2>4. HoldsKeys(qs[a])
    BY ONLY <1>3, <1>5, <1>8, <2>1, <1>14, <1>2 DEF HalvesHold, HalvesMoves
  <2>5. qs[a].keys[j] = x
    BY ONLY <1>2, <1>5, <1>8, <2>1, <1>14 DEF HalvesMoves
  <2>6. f[<<a, j>>] = <<a, j>>
    BY ONLY <1>4, <1>5, <2>1, <1>14, <1>6
  <2>7. g[<<a, j>>] = <<a, j>>
    BY ONLY <1>4, <1>5, <2>1, <1>14, <1>7
  <2>8. At(qs, x, a, j)
    BY ONLY <1>2, <1>8, <2>1, <2>4, <2>5 DEF At, HalvesMoves
  <2>9. a \in Nat /\ j \in Nat
    BY ONLY <1>4, <1>5
  <2>10. <<a, j>> \in Spots(qs, x)
    BY ONLY <2>8, <2>9, SpotIn
  <2> QED BY ONLY <1>5, <2>6, <2>7, <2>10
<1> QED BY ONLY <1>4, <1>5, <1>9, <1>10, <1>11, <1>12, <1>13, <1>14

\* Every place has an old key.
LEMMA KeysCome ==
    ASSUME NEW ps, NEW qs, NEW n, NEW i, NEW c, NEW m, NEW l, NEW right,
           HalvesKeys(ps, qs, n, i, c, m, l, right), NEW x, NEW e \in Spots(qs, x),
           NEW f, f = Moves(n, i, c, m, l, right), NEW g, g = Comes(n, i, c, m, right)
    PROVE  g[e] \in Spots(ps, x) /\ f[g[e]] = e
<1>1. HalvesSizes(ps, qs, n, i, c, m, l, right)
  BY DEF HalvesKeys
<1>2. HalvesMoves(ps, qs, n, i, c, m, l, right)
  BY DEF HalvesKeys
<1>3. HalvesHold(ps, qs, n, c, m, l, right)
  BY DEF HalvesKeys
<1>4. right \in Nat /\ n \in Nat /\ c \in Nat /\ i \in Nat /\ m \in Nat /\ l \in Nat
      /\ n # right /\ c # right /\ n # c
  BY ONLY <1>1 DEF HalvesSizes
<1>5. PICK a \in Nat, j \in Nat : e = <<a, j>> /\ a \in Nat /\ j \in Nat /\ At(qs, x, a, j)
  BY DEF Spots
<1>6. \A b, d \in Nat :
         /\ b = c /\ d > l /\ d = m + 1 => f[<<b, d>>] = <<n, i>>
         /\ b = c /\ d > l /\ d # m + 1 => f[<<b, d>>] = <<right, d - (m + 1)>>
         /\ b = n /\ d >= i => f[<<b, d>>] = <<n, d + 1>>
         /\ ~(b = c /\ d > l) /\ ~(b = n /\ d >= i) => f[<<b, d>>] = <<b, d>>
  BY <1>4 DEF Moves
<1>7. \A b, d \in Nat :
         /\ b = right => g[<<b, d>>] = <<c, d + m + 1>>
         /\ b = n /\ d = i => g[<<b, d>>] = <<c, m + 1>>
         /\ b = n /\ d > i => g[<<b, d>>] = <<n, d - 1>>
         /\ b # right /\ ~(b = n /\ d >= i) => g[<<b, d>>] = <<b, d>>
  BY <1>4 DEF Comes
<1>8. a \in 1..Len(qs) /\ HoldsKeys(qs[a]) /\ j \in 1..Len(qs[a].keys) /\ qs[a].keys[j] = x
  BY ONLY <1>5 DEF At
<1>9. CASE a = c
  <2>1. a \in 1..Len(ps) /\ j \in 1..l /\ j \in 1..Len(ps[a].keys)
        /\ ~(a = c /\ j > l) /\ ~(a = n /\ j >= i) /\ a # right
    <3>1. c \in 1..Len(ps) /\ Len(qs[c].keys) = l /\ Len(ps[c].keys) = m + 1 + l
      BY ONLY <1>1 DEF HalvesSizes
    <3>2. j \in 1..l
      BY ONLY <1>8, <1>9, <3>1
    <3>3. j \in 1..Len(ps[a].keys) /\ ~(j > l)
      BY ONLY <1>4, <1>9, <3>1, <3>2
    <3> QED BY ONLY <1>4, <1>9, <3>1, <3>2, <3>3
  <2>4. HoldsKeys(ps[a])
    BY ONLY <1>3, <1>5, <1>8, <2>1, <1>9, <1>2 DEF HalvesHold
  <2>5. ps[a].keys[j] = x
    BY ONLY <1>2, <1>5, <1>8, <2>1, <1>9 DEF HalvesMoves
  <2>6. g[<<a, j>>] = <<a, j>>
    BY ONLY <1>4, <1>5, <2>1, <1>9, <1>7
  <2>7. f[<<a, j>>] = <<a, j>>
    BY ONLY <1>4, <1>5, <2>1, <1>9, <1>6
  <2>8. At(ps, x, a, j)
    BY ONLY <1>2, <1>8, <2>1, <2>4, <2>5 DEF At, HalvesMoves
  <2>9. a \in Nat /\ j \in Nat
    BY ONLY <1>4, <1>5
  <2>10. <<a, j>> \in Spots(ps, x)
    BY ONLY <2>8, <2>9, SpotIn
  <2> QED BY ONLY <1>5, <2>6, <2>7, <2>10
<1>10. CASE a = n /\ j = i
  <2>1. c \in 1..Len(ps) /\ n \in 1..Len(ps)
    BY ONLY <1>1, <1>4, <1>5, <1>8, <1>10 DEF HalvesSizes
  <2>2. PICK d : d = m + 1
    OBVIOUS
  <2>3. d \in Nat /\ d \in 1..Len(ps[c].keys) /\ d = m + 1 /\ d > m
    BY ONLY <1>1, <1>4, <1>5, <2>1, <2>2, <1>10 DEF HalvesSizes
  <2>4. HoldsKeys(ps[c])
    BY ONLY <1>3, <1>5, <1>8, <2>1, <1>10, <1>2, <2>3 DEF HalvesHold
  <2>5. ps[c].keys[d] = x
    BY ONLY <1>2, <1>5, <1>8, <2>1, <1>10, <2>3 DEF HalvesMoves
  <2>6. g[<<a, j>>] = <<c, d>>
    BY ONLY <1>4, <1>5, <2>1, <1>10, <1>7, <2>3
  <2>12. l = m
    BY ONLY <1>3, <1>8, <1>10 DEF HalvesHold
  <2>11. d > l
    BY ONLY <2>12, <2>3
  <2>7. f[<<c, d>>] = <<a, j>>
    BY ONLY <1>4, <2>11, <1>10, <1>6, <2>3
  <2>8. At(ps, x, c, d)
    BY ONLY <2>1, <2>4, <2>5, <2>3 DEF At
  <2>9. c \in Nat /\ d \in Nat
    BY ONLY <1>4, <1>5, <2>3
  <2>10. <<c, d>> \in Spots(ps, x)
    BY ONLY <2>8, <2>9, SpotIn
  <2> QED BY ONLY <1>5, <2>6, <2>7, <2>10
<1>11. CASE a = right
  <2>1. c \in 1..Len(ps) /\ j \in 1..l
    BY ONLY <1>1, <1>4, <1>5, <1>8, <1>11 DEF HalvesSizes
  <2>2. PICK d : d = j + m + 1
    OBVIOUS
  <2>3. d \in Nat /\ d \in 1..Len(ps[c].keys) /\ d = m + 1 + j /\ d > l /\ d # m + 1 /\ d - (m + 1) = j
    BY ONLY <1>1, <1>4, <1>5, <2>1, <2>2, <1>11 DEF HalvesSizes
  <2>4. HoldsKeys(ps[c])
    BY ONLY <1>3, <1>5, <1>8, <2>1, <1>11, <1>2, <2>3 DEF HalvesHold
  <2>5. ps[c].keys[d] = x
    BY ONLY <1>2, <1>5, <1>8, <2>1, <1>11, <2>3 DEF HalvesMoves
  <2>11. g[<<right, j>>] = <<c, j + m + 1>>
    BY ONLY <1>4, <1>5, <1>7
  <2>6. g[<<a, j>>] = <<c, d>>
    BY ONLY <1>11, <2>2, <2>11
  <2>12. f[<<c, d>>] = <<right, d - (m + 1)>>
    BY ONLY <1>4, <1>6, <2>3
  <2>7. f[<<c, d>>] = <<a, j>>
    BY ONLY <1>11, <2>3, <2>12
  <2>8. At(ps, x, c, d)
    BY ONLY <2>1, <2>4, <2>5, <2>3 DEF At
  <2>9. c \in Nat /\ d \in Nat
    BY ONLY <1>4, <1>5, <2>3
  <2>10. <<c, d>> \in Spots(ps, x)
    BY ONLY <2>8, <2>9, SpotIn
  <2> QED BY ONLY <1>5, <2>6, <2>7, <2>10
<1>12. CASE a = n /\ j > i
  <2>1. n \in 1..Len(ps) /\ j \in i + 1..Len(ps[n].keys) + 1
    BY ONLY <1>1, <1>4, <1>5, <1>8, <1>12 DEF HalvesSizes
  <2>2. PICK d : d = j - 1
    OBVIOUS
  <2>3. d \in Nat /\ d \in 1..Len(ps[n].keys) /\ d + 1 = j /\ d >= i /\ d = j - 1
    BY ONLY <1>1, <1>4, <1>5, <2>1, <2>2, <1>12 DEF HalvesSizes
  <2>4. HoldsKeys(ps[n])
    BY ONLY <1>3, <1>5, <1>8, <2>1, <1>12, <1>2, <2>3 DEF HalvesHold
  <2>5. ps[n].keys[d] = x
    BY ONLY <1>2, <1>5, <1>8, <2>1, <1>12, <2>3 DEF HalvesMoves
  <2>11. g[<<n, j>>] = <<n, j - 1>>
    BY ONLY <1>4, <1>5, <1>7, <1>12
  <2>6. g[<<a, j>>] = <<n, d>>
    BY ONLY <1>12, <2>2, <2>11
  <2>7. f[<<n, d>>] = <<a, j>>
    BY ONLY <1>4, <1>5, <2>1, <1>12, <1>6, <2>3
  <2>8. At(ps, x, n, d)
    BY ONLY <2>1, <2>4, <2>5, <2>3 DEF At
  <2>9. n \in Nat /\ d \in Nat
    BY ONLY <1>4, <1>5, <2>3
  <2>10. <<n, d>> \in Spots(ps, x)
    BY ONLY <2>8, <2>9, SpotIn
  <2> QED BY ONLY <1>5, <2>6, <2>7, <2>10
<1>13. CASE a = n /\ j < i
  <2>1. a \in 1..Len(ps) /\ j \in 1..i - 1 /\ j \in 1..Len(ps[a].keys)
        /\ ~(a = c /\ j > l) /\ ~(a = n /\ j >= i) /\ a # right
    BY ONLY <1>1, <1>4, <1>5, <1>8, <1>13 DEF HalvesSizes
  <2>4. HoldsKeys(ps[a])
    BY ONLY <1>3, <1>5, <1>8, <2>1, <1>13, <1>2 DEF HalvesHold
  <2>5. ps[a].keys[j] = x
    BY ONLY <1>2, <1>5, <1>8, <2>1, <1>13 DEF HalvesMoves
  <2>6. g[<<a, j>>] = <<a, j>>
    BY ONLY <1>4, <1>5, <2>1, <1>13, <1>7
  <2>7. f[<<a, j>>] = <<a, j>>
    BY ONLY <1>4, <1>5, <2>1, <1>13, <1>6
  <2>8. At(ps, x, a, j)
    BY ONLY <1>2, <1>8, <2>1, <2>4, <2>5 DEF At, HalvesMoves
  <2>9. a \in Nat /\ j \in Nat
    BY ONLY <1>4, <1>5
  <2>10. <<a, j>> \in Spots(ps, x)
    BY ONLY <2>8, <2>9, SpotIn
  <2> QED BY ONLY <1>5, <2>6, <2>7, <2>10
<1>14. CASE a # n /\ a # c /\ a # right
  <2>1. a \in 1..Len(ps) /\ a \in (1..Len(ps)) \ {n, c}
        /\ ~(a = c /\ j > l) /\ ~(a = n /\ j >= i) /\ a # right
    BY ONLY <1>1, <1>4, <1>5, <1>8, <1>14 DEF HalvesSizes
  <2>4. HoldsKeys(ps[a])
    BY ONLY <1>3, <1>5, <1>8, <2>1, <1>14, <1>2 DEF HalvesHold, HalvesMoves
  <2>5. ps[a].keys[j] = x
    BY ONLY <1>2, <1>5, <1>8, <2>1, <1>14 DEF HalvesMoves
  <2>6. g[<<a, j>>] = <<a, j>>
    BY ONLY <1>4, <1>5, <2>1, <1>14, <1>7
  <2>7. f[<<a, j>>] = <<a, j>>
    BY ONLY <1>4, <1>5, <2>1, <1>14, <1>6
  <2>8. At(ps, x, a, j)
    BY ONLY <1>2, <1>8, <2>1, <2>4, <2>5 DEF At, HalvesMoves
  <2>9. a \in Nat /\ j \in Nat
    BY ONLY <1>4, <1>5
  <2>10. <<a, j>> \in Spots(ps, x)
    BY ONLY <2>8, <2>9, SpotIn
  <2> QED BY ONLY <1>5, <2>6, <2>7, <2>10
<1> QED BY ONLY <1>4, <1>5, <1>9, <1>10, <1>11, <1>12, <1>13, <1>14

\* A split loses no key and doubles none.
LEMMA HalvesCount ==
    ASSUME NEW ps, NEW qs, NEW n, NEW i, NEW c, NEW m, NEW l, NEW right,
           HalvesKeys(ps, qs, n, i, c, m, l, right), NEW x, IsFiniteSet(Spots(ps, x))
    PROVE  IsFiniteSet(Spots(qs, x)) /\ Cardinality(Spots(qs, x)) = Cardinality(Spots(ps, x))
<1>1. PICK f : f = Moves(n, i, c, m, l, right)
  OBVIOUS
<1>2. PICK g : g = Comes(n, i, c, m, right)
  OBVIOUS
<1>3. \A e \in Spots(ps, x) : f[e] \in Spots(qs, x) /\ g[f[e]] = e
  BY <1>1, <1>2, KeysMove
<1>4. \A e \in Spots(qs, x) : g[e] \in Spots(ps, x) /\ f[g[e]] = e
  BY <1>1, <1>2, KeysCome
<1> QED BY ONLY <1>3, <1>4, IsFiniteSet(Spots(ps, x)), SameSize

-------------------------------------------------------------------------------
(* The steps that write pages. *)

\* splitChild() moves keys and nothing else.
LEMMA SplitMovesKeys ==
    ASSUME NEW ps, NEW qs, NEW n, NEW i, NEW c, SplitsChild(ps, qs, n, i, c), AllShaped(ps),
           NEW m, m = MinKeys, NEW l, l = MinKeysOf(ps[c]), NEW right, right = Len(ps) + 1
    PROVE  HalvesKeys(ps, qs, n, i, c, m, l, right)
<1>1. /\ n \in 1..Len(ps) /\ c \in 1..Len(ps) /\ n # c /\ Len(ps) \in Nat
      /\ i \in 1..Len(ps[n].keys) + 1 /\ ~ps[n].leaf /\ isFull(ps[c])
      /\ Shaped(ps[n], 1..Len(ps)) /\ Shaped(ps[c], 1..Len(ps))
  BY DEF SplitsChild, AllShaped
<1>2. /\ Len(qs) = right /\ qs[n] = SplitParent(ps[n], i, ps[c], right)
      /\ qs[c] = SplitLeft(ps[c]) /\ qs[right] = SplitRight(ps[c])
      /\ \A a \in (1..Len(ps)) \ {n, c} : qs[a] = ps[a]
  BY DEF SplitsChild, Written
<1>3. PICK p : p = ps[c]
  OBVIOUS
<1>4. PICK node : node = ps[n]
  OBVIOUS
<1>5. p \in Page /\ p.keys \in Seq(Keys) /\ p.leaf \in BOOLEAN /\ Shaped(p, 1..Len(ps)) /\ isFull(p)
  BY ONLY <1>1, <1>3, ShapedTypes
<1>6. node \in Page /\ node.keys \in Seq(Keys) /\ ~node.leaf /\ i \in 1..Len(node.keys) + 1
  BY ONLY <1>1, <1>4, ShapedTypes
<1>7. /\ m \in Nat /\ l \in Nat /\ (l = m \/ l = m + 1) /\ Len(p.keys) = m + 1 + l
      /\ m = MinKeys /\ l = MinKeysOf(p)
  <2>1. m = MinKeys /\ l = MinKeysOf(p)
    BY <1>3
  <2>2. /\ MinKeys \in Nat \ {0} /\ MinKeysOf(p) \in MinKeys..MinKeys + 1
        /\ MaxKeysOf(p) = MinKeys + 1 + MinKeysOf(p)
    BY ONLY <1>5, KeyBounds
  <2>3. Len(p.keys) = MaxKeysOf(p)
    BY ONLY <1>5 DEF isFull
  <2> QED BY ONLY <2>1, <2>2, <2>3
<1>8. /\ HalfOf(qs[c], p, 0, l) /\ HalfOf(qs[right], p, m + 1, l)
  BY ONLY <1>2, <1>3, <1>5, <1>7, SplitHalves
<1>9. Inserted(qs[n].keys, node.keys, i, p.keys[m + 1])
  <2>1. qs[n].keys = InsertAt(node.keys, i, p.keys[m + 1])
    BY ONLY <1>2, <1>3, <1>4, <1>6, <1>7 DEF SplitParent, Median, Page
  <2>2. m + 1 \in 1..Len(p.keys)
    BY ONLY <1>7
  <2>3. p.keys[m + 1] \in Keys
    BY ONLY <1>5, <2>2, ElementOfSeq
  <2> QED BY ONLY <1>6, <2>1, <2>3, InsertAtInserts
<1>10. Len(node.keys) \in Nat
  BY ONLY <1>6
<1>11. HalvesSizes(ps, qs, n, i, c, m, l, right)
  <2>1. Len(qs[c].keys) = l /\ Len(qs[right].keys) = l
    BY ONLY <1>8 DEF HalfOf
  <2>2. Len(qs[n].keys) = Len(node.keys) + 1
    BY ONLY <1>9 DEF Inserted
  <2>3. right = Len(ps) + 1
    OBVIOUS
  <2> QED BY ONLY <1>1, <1>2, <1>3, <1>4, <1>7, <1>10, <2>1, <2>2, <2>3 DEF HalvesSizes
<1>12. HalvesMoves(ps, qs, n, i, c, m, l, right)
  <2>1. \A j \in 1..l : qs[c].keys[j] = p.keys[0 + j]
    BY ONLY <1>8 DEF HalfOf
  <2>2. \A j \in 1..l : qs[right].keys[j] = p.keys[m + 1 + j]
    BY ONLY <1>8 DEF HalfOf
  <2>3. \A j \in 1..l : 0 + j = j
    BY ONLY <1>7
  <2> QED BY ONLY <1>2, <1>3, <1>4, <1>9, <2>1, <2>2, <2>3 DEF HalvesMoves, Inserted
<1>13. HalvesHold(ps, qs, n, c, m, l, right)
  <2>1. qs[c].leaf = p.leaf /\ qs[right].leaf = p.leaf
    BY ONLY <1>2, <1>3, <1>5 DEF SplitLeft, SplitRight, Page
  <2>2. qs[n].leaf = node.leaf
    BY ONLY <1>2, <1>4, <1>6 DEF SplitParent, Page
  <2>3. HoldsKeys(node) <=> (HoldsKeys(p) /\ l = m)
    <3>1. CASE TreeType = "B_PLUS_TREE"
      BY ONLY <1>5, <1>6, <1>7, <3>1 DEF HoldsKeys, MinKeysOf
    <3>2. CASE TreeType = "B_TREE"
      BY ONLY <1>5, <1>6, <1>7, <3>2 DEF HoldsKeys, MinKeysOf
    <3> QED BY <3>1, <3>2, TypeAssumption
  <2> QED BY ONLY <1>3, <1>4, <2>1, <2>2, <2>3 DEF HalvesHold, HoldsKeys
<1> QED BY <1>11, <1>12, <1>13 DEF HalvesKeys

\* So it keeps how often a key is stored.
LEMMA SplitCount ==
    ASSUME NEW ps, NEW qs, NEW n, NEW i, NEW c, SplitsChild(ps, qs, n, i, c), AllShaped(ps),
           NEW x, IsFiniteSet(Spots(ps, x))
    PROVE  IsFiniteSet(Spots(qs, x)) /\ Cardinality(Spots(qs, x)) = Cardinality(Spots(ps, x))
<1>1. PICK m : m = MinKeys
  OBVIOUS
<1>2. PICK l : l = MinKeysOf(ps[c])
  OBVIOUS
<1>3. PICK right : right = Len(ps) + 1
  OBVIOUS
<1>4. HalvesKeys(ps, qs, n, i, c, m, l, right)
  BY <1>1, <1>2, <1>3, SplitMovesKeys
<1> QED BY <1>4, HalvesCount

\* The split on the way down.
LEMMA DescentSplits ==
    ASSUME ShapeInv, SplitAndDescend, NEW n, n = PageNum(at),
           NEW i, i = AfterLastNotGreater(pages[n].keys, k), NEW c, c = pages[n].cursors[i]
    PROVE  SplitsChild(pages, pages', n, i, c) /\ AllShaped(pages)
<1>1. /\ n \in 1..Len(pages) /\ ~pages[n].leaf /\ i \in 1..Len(pages[n].keys) + 1
      /\ c \in (1..Len(pages)) \ {rootPageNum, n} /\ isFull(pages[c])
      /\ Written(pages, pages', n, c, SplitParent(pages[n], i, pages[c], Len(pages) + 1),
                 SplitLeft(pages[c]), SplitRight(pages[c]))
  BY DescentWrites DEF ShapeInv
<1>2. AllShaped(pages)
  BY TreeFacts DEF AllShaped
<1> QED BY <1>1, <1>2 DEF SplitsChild

\* The split of the root.
LEMMA GrowthSplits ==
    ASSUME ShapeInv, GrowRoot, NEW ps, ps = Append(pages, NewRoot(rootPageNum)),
           NEW r, r = rootPageNum, NEW root, root = Len(pages) + 1
    PROVE  /\ SplitsChild(ps, pages', root, 1, r) /\ AllShaped(ps)
           /\ Len(ps) = root /\ IsNewRoot(ps[root], r, Len(pages))
           /\ \A m \in 1..Len(pages) : ps[m] = pages[m]
           /\ Len(pages) \in Nat /\ r \in 1..Len(pages) /\ rootPageNum' = root
<1>1. Grows(ps, pages', r, root) /\ rootPageNum' = root
  BY GrowthWrites DEF ShapeInv
<1>2. /\ Len(ps) = root /\ ps[root] = NewRoot(r)
      /\ \A m \in 1..Len(pages) : ps[m] = pages[m]
      /\ isFull(ps[r])
      /\ Written(ps, pages', root, r, SplitParent(ps[root], 1, ps[r], root + 1),
                 SplitLeft(ps[r]), SplitRight(ps[r]))
  BY <1>1 DEF Grows
<1>3. Len(pages) \in Nat /\ r \in 1..Len(pages) /\ \A m \in 1..Len(pages) : Shaped(pages[m], 1..Len(pages))
  BY TreeFacts
<1>4. IsNewRoot(ps[root], r, Len(pages))
  BY <1>2, <1>3, NewRootShaped
<1>5. ASSUME NEW m \in 1..Len(ps) PROVE Shaped(ps[m], 1..Len(ps))
  <2>1. m = root \/ m \in 1..Len(pages)
    BY <1>2, <1>3
  <2>2. Shaped(ps[m], 1..Len(pages))
    BY <1>2, <1>3, <1>4, <2>1 DEF IsNewRoot
  <2>3. 1..Len(pages) \subseteq 1..Len(ps)
    BY <1>2, <1>3
  <2> QED BY ONLY <2>2, <2>3, ShapedMonotonic
<1>6. AllShaped(ps)
  BY <1>2, <1>3, <1>5 DEF AllShaped
<1>7. /\ root \in 1..Len(ps) /\ r \in 1..Len(ps) /\ root # r /\ root + 1 = Len(ps) + 1
      /\ 1 \in 1..Len(ps[root].keys) + 1 /\ r = ps[root].cursors[1] /\ ~ps[root].leaf
  BY <1>2, <1>3, <1>4 DEF IsNewRoot
<1>8. SplitsChild(ps, pages', root, 1, r)
  BY ONLY <1>2, <1>7 DEF SplitsChild
<1> QED BY <1>1, <1>2, <1>3, <1>4, <1>6, <1>8

\* A new root has no keys.
LEMMA NewRootCount ==
    ASSUME NEW ps, NEW qs, NEW root, NEW r, NEW N, Len(ps) \in Nat, Len(qs) = root,
           root = Len(ps) + 1, IsNewRoot(qs[root], r, N),
           \A m \in 1..Len(ps) : qs[m] = ps[m], NEW x
    PROVE  Spots(qs, x) = Spots(ps, x)
<1>1. Len(qs[root].keys) = 0
  BY DEF IsNewRoot
<1>2. \A m \in 1..Len(qs) : m = root \/ m \in 1..Len(ps)
  OBVIOUS
<1>3. \A m \in 1..Len(ps) : m \in 1..Len(qs)
  OBVIOUS
<1>4. \A j : j \notin 1..0
  OBVIOUS
<1>5. \A a, j : At(qs, x, a, j) <=> At(ps, x, a, j)
  BY ONLY <1>1, <1>2, <1>3, <1>4, \A m \in 1..Len(ps) : qs[m] = ps[m] DEF At
<1> QED BY <1>5 DEF Spots

\* Page n of the pages qs is that of ps with key y at position i.
KeyAdded(ps, qs, n, i, y) ==
    /\ Len(ps) \in Nat /\ Len(qs) = Len(ps) /\ n \in 1..Len(ps)
    /\ Len(ps[n].keys) \in Nat /\ i \in 1..Len(ps[n].keys) + 1
    /\ HoldsKeys(ps[n]) /\ HoldsKeys(qs[n])
    /\ Inserted(qs[n].keys, ps[n].keys, i, y)
    /\ \A a \in (1..Len(ps)) \ {n} : qs[a] = ps[a]

\* Where a key goes and where it comes from.
Shifts(n, i) == [e \in Nat \X Nat |-> IF e[1] = n /\ e[2] >= i THEN <<n, e[2] + 1>> ELSE e]
Unshifts(n, i) == [e \in Nat \X Nat |-> IF e[1] = n /\ e[2] > i THEN <<n, e[2] - 1>> ELSE e]

\* The keys that were there have a place besides the new one.
LEMMA KeysShift ==
    ASSUME NEW ps, NEW qs, NEW n, NEW i, NEW y, KeyAdded(ps, qs, n, i, y),
           NEW x, NEW e \in Spots(ps, x), NEW f, f = Shifts(n, i), NEW g, g = Unshifts(n, i)
    PROVE  f[e] \in Spots(qs, x) \ {<<n, i>>} /\ g[f[e]] = e
<1>1. PICK a \in Nat, j \in Nat : e = <<a, j>> /\ a \in Nat /\ j \in Nat /\ At(ps, x, a, j)
  BY DEF Spots
<1>2. a \in 1..Len(ps) /\ HoldsKeys(ps[a]) /\ j \in 1..Len(ps[a].keys) /\ ps[a].keys[j] = x
  BY ONLY <1>1 DEF At
<1>3. /\ Len(ps) \in Nat /\ Len(qs) = Len(ps) /\ n \in 1..Len(ps)
      /\ Len(ps[n].keys) \in Nat /\ i \in 1..Len(ps[n].keys) + 1
      /\ HoldsKeys(ps[n]) /\ HoldsKeys(qs[n])
      /\ \A b \in (1..Len(ps)) \ {n} : qs[b] = ps[b]
  BY DEF KeyAdded
<1>4. /\ Len(qs[n].keys) = Len(ps[n].keys) + 1
      /\ \A d \in 1..i - 1 : qs[n].keys[d] = ps[n].keys[d]
      /\ \A d \in i + 1..Len(ps[n].keys) + 1 : qs[n].keys[d] = ps[n].keys[d - 1]
  BY DEF KeyAdded, Inserted
<1>5. n \in Nat /\ i \in Nat
  BY ONLY <1>3
<1>6. CASE a = n /\ j >= i
  <2>1. PICK d : d = j + 1
    OBVIOUS
  <2>2. /\ d \in Nat /\ d \in i + 1..Len(ps[n].keys) + 1 /\ d \in 1..Len(qs[n].keys)
        /\ d - 1 = j /\ d > i /\ d # i
    BY ONLY <1>1, <1>2, <1>3, <1>4, <1>6, <2>1
  <2>3. qs[n].keys[d] = x
    BY ONLY <1>2, <1>4, <1>6, <2>2
  <2>4. <<n, d>> \in Spots(qs, x)
    <3>1. At(qs, x, n, d)
      BY ONLY <1>3, <2>2, <2>3 DEF At
    <3> QED BY ONLY <1>5, <2>2, <3>1, SpotIn
  <2>5. f[<<n, j>>] = <<n, j + 1>>
    BY <1>1, <1>5, <1>6 DEF Shifts
  <2>6. g[<<n, d>>] = <<n, d - 1>>
    BY <1>5, <2>2 DEF Unshifts
  <2> QED BY ONLY <1>1, <1>6, <2>1, <2>2, <2>4, <2>5, <2>6
<1>7. CASE ~(a = n /\ j >= i)
  <2>1. <<a, j>> # <<n, i>>
    BY ONLY <1>5, <1>7
  <2>2. qs[a].keys[j] = x /\ HoldsKeys(qs[a]) /\ j \in 1..Len(qs[a].keys) /\ a \in 1..Len(qs)
    <3>1. CASE a = n
      <4>1. j \in 1..i - 1
        BY ONLY <1>1, <1>2, <1>3, <1>7, <3>1
      <4>2. j \in 1..Len(qs[a].keys)
        BY ONLY <1>1, <1>2, <1>3, <1>4, <3>1
      <4> QED BY ONLY <1>2, <1>3, <1>4, <3>1, <4>1, <4>2
    <3>2. CASE a # n
      BY ONLY <1>2, <1>3, <3>2
    <3> QED BY ONLY <3>1, <3>2
  <2>3. <<a, j>> \in Spots(qs, x)
    <3>1. At(qs, x, a, j)
      BY ONLY <2>2 DEF At
    <3> QED BY ONLY <1>1, <3>1, SpotIn
  <2>4. f[<<a, j>>] = <<a, j>>
    BY <1>1, <1>7 DEF Shifts
  <2>5. ~(a = n /\ j > i)
    BY ONLY <1>1, <1>5, <1>7
  <2>6. g[<<a, j>>] = <<a, j>>
    BY <1>1, <2>5 DEF Unshifts
  <2> QED BY ONLY <1>1, <2>1, <2>3, <2>4, <2>6
<1> QED BY ONLY <1>6, <1>7

\* The other places hold keys that were there.
LEMMA KeysUnshift ==
    ASSUME NEW ps, NEW qs, NEW n, NEW i, NEW y, KeyAdded(ps, qs, n, i, y),
           NEW x, NEW e \in Spots(qs, x) \ {<<n, i>>},
           NEW f, f = Shifts(n, i), NEW g, g = Unshifts(n, i)
    PROVE  g[e] \in Spots(ps, x) /\ f[g[e]] = e
<1>1. PICK a \in Nat, j \in Nat : e = <<a, j>> /\ a \in Nat /\ j \in Nat /\ At(qs, x, a, j)
  BY DEF Spots
<1>2. a \in 1..Len(qs) /\ HoldsKeys(qs[a]) /\ j \in 1..Len(qs[a].keys) /\ qs[a].keys[j] = x
  BY ONLY <1>1 DEF At
<1>3. /\ Len(ps) \in Nat /\ Len(qs) = Len(ps) /\ n \in 1..Len(ps)
      /\ Len(ps[n].keys) \in Nat /\ i \in 1..Len(ps[n].keys) + 1
      /\ HoldsKeys(ps[n]) /\ HoldsKeys(qs[n])
      /\ \A b \in (1..Len(ps)) \ {n} : qs[b] = ps[b]
  BY DEF KeyAdded
<1>4. /\ Len(qs[n].keys) = Len(ps[n].keys) + 1
      /\ \A d \in 1..i - 1 : qs[n].keys[d] = ps[n].keys[d]
      /\ \A d \in i + 1..Len(ps[n].keys) + 1 : qs[n].keys[d] = ps[n].keys[d - 1]
  BY DEF KeyAdded, Inserted
<1>5. n \in Nat /\ i \in Nat /\ ~(a = n /\ j = i)
  BY <1>1, <1>3
<1>6. CASE a = n /\ j > i
  <2>1. PICK d : d = j - 1
    OBVIOUS
  <2>2. /\ d \in Nat /\ d \in 1..Len(ps[n].keys) /\ j \in i + 1..Len(ps[n].keys) + 1
        /\ d + 1 = j /\ d >= i
    BY ONLY <1>1, <1>2, <1>3, <1>4, <1>6, <2>1
  <2>3. ps[n].keys[d] = x
    BY ONLY <1>2, <1>4, <1>6, <2>1, <2>2
  <2>4. <<n, d>> \in Spots(ps, x)
    <3>1. At(ps, x, n, d)
      BY ONLY <1>3, <2>2, <2>3 DEF At
    <3> QED BY ONLY <1>5, <2>2, <3>1, SpotIn
  <2>5. g[<<n, j>>] = <<n, j - 1>>
    BY <1>1, <1>5, <1>6 DEF Unshifts
  <2>6. f[<<n, d>>] = <<n, d + 1>>
    BY <1>5, <2>2 DEF Shifts
  <2> QED BY ONLY <1>1, <1>6, <2>1, <2>2, <2>4, <2>5, <2>6
<1>7. CASE ~(a = n /\ j > i)
  <2>1. ~(a = n /\ j >= i)
    BY ONLY <1>1, <1>5, <1>7
  <2>2. ps[a].keys[j] = x /\ HoldsKeys(ps[a]) /\ j \in 1..Len(ps[a].keys) /\ a \in 1..Len(ps)
    <3>1. CASE a = n
      <4>1. j \in 1..i - 1 /\ j \in 1..Len(ps[a].keys)
        BY ONLY <1>1, <1>2, <1>3, <2>1, <3>1
      <4> QED BY ONLY <1>2, <1>3, <1>4, <3>1, <4>1
    <3>2. CASE a # n
      BY ONLY <1>2, <1>3, <3>2
    <3> QED BY ONLY <3>1, <3>2
  <2>3. <<a, j>> \in Spots(ps, x)
    <3>1. At(ps, x, a, j)
      BY ONLY <2>2 DEF At
    <3> QED BY ONLY <1>1, <3>1, SpotIn
  <2>4. f[<<a, j>>] = <<a, j>>
    BY <1>1, <2>1 DEF Shifts
  <2>6. g[<<a, j>>] = <<a, j>>
    BY <1>1, <1>7 DEF Unshifts
  <2> QED BY ONLY <1>1, <2>3, <2>4, <2>6
<1> QED BY ONLY <1>6, <1>7

\* The new key is stored once more, the others as often as before.
LEMMA AddedCount ==
    ASSUME NEW ps, NEW qs, NEW n, NEW i, NEW y, KeyAdded(ps, qs, n, i, y),
           NEW x, IsFiniteSet(Spots(ps, x))
    PROVE  /\ IsFiniteSet(Spots(qs, x))
           /\ Cardinality(Spots(qs, x)) =
                 IF x = y THEN Cardinality(Spots(ps, x)) + 1 ELSE Cardinality(Spots(ps, x))
<1>1. PICK f : f = Shifts(n, i)
  OBVIOUS
<1>2. PICK g : g = Unshifts(n, i)
  OBVIOUS
<1>3. PICK T : T = Spots(qs, x) \ {<<n, i>>}
  OBVIOUS
<1>4. \A e \in Spots(ps, x) : f[e] \in T /\ g[f[e]] = e
  BY <1>1, <1>2, <1>3, KeysShift
<1>5. \A e \in T : g[e] \in Spots(ps, x) /\ f[g[e]] = e
  BY <1>1, <1>2, <1>3, KeysUnshift
<1>6. IsFiniteSet(T) /\ Cardinality(T) = Cardinality(Spots(ps, x))
  BY ONLY <1>4, <1>5, IsFiniteSet(Spots(ps, x)), SameSize
<1>7. n \in Nat /\ i \in Nat /\ n \in 1..Len(qs) /\ HoldsKeys(qs[n]) /\ i \in 1..Len(qs[n].keys)
      /\ qs[n].keys[i] = y
  BY DEF KeyAdded, Inserted
<1>8. CASE x = y
  <2>1. At(qs, x, n, i)
    BY ONLY <1>7, <1>8 DEF At
  <2>2. <<n, i>> \in Spots(qs, x)
    BY ONLY <1>7, <2>1, SpotIn
  <2>3. Spots(qs, x) = T \cup {<<n, i>>} /\ <<n, i>> \notin T
    BY ONLY <1>3, <2>2
  <2>4. IsFiniteSet(T \cup {<<n, i>>}) /\ Cardinality(T \cup {<<n, i>>}) = Cardinality(T) + 1
    BY ONLY <1>6, <2>3, FS_AddElement
  <2> QED BY ONLY <1>6, <1>8, <2>3, <2>4
<1>9. CASE x # y
  <2>1. <<n, i>> \notin Spots(qs, x)
    BY ONLY <1>7, <1>9 DEF Spots, At
  <2>2. T = Spots(qs, x)
    BY ONLY <1>3, <2>1
  <2> QED BY ONLY <1>6, <1>9, <2>2
<1> QED BY ONLY <1>8, <1>9

\* insertNonFull() adds the key to a leaf.
LEMMA LeafAdds ==
    ASSUME ShapeInv, fn = "insertNonFull", InsertIntoLeaf
    PROVE  \E n, i : KeyAdded(pages, pages', n, i, k)
<1>1. PICK n : n = PageNum(at)
  OBVIOUS
<1>2. PICK p : p = pages[n]
  OBVIOUS
<1>3. PICK i : i = AfterLastNotGreater(p.keys, k)
  OBVIOUS
<1>4. Data(at) = p /\ n \in 1..Len(pages)
  BY <1>1, <1>2, DataOnDisk DEF ShapeInv
<1>5. p \in Page /\ p.keys \in Seq(Keys) /\ pages \in Seq(Page) /\ Len(pages) \in Nat
  BY <1>2, <1>4, TreeFacts DEF Page
<1>6. k \in Keys
  BY DEF ShapeInv, InsertInv, CallOK
<1>7. i \in 1..Len(p.keys) + 1
  BY ONLY <1>3, <1>5, AfterLastNotGreaterRange
<1>8. PICK q : q = [p EXCEPT !.keys = InsertAt(p.keys, i, k)]
  OBVIOUS
<1>9. pages' = [pages EXCEPT ![n] = q] /\ p.leaf
  BY <1>1, <1>3, <1>4, <1>8 DEF InsertIntoLeaf, Write
<1>10. q.keys = InsertAt(p.keys, i, k) /\ q.leaf = p.leaf
  BY ONLY <1>5, <1>8 DEF Page
<1>11. Inserted(q.keys, p.keys, i, k)
  BY ONLY <1>5, <1>6, <1>7, <1>10, InsertAtInserts
<1>12. /\ Len(pages') = Len(pages) /\ pages'[n] = q
       /\ \A a \in (1..Len(pages)) \ {n} : pages'[a] = pages[a]
  BY ONLY <1>4, <1>5, <1>9
<1>13. KeyAdded(pages, pages', n, i, k)
  BY ONLY <1>2, <1>4, <1>5, <1>7, <1>9, <1>10, <1>11, <1>12, LenProperties DEF KeyAdded, HoldsKeys
<1> QED BY <1>13

-------------------------------------------------------------------------------
(* How often keys are stored. *)

\* The places of a key in the pages are its places in the tree.
CountsAgree ==
    \A x : /\ IsFiniteSet(Spots(pages, x))
           /\ Occurrences(Places, x) = Cardinality(Spots(pages, x))

\* Every page can be reached, so every key in the file counts.
LEMMA ShapeCounts == ShapeInv => CountsAgree
<1> SUFFICES ASSUME ShapeInv, NEW x
             PROVE  IsFiniteSet(Spots(pages, x))
                    /\ Occurrences(Places, x) = Cardinality(Spots(pages, x))
  BY DEF CountsAgree
<1>1. PICK h : Heights(pages, rootPageNum, h)
  BY DEF ShapeInv, TreeInv
<1>2. Len(pages) \in Nat /\ rootPageNum \in 1..Len(pages) /\ Owned(pages, rootPageNum)
      /\ \A m \in 1..Len(pages) : Shaped(pages[m], 1..Len(pages))
  BY TreeFacts
<1>3. Reachable = 1..Len(pages)
  BY <1>1, <1>2, AllReachable
<1>4. IsFiniteSet(Spots(pages, x))
  <2>1. PICK b : b = MaxKeys + 1
    OBVIOUS
  <2>2. ASSUME NEW m \in 1..Len(pages) PROVE b \in Nat /\ Len(pages[m].keys) \in 0..b
    <3>1. PICK p : p = pages[m]
      OBVIOUS
    <3>2. p \in Page /\ p.keys \in Seq(Keys) /\ Len(p.keys) <= MaxKeysOf(p)
      BY <1>2, <3>1 DEF Shaped, Page
    <3>3. MaxKeys \in Nat /\ MaxKeysOf(p) \in {MaxKeys, MaxKeys + 1}
      BY OrderAssumption DEF MaxKeys, MaxKeysOf
    <3>4. Len(p.keys) \in Nat
      BY ONLY <3>2, LenProperties
    <3> QED BY ONLY <2>1, <3>1, <3>2, <3>3, <3>4
  <2>3. b \in Nat
    BY <1>2, <2>2
  <2> QED BY ONLY <1>2, <2>2, <2>3, SpotsFinite
<1> DEFINE T == {e \in Places : e[3] = x}
           f == [e \in Nat \X Nat |-> <<e[1], e[2], x>>]
           g == [e \in Places |-> <<e[1], e[2]>>]
<1>5. \A n, i : <<n, i, x>> \in T <=> At(pages, x, n, i)
  BY <1>3 DEF Places, At
<1>6. \A e \in T : e \in Places /\ e = <<e[1], e[2], x>> /\ e[1] \in Nat /\ e[2] \in Nat
  <2> SUFFICES ASSUME NEW e \in T
               PROVE  e \in Places /\ e = <<e[1], e[2], x>> /\ e[1] \in Nat /\ e[2] \in Nat
    OBVIOUS
  <2>1. e \in Places /\ e[3] = x
    OBVIOUS
  <2>2. PICK n \in Reachable : \E i \in 1..Len(pages[n].keys) : e = <<n, i, pages[n].keys[i]>>
    BY <2>1 DEF Places
  <2>3. PICK i \in 1..Len(pages[n].keys) : e = <<n, i, pages[n].keys[i]>>
    BY <2>2
  <2>4. e[1] = n /\ e[2] = i /\ e[3] = pages[n].keys[i]
    BY ONLY <2>3
  <2>5. n \in Nat /\ i \in Nat
    BY <1>2, <1>3
  <2> QED BY ONLY <2>1, <2>3, <2>4, <2>5
<1>7. ASSUME NEW e \in Spots(pages, x) PROVE f[e] \in T /\ g[f[e]] = e
  <2>1. PICK a \in Nat, j \in Nat : e = <<a, j>> /\ At(pages, x, a, j)
    BY DEF Spots
  <2>2. f[e] = <<a, j, x>>
    BY <2>1
  <2>3. <<a, j, x>> \in T
    BY <1>5, <2>1
  <2>4. <<a, j, x>> \in Places
    BY <2>3
  <2>5. g[<<a, j, x>>] = <<a, j>>
    BY <2>4
  <2> QED BY ONLY <2>1, <2>2, <2>3, <2>5
<1>8. ASSUME NEW e \in T PROVE g[e] \in Spots(pages, x) /\ f[g[e]] = e
  <2>1. g[e] = <<e[1], e[2]>>
    BY <1>6
  <2>2. e[1] \in Nat /\ e[2] \in Nat /\ e = <<e[1], e[2], x>>
    BY <1>6
  <2>3. At(pages, x, e[1], e[2])
    BY <1>5, <2>2
  <2>4. <<e[1], e[2]>> \in Spots(pages, x)
    BY ONLY <2>2, <2>3, SpotIn
  <2>5. f[<<e[1], e[2]>>] = <<e[1], e[2], x>>
    BY <2>2
  <2> QED BY ONLY <2>1, <2>2, <2>4, <2>5
<1> HIDE DEF f, g, T
<1>9. Cardinality(T) = Cardinality(Spots(pages, x))
  BY ONLY <1>4, <1>7, <1>8, SameSize
<1> QED BY <1>4, <1>9 DEF Occurrences, T

\* The two states of a step.
LEMMA ShapeCountsNext == ShapeInv' => CountsAgree'
  BY ShapeCounts, PTL

\* A step that stores no key.
SameCounts == \A x : Occurrences(Places', x) = Occurrences(Places, x)

\* From the places in the pages to those in the tree.
LEMMA SpotsCountNext ==
    ASSUME CountsAgree, CountsAgree',
           \A x : Cardinality(Spots(pages', x)) = Cardinality(Spots(pages, x))
    PROVE  SameCounts
  BY DEF SameCounts, CountsAgree

\* Steps that write no page.
LEMMA QuietKeepsCounts ==
    ASSUME CountsAgree, CountsAgree', pages' = pages
    PROVE  SameCounts
  BY SpotsCountNext

\* The split of a child on the way down.
LEMMA DescentKeepsCounts ==
    ASSUME ShapeInv, CountsAgree, CountsAgree', SplitAndDescend
    PROVE  SameCounts
<1>1. PICK n : n = PageNum(at)
  OBVIOUS
<1>2. PICK i : i = AfterLastNotGreater(pages[n].keys, k)
  OBVIOUS
<1>3. PICK c : c = pages[n].cursors[i]
  OBVIOUS
<1>4. SplitsChild(pages, pages', n, i, c) /\ AllShaped(pages)
  BY <1>1, <1>2, <1>3, DescentSplits
<1>5. \A x : IsFiniteSet(Spots(pages, x))
  BY DEF CountsAgree
<1>6. \A x : Cardinality(Spots(pages', x)) = Cardinality(Spots(pages, x))
  BY ONLY <1>4, <1>5, SplitCount
<1> QED BY <1>6, SpotsCountNext

\* The split of the root.
LEMMA GrowthKeepsCounts ==
    ASSUME ShapeInv, CountsAgree, CountsAgree', GrowRoot
    PROVE  SameCounts
<1>1. PICK ps : ps = Append(pages, NewRoot(rootPageNum))
  OBVIOUS
<1>2. PICK r : r = rootPageNum
  OBVIOUS
<1>3. PICK root : root = Len(pages) + 1
  OBVIOUS
<1>4. /\ SplitsChild(ps, pages', root, 1, r) /\ AllShaped(ps)
      /\ Len(ps) = root /\ IsNewRoot(ps[root], r, Len(pages))
      /\ \A m \in 1..Len(pages) : ps[m] = pages[m]
      /\ Len(pages) \in Nat
  BY <1>1, <1>2, <1>3, GrowthSplits
<1>5. \A x : Spots(ps, x) = Spots(pages, x)
  BY ONLY <1>3, <1>4, NewRootCount
<1>6. \A x : IsFiniteSet(Spots(ps, x))
  BY <1>5 DEF CountsAgree
<1>7. \A x : Cardinality(Spots(pages', x)) = Cardinality(Spots(ps, x))
  BY ONLY <1>4, <1>6, SplitCount
<1> QED BY <1>5, <1>7, SpotsCountNext

\* The insertion into a leaf stores its key once more.
LEMMA LeafCounts ==
    ASSUME ShapeInv, CountsAgree, CountsAgree', fn = "insertNonFull", InsertIntoLeaf
    PROVE  \A x : Occurrences(Places', x) =
                     IF x = k THEN Occurrences(Places, x) + 1 ELSE Occurrences(Places, x)
<1>1. PICK n, i : KeyAdded(pages, pages', n, i, k)
  BY LeafAdds
<1>2. \A x : IsFiniteSet(Spots(pages, x)) /\ Occurrences(Places, x) = Cardinality(Spots(pages, x))
  BY DEF CountsAgree
<1>3. \A x : Occurrences(Places', x) = Cardinality(Spots(pages', x))
  BY DEF CountsAgree
<1>4. \A x : Cardinality(Spots(pages', x)) =
                IF x = k THEN Cardinality(Spots(pages, x)) + 1 ELSE Cardinality(Spots(pages, x))
  BY ONLY <1>1, <1>2, AddedCount
<1> QED BY ONLY <1>2, <1>3, <1>4

\* The steps by what they store.
LEMMA StepCounts ==
    ASSUME ShapeInv, CountsAgree, CountsAgree', [BaseNext]_vars
    PROVE  SameCounts \/ (fn = "insertNonFull" /\ InsertIntoLeaf)
<1>1. ASSUME NEW x \in Keys, Insert(x) PROVE SameCounts
  <2>1. CASE GrowRoot
    BY <2>1, GrowthKeepsCounts
  <2>2. CASE UNCHANGED treeVars
    BY <2>2, QuietKeepsCounts DEF treeVars
  <2> QED BY <1>1, <2>1, <2>2 DEF Insert
<1>2. ASSUME NEW x \in Keys, Search(x) \/ SearchAll(x) PROVE SameCounts
  BY <1>2, QuietKeepsCounts DEF Search, SearchAll, treeVars
<1>3. CASE SplitAndDescend
  BY <1>3, DescentKeepsCounts
<1>4. CASE Descend
  BY <1>4, QuietKeepsCounts DEF Descend, treeVars
<1>5. CASE search
  BY <1>5, QuietKeepsCounts DEF search, treeVars
<1>6. CASE searchAll
  BY <1>6, QuietKeepsCounts DEF searchAll, treeVars
<1>7. CASE LoadTree
  BY <1>7, QuietKeepsCounts DEF LoadTree
<1>8. CASE UNCHANGED vars
  BY <1>8, QuietKeepsCounts DEF vars, treeVars
<1> QED BY <1>1, <1>2, <1>3, <1>4, <1>5, <1>6, <1>7, <1>8
        DEF BaseNext, BaseCall, BaseStep, insertNonFull

\* No step of an insertion or a search changes how often another key is stored, for
\* every order, tree type and set of keys: what splitChild() takes from a page is in
\* its halves and in the parent, once, and the root that grows takes no key along.
THEOREM InsertOtherKeysKept == BaseSpec => OtherKeysKept
<1>1. ASSUME ShapeInv, ShapeInv', [BaseNext]_vars
      PROVE  [\A before \in {Places}, after \in {Places'} : \A x \in Keys :
                 x # k => Occurrences(after, x) = Occurrences(before, x)]_vars
  <2>1. CountsAgree /\ CountsAgree'
    BY <1>1, ShapeCounts, ShapeCountsNext
  <2>2. CASE SameCounts
    BY <2>2 DEF SameCounts
  <2>3. CASE fn = "insertNonFull" /\ InsertIntoLeaf
    BY <1>1, <2>1, <2>3, LeafCounts
  <2> QED BY <1>1, <2>1, <2>2, <2>3, StepCounts
<1> QED BY <1>1, ShapeHolds, PTL DEF BaseSpec, OtherKeysKept

-------------------------------------------------------------------------------
(* Where a key can be. *)

\* What may go below a page may go below the pages above it.
LEMMA UnderOrdered ==
    ASSUME NEW ps, KidsExist(ps), NEW u, Ordered(ps, u), NEW n \in 1..Len(ps),
           NEW m \in Under(ps, n)
    PROVE  u[m] \subseteq u[n]
<1> DEFINE S == {a \in 1..Len(ps) : u[a] \subseteq u[n]}
<1>1. S \in SUBSET (1..Len(ps)) /\ n \in S
  OBVIOUS
<1>2. Closed(ps, S)
  <2> SUFFICES ASSUME NEW a \in S, NEW b \in Kids(ps[a]) PROVE b \in S
    BY DEF Closed
  <2>1. b \in 1..Len(ps)
    BY DEF KidsExist
  <2>2. PageOrdered(ps[a], u[a], u)
    BY DEF Ordered
  <2>3. u[b] \subseteq u[a]
    BY <2>2 DEF PageOrdered, Kids
  <2> QED BY <2>1, <2>3
<1> HIDE DEF S
<1>3. m \in S
  BY <1>1, <1>2, UnderLeast
<1> QED BY <1>3 DEF S

\* A key below cursor j of a page lies between the keys around that cursor.
LEMMA UnderBetween ==
    ASSUME NEW ps, KidsExist(ps), NEW u, Ordered(ps, u), NEW n \in 1..Len(ps),
           NEW j \in 1..Len(ps[n].cursors), NEW m \in Under(ps, ps[n].cursors[j]),
           NEW d \in 1..Len(ps[m].keys), NEW x, x = ps[m].keys[d]
    PROVE  Between(ps[n].keys, j, x)
<1>1. PICK c : c = ps[n].cursors[j]
  OBVIOUS
<1>2. c \in 1..Len(ps)
  BY <1>1 DEF KidsExist, Kids
<1>3. m \in 1..Len(ps) /\ u[m] \subseteq u[c]
  BY <1>1, <1>2, UnderOrdered, UnderClosed
<1>4. PageOrdered(ps[m], u[m], u) /\ PageOrdered(ps[n], u[n], u)
  BY <1>3 DEF Ordered
<1>5. x \in u[c]
  BY <1>3, <1>4 DEF PageOrdered
<1> QED BY <1>1, <1>4, <1>5 DEF PageOrdered

-------------------------------------------------------------------------------
(* The routers of a B+-tree. *)

\* The keys of a leaf, or of the sets L of the children of an inner page.
Below(p, L) ==
    IF p.leaf THEN {p.keys[j] : j \in 1..Len(p.keys)} ELSE UNION {L[c] : c \in Kids(p)}

\* The keys X are below page p, and each of its routers is below the cursor in front
\* of it.
PageRouted(p, X, L) ==
    /\ X \subseteq Below(p, L)
    /\ ~p.leaf => \A j \in 1..Len(p.keys) : p.keys[j] \in L[p.cursors[j]]

\* L gives each page keys that are stored below it.
Routed(ps, L) == \A n \in 1..Len(ps) : PageRouted(ps[n], L[n], L)

\* Every router of a B+-tree is stored below the cursor in front of it.
RoutersStored == TreeType = "B_PLUS_TREE" => \E L : Routed(pages, L)

\* A key of the set of a page is in a leaf below it.
LEMMA RoutedLeaf ==
    ASSUME NEW ps, KidsExist(ps), NEW r, NEW h, Heights(ps, r, h), NEW L, Routed(ps, L),
           NEW n \in 1..Len(ps), NEW x \in L[n]
    PROVE  \E m \in Under(ps, n) :
              ps[m].leaf /\ \E j \in 1..Len(ps[m].keys) : ps[m].keys[j] = x
<1> DEFINE W(a) == \E m \in Under(ps, a) :
                      ps[m].leaf /\ \E j \in 1..Len(ps[m].keys) : ps[m].keys[j] = x
           B == {a \in 1..Len(ps) : x \in L[a] /\ ~W(a)}
           T == {h[a] : a \in B}
<1> SUFFICES ASSUME B # {} PROVE FALSE
  OBVIOUS
<1>1. \A a \in 1..Len(ps) : h[a] \in Nat /\ \A b \in Kids(ps[a]) : h[a] = h[b] + 1
  BY DEF Heights
<1>2. T \subseteq Nat /\ T # {}
  BY <1>1
<1>3. PICK t \in T : \A y \in T : t <= y
  <2> HIDE DEF T
  <2> QED BY <1>2, LeastNumber
<1>4. PICK a \in B : t = h[a]
  BY <1>3
<1>5. a \in 1..Len(ps) /\ x \in L[a] /\ ~W(a)
  OBVIOUS
<1>6. x \in Below(ps[a], L)
  BY <1>5 DEF Routed, PageRouted
<1>7. a \in Under(ps, a)
  BY <1>5, UnderClosed
<1>8. ~ps[a].leaf
  <2> SUFFICES ASSUME ps[a].leaf PROVE FALSE
    OBVIOUS
  <2>1. \E j \in 1..Len(ps[a].keys) : ps[a].keys[j] = x
    BY <1>6 DEF Below
  <2> QED BY <1>5, <1>7, <2>1
<1>9. PICK c \in Kids(ps[a]) : x \in L[c]
  BY <1>6, <1>8 DEF Below
<1>10. c \in 1..Len(ps) /\ Under(ps, c) \subseteq Under(ps, a)
  BY <1>5, UnderKid
<1>11. ~W(c)
  BY <1>5, <1>10
<1>12. h[c] \in T
  BY <1>9, <1>10, <1>11
<1>13. h[a] <= h[c] /\ h[a] = h[c] + 1 /\ h[c] \in Nat
  BY <1>1, <1>3, <1>4, <1>5, <1>10, <1>12
<1> QED BY ONLY <1>13

\* So it lies between the keys around the cursor to the page.
LEMMA RoutedBetween ==
    ASSUME NEW ps, KidsExist(ps), NEW r, NEW h, Heights(ps, r, h), NEW L, Routed(ps, L),
           NEW u, Ordered(ps, u), NEW n \in 1..Len(ps), NEW j \in 1..Len(ps[n].cursors),
           NEW x \in L[ps[n].cursors[j]]
    PROVE  Between(ps[n].keys, j, x)
<1>1. PICK c : c = ps[n].cursors[j]
  OBVIOUS
<1>2. c \in 1..Len(ps)
  BY <1>1 DEF KidsExist, Kids
<1>3. PICK m \in Under(ps, c) : \E d \in 1..Len(ps[m].keys) : ps[m].keys[d] = x
  BY <1>1, <1>2, RoutedLeaf
<1> QED BY <1>1, <1>3, UnderBetween

\* The page p, a leaf or not, and its halves a and b.
Parts(p, a, b, m, l) ==
    /\ m \in Nat \ {0} /\ l = IF p.leaf THEN m + 1 ELSE m
    /\ Len(p.keys) = m + 1 + l /\ (~p.leaf => Len(p.cursors) = m + l + 2)
    /\ a.leaf = p.leaf /\ b.leaf = p.leaf /\ p.leaf \in BOOLEAN
    /\ HalfOf(a, p, 0, l) /\ HalfOf(b, p, m + 1, l)

\* Key j of the left half, and its cursor.
LEMMA LeftPart ==
    ASSUME NEW p, NEW a, NEW b, NEW m, NEW l, Parts(p, a, b, m, l)
    PROVE  /\ Len(a.keys) = l /\ \A j \in 1..l : a.keys[j] = p.keys[j]
           /\ ~p.leaf => Len(a.cursors) = m + 1 /\ \A j \in 1..m + 1 : a.cursors[j] = p.cursors[j]
<1>1. m \in Nat /\ l \in Nat
  BY DEF Parts
<1>2. Len(a.keys) = l /\ \A j \in 1..l : a.keys[j] = p.keys[0 + j]
  BY DEF Parts, HalfOf
<1>3. ~p.leaf => Len(a.cursors) = l + 1 /\ \A j \in 1..l + 1 : a.cursors[j] = p.cursors[0 + j]
  BY DEF Parts, HalfOf
<1>4. ~p.leaf => l = m
  BY DEF Parts
<1>5. \A j \in Nat : 0 + j = j
  OBVIOUS
<1>6. \A j \in 1..l : j \in Nat
  BY ONLY <1>1
<1>7. \A j \in 1..m + 1 : j \in Nat
  BY ONLY <1>1
<1> QED BY ONLY <1>2, <1>3, <1>4, <1>5, <1>6, <1>7

\* Key j of the right half, and its cursor.
LEMMA RightPart ==
    ASSUME NEW p, NEW a, NEW b, NEW m, NEW l, Parts(p, a, b, m, l)
    PROVE  /\ Len(b.keys) = l /\ \A j \in 1..l : b.keys[j] = p.keys[m + 1 + j]
           /\ ~p.leaf => Len(b.cursors) = m + 1 /\ \A j \in 1..m + 1 : b.cursors[j] = p.cursors[m + 1 + j]
<1>1. ~p.leaf => l = m
  BY DEF Parts
<1> QED BY <1>1 DEF Parts, HalfOf

\* The halves have the keys of the page below them.
LEMMA PartsBelow ==
    ASSUME NEW p, NEW a, NEW b, NEW m, NEW l, Parts(p, a, b, m, l), NEW L, NEW x \in Below(p, L)
    PROVE  x \in Below(a, L) \cup Below(b, L)
<1>1. /\ m \in Nat /\ l \in Nat /\ a.leaf = p.leaf /\ b.leaf = p.leaf
      /\ Len(p.keys) = m + 1 + l /\ (p.leaf => l = m + 1)
      /\ (~p.leaf => Len(p.cursors) = m + l + 2 /\ l = m)
  BY DEF Parts
<1>2. CASE p.leaf
  <2>1. PICK j \in 1..Len(p.keys) : p.keys[j] = x
    BY <1>2 DEF Below
  <2>2. CASE j <= m + 1
    <3>1. j \in 1..l
      BY ONLY <1>1, <1>2, <2>1, <2>2
    <3>2. a.keys[j] = x /\ j \in 1..Len(a.keys)
      BY <2>1, <3>1, LeftPart
    <3> QED BY <1>1, <1>2, <3>2 DEF Below
  <2>3. CASE j > m + 1
    <3>1. PICK d : d = j - (m + 1)
      OBVIOUS
    <3>2. d \in 1..l /\ m + 1 + d = j
      BY ONLY <1>1, <2>1, <2>3, <3>1
    <3>3. b.keys[d] = x /\ d \in 1..Len(b.keys)
      BY <2>1, <3>2, RightPart
    <3> QED BY <1>1, <1>2, <3>3 DEF Below
  <2>4. j \in Int
    BY ONLY <1>1, <2>1
  <2> QED BY ONLY <1>1, <2>2, <2>3, <2>4
<1>3. CASE ~p.leaf
  <2>1. PICK j \in 1..Len(p.cursors) : x \in L[p.cursors[j]]
    BY <1>3 DEF Below, Kids
  <2>2. CASE j <= m + 1
    <3>1. j \in 1..m + 1
      BY ONLY <1>1, <1>3, <2>1, <2>2
    <3>2. a.cursors[j] = p.cursors[j] /\ j \in 1..Len(a.cursors)
      BY <1>3, <3>1, LeftPart
    <3> QED BY <1>1, <1>3, <2>1, <3>2 DEF Below, Kids
  <2>3. CASE j > m + 1
    <3>1. PICK d : d = j - (m + 1)
      OBVIOUS
    <3>2. d \in 1..m + 1 /\ m + 1 + d = j
      BY ONLY <1>1, <1>3, <2>1, <2>3, <3>1
    <3>3. b.cursors[d] = p.cursors[j] /\ d \in 1..Len(b.cursors)
      BY <1>3, <3>2, RightPart
    <3> QED BY <1>1, <1>3, <2>1, <3>3 DEF Below, Kids
  <2>4. j \in Int
    BY ONLY <1>1, <1>3, <2>1
  <2> QED BY ONLY <1>1, <2>2, <2>3, <2>4
<1> QED BY <1>2, <1>3

\* The median is below the left half.
LEMMA MedianBelow ==
    ASSUME NEW p, NEW a, NEW b, NEW m, NEW l, Parts(p, a, b, m, l), NEW L, NEW X,
           PageRouted(p, X, L)
    PROVE  p.keys[m + 1] \in Below(a, L)
<1>1. /\ m \in Nat /\ l \in Nat /\ a.leaf = p.leaf
      /\ Len(p.keys) = m + 1 + l /\ (p.leaf => l = m + 1)
  BY DEF Parts
<1>2. CASE p.leaf
  <2>1. m + 1 \in 1..l
    BY ONLY <1>1, <1>2
  <2>2. a.keys[m + 1] = p.keys[m + 1] /\ m + 1 \in 1..Len(a.keys)
    BY <2>1, LeftPart
  <2> QED BY <1>1, <1>2, <2>2 DEF Below
<1>3. CASE ~p.leaf
  <2>1. m + 1 \in 1..Len(p.keys) /\ m + 1 \in 1..m + 1
    BY ONLY <1>1
  <2>2. a.cursors[m + 1] = p.cursors[m + 1] /\ m + 1 \in 1..Len(a.cursors)
    BY <1>3, <2>1, LeftPart
  <2>3. p.keys[m + 1] \in L[p.cursors[m + 1]]
    BY <1>3, <2>1 DEF PageRouted
  <2> QED BY <1>1, <1>3, <2>2, <2>3 DEF Below, Kids
<1> QED BY <1>2, <1>3

\* A key that is not less than those of the page is below the right half.
LEMMA GreatestBelow ==
    ASSUME NEW p, NEW a, NEW b, NEW m, NEW l, Parts(p, a, b, m, l), NEW L, NEW X,
           PageRouted(p, X, L), NEW x \in Below(p, L), x \in Int, p.keys \in Seq(Int),
           Ascending(p.keys), \A j \in 1..Len(p.keys) : p.keys[j] <= x,
           ~p.leaf => \A j \in 1..Len(p.cursors) :
                         x \in L[p.cursors[j]] => Between(p.keys, j, x)
    PROVE  x \in Below(b, L)
<1>1. /\ m \in Nat \ {0} /\ l \in Nat /\ b.leaf = p.leaf
      /\ Len(p.keys) = m + 1 + l /\ (p.leaf => l = m + 1)
      /\ (~p.leaf => Len(p.cursors) = m + l + 2 /\ l = m)
  BY DEF Parts
<1>2. m + 2 \in 1..Len(p.keys) /\ 1 \in 1..l /\ m + 1 + 1 = m + 2 /\ 1 \in 1..m + 1
  BY ONLY <1>1
<1>3. p.keys[m + 2] \in Int /\ p.keys[m + 2] <= x
  BY <1>2, ElementOfSeq
<1>4. p.keys[m + 2] \in Below(b, L)
  <2>1. CASE p.leaf
    <3>1. b.keys[1] = p.keys[m + 2] /\ 1 \in 1..Len(b.keys)
      BY <1>2, RightPart
    <3> QED BY <1>1, <2>1, <3>1 DEF Below
  <2>2. CASE ~p.leaf
    <3>1. b.cursors[1] = p.cursors[m + 2] /\ 1 \in 1..Len(b.cursors)
      BY <1>2, <2>2, RightPart
    <3>2. p.keys[m + 2] \in L[p.cursors[m + 2]]
      BY <1>2, <2>2 DEF PageRouted
    <3> QED BY <1>1, <2>2, <3>1, <3>2 DEF Below, Kids
  <2> QED BY <2>1, <2>2
<1>5. CASE p.keys[m + 2] = x
  BY <1>4, <1>5
<1>6. CASE p.keys[m + 2] # x /\ p.leaf
  <2>1. PICK j \in 1..Len(p.keys) : p.keys[j] = x
    BY <1>6 DEF Below
  <2>2. ~(j < m + 2)
    <3> SUFFICES ASSUME j < m + 2 PROVE FALSE
      OBVIOUS
    <3>1. p.keys[j] <= p.keys[m + 2]
      BY <1>2, <2>1 DEF Ascending
    <3> QED BY <1>3, <1>6, <2>1, <3>1
  <2>3. PICK d : d = j - (m + 1)
    OBVIOUS
  <2>4. d \in 1..l /\ m + 1 + d = j
    BY ONLY <1>1, <2>1, <2>2, <2>3
  <2>5. b.keys[d] = x /\ d \in 1..Len(b.keys)
    BY <2>1, <2>4, RightPart
  <2> QED BY <1>1, <1>6, <2>5 DEF Below
<1>7. CASE p.keys[m + 2] # x /\ ~p.leaf
  <2>1. PICK j \in 1..Len(p.cursors) : x \in L[p.cursors[j]]
    BY <1>7 DEF Below, Kids
  <2>2. ~(j <= m + 2)
    <3> SUFFICES ASSUME j <= m + 2 PROVE FALSE
      OBVIOUS
    <3>1. Between(p.keys, j, x)
      BY <1>7, <2>1
    <3>2. m + 2 >= j
      BY ONLY <1>1, <2>1, j <= m + 2
    <3>3. x <= p.keys[m + 2]
      BY <1>2, <3>1, <3>2 DEF Between
    <3> QED BY <1>3, <1>7, <3>3
  <2>3. PICK d : d = j - (m + 1)
    OBVIOUS
  <2>4. d \in 1..m + 1 /\ m + 1 + d = j
    BY ONLY <1>1, <1>7, <2>1, <2>2, <2>3
  <2>5. b.cursors[d] = p.cursors[j] /\ d \in 1..Len(b.cursors)
    BY <1>7, <2>4, RightPart
  <2> QED BY <1>1, <1>7, <2>1, <2>5 DEF Below, Kids
<1> QED BY <1>5, <1>6, <1>7

\* A full page of a B+-tree and what splitChild() makes of it.
LEMMA SplitParts ==
    ASSUME TreeType = "B_PLUS_TREE", NEW S, NEW p, Shaped(p, S), isFull(p)
    PROVE  Parts(p, SplitLeft(p), SplitRight(p), MinKeys, MinKeysOf(p))
<1>1. p \in Page /\ p.leaf \in BOOLEAN /\ Len(p.keys) = MaxKeysOf(p)
      /\ (~p.leaf => Len(p.cursors) = Len(p.keys) + 1)
  BY DEF Shaped, Page, isFull
<1>2. MinKeys \in Nat \ {0} /\ MaxKeysOf(p) = MinKeys + 1 + MinKeysOf(p)
  BY <1>1, KeyBounds
<1>3. MinKeysOf(p) = IF p.leaf THEN MinKeys + 1 ELSE MinKeys
  BY <1>1 DEF MinKeysOf
<1>4. SplitLeft(p).leaf = p.leaf /\ SplitRight(p).leaf = p.leaf
  BY ONLY <1>1 DEF SplitLeft, SplitRight, Page
<1>5. HalfOf(SplitLeft(p), p, 0, MinKeysOf(p)) /\ HalfOf(SplitRight(p), p, MinKeys + 1, MinKeysOf(p))
  BY SplitHalves
<1>6. ~p.leaf => Len(p.cursors) = MinKeys + MinKeysOf(p) + 2
  BY ONLY <1>1, <1>2, <1>3
<1> QED BY ONLY <1>1, <1>2, <1>3, <1>4, <1>5, <1>6 DEF Parts

\* The sets of the pages after the split of page c.
Rerouted(qs, L, c, right) ==
    [a \in 1..right |-> IF a = c THEN Below(qs[c], L)
                        ELSE IF a = right THEN Below(qs[right], L) ELSE L[a]]

\* A half routes its part of the keys.
LEMMA PartRouted ==
    ASSUME NEW p, Len(p.keys) \in Nat, NEW q, NEW X, NEW L, PageRouted(p, X, L), q.leaf = p.leaf,
           NEW d \in Nat, NEW l \in Nat, HalfOf(q, p, d, l), NEW M,
           \A e \in Kids(q) : M[e] = L[e]
    PROVE  PageRouted(q, Below(q, L), M)
<1>1. Below(q, L) \subseteq Below(q, M)
  BY DEF Below
<1>2. ASSUME ~q.leaf, NEW j \in 1..Len(q.keys) PROVE q.keys[j] \in M[q.cursors[j]]
  <2>1. j \in 1..l /\ j \in 1..l + 1 /\ Len(q.cursors) = l + 1 /\ d + l <= Len(p.keys)
    BY <1>2 DEF HalfOf
  <2>2. q.keys[j] = p.keys[d + j] /\ q.cursors[j] = p.cursors[d + j]
    BY <1>2, <2>1 DEF HalfOf
  <2>3. q.cursors[j] \in Kids(q)
    BY <2>1 DEF Kids
  <2>4. ~p.leaf /\ p.keys[d + j] \in L[p.cursors[d + j]]
    <3>1. d + j \in 1..Len(p.keys)
      BY <2>1
    <3> QED BY <1>2, <3>1 DEF PageRouted
  <2> QED BY <2>2, <2>3, <2>4
<1> QED BY <1>1, <1>2 DEF PageRouted

\* The parent has the halves below it and one router more.
LEMMA ParentRouted ==
    ASSUME NEW node \in Page, NEW q, NEW i \in 1..Len(node.keys) + 1, NEW x \in Keys,
           Len(node.cursors) = Len(node.keys) + 1, ~node.leaf, OneCursorEach(node),
           NEW c, c = node.cursors[i], NEW right \in Nat, right \notin Kids(node),
           ~q.leaf, Inserted(q.keys, node.keys, i, x), Inserted(q.cursors, node.cursors, i + 1, right),
           NEW X, NEW L, PageRouted(node, X, L), NEW M, \A e \in Kids(node) \ {c} : M[e] = L[e],
           L[c] \subseteq M[c] \cup M[right], x \in M[c],
           i <= Len(node.keys) => node.keys[i] \in M[right]
    PROVE  PageRouted(q, X, M)
<1>1. PICK N : N = Len(node.keys)
  OBVIOUS
<1>2. N \in Nat /\ i \in 1..N + 1 /\ i \in Nat /\ Len(node.cursors) = N + 1
  BY <1>1 DEF Page
<1>3. /\ Len(q.keys) = N + 1 /\ q.keys[i] = x
      /\ \A j \in 1..i - 1 : q.keys[j] = node.keys[j]
      /\ \A j \in i + 1..N + 1 : q.keys[j] = node.keys[j - 1]
  BY <1>1 DEF Inserted
<1>4. /\ Len(q.cursors) = N + 2 /\ q.cursors[i + 1] = right
      /\ \A j \in 1..i : q.cursors[j] = node.cursors[j]
      /\ \A j \in i + 2..N + 2 : q.cursors[j] = node.cursors[j - 1]
  <2>1. /\ Len(q.cursors) = (N + 1) + 1 /\ q.cursors[i + 1] = right
        /\ \A j \in 1..(i + 1) - 1 : q.cursors[j] = node.cursors[j]
        /\ \A j \in (i + 1) + 1..(N + 1) + 1 : q.cursors[j] = node.cursors[j - 1]
    BY <1>2 DEF Inserted
  <2>2. (N + 1) + 1 = N + 2 /\ (i + 1) - 1 = i /\ (i + 1) + 1 = i + 2
    BY ONLY <1>2
  <2> QED BY ONLY <2>1, <2>2
<1>5. Kids(node) \cup {right} \subseteq Kids(q)
  <2>1. ASSUME NEW j \in 1..N + 1 PROVE node.cursors[j] \in Kids(q)
    <3>1. CASE j <= i
      <4>1. j \in 1..i /\ j \in 1..N + 2
        BY ONLY <1>2, <2>1, <3>1
      <4> QED BY <1>4, <4>1 DEF Kids
    <3>2. CASE j > i
      <4>1. PICK d : d = j + 1
        OBVIOUS
      <4>2. d \in i + 2..N + 2 /\ d \in 1..N + 2 /\ d - 1 = j
        BY ONLY <1>2, <2>1, <3>2, <4>1
      <4>3. q.cursors[d] = node.cursors[j] /\ d \in 1..Len(q.cursors)
        BY ONLY <1>4, <4>2
      <4> QED BY ONLY <4>3 DEF Kids
    <3> QED BY ONLY <1>2, <2>1, <3>1, <3>2
  <2>2. i + 1 \in 1..N + 2
    BY ONLY <1>2
  <2>3. right \in Kids(q)
    BY ONLY <1>4, <2>2 DEF Kids
  <2>4. \A e \in Kids(node) : e \in Kids(q)
    <3>1. \A e \in Kids(node) : \E j \in 1..N + 1 : e = node.cursors[j]
      BY ONLY <1>2 DEF Kids
    <3> QED BY ONLY <2>1, <3>1
  <2> QED BY <2>3, <2>4
<1>6. c \in Kids(node)
  BY <1>2 DEF Kids
<1>7. X \subseteq Below(q, M)
  <2> SUFFICES ASSUME NEW y \in X PROVE \E e \in Kids(q) : y \in M[e]
    BY DEF Below
  <2>1. PICK e \in Kids(node) : y \in L[e]
    BY DEF PageRouted, Below
  <2> QED BY <1>5, <1>6, <2>1
<1>8. \A j \in 1..N + 1 : j # i => M[node.cursors[j]] = L[node.cursors[j]]
  <2> SUFFICES ASSUME NEW j \in 1..N + 1, j # i PROVE M[node.cursors[j]] = L[node.cursors[j]]
    OBVIOUS
  <2>1. node.cursors[j] # c
    BY <1>2 DEF OneCursorEach
  <2>2. node.cursors[j] \in Kids(node)
    BY <1>2 DEF Kids
  <2> QED BY <2>1, <2>2
<1>9. \A j \in 1..N : node.keys[j] \in L[node.cursors[j]]
  BY <1>1 DEF PageRouted
<1>10. ASSUME NEW j \in 1..N + 1 PROVE q.keys[j] \in M[q.cursors[j]]
  <2>1. CASE j < i
    <3>1. j \in 1..i - 1 /\ j \in 1..i /\ j \in 1..N /\ j # i
      BY ONLY <1>2, <1>10, <2>1
    <3> QED BY <1>3, <1>4, <1>8, <1>9, <3>1
  <2>2. CASE j = i
    <3>1. i \in 1..i
      BY ONLY <1>2
    <3> QED BY <1>3, <1>4, <2>2, <3>1
  <2>3. CASE j = i + 1
    <3>1. j \in i + 1..N + 1 /\ j - 1 = i /\ i <= N
      BY ONLY <1>2, <1>10, <2>3
    <3>2. q.keys[j] = node.keys[i]
      BY ONLY <1>3, <3>1
    <3> QED BY <1>1, <1>4, <2>3, <3>1, <3>2
  <2>4. CASE j > i + 1
    <3>1. PICK d : d = j - 1
      OBVIOUS
    <3>2. j \in i + 1..N + 1 /\ j \in i + 2..N + 2 /\ d \in 1..N /\ d \in 1..N + 1 /\ d # i
      BY ONLY <1>2, <1>10, <2>4, <3>1
    <3>3. q.keys[j] = node.keys[d] /\ q.cursors[j] = node.cursors[d]
      BY ONLY <1>3, <1>4, <3>1, <3>2
    <3> QED BY <1>8, <1>9, <3>2, <3>3
  <2>5. j \in Int
    BY ONLY <1>2, <1>10
  <2> QED BY ONLY <1>2, <2>1, <2>2, <2>3, <2>4, <2>5
<1> QED BY <1>3, <1>7, <1>10 DEF PageRouted

\* A page that keeps its children keeps its keys below it.
LEMMA SameRouted ==
    ASSUME NEW p, NEW X, NEW L, PageRouted(p, X, L), NEW M, \A e \in Kids(p) : M[e] = L[e],
           ~p.leaf => Len(p.cursors) = Len(p.keys) + 1, Len(p.keys) \in Nat
    PROVE  PageRouted(p, X, M)
<1>1. Below(p, L) = Below(p, M)
  BY DEF Below
<1>2. ~p.leaf => \A j \in 1..Len(p.keys) : p.cursors[j] \in Kids(p)
  BY DEF Kids
<1> QED BY <1>1, <1>2 DEF PageRouted

\* What the proofs use of the pages of a tree.
LEMMA KidsLead ==
    ASSUME NEW ps, AllShaped(ps)
    PROVE  /\ KidsExist(ps) /\ Len(ps) \in Nat
           /\ \A m \in 1..Len(ps) :
                 /\ ps[m] \in Page /\ Len(ps[m].keys) \in Nat /\ ps[m].keys \in Seq(Int)
                 /\ Len(ps[m].cursors) = IF ps[m].leaf THEN 0 ELSE Len(ps[m].keys) + 1
<1>1. ASSUME NEW m \in 1..Len(ps)
      PROVE  /\ ps[m] \in Page /\ Len(ps[m].keys) \in Nat /\ ps[m].keys \in Seq(Int)
             /\ Len(ps[m].cursors) = IF ps[m].leaf THEN 0 ELSE Len(ps[m].keys) + 1
             /\ Kids(ps[m]) \subseteq 1..Len(ps)
  <2>1. PICK p : p = ps[m]
    OBVIOUS
  <2>2. PICK S : S = 1..Len(ps)
    OBVIOUS
  <2>3. Shaped(p, S)
    BY <2>1, <2>2 DEF AllShaped
  <2>4. p \in Page /\ p.keys \in Seq(Int) /\ p.cursors \in Seq(S)
        /\ Len(p.cursors) = IF p.leaf THEN 0 ELSE Len(p.keys) + 1
    BY ONLY <2>3, ShapedTypes DEF Shaped
  <2>5. Kids(p) \subseteq S
    BY ONLY <2>4, ElementOfSeq DEF Kids
  <2> QED BY ONLY <2>1, <2>2, <2>4, <2>5, LenProperties
<1> QED BY <1>1 DEF KidsExist, AllShaped

\* splitChild() keeps every router of a B+-tree stored below the cursor in front of it:
\* the median stays in the left half, and the router behind it is in the right one.
LEMMA SplitRouted ==
    ASSUME TreeType = "B_PLUS_TREE", NEW ps, NEW qs, NEW n, NEW i, NEW c,
           SplitsChild(ps, qs, n, i, c), AllShaped(ps), NEW r, Owned(ps, r),
           NEW h, Heights(ps, r, h), NEW u, Ordered(ps, u), NEW L, Routed(ps, L)
    PROVE  \E M : Routed(qs, M)
<1>1. PICK right : right = Len(ps) + 1
  OBVIOUS
<1>2. PICK p : p = ps[c]
  OBVIOUS
<1>3. PICK node : node = ps[n]
  OBVIOUS
<1>4. PICK M : M = Rerouted(qs, L, c, right)
  OBVIOUS
<1>5. /\ KidsExist(ps) /\ Len(ps) \in Nat
      /\ \A m \in 1..Len(ps) :
            /\ ps[m] \in Page /\ Len(ps[m].keys) \in Nat /\ ps[m].keys \in Seq(Int)
            /\ Len(ps[m].cursors) = IF ps[m].leaf THEN 0 ELSE Len(ps[m].keys) + 1
  BY KidsLead
<1>6. /\ n \in 1..Len(ps) /\ c \in 1..Len(ps) /\ n # c
      /\ i \in 1..Len(node.keys) + 1 /\ c = node.cursors[i] /\ ~node.leaf
      /\ isFull(p) /\ Shaped(p, 1..Len(ps))
  BY <1>2, <1>3 DEF SplitsChild, AllShaped
<1>7. /\ Len(qs) = right /\ qs[n] = SplitParent(node, i, p, right)
      /\ qs[c] = SplitLeft(p) /\ qs[right] = SplitRight(p)
      /\ \A m \in (1..Len(ps)) \ {n, c} : qs[m] = ps[m]
  BY <1>1, <1>2, <1>3 DEF SplitsChild, Written
<1>8. PICK m : m = MinKeys
  OBVIOUS
<1>9. PICK l : l = MinKeysOf(p)
  OBVIOUS
<1>10. Parts(p, qs[c], qs[right], m, l)
  BY ONLY TreeType = "B_PLUS_TREE", <1>6, <1>7, <1>8, <1>9, SplitParts
<1>11. /\ m \in Nat /\ l \in Nat /\ Len(p.keys) = m + 1 + l /\ m + 1 \in 1..Len(p.keys)
       /\ qs[c].leaf = p.leaf /\ qs[right].leaf = p.leaf
       /\ HalfOf(qs[c], p, 0, l) /\ HalfOf(qs[right], p, m + 1, l)
  BY ONLY <1>10 DEF Parts
<1>12. /\ node \in Page /\ Len(node.cursors) = Len(node.keys) + 1 /\ Len(node.keys) \in Nat
       /\ p \in Page /\ Len(p.keys) \in Nat /\ p.keys \in Seq(Int)
  BY <1>2, <1>3, <1>5, <1>6
<1>13. PageRouted(node, L[n], L) /\ PageRouted(p, L[c], L)
  BY <1>2, <1>3, <1>6 DEF Routed
<1>14. PageOrdered(node, u[n], u) /\ PageOrdered(p, u[c], u)
  BY <1>2, <1>3, <1>6 DEF Ordered
<1>15. c \in Kids(node) /\ i \in 1..Len(node.cursors)
  BY <1>6, <1>12 DEF Kids
<1>16. /\ OneCursorEach(node)
       /\ \A a \in (1..Len(ps)) \ {n} : c \notin Kids(ps[a])
  BY <1>3, <1>6, <1>15 DEF Owned
<1>17. right \in Nat /\ right \notin 1..Len(ps) /\ \A a \in 1..Len(ps) : Kids(ps[a]) \subseteq 1..Len(ps)
  BY <1>1, <1>5 DEF KidsExist
<1>18. /\ M[c] = Below(qs[c], L) /\ M[right] = Below(qs[right], L)
       /\ \A a \in (1..Len(ps)) \ {c} : M[a] = L[a]
  <2>1. c \in 1..right /\ right \in 1..right /\ c # right
        /\ \A a \in 1..Len(ps) : a \in 1..right /\ a # right
    BY ONLY <1>1, <1>5, <1>6
  <2> QED BY ONLY <1>4, <2>1 DEF Rerouted
<1>19. PageRouted(qs[n], L[n], M)
  <2>1. PICK x : x = p.keys[m + 1]
    OBVIOUS
  <2>2. x \in Keys
    <3>1. p.keys \in Seq(Keys)
      BY ONLY <1>12 DEF Page
    <3> QED BY ONLY <1>11, <2>1, <3>1, ElementOfSeq
  <2>3. /\ qs[n].keys = InsertAt(node.keys, i, x) /\ qs[n].cursors = InsertAt(node.cursors, i + 1, right)
        /\ ~qs[n].leaf
    BY ONLY <1>6, <1>7, <1>8, <1>12, <2>1 DEF SplitParent, Median, Page
  <2>4. node.keys \in Seq(Keys) /\ node.cursors \in Seq(Nat)
    BY ONLY <1>12 DEF Page
  <2>5. i + 1 \in 1..Len(node.cursors) + 1
    BY ONLY <1>6, <1>12
  <2>6. Inserted(qs[n].keys, node.keys, i, x)
    BY ONLY <1>6, <2>2, <2>3, <2>4, InsertAtInserts
  <2>7. Inserted(qs[n].cursors, node.cursors, i + 1, right)
    BY ONLY <1>17, <2>3, <2>4, <2>5, InsertAtInserts
  <2>8. \A e \in Kids(node) \ {c} : M[e] = L[e]
    BY <1>3, <1>6, <1>17, <1>18
  <2>9. L[c] \subseteq M[c] \cup M[right]
    <3>1. L[c] \subseteq Below(p, L)
      BY <1>13 DEF PageRouted
    <3>2. \A y \in Below(p, L) : y \in Below(qs[c], L) \cup Below(qs[right], L)
      BY ONLY <1>10, PartsBelow
    <3> QED BY ONLY <1>18, <3>1, <3>2
  <2>10. x \in M[c]
    BY ONLY <1>10, <1>13, <1>18, <2>1, MedianBelow
  <2>11. ASSUME i <= Len(node.keys) PROVE node.keys[i] \in M[right]
    <3>1. PICK y : y = node.keys[i]
      OBVIOUS
    <3>2. i \in 1..Len(node.keys)
      BY ONLY <1>6, <1>12, <2>11
    <3>3. y \in L[c]
      BY <1>6, <1>13, <3>1, <3>2 DEF PageRouted
    <3>4. y \in Below(p, L)
      BY <1>13, <3>3 DEF PageRouted
    <3>5. y \in Int
      <4>1. node.keys \in Seq(Int)
        BY <1>3, <1>5, <1>6
      <4> QED BY <3>1, <3>2, <4>1, ElementOfSeq
    <3>6. \A j \in 1..Len(p.keys) : p.keys[j] <= y
      <4> SUFFICES ASSUME NEW j \in 1..Len(p.keys) PROVE p.keys[j] <= y
        OBVIOUS
      <4>1. p.keys[j] \in u[c]
        BY <1>14 DEF PageOrdered
      <4>2. Between(node.keys, i, p.keys[j])
        BY <1>6, <1>14, <1>15, <4>1 DEF PageOrdered
      <4>3. i >= i
        BY ONLY <1>6, <1>12
      <4> QED BY <3>1, <3>2, <4>2, <4>3 DEF Between
    <3>7. \A j \in 1..Len(p.cursors) : y \in L[p.cursors[j]] => Between(p.keys, j, y)
      BY <1>2, <1>5, <1>6, RoutedBetween
    <3>8. Ascending(p.keys)
      BY <1>14 DEF PageOrdered
    <3>9. y \in Below(qs[right], L)
      BY ONLY <1>10, <1>12, <1>13, <3>4, <3>5, <3>6, <3>7, <3>8, GreatestBelow
    <3> QED BY ONLY <1>18, <3>1, <3>9
  <2>12. right \notin Kids(node)
    BY <1>3, <1>6, <1>17
  <2>13. PICK q : q = qs[n]
    OBVIOUS
  <2>14. PICK X : X = L[n]
    OBVIOUS
  <2>15. ~q.leaf /\ Inserted(q.keys, node.keys, i, x) /\ Inserted(q.cursors, node.cursors, i + 1, right)
    BY ONLY <2>3, <2>6, <2>7, <2>13
  <2>16. PageRouted(node, X, L)
    BY ONLY <1>13, <2>14
  <2>17. node \in Page /\ i \in 1..Len(node.keys) + 1 /\ x \in Keys /\ ~node.leaf
         /\ Len(node.cursors) = Len(node.keys) + 1 /\ c = node.cursors[i]
         /\ right \in Nat /\ right \notin Kids(node) /\ OneCursorEach(node)
    BY ONLY <1>6, <1>12, <1>16, <1>17, <2>2, <2>12
  <2>18. PageRouted(q, X, M)
    BY ONLY <2>8, <2>9, <2>10, <2>11, <2>15, <2>16, <2>17, ParentRouted
  <2> QED BY ONLY <2>13, <2>14, <2>18
<1>20. \A e \in Kids(p) : M[e] = L[e]
  BY <1>2, <1>6, <1>16, <1>17, <1>18
<1>21. Kids(qs[c]) \cup Kids(qs[right]) \subseteq Kids(p)
  <2>1. CASE p.leaf
    <3>1. Len(qs[c].cursors) = 0 /\ Len(qs[right].cursors) = 0
      BY ONLY <1>11, <2>1 DEF HalfOf
    <3>2. \A j : j \notin 1..0
      OBVIOUS
    <3> QED BY ONLY <3>1, <3>2 DEF Kids
  <2>2. CASE ~p.leaf
    <3>1. /\ Len(qs[c].cursors) = m + 1 /\ \A j \in 1..m + 1 : qs[c].cursors[j] = p.cursors[j]
      BY ONLY <1>10, <2>2, LeftPart
    <3>2. Len(qs[right].cursors) = m + 1 /\ \A j \in 1..m + 1 : qs[right].cursors[j] = p.cursors[m + 1 + j]
      BY ONLY <1>10, <2>2, RightPart
    <3>3. Len(p.cursors) = m + m + 2
      BY ONLY <1>10, <2>2 DEF Parts
    <3>4. \A j \in 1..m + 1 : j \in 1..Len(p.cursors) /\ m + 1 + j \in 1..Len(p.cursors)
      BY ONLY <1>11, <3>3
    <3>5. \A e \in Kids(qs[c]) : \E j \in 1..m + 1 : e = p.cursors[j]
      BY ONLY <3>1 DEF Kids
    <3>6. \A e \in Kids(qs[right]) : \E j \in 1..m + 1 : e = p.cursors[m + 1 + j]
      BY ONLY <3>2 DEF Kids
    <3>7. \A j \in 1..Len(p.cursors) : p.cursors[j] \in Kids(p)
      BY DEF Kids
    <3> QED BY ONLY <3>4, <3>5, <3>6, <3>7
  <2> QED BY <2>1, <2>2
<1>22. PageRouted(qs[c], M[c], M)
  <2>1. \A e \in Kids(qs[c]) : M[e] = L[e]
    BY ONLY <1>20, <1>21
  <2>2. 0 \in Nat
    OBVIOUS
  <2>3. PageRouted(qs[c], Below(qs[c], L), M)
    BY ONLY <1>11, <1>12, <1>13, <2>1, <2>2, PartRouted
  <2> QED BY ONLY <1>18, <2>3
<1>23. PageRouted(qs[right], M[right], M)
  <2>1. \A e \in Kids(qs[right]) : M[e] = L[e]
    BY ONLY <1>20, <1>21
  <2>2. m + 1 \in Nat
    BY ONLY <1>11
  <2>3. PageRouted(qs[right], Below(qs[right], L), M)
    BY ONLY <1>11, <1>12, <1>13, <2>1, <2>2, PartRouted
  <2> QED BY ONLY <1>18, <2>3
<1>24. ASSUME NEW a \in (1..Len(ps)) \ {n, c} PROVE PageRouted(qs[a], M[a], M)
  <2>1. PageRouted(ps[a], L[a], L) /\ (~ps[a].leaf => Len(ps[a].cursors) = Len(ps[a].keys) + 1)
        /\ Len(ps[a].keys) \in Nat
    BY <1>5 DEF Routed
  <2>2. \A e \in Kids(ps[a]) : M[e] = L[e]
    BY <1>16, <1>17, <1>18
  <2>3. PageRouted(ps[a], L[a], M)
    BY ONLY <2>1, <2>2, SameRouted
  <2> QED BY <1>7, <1>18, <2>3
<1>25. \A a \in 1..Len(qs) : a = right \/ a = n \/ a = c \/ a \in (1..Len(ps)) \ {n, c}
  BY ONLY <1>1, <1>5, <1>7
<1>26. M[n] = L[n]
  BY <1>6, <1>18
<1> QED BY ONLY <1>19, <1>22, <1>23, <1>24, <1>25, <1>26 DEF Routed

\* An empty tree has no routers.
LEMMA InitRouters == Init => RoutersStored
<1> SUFFICES ASSUME Init PROVE \E L : Routed(pages, L)
  BY DEF RoutersStored
<1>1. PICK L : L = [a \in {1} |-> {}]
  OBVIOUS
<1>2. Len(pages) = 1 /\ pages[1].leaf = TRUE /\ L[1] = {}
  BY <1>1 DEF Init
<1>3. PageRouted(pages[1], L[1], L)
  BY ONLY <1>2 DEF PageRouted
<1>4. \A a \in 1..1 : a = 1
  OBVIOUS
<1> QED BY ONLY <1>2, <1>3, <1>4 DEF Routed

\* A leaf with a key more.
LEMMA AddedRouted ==
    ASSUME TreeType = "B_PLUS_TREE", NEW ps, NEW qs, NEW n, NEW i, NEW y,
           KeyAdded(ps, qs, n, i, y), NEW L, Routed(ps, L)
    PROVE  Routed(qs, L)
<1>1. /\ Len(qs) = Len(ps) /\ n \in 1..Len(ps) /\ ps[n].leaf /\ qs[n].leaf
      /\ \A a \in (1..Len(ps)) \ {n} : qs[a] = ps[a]
  BY DEF KeyAdded, HoldsKeys
<1>2. PICK N : N = Len(ps[n].keys)
  OBVIOUS
<1>3. /\ N \in Nat /\ i \in 1..N + 1 /\ Len(qs[n].keys) = N + 1
      /\ \A d \in 1..i - 1 : qs[n].keys[d] = ps[n].keys[d]
      /\ \A d \in i + 1..N + 1 : qs[n].keys[d] = ps[n].keys[d - 1]
  BY <1>2 DEF KeyAdded, Inserted
<1>4. ASSUME NEW x \in L[n] PROVE x \in Below(qs[n], L)
  <2>1. PICK j \in 1..N : ps[n].keys[j] = x
    BY <1>1, <1>2 DEF Routed, PageRouted, Below
  <2>2. CASE j < i
    <3>1. j \in 1..i - 1 /\ j \in 1..N + 1
      BY ONLY <1>3, <2>1, <2>2
    <3>2. qs[n].keys[j] = x /\ j \in 1..Len(qs[n].keys)
      BY ONLY <1>3, <2>1, <3>1
    <3> QED BY <1>1, <3>2 DEF Below
  <2>3. CASE ~(j < i)
    <3>1. PICK d : d = j + 1
      OBVIOUS
    <3>2. d \in i + 1..N + 1 /\ d \in 1..N + 1 /\ d - 1 = j
      BY ONLY <1>3, <2>1, <2>3, <3>1
    <3>3. qs[n].keys[d] = x /\ d \in 1..Len(qs[n].keys)
      BY ONLY <1>3, <2>1, <3>2
    <3> QED BY <1>1, <3>3 DEF Below
  <2> QED BY <2>2, <2>3
<1>5. PageRouted(qs[n], L[n], L)
  BY <1>1, <1>4 DEF PageRouted
<1> QED BY <1>1, <1>5 DEF Routed

\* The split of a child on the way down.
LEMMA DescentRouted ==
    ASSUME TreeType = "B_PLUS_TREE", ShapeInv, OrderInv, SplitAndDescend,
           NEW L, Routed(pages, L)
    PROVE  \E M : Routed(pages', M)
<1>1. PICK n : n = PageNum(at)
  OBVIOUS
<1>2. PICK i : i = AfterLastNotGreater(pages[n].keys, k)
  OBVIOUS
<1>3. PICK c : c = pages[n].cursors[i]
  OBVIOUS
<1>4. SplitsChild(pages, pages', n, i, c) /\ AllShaped(pages)
  BY <1>1, <1>2, <1>3, DescentSplits
<1>5. PICK h : Heights(pages, rootPageNum, h)
  BY DEF ShapeInv, TreeInv
<1>6. Owned(pages, rootPageNum)
  BY DEF ShapeInv, TreeInv
<1>7. PICK u : Ordered(pages, u)
  BY DEF OrderInv
<1> QED BY ONLY TreeType = "B_PLUS_TREE", Routed(pages, L), <1>4, <1>5, <1>6, <1>7, SplitRouted

\* The split of the root.
LEMMA GrowthRouted ==
    ASSUME TreeType = "B_PLUS_TREE", ShapeInv, OrderInv, GrowRoot, NEW L, Routed(pages, L)
    PROVE  \E M : Routed(pages', M)
<1>1. PICK ps : ps = Append(pages, NewRoot(rootPageNum))
  OBVIOUS
<1>2. PICK r : r = rootPageNum
  OBVIOUS
<1>3. PICK root : root = Len(pages) + 1
  OBVIOUS
<1>4. /\ SplitsChild(ps, pages', root, 1, r) /\ AllShaped(ps)
      /\ Len(ps) = root /\ IsNewRoot(ps[root], r, Len(pages))
      /\ \A m \in 1..Len(pages) : ps[m] = pages[m]
      /\ Len(pages) \in Nat /\ r \in 1..Len(pages)
  BY <1>1, <1>2, <1>3, GrowthSplits
<1>5. PICK h : Heights(pages, r, h)
  BY <1>2 DEF ShapeInv, TreeInv
<1>6. Owned(pages, r)
  BY <1>2 DEF ShapeInv, TreeInv
<1>7. Owned(ps, root) /\ \E g : Heights(ps, root, g)
  <2>1. /\ Len(ps) = Len(pages) + 1 /\ Kids(ps[Len(ps)]) = {r} /\ OneCursorEach(ps[Len(ps)])
        /\ ps[Len(ps)].leaf = FALSE
    BY ONLY <1>3, <1>4 DEF IsNewRoot
  <2>2. Owned(ps, Len(ps)) /\ \E g : Heights(ps, Len(ps), g)
    BY ONLY <1>4, <1>5, <1>6, <2>1, NewRootKeepsTree
  <2> QED BY ONLY <1>4, <2>2
<1>8. PICK g : Heights(ps, root, g)
  BY <1>7
<1>9. \A m \in 1..Len(pages) : Kids(pages[m]) \subseteq 1..Len(pages)
  BY TreeFacts
<1>10. PICK u : Ordered(pages, u)
  BY DEF OrderInv
<1>11. \E v : Ordered(ps, v)
  <2>1. Len(ps) = Len(pages) + 1 /\ IsNewRoot(ps[Len(ps)], r, Len(pages))
    BY ONLY <1>3, <1>4
  <2>2. PICK v : v = [m \in 1..Len(ps) |-> IF m = Len(ps) THEN u[r] ELSE u[m]]
    OBVIOUS
  <2>3. Ordered(ps, [m \in 1..Len(ps) |-> IF m = Len(ps) THEN u[r] ELSE u[m]])
    BY ONLY <1>4, <1>9, <1>10, <2>1, NewRootOrdered
  <2>4. Ordered(ps, v)
    BY <2>2, <2>3
  <2> QED BY <2>4
<1>12. PICK v : Ordered(ps, v)
  BY <1>11
<1>13. PICK K : K = [a \in 1..root |-> IF a = root THEN {} ELSE L[a]]
  OBVIOUS
<1>14. K[root] = {} /\ \A a \in 1..Len(pages) : K[a] = L[a]
  <2>1. root \in 1..root /\ \A a \in 1..Len(pages) : a \in 1..root /\ a # root
    BY ONLY <1>3, <1>4
  <2> QED BY ONLY <1>13, <2>1
<1>15. Routed(ps, K)
  <2>1. PageRouted(ps[root], K[root], K)
    <3>1. Len(ps[root].keys) = 0 /\ \A j : j \notin 1..0
      BY <1>4 DEF IsNewRoot
    <3> QED BY ONLY <1>14, <3>1 DEF PageRouted
  <2>2. ASSUME NEW a \in 1..Len(pages) PROVE PageRouted(ps[a], K[a], K)
    <3>1. PageRouted(pages[a], L[a], L)
      BY DEF Routed
    <3>2. \A e \in Kids(pages[a]) : K[e] = L[e]
      BY <1>9, <1>14
    <3>3. Len(pages[a].keys) \in Nat /\ (~pages[a].leaf => Len(pages[a].cursors) = Len(pages[a].keys) + 1)
      <4>1. pages[a] = ps[a] /\ a \in 1..Len(ps)
        BY <1>3, <1>4
      <4> QED BY ONLY <1>4, <4>1, KidsLead
    <3>4. PageRouted(pages[a], L[a], K)
      BY ONLY <3>1, <3>2, <3>3, SameRouted
    <3> QED BY <1>4, <1>14, <3>4
  <2>3. \A a \in 1..Len(ps) : a = root \/ a \in 1..Len(pages)
    BY ONLY <1>3, <1>4
  <2> QED BY ONLY <2>1, <2>2, <2>3 DEF Routed
<1> QED BY ONLY TreeType = "B_PLUS_TREE", <1>4, <1>7, <1>8, <1>12, <1>15, SplitRouted

\* Every step keeps the routers stored.
LEMMA RoutersStep == ShapeInv /\ OrderInv /\ RoutersStored /\ [BaseNext]_vars => RoutersStored'
<1> SUFFICES ASSUME ShapeInv, OrderInv, [BaseNext]_vars, TreeType = "B_PLUS_TREE",
                    NEW L, Routed(pages, L)
             PROVE  \E M : Routed(pages', M)
  BY DEF RoutersStored
<1>0. CASE pages' = pages
  BY <1>0
<1>1. ASSUME NEW x \in Keys, Insert(x) PROVE \E M : Routed(pages', M)
  <2>1. CASE GrowRoot
    BY <2>1, GrowthRouted
  <2>2. CASE UNCHANGED treeVars
    BY <1>0, <2>2 DEF treeVars
  <2> QED BY <1>1, <2>1, <2>2 DEF Insert
<1>2. ASSUME NEW x \in Keys, Search(x) \/ SearchAll(x) PROVE pages' = pages
  BY <1>2 DEF Search, SearchAll, treeVars
<1>3. CASE fn = "insertNonFull" /\ InsertIntoLeaf
  <2>1. PICK n, i : KeyAdded(pages, pages', n, i, k)
    BY <1>3, LeafAdds
  <2>2. Routed(pages', L)
    BY <2>1, AddedRouted
  <2> QED BY <2>2
<1>4. CASE SplitAndDescend
  BY <1>4, DescentRouted
<1>5. CASE Descend
  BY <1>0, <1>5 DEF Descend, treeVars
<1>6. CASE search
  BY <1>0, <1>6 DEF search, treeVars
<1>7. CASE searchAll
  BY <1>0, <1>7 DEF searchAll, treeVars
<1>8. CASE LoadTree
  BY <1>0, <1>8 DEF LoadTree
<1>9. CASE UNCHANGED vars
  BY <1>0, <1>9 DEF vars, treeVars
<1> QED BY <1>0, <1>1, <1>2, <1>3, <1>4, <1>5, <1>6, <1>7, <1>8, <1>9
        DEF BaseNext, BaseCall, BaseStep, insertNonFull

-------------------------------------------------------------------------------
(* The scans of the searches. *)

\* A set of positions that has with a position all those in front of it.
LEMMA PrefixCount ==
    ASSUME NEW a \in Nat, NEW b \in Nat, a <= b, NEW T, T \subseteq a + 1..b,
           \A j \in T : \A i \in a + 1..j : i \in T
    PROVE  \E n \in Nat : Cardinality(T) = n /\ a + n <= b /\ T = a + 1..a + n
<1> DEFINE V == (a + 1..b) \ T
<1>1. CASE V = {}
  <2>1. PICK n : n = b - a
    OBVIOUS
  <2>2. n \in Nat /\ a + n = b
    BY ONLY <2>1, a \in Nat, b \in Nat, a <= b
  <2>3. T = a + 1..a + n
    BY <1>1, <2>2
  <2>4. Cardinality(a + 1..a + n) = IF a + 1 > a + n THEN 0 ELSE (a + n) - (a + 1) + 1
    BY <2>2, FS_Interval
  <2>5. Cardinality(a + 1..a + n) = n
    BY ONLY <2>2, <2>4, a \in Nat
  <2> QED BY <2>2, <2>3, <2>5
<1>2. CASE V # {}
  <2>1. V \subseteq Nat
    OBVIOUS
  <2>2. PICK v \in V : \A y \in V : v <= y
    <3> HIDE DEF V
    <3> QED BY <1>2, <2>1, LeastNumber
  <2>3. v \in a + 1..b /\ v \notin T
    OBVIOUS
  <2>4. PICK n : n = v - 1 - a
    OBVIOUS
  <2>5. n \in Nat /\ a + n = v - 1 /\ a + n <= b
    BY ONLY <2>3, <2>4, a \in Nat, b \in Nat
  <2>6. ASSUME NEW j \in a + 1..a + n PROVE j \in T
    <3>1. j \in a + 1..b /\ ~(v <= j)
      BY <2>3, <2>5
    <3>2. j \notin V
      BY <2>2, <3>1
    <3> QED BY <3>1, <3>2
  <2>7. ASSUME NEW j \in T PROVE j \in a + 1..a + n
    <3>1. j \in a + 1..b
      OBVIOUS
    <3>2. ~(v <= j)
      <4> SUFFICES ASSUME v <= j PROVE FALSE
        OBVIOUS
      <4>1. v \in a + 1..j
        BY <2>3, <3>1
      <4> QED BY <2>3, <4>1
    <3> QED BY <2>3, <2>5, <3>1, <3>2
  <2>8. T = a + 1..a + n
    BY <2>6, <2>7
  <2>9. Cardinality(a + 1..a + n) = IF a + 1 > a + n THEN 0 ELSE (a + n) - (a + 1) + 1
    BY <2>5, FS_Interval
  <2>10. Cardinality(a + 1..a + n) = n
    BY ONLY <2>5, <2>9, a \in Nat
  <2> QED BY <2>5, <2>8, <2>10
<1> QED BY <1>1, <1>2

\* Position f is the first one whose key is not less than x.
FirstAt(s, x, f) ==
    /\ f \in 1..Len(s) + 1
    /\ \A j \in 1..Len(s) : (j < f => s[j] < x) /\ (j >= f => x <= s[j])

\* Where the scan of search() stops.
LEMMA FirstStops ==
    ASSUME NEW s \in Seq(Int), Ascending(s), NEW x \in Int
    PROVE  FirstAt(s, x, FirstNotLess(s, x))
<1>1. PICK N : N = Len(s)
  OBVIOUS
<1>2. PICK T : T = {j \in 1..N : \A i \in 1..j : s[i] < x}
  OBVIOUS
<1>3. PICK f : f = FirstNotLess(s, x)
  OBVIOUS
<1>4. N \in Nat /\ (\A j \in 1..N : s[j] \in Int) /\ \A i, j \in 1..N : i < j => s[i] <= s[j]
  BY <1>1, LenProperties, ElementOfSeq DEF Ascending
<1>5. f = 1 + Cardinality(T)
  BY <1>1, <1>2, <1>3 DEF FirstNotLess
<1>6. PICK n \in Nat : Cardinality(T) = n /\ 0 + n <= N /\ T = 0 + 1..0 + n
  <2>1. 0 \in Nat /\ 0 <= N /\ T \subseteq 0 + 1..N
    BY ONLY <1>2, <1>4
  <2>2. \A j \in T : \A i \in 0 + 1..j : i \in T
    <3> SUFFICES ASSUME NEW j \in T, NEW i \in 1..j PROVE i \in T
      OBVIOUS
    <3>1. j \in 1..N /\ \A d \in 1..j : s[d] < x
      BY <1>2
    <3>2. i \in 1..N /\ \A d \in 1..i : d \in 1..j
      BY <1>4, <3>1
    <3> QED BY ONLY <1>2, <3>1, <3>2
  <2> QED BY ONLY <1>4, <2>1, <2>2, PrefixCount
<1>7. f = n + 1 /\ n <= N /\ T = 1..n /\ f \in 1..N + 1 /\ n \in Nat
  BY ONLY <1>4, <1>5, <1>6
<1>8. ASSUME NEW j \in 1..N, j < f PROVE s[j] < x
  <2>1. j \in 1..n
    BY <1>7, <1>8
  <2>2. j \in T
    BY ONLY <1>7, <2>1
  <2>3. j \in 1..j
    BY <1>4, <1>8
  <2> QED BY ONLY <1>2, <2>2, <2>3
<1>9. ASSUME NEW j \in 1..N, j >= f PROVE x <= s[j]
  <2>1. f \in 1..N /\ f \notin T /\ f \in Nat
    BY <1>4, <1>7, <1>9
  <2>2. PICK d \in 1..f : ~(s[d] < x)
    BY <1>2, <2>1
  <2>3. d \in 1..N /\ d <= j
    BY <1>4, <1>9, <2>1, <2>2
  <2>4. s[d] <= s[j]
    <3>1. CASE d = j
      BY <1>4, <2>3, <3>1
    <3>2. CASE d # j
      <4>1. d < j
        BY ONLY <1>4, <1>9, <2>3, <3>2
      <4> QED BY <1>4, <2>3, <4>1
    <3> QED BY <3>1, <3>2
  <2>5. s[d] \in Int /\ s[j] \in Int
    BY <1>4, <2>3
  <2> QED BY <2>2, <2>4, <2>5
<1>10. FirstAt(s, x, f)
  BY ONLY <1>1, <1>7, <1>8, <1>9 DEF FirstAt
<1> QED BY <1>3, <1>10

\* From position f up to e lie all the keys equal to x.
RunAt(s, x, f, e) ==
    /\ e \in Nat /\ f <= e /\ e <= Len(s) + 1
    /\ \A j \in 1..Len(s) : s[j] = x => j \in f..e - 1
    /\ \A j \in 1..Len(s) : j >= e => x < s[j]

\* Where the loop of searchAll() stops.
LEMMA RunStops ==
    ASSUME NEW s \in Seq(Int), Ascending(s), NEW x \in Int, NEW f, FirstAt(s, x, f)
    PROVE  RunAt(s, x, f, f + EqualRun(s, f, x))
<1>1. PICK N : N = Len(s)
  OBVIOUS
<1>2. N \in Nat /\ (\A j \in 1..N : s[j] \in Int) /\ \A i, j \in 1..N : i < j => s[i] <= s[j]
  BY <1>1, LenProperties, ElementOfSeq DEF Ascending
<1>3. f \in 1..N + 1 /\ f \in Nat /\ \A j \in 1..N : (j < f => s[j] < x) /\ (j >= f => x <= s[j])
  BY <1>1, <1>2 DEF FirstAt
<1>4. CASE f > N
  <2>1. f + EqualRun(s, f, x) = f
    BY <1>1, <1>3, <1>4 DEF EqualRun
  <2>2. ASSUME NEW j \in 1..N PROVE s[j] # x /\ ~(j >= f)
    BY <1>2, <1>3, <1>4
  <2>4. f \in Nat /\ f <= f /\ f <= N + 1
    BY ONLY <1>2, <1>3
  <2>3. RunAt(s, x, f, f)
    BY ONLY <1>1, <2>2, <2>4 DEF RunAt
  <2> QED BY <2>1, <2>3
<1>5. CASE ~(f > N)
  <2>1. PICK T : T = {j \in f + 1..N : \A i \in f + 1..j : s[i] = x}
    OBVIOUS
  <2>2. EqualRun(s, f, x) = 1 + Cardinality(T)
    BY <1>1, <1>5, <2>1 DEF EqualRun
  <2>3. f <= N /\ f \in 1..N
    BY ONLY <1>2, <1>3, <1>5
  <2>4. PICK n \in Nat : Cardinality(T) = n /\ f + n <= N /\ T = f + 1..f + n
    <3>1. T \subseteq f + 1..N
      BY <2>1
    <3>2. \A j \in T : \A i \in f + 1..j : i \in T
      <4> SUFFICES ASSUME NEW j \in T, NEW i \in f + 1..j PROVE i \in T
        OBVIOUS
      <4>1. j \in f + 1..N /\ \A d \in f + 1..j : s[d] = x
        BY <2>1
      <4>2. i \in f + 1..N /\ \A d \in f + 1..i : d \in f + 1..j
        BY <1>2, <1>3, <4>1
      <4> QED BY ONLY <2>1, <4>1, <4>2
    <3> QED BY ONLY <1>2, <1>3, <2>3, <3>1, <3>2, PrefixCount
  <2>5. PICK e : e = f + EqualRun(s, f, x)
    OBVIOUS
  <2>6. e = f + n + 1 /\ e \in Nat /\ f <= e /\ e <= N + 1 /\ e - 1 = f + n
    <3>1. e = f + (1 + n) /\ n \in Nat /\ f + n <= N
      BY <2>2, <2>4, <2>5
    <3> QED BY ONLY <1>2, <1>3, <3>1
  <2>7. ASSUME NEW j \in 1..N, j >= e PROVE x < s[j]
    <3>1. e \in 1..N /\ e \in f + 1..N /\ e \notin T
      BY <1>2, <1>3, <2>4, <2>6, <2>7
    <3>2. PICK d \in f + 1..e : s[d] # x
      BY ONLY <2>1, <3>1
    <3>3. d \in 1..N /\ d >= f /\ d <= j
      BY <1>2, <1>3, <2>6, <2>7, <3>1, <3>2
    <3>4. x <= s[d] /\ s[d] \in Int /\ s[j] \in Int
      BY <1>2, <1>3, <3>3
    <3>5. s[d] <= s[j]
      <4>1. CASE d = j
        BY <3>4, <4>1
      <4>2. CASE d # j
        <5>1. d < j
          BY ONLY <1>2, <2>7, <3>3, <4>2
        <5> QED BY <1>2, <3>3, <5>1
      <4> QED BY <4>1, <4>2
    <3> QED BY <3>2, <3>4, <3>5
  <2>8. ASSUME NEW j \in 1..N, s[j] = x PROVE j \in f..e - 1
    <3>1. ~(j < f)
      BY <1>2, <1>3, <2>8
    <3>2. ~(j >= e)
      BY <1>2, <2>7, <2>8
    <3> QED BY <1>2, <1>3, <2>6, <3>1, <3>2
  <2>9. RunAt(s, x, f, e)
    BY ONLY <1>1, <2>6, <2>7, <2>8 DEF RunAt
  <2> QED BY <2>5, <2>9
<1> QED BY <1>4, <1>5

-------------------------------------------------------------------------------
(* search(). *)

\* Key x is stored in page n or below it.
KeyUnder(ps, x, n) ==
    \E m \in Under(ps, n) :
       HoldsKeys(ps[m]) /\ \E j \in 1..Len(ps[m].keys) : ps[m].keys[j] = x

\* Position f of the keys of page p has key x, and the page counts.
FoundAt(p, x, f) == HoldsKeys(p) /\ f <= Len(p.keys) /\ p.keys[f] = x

\* The facts about pages that the searches rely on.
Searchable(ps, r, h, u) ==
    /\ AllShaped(ps) /\ r \in 1..Len(ps)
    /\ Owned(ps, r) /\ Heights(ps, r, h) /\ Ordered(ps, u)
    /\ TreeType = "B_PLUS_TREE" => \E L : Routed(ps, L)

\* A stored key that is not in the page is below the cursor at which the scan stopped.
LEMMA SearchGoesOn ==
    ASSUME NEW ps, NEW r, NEW h, NEW u, Searchable(ps, r, h, u), NEW n \in 1..Len(ps),
           NEW x \in Int, NEW f, f = FirstNotLess(ps[n].keys, x), KeyUnder(ps, x, n),
           ~FoundAt(ps[n], x, f)
    PROVE  ~ps[n].leaf /\ KeyUnder(ps, x, ps[n].cursors[f])
<1>1. PICK p : p = ps[n]
  OBVIOUS
<1>2. /\ KidsExist(ps) /\ Heights(ps, r, h) /\ Ordered(ps, u)
      /\ p \in Page /\ Len(p.keys) \in Nat /\ p.keys \in Seq(Int)
      /\ Len(p.cursors) = IF p.leaf THEN 0 ELSE Len(p.keys) + 1
  BY <1>1, KidsLead DEF Searchable
<1>3. PageOrdered(p, u[n], u)
  BY <1>1, <1>2 DEF Ordered
<1>4. Ascending(p.keys)
  BY <1>3 DEF PageOrdered
<1>5. FirstAt(p.keys, x, f)
  BY <1>1, <1>2, <1>4, FirstStops
<1>6. PICK N : N = Len(p.keys)
  OBVIOUS
<1>7. /\ N \in Nat /\ f \in 1..N + 1 /\ f \in Nat
      /\ \A j \in 1..N : (j < f => p.keys[j] < x) /\ (j >= f => x <= p.keys[j])
      /\ \A j \in 1..N : p.keys[j] \in Int
      /\ \A i, j \in 1..N : i < j => p.keys[i] <= p.keys[j]
  BY <1>2, <1>4, <1>5, <1>6, ElementOfSeq DEF FirstAt, Ascending
<1>8. PICK m \in Under(ps, n) :
         HoldsKeys(ps[m]) /\ \E j \in 1..Len(ps[m].keys) : ps[m].keys[j] = x
  BY DEF KeyUnder
<1>9. PICK b \in 1..Len(ps[m].keys) : ps[m].keys[b] = x
  BY <1>8
<1>10. m # n
  <2> SUFFICES ASSUME m = n PROVE FALSE
    OBVIOUS
  <2>1. b \in 1..N /\ p.keys[b] = x /\ HoldsKeys(p)
    BY <1>1, <1>6, <1>8, <1>9
  <2>2. ~(b < f)
    <3> SUFFICES ASSUME b < f PROVE FALSE
      OBVIOUS
    <3>1. p.keys[b] < x
      BY <1>7, <2>1
    <3> QED BY <2>1, <3>1
  <2>3. f \in 1..N /\ f <= b /\ f >= f
    BY ONLY <1>7, <2>1, <2>2
  <2>4. x <= p.keys[f] /\ p.keys[f] \in Int
    BY ONLY <1>7, <2>3
  <2>5. p.keys[f] = x
    <3>1. CASE f = b
      BY <2>1, <3>1
    <3>2. CASE f # b
      <4>1. f < b
        BY ONLY <1>7, <2>1, <2>3, <3>2
      <4>2. p.keys[f] <= p.keys[b]
        BY ONLY <1>7, <2>1, <2>3, <4>1
      <4> QED BY <2>1, <2>4, <4>2
    <3> QED BY <3>1, <3>2
  <2>6. f <= N
    BY ONLY <1>7, <2>3
  <2> QED BY <1>1, <1>6, <2>1, <2>5, <2>6 DEF FoundAt
<1>11. PICK c \in Kids(p) : m \in Under(ps, c)
  BY <1>1, <1>2, <1>8, <1>10, UnderKids
<1>12. PICK d \in 1..Len(p.cursors) : c = p.cursors[d]
  BY <1>11 DEF Kids
<1>13. ~p.leaf /\ Len(p.cursors) = N + 1 /\ d \in 1..N + 1 /\ d \in Nat
  <2>1. \A j : j \notin 1..0
    OBVIOUS
  <2>2. ~p.leaf
    BY ONLY <1>2, <1>12, <2>1
  <2>3. Len(p.cursors) = N + 1
    BY ONLY <1>2, <1>6, <2>2
  <2>4. d \in 1..N + 1
    BY <1>12, <2>3
  <2>5. d \in Nat
    BY ONLY <1>7, <2>4
  <2> QED BY ONLY <2>2, <2>3, <2>4, <2>5
<1>14. Between(p.keys, d, x)
  BY <1>1, <1>2, <1>9, <1>11, <1>12, UnderBetween
<1>15. \A j \in 1..N : (j < d => p.keys[j] <= x) /\ (j >= d => x <= p.keys[j])
  BY <1>6, <1>14 DEF Between
<1>16. ~(d < f)
  <2> SUFFICES ASSUME d < f PROVE FALSE
    OBVIOUS
  <2>1. d \in 1..N /\ d >= d
    BY <1>7, <1>13
  <2>2. p.keys[d] < x /\ x <= p.keys[d] /\ p.keys[d] \in Int
    BY <1>7, <1>15, <2>1
  <2> QED BY <2>2
<1>17. CASE d = f
  <2>1. KeyUnder(ps, x, c)
    BY <1>8, <1>11 DEF KeyUnder
  <2> QED BY <1>1, <1>12, <1>13, <1>17, <2>1
<1>18. CASE d # f
  <2>1. f < d /\ f \in 1..N /\ f >= f /\ f <= N
    BY ONLY <1>7, <1>13, <1>16, <1>18
  <2>2. p.keys[f] <= x /\ x <= p.keys[f] /\ p.keys[f] \in Int
    BY ONLY <1>7, <1>15, <2>1
  <2>3. p.keys[f] = x
    BY <2>2
  <2>4. ~HoldsKeys(p)
    BY <1>1, <1>6, <2>1, <2>3 DEF FoundAt
  <2>5. TreeType = "B_PLUS_TREE"
    BY <2>4, TypeAssumption DEF HoldsKeys
  <2>6. PICK L : Routed(ps, L)
    BY <2>5 DEF Searchable
  <2>7. PICK e : e = p.cursors[f]
    OBVIOUS
  <2>8. f \in 1..Len(p.cursors)
    BY <1>7, <1>13
  <2>9. e \in 1..Len(ps)
    BY <1>1, <1>2, <2>7, <2>8 DEF KidsExist, Kids
  <2>10. x \in L[e]
    <3>1. PageRouted(p, L[n], L)
      BY <1>1, <2>6 DEF Routed
    <3> QED BY <1>6, <1>13, <2>1, <2>3, <2>7, <3>1 DEF PageRouted
  <2>11. \E a \in Under(ps, e) : ps[a].leaf /\ \E j \in 1..Len(ps[a].keys) : ps[a].keys[j] = x
    BY ONLY <1>2, <2>6, <2>9, <2>10, RoutedLeaf
  <2>12. KeyUnder(ps, x, e)
    BY ONLY <2>11 DEF KeyUnder, HoldsKeys
  <2> QED BY <1>1, <1>13, <2>7, <2>12
<1> QED BY <1>17, <1>18

\* A key is stored if it is below some page, and then it is below the root.
LEMMA StoredUnder ==
    ASSUME NEW ps, NEW r, NEW h, NEW u, Searchable(ps, r, h, u), NEW x
    PROVE  /\ Spots(ps, x) # {} => KeyUnder(ps, x, r)
           /\ \A n \in 1..Len(ps) : KeyUnder(ps, x, n) => Spots(ps, x) # {}
<1>1. /\ KidsExist(ps) /\ Heights(ps, r, h) /\ Owned(ps, r) /\ r \in 1..Len(ps) /\ Len(ps) \in Nat
      /\ \A m \in 1..Len(ps) : Len(ps[m].keys) \in Nat
  BY KidsLead DEF Searchable
<1>2. ASSUME NEW e \in Spots(ps, x) PROVE KeyUnder(ps, x, r)
  <2>1. PICK a \in Nat, j \in Nat : At(ps, x, a, j)
    BY DEF Spots
  <2>2. Under(ps, r) = 1..Len(ps)
    BY ONLY <1>1, UnderRoot
  <2> QED BY <2>1, <2>2 DEF KeyUnder, At
<1>3. ASSUME NEW n \in 1..Len(ps), KeyUnder(ps, x, n) PROVE Spots(ps, x) # {}
  <2>1. PICK m \in Under(ps, n) :
           HoldsKeys(ps[m]) /\ \E j \in 1..Len(ps[m].keys) : ps[m].keys[j] = x
    BY <1>3 DEF KeyUnder
  <2>2. PICK j \in 1..Len(ps[m].keys) : ps[m].keys[j] = x
    BY <2>1
  <2>3. m \in 1..Len(ps)
    BY <1>1, <2>1, UnderClosed
  <2>4. m \in Nat /\ j \in Nat
    BY <1>1, <2>2, <2>3
  <2>5. At(ps, x, m, j)
    BY <2>1, <2>2, <2>3 DEF At
  <2>6. <<m, j>> \in Spots(ps, x)
    BY ONLY <2>4, <2>5, SpotIn
  <2> QED BY <2>6
<1> QED BY <1>2, <1>3

-------------------------------------------------------------------------------
(* searchAll(). *)

\* What is below the cursors of page p from position f to e.
BelowCursors(ps, p, f, e) ==
    IF p.leaf THEN {} ELSE UNION {Under(ps, p.cursors[j]) : j \in f..e}

\* The occurrences of key x outside the pages C.
Outside(ps, x, C) == {s \in Spots(ps, x) : s[1] \notin C}

\* Those in page n.
Inside(ps, x, n) == {s \in Spots(ps, x) : s[1] = n}

\* The cursors around the equal keys lead to all the occurrences below the page.
LEMMA RunLeads ==
    ASSUME NEW ps, NEW r, NEW h, NEW u, Searchable(ps, r, h, u), NEW n \in 1..Len(ps),
           NEW x \in Int, NEW f, FirstAt(ps[n].keys, x, f), NEW e, RunAt(ps[n].keys, x, f, e),
           NEW m \in Under(ps, n), m # n, NEW b \in 1..Len(ps[m].keys), ps[m].keys[b] = x
    PROVE  m \in BelowCursors(ps, ps[n], f, e)
<1>1. PICK p : p = ps[n]
  OBVIOUS
<1>2. /\ KidsExist(ps) /\ Ordered(ps, u)
      /\ p \in Page /\ Len(p.keys) \in Nat /\ p.keys \in Seq(Int)
      /\ Len(p.cursors) = IF p.leaf THEN 0 ELSE Len(p.keys) + 1
  BY <1>1, KidsLead DEF Searchable
<1>3. PICK N : N = Len(p.keys)
  OBVIOUS
<1>4. /\ N \in Nat /\ f \in 1..N + 1 /\ f \in Nat
      /\ \A j \in 1..N : j < f => p.keys[j] < x
      /\ \A j \in 1..N : p.keys[j] \in Int
  BY <1>1, <1>2, <1>3, ElementOfSeq DEF FirstAt
<1>5. /\ e \in Nat /\ f <= e /\ e <= N + 1
      /\ \A j \in 1..N : j >= e => x < p.keys[j]
  BY <1>1, <1>3 DEF RunAt
<1>6. PICK c \in Kids(p) : m \in Under(ps, c)
  BY <1>1, <1>2, UnderKids
<1>7. PICK d \in 1..Len(p.cursors) : c = p.cursors[d]
  BY <1>6 DEF Kids
<1>8. ~p.leaf /\ Len(p.cursors) = N + 1 /\ d \in 1..N + 1 /\ d \in Nat
  <2>1. \A j : j \notin 1..0
    OBVIOUS
  <2>2. ~p.leaf
    BY ONLY <1>2, <1>7, <2>1
  <2>3. Len(p.cursors) = N + 1
    BY ONLY <1>2, <1>3, <2>2
  <2>4. d \in 1..N + 1
    BY <1>7, <2>3
  <2>5. d \in Nat
    BY ONLY <1>4, <2>4
  <2> QED BY ONLY <2>2, <2>3, <2>4, <2>5
<1>9. Between(p.keys, d, x)
  BY <1>1, <1>2, <1>6, <1>7, UnderBetween
<1>10. \A j \in 1..N : (j < d => p.keys[j] <= x) /\ (j >= d => x <= p.keys[j])
  BY <1>3, <1>9 DEF Between
<1>11. ~(d < f)
  <2> SUFFICES ASSUME d < f PROVE FALSE
    OBVIOUS
  <2>1. d \in 1..N /\ d >= d
    BY <1>4, <1>8
  <2>2. p.keys[d] < x /\ x <= p.keys[d] /\ p.keys[d] \in Int
    BY <1>4, <1>10, <2>1
  <2> QED BY <2>2
<1>12. ~(e < d)
  <2> SUFFICES ASSUME e < d PROVE FALSE
    OBVIOUS
  <2>1. e \in 1..N /\ e >= e
    BY <1>4, <1>5, <1>8
  <2>2. x < p.keys[e] /\ p.keys[e] <= x /\ p.keys[e] \in Int
    BY <1>4, <1>5, <1>10, <2>1
  <2> QED BY <2>2
<1>13. d \in f..e
  BY ONLY <1>4, <1>5, <1>8, <1>11, <1>12
<1>14. m \in BelowCursors(ps, p, f, e)
  BY ONLY <1>6, <1>7, <1>8, <1>13 DEF BelowCursors
<1> QED BY <1>1, <1>14

\* They lead below the page.
LEMMA CursorsLead ==
    ASSUME NEW ps, NEW r, NEW h, NEW u, Searchable(ps, r, h, u), NEW n \in 1..Len(ps),
           NEW f \in Nat \ {0}, NEW e \in Nat, e <= Len(ps[n].keys) + 1
    PROVE  BelowCursors(ps, ps[n], f, e) \subseteq Under(ps, n) \ {n}
<1>1. /\ KidsExist(ps) /\ Heights(ps, r, h) /\ Len(ps[n].keys) \in Nat
      /\ Len(ps[n].cursors) = IF ps[n].leaf THEN 0 ELSE Len(ps[n].keys) + 1
  BY KidsLead DEF Searchable
<1>2. SUFFICES ASSUME ~ps[n].leaf, NEW j \in f..e, NEW m \in Under(ps, ps[n].cursors[j])
               PROVE  m \in Under(ps, n) \ {n}
  BY DEF BelowCursors
<1>3. j \in 1..Len(ps[n].cursors)
  BY <1>1, <1>2
<1>4. PICK c \in Kids(ps[n]) : m \in Under(ps, c)
  BY <1>2, <1>3 DEF Kids
<1>5. c \in 1..Len(ps) /\ Under(ps, c) \subseteq Under(ps, n)
  BY <1>1, UnderKid
<1>6. h[m] \in Nat /\ h[c] \in Nat /\ h[m] <= h[c]
  BY <1>1, <1>4, <1>5, UnderLower
<1>7. h[n] = h[c] + 1
  BY <1>1, <1>4 DEF Heights
<1>8. m # n
  BY <1>6, <1>7
<1> QED BY <1>4, <1>5, <1>8

\* The pages D to visit after the visit of page n, when R are those besides what is
\* below the page and C were all of them.
Visits(ps, n, f, e, R, C, D) ==
    /\ R \cap Under(ps, n) = {} /\ C = Under(ps, n) \cup R
    /\ D = BelowCursors(ps, ps[n], f, e) \cup R

\* The occurrences in page n are the ones the visit adds.
Counts(ps, x, n, C, D) ==
    /\ Outside(ps, x, D) = Outside(ps, x, C) \cup Inside(ps, x, n)
    /\ Outside(ps, x, C) \cap Inside(ps, x, n) = {}

\* The visit of a page counts the occurrences in it, once.
LEMMA VisitSpots ==
    ASSUME NEW ps, NEW r, NEW h, NEW u, Searchable(ps, r, h, u), NEW n \in 1..Len(ps),
           NEW x \in Int, NEW f, FirstAt(ps[n].keys, x, f), NEW e, RunAt(ps[n].keys, x, f, e),
           NEW R, NEW C, NEW D, Visits(ps, n, f, e, R, C, D)
    PROVE  Counts(ps, x, n, C, D)
<1>1. PICK U : U = Under(ps, n)
  OBVIOUS
<1>2. PICK B : B = BelowCursors(ps, ps[n], f, e)
  OBVIOUS
<1>3. n \in U
  BY <1>1, KidsLead, UnderClosed DEF Searchable
<1>4. B \subseteq U \ {n}
  <2>1. Len(ps[n].keys) \in Nat
    BY KidsLead DEF Searchable
  <2>2. f \in Nat \ {0} /\ e \in Nat /\ e <= Len(ps[n].keys) + 1
    BY <2>1 DEF FirstAt, RunAt
  <2> QED BY <1>1, <1>2, <2>2, CursorsLead
<1>5. ASSUME NEW s \in Spots(ps, x), s[1] \in U, s[1] # n PROVE s[1] \in B
  <2>1. s[2] \in 1..Len(ps[s[1]].keys) /\ ps[s[1]].keys[s[2]] = x
    BY DEF Spots, At
  <2> QED BY <1>1, <1>2, <1>5, <2>1, RunLeads
<1>6. R \cap U = {} /\ C = U \cup R /\ D = B \cup R
  BY <1>1, <1>2 DEF Visits
<1>7. /\ Outside(ps, x, B \cup R) = Outside(ps, x, U \cup R) \cup Inside(ps, x, n)
      /\ Outside(ps, x, U \cup R) \cap Inside(ps, x, n) = {}
  BY ONLY <1>3, <1>4, <1>5, <1>6 DEF Outside, Inside
<1> QED BY ONLY <1>6, <1>7 DEF Counts

\* How many there are.
LEMMA HitsCount ==
    ASSUME NEW ps, NEW n \in 1..Len(ps), Len(ps) \in Nat, NEW x, NEW f, NEW e, f \in Nat, e \in Nat,
           Len(ps[n].keys) \in Nat, f \in 1..Len(ps[n].keys) + 1, RunAt(ps[n].keys, x, f, e)
    PROVE  /\ IsFiniteSet(Inside(ps, x, n))
           /\ Cardinality(Inside(ps, x, n)) =
                 IF HoldsKeys(ps[n]) THEN Cardinality({j \in f..e - 1 : ps[n].keys[j] = x}) ELSE 0
<1>1. PICK p : p = ps[n]
  OBVIOUS
<1>2. PICK T : T = {j \in f..e - 1 : p.keys[j] = x}
  OBVIOUS
<1>3. PICK I : I = Inside(ps, x, n)
  OBVIOUS
<1>4. CASE ~HoldsKeys(p)
  <2>1. I = {}
    BY <1>1, <1>3, <1>4 DEF Inside, Spots, At
  <2> QED BY <1>1, <1>3, <1>4, <2>1, FS_EmptySet
<1>5. CASE HoldsKeys(p)
  <2>1. IsFiniteSet(T)
    <3>1. IsFiniteSet(f..e - 1)
      BY FS_Interval
    <3>2. T \subseteq f..e - 1
      BY <1>2
    <3> QED BY <3>1, <3>2, FS_Subset
  <2>2. PICK a : a = [j \in Nat |-> <<n, j>>]
    OBVIOUS
  <2>3. PICK b : b = [s \in Nat \X Nat |-> s[2]]
    OBVIOUS
  <2>4. n \in Nat /\ n \in 1..Len(ps)
    OBVIOUS
  <2>5. ASSUME NEW j \in T PROVE a[j] \in I /\ b[a[j]] = j
    <3>1. j \in f..e - 1 /\ p.keys[j] = x
      BY <1>2
    <3>2. j \in Nat /\ j \in 1..Len(p.keys)
      BY <1>1, <3>1 DEF RunAt
    <3>3. At(ps, x, n, j)
      BY <1>1, <1>5, <2>4, <3>1, <3>2 DEF At
    <3>4. <<n, j>> \in Spots(ps, x)
      BY ONLY <2>4, <3>2, <3>3, SpotIn
    <3>5. <<n, j>> \in I
      BY <1>3, <3>4 DEF Inside
    <3> QED BY <2>2, <2>3, <2>4, <3>2, <3>5
  <2>6. ASSUME NEW s \in I PROVE b[s] \in T /\ a[b[s]] = s
    <3>1. s \in Spots(ps, x) /\ s[1] = n
      BY <1>3 DEF Inside
    <3>2. PICK c \in Nat, j \in Nat : s = <<c, j>> /\ At(ps, x, c, j)
      BY <3>1 DEF Spots
    <3>3. c = n
      BY <3>1, <3>2
    <3>4. j \in 1..Len(p.keys) /\ p.keys[j] = x
      BY <1>1, <3>2, <3>3 DEF At
    <3>5. j \in f..e - 1
      BY <1>1, <3>4 DEF RunAt
    <3>6. j \in T
      BY <1>2, <3>4, <3>5
    <3> QED BY <2>2, <2>3, <3>2, <3>3, <3>6
  <2>7. IsFiniteSet(I) /\ Cardinality(I) = Cardinality(T)
    BY ONLY <2>1, <2>5, <2>6, SameSize
  <2> QED BY <1>1, <1>2, <1>3, <1>5, <2>7
<1> QED BY <1>4, <1>5

\* What searchAll() counts in page p.
PageHits(p, x, f, e) ==
    IF HoldsKeys(p) THEN Cardinality({j \in f..e - 1 : p.keys[j] = x}) ELSE 0

\* So the count grows by the hits of the page.
LEMMA VisitCounts ==
    ASSUME NEW ps, NEW r, NEW h, NEW u, Searchable(ps, r, h, u), NEW n \in 1..Len(ps),
           NEW x \in Int, IsFiniteSet(Spots(ps, x)),
           NEW f, FirstAt(ps[n].keys, x, f), NEW e, RunAt(ps[n].keys, x, f, e),
           NEW R, NEW C, NEW D, Visits(ps, n, f, e, R, C, D)
    PROVE  Cardinality(Outside(ps, x, D)) = Cardinality(Outside(ps, x, C)) + PageHits(ps[n], x, f, e)
<1>1. /\ Outside(ps, x, D) = Outside(ps, x, C) \cup Inside(ps, x, n)
      /\ Outside(ps, x, C) \cap Inside(ps, x, n) = {}
  <2>1. Counts(ps, x, n, C, D)
    BY VisitSpots
  <2> QED BY ONLY <2>1 DEF Counts
<1>2. Len(ps[n].keys) \in Nat /\ Len(ps) \in Nat
  BY KidsLead DEF Searchable
<1>3. f \in Nat /\ e \in Nat /\ f \in 1..Len(ps[n].keys) + 1
  BY <1>2 DEF FirstAt, RunAt
<1>4. /\ IsFiniteSet(Inside(ps, x, n))
      /\ Cardinality(Inside(ps, x, n)) =
            IF HoldsKeys(ps[n]) THEN Cardinality({j \in f..e - 1 : ps[n].keys[j] = x}) ELSE 0
  BY <1>2, <1>3, HitsCount
<1>5. IsFiniteSet(Outside(ps, x, C))
  <2>1. Outside(ps, x, C) \subseteq Spots(ps, x)
    BY DEF Outside
  <2> QED BY <2>1, FS_Subset
<1>6. PICK P : P = Outside(ps, x, C)
  OBVIOUS
<1>7. PICK Q : Q = Inside(ps, x, n)
  OBVIOUS
<1>8. IsFiniteSet(P) /\ IsFiniteSet(Q) /\ P \cap Q = {}
  BY <1>1, <1>4, <1>5, <1>6, <1>7
<1>9. Cardinality(P \cup Q) = Cardinality(P) + Cardinality(Q)
  <2>1. Cardinality(P \cup Q) = Cardinality(P) + Cardinality(Q) - Cardinality(P \cap Q)
    BY ONLY <1>8, FS_Union
  <2>2. Cardinality(P \cap Q) = 0
    BY <1>8, FS_EmptySet
  <2>3. Cardinality(P) \in Nat /\ Cardinality(Q) \in Nat
    BY <1>8, FS_CardinalityType
  <2> QED BY <2>1, <2>2, <2>3
<1> QED BY <1>1, <1>4, <1>6, <1>7, <1>9 DEF PageHits

\* The sequence rest is st with the cursors of page p from f to e, a of them, in the
\* place of its head.
RestIs(st, p, f, e, rest, a) ==
    /\ a \in Nat /\ Len(st) \in Nat \ {0} /\ Len(rest) = a + Len(st) - 1
    /\ a = IF p.leaf THEN 0 ELSE e - f + 1
    /\ \A j \in 1..a : rest[j] = p.cursors[f + j - 1]
    /\ \A j \in a + 1..Len(rest) : rest[j] = st[j - a + 1]

\* What searchAll() has still to visit after a page.
RestOf(st, p, f, e) == (IF p.leaf THEN <<>> ELSE SubSeq(p.cursors, f, e)) \o Tail(st)

\* It is a list of the kind above.
LEMMA RestElements ==
    ASSUME NEW st \in Seq(Nat), st # <<>>, NEW p, p.leaf \in BOOLEAN, p.cursors \in Seq(Nat),
           Len(p.cursors) = IF p.leaf THEN 0 ELSE Len(p.keys) + 1, Len(p.keys) \in Nat,
           NEW f \in Nat \ {0}, NEW e \in Nat, f <= e, e <= Len(p.keys) + 1, NEW rest,
           rest = RestOf(st, p, f, e)
    PROVE  \E a : RestIs(st, p, f, e, rest, a)
<1>1. PICK A : A = IF p.leaf THEN <<>> ELSE SubSeq(p.cursors, f, e)
  OBVIOUS
<1>2. PICK a : a = IF p.leaf THEN 0 ELSE e - f + 1
  OBVIOUS
<1>3. PICK B : B = Tail(st)
  OBVIOUS
<1>4. /\ B \in Seq(Nat) /\ Len(st) \in Nat \ {0} /\ Len(B) = Len(st) - 1
      /\ \A j \in 1..Len(B) : B[j] = st[j + 1]
  BY <1>3
<1>5. a \in Nat /\ A \in Seq(Nat) /\ Len(A) = a /\ \A j \in 1..a : A[j] = p.cursors[f + j - 1]
  <2>1. CASE p.leaf
    <3>1. a = 0 /\ A = <<>>
      BY <1>1, <1>2, <2>1
    <3>2. \A j : j \notin 1..0
      OBVIOUS
    <3> QED BY <3>1, <3>2
  <2>2. CASE ~p.leaf
    <3>1. a = e - f + 1 /\ A = SubSeq(p.cursors, f, e)
      BY <1>1, <1>2, <2>2
    <3>2. a \in Nat /\ f + a = e + 1 /\ e <= Len(p.cursors)
      BY <2>2, <3>1
    <3>3. p.cursors \in Seq(Int)
      <4>1. Nat \subseteq Int
        OBVIOUS
      <4> QED BY <4>1
    <3>4. f \in Nat \ {0} /\ e \in Nat /\ p.cursors \in Seq(Nat)
      OBVIOUS
    <3>5. Len(SubSeq(p.cursors, f, e)) = a /\ \A j \in 1..a : SubSeq(p.cursors, f, e)[j] = p.cursors[f + j - 1]
      BY ONLY <3>2, <3>3, <3>4, SubSeqElements
    <3>6. SubSeq(p.cursors, f, e) \in Seq(Nat)
      BY ONLY <3>2, <3>4, SubSeqIn
    <3> QED BY ONLY <3>1, <3>2, <3>5, <3>6
  <2> QED BY <2>1, <2>2
<1>6. rest = A \o B
  BY <1>1, <1>3 DEF RestOf
<1>7. /\ Len(rest) = a + Len(B)
      /\ \A j \in 1..a : rest[j] = A[j]
      /\ \A j \in a + 1..a + Len(B) : rest[j] = B[j - a]
  <2>1. /\ Len(A \o B) = Len(A) + Len(B)
        /\ \A j \in 1..Len(A) + Len(B) : (A \o B)[j] = IF j <= Len(A) THEN A[j] ELSE B[j - Len(A)]
    BY ONLY <1>4, <1>5, ConcatProperties
  <2>2. /\ Len(rest) = a + Len(B)
        /\ \A j \in 1..a + Len(B) : rest[j] = IF j <= a THEN A[j] ELSE B[j - a]
    BY ONLY <1>5, <1>6, <2>1
  <2>3. Len(B) \in Nat
    BY ONLY <1>4, LenProperties
  <2>4. /\ \A j \in 1..a : j \in 1..a + Len(B) /\ j <= a
        /\ \A j \in a + 1..a + Len(B) : j \in 1..a + Len(B) /\ ~(j <= a)
    BY ONLY <1>5, <2>3
  <2> QED BY ONLY <2>2, <2>4
<1>8. Len(rest) = a + Len(st) - 1
  BY ONLY <1>4, <1>5, <1>7
<1>9. ASSUME NEW j \in a + 1..Len(rest) PROVE rest[j] = st[j - a + 1]
  <2>1. PICK d : d = j - a
    OBVIOUS
  <2>2. d \in 1..Len(B) /\ j - a + 1 = d + 1 /\ j \in a + 1..a + Len(B)
    <3>1. a \in Nat /\ Len(B) \in Nat /\ Len(rest) = a + Len(B) /\ j \in a + 1..Len(rest)
      BY <1>4, <1>5, <1>7, LenProperties
    <3> QED BY ONLY <2>1, <3>1
  <2> QED BY ONLY <1>4, <1>7, <2>1, <2>2
<1>10. RestIs(st, p, f, e, rest, a)
  BY ONLY <1>2, <1>4, <1>5, <1>7, <1>8, <1>9 DEF RestIs
<1> QED BY <1>10

\* The pages below the page of wrapper w.
SubtreeOf(w) == Under(pages, PageNum(w))

\* The pages that a visit of the wrappers st reaches.
Pending(st) == UNION {SubtreeOf(st[j]) : j \in 1..Len(st)}

\* No page is reached twice.
Apart(st) ==
    \A i, j \in 1..Len(st) : i # j => SubtreeOf(st[i]) \cap SubtreeOf(st[j]) = {}

\* The visit of a page replaces it by children of it.
LEMMA StackVisits ==
    ASSUME NEW h, NEW u, Searchable(pages, rootPageNum, h, u), NEW st, NEW n \in 1..Len(pages),
           n = PageNum(st[1]), Apart(st), NEW f \in Nat \ {0}, NEW e \in Nat,
           e <= Len(pages[n].keys) + 1, NEW rest, NEW a, RestIs(st, pages[n], f, e, rest, a)
    PROVE  /\ Apart(rest)
           /\ \E R : Visits(pages, n, f, e, R, Pending(st), Pending(rest))
<1>1. PICK p : p = pages[n]
  OBVIOUS
<1>2. /\ KidsExist(pages) /\ Heights(pages, rootPageNum, h) /\ Owned(pages, rootPageNum)
      /\ Len(p.keys) \in Nat /\ Len(p.cursors) = IF p.leaf THEN 0 ELSE Len(p.keys) + 1
  BY <1>1, KidsLead DEF Searchable
<1>3. PICK N : N = Len(st)
  OBVIOUS
<1>4. /\ a \in Nat /\ N \in Nat \ {0} /\ Len(rest) = a + N - 1 /\ 1 \in 1..N
      /\ a = IF p.leaf THEN 0 ELSE e - f + 1
      /\ \A j \in 1..a : rest[j] = p.cursors[f + j - 1]
      /\ \A j \in a + 1..Len(rest) : rest[j] = st[j - a + 1]
  BY <1>1, <1>3 DEF RestIs
<1>5. \A i, j \in 1..N : i # j => SubtreeOf(st[i]) \cap SubtreeOf(st[j]) = {}
  BY <1>3 DEF Apart
<1>6. PICK U : U = Under(pages, n)
  OBVIOUS
<1>7. SubtreeOf(st[1]) = U
  BY <1>6 DEF SubtreeOf
<1>8. ASSUME NEW j \in 1..a
      PROVE  /\ ~p.leaf /\ f + j - 1 \in f..e /\ f + j - 1 \in 1..Len(p.cursors)
             /\ p.cursors[f + j - 1] \in Kids(p)
             /\ SubtreeOf(rest[j]) = Under(pages, p.cursors[f + j - 1])
             /\ SubtreeOf(rest[j]) \subseteq U
  <2>1. ~p.leaf
    <3>1. \A d : d \notin 1..0
      OBVIOUS
    <3> QED BY <1>4, <1>8, <3>1
  <2>2. f + j - 1 \in f..e /\ f + j - 1 \in 1..Len(p.cursors)
    BY <1>1, <1>2, <1>4, <1>8, <2>1
  <2>3. PICK c : c = p.cursors[f + j - 1]
    OBVIOUS
  <2>4. c \in Kids(p)
    BY <2>2, <2>3 DEF Kids
  <2>5. c \in 1..Len(pages) /\ Under(pages, c) \subseteq U
    BY <1>1, <1>2, <1>6, <2>4, UnderKid
  <2>6. rest[j] = c
    BY <1>4, <2>3
  <2>7. PageNum(c) = c
    BY <2>5 DEF PageNum, RootWrapper
  <2>8. SubtreeOf(rest[j]) = Under(pages, c)
    BY ONLY <2>6, <2>7 DEF SubtreeOf
  <2> QED BY ONLY <2>1, <2>2, <2>3, <2>4, <2>5, <2>8
<1>9. ASSUME NEW j \in a + 1..Len(rest)
      PROVE  /\ j - a + 1 \in 2..N /\ SubtreeOf(rest[j]) = SubtreeOf(st[j - a + 1])
             /\ SubtreeOf(rest[j]) \cap U = {}
  <2>1. PICK d : d = j - a + 1
    OBVIOUS
  <2>2. d \in 2..N /\ d \in 1..N /\ d # 1
    BY <1>4, <1>9, <2>1
  <2>3. rest[j] = st[d]
    BY <1>4, <2>1
  <2> QED BY ONLY <1>4, <1>5, <1>7, <2>1, <2>2, <2>3
<1>10. \A j \in 1..Len(rest) : j \in 1..a \/ j \in a + 1..Len(rest)
  BY ONLY <1>4
<1>11. \A i, j \in 1..a : i # j => SubtreeOf(rest[i]) \cap SubtreeOf(rest[j]) = {}
  <2> SUFFICES ASSUME NEW i \in 1..a, NEW j \in 1..a, i # j
               PROVE  SubtreeOf(rest[i]) \cap SubtreeOf(rest[j]) = {}
    OBVIOUS
  <2>1. PICK x : x = f + i - 1
    OBVIOUS
  <2>2. PICK y : y = f + j - 1
    OBVIOUS
  <2>3. x # y
    BY <1>4, <2>1, <2>2
  <2>4. /\ x \in 1..Len(p.cursors) /\ y \in 1..Len(p.cursors)
        /\ p.cursors[x] \in Kids(p) /\ p.cursors[y] \in Kids(p)
        /\ SubtreeOf(rest[i]) = Under(pages, p.cursors[x])
        /\ SubtreeOf(rest[j]) = Under(pages, p.cursors[y])
    BY <1>8, <2>1, <2>2
  <2>5. OneCursorEach(p)
    BY <1>1, <1>2 DEF Owned
  <2>6. p.cursors[x] # p.cursors[y]
    BY ONLY <2>3, <2>4, <2>5 DEF OneCursorEach
  <2>7. Under(pages, p.cursors[x]) \cap Under(pages, p.cursors[y]) = {}
    BY <1>1, <1>2, <2>4, <2>6, UnderDisjoint
  <2> QED BY ONLY <2>4, <2>7
<1>12. \A i, j \in a + 1..Len(rest) : i # j => SubtreeOf(rest[i]) \cap SubtreeOf(rest[j]) = {}
  <2> SUFFICES ASSUME NEW i \in a + 1..Len(rest), NEW j \in a + 1..Len(rest), i # j
               PROVE  SubtreeOf(rest[i]) \cap SubtreeOf(rest[j]) = {}
    OBVIOUS
  <2>1. PICK x : x = i - a + 1
    OBVIOUS
  <2>2. PICK y : y = j - a + 1
    OBVIOUS
  <2>3. x # y
    BY <1>4, <2>1, <2>2
  <2>4. x \in 2..N /\ y \in 2..N /\ SubtreeOf(rest[i]) = SubtreeOf(st[x])
        /\ SubtreeOf(rest[j]) = SubtreeOf(st[y])
    BY <1>9, <2>1, <2>2
  <2>5. x \in 1..N /\ y \in 1..N
    BY ONLY <1>4, <2>4
  <2> QED BY ONLY <1>5, <2>3, <2>4, <2>5
<1>13. Apart(rest)
  <2>1. \A i \in 1..a, j \in a + 1..Len(rest) : SubtreeOf(rest[i]) \cap SubtreeOf(rest[j]) = {}
    BY ONLY <1>8, <1>9
  <2> QED BY ONLY <1>10, <1>11, <1>12, <2>1 DEF Apart
<1>14. PICK R : R = UNION {SubtreeOf(st[j]) : j \in 2..N}
  OBVIOUS
<1>15. R \cap U = {}
  <2>1. \A j \in 2..N : SubtreeOf(st[j]) \cap U = {}
    <3>1. \A j \in 2..N : j \in 1..N /\ j # 1
      BY ONLY <1>4
    <3> QED BY ONLY <1>4, <1>5, <1>7, <3>1
  <2> QED BY ONLY <1>14, <2>1
<1>16. Pending(st) = U \cup R
  <2>1. \A j \in 1..N : j = 1 \/ j \in 2..N
    BY ONLY <1>4
  <2>2. \A j \in 2..N : j \in 1..N
    BY ONLY <1>4
  <2> QED BY ONLY <1>3, <1>4, <1>7, <1>14, <2>1, <2>2 DEF Pending
<1>17. Pending(rest) = BelowCursors(pages, p, f, e) \cup R
  <2>1. ASSUME NEW m \in Pending(rest) PROVE m \in BelowCursors(pages, p, f, e) \cup R
    <3>1. PICK j \in 1..Len(rest) : m \in SubtreeOf(rest[j])
      BY DEF Pending
    <3>2. CASE j \in 1..a
      BY <1>8, <3>1, <3>2 DEF BelowCursors
    <3>3. CASE j \in a + 1..Len(rest)
      BY <1>9, <1>14, <3>1, <3>3
    <3> QED BY <1>10, <3>1, <3>2, <3>3
  <2>2. ASSUME NEW m \in BelowCursors(pages, p, f, e) PROVE m \in Pending(rest)
    <3>1. ~p.leaf
      BY DEF BelowCursors
    <3>2. PICK d \in f..e : m \in Under(pages, p.cursors[d])
      BY <3>1 DEF BelowCursors
    <3>3. PICK j : j = d - f + 1
      OBVIOUS
    <3>4. j \in 1..a /\ f + j - 1 = d /\ j \in 1..Len(rest)
      BY <1>4, <3>1, <3>2, <3>3
    <3>5. m \in SubtreeOf(rest[j])
      BY <1>8, <3>2, <3>4
    <3> QED BY ONLY <3>4, <3>5 DEF Pending
  <2>3. ASSUME NEW m \in R PROVE m \in Pending(rest)
    <3>1. PICK d \in 2..N : m \in SubtreeOf(st[d])
      BY <1>14
    <3>2. PICK j : j = d + a - 1
      OBVIOUS
    <3>3. j \in a + 1..Len(rest) /\ j - a + 1 = d /\ j \in 1..Len(rest)
      BY <1>4, <3>1, <3>2
    <3>4. m \in SubtreeOf(rest[j])
      BY <1>9, <3>1, <3>3
    <3> QED BY ONLY <3>3, <3>4 DEF Pending
  <2> QED BY <2>1, <2>2, <2>3
<1>18. Visits(pages, n, f, e, R, Pending(st), Pending(rest))
  BY ONLY <1>1, <1>6, <1>15, <1>16, <1>17 DEF Visits
<1> QED BY <1>13, <1>18

-------------------------------------------------------------------------------
(* The searches as steps. *)

\* The pages are as the searches need them.
LEMMA TreeSearchable ==
    ASSUME ShapeInv, OrderInv, RoutersStored
    PROVE  \E h, u : Searchable(pages, rootPageNum, h, u)
<1>1. PICK h : Heights(pages, rootPageNum, h)
  BY DEF ShapeInv, TreeInv
<1>2. PICK u : Ordered(pages, u)
  BY DEF OrderInv
<1>3. AllShaped(pages) /\ rootPageNum \in 1..Len(pages) /\ Owned(pages, rootPageNum)
  BY TreeFacts DEF AllShaped
<1>4. Searchable(pages, rootPageNum, h, u)
  BY <1>1, <1>2, <1>3 DEF Searchable, RoutersStored
<1> QED BY <1>4

\* Which function runs for which call.
OpInv ==
    /\ fn = "idle" <=> op = "none"
    /\ fn = "insertNonFull" => op = "insert"
    /\ fn = "search" => op = "search"
    /\ fn = "searchAll" => op = "searchAll"

\* search() has not left the key behind: a stored key is below the page it has reached.
SearchInv ==
    fn = "search" => (Spots(pages, k) # {} => KeyUnder(pages, k, PageNum(at)))

\* searchAll() has counted the occurrences that it will not meet any more, and those
\* ahead of it it will meet once.
SearchAllInv ==
    fn = "searchAll" =>
        Apart(stack) /\ answer = Cardinality(Outside(pages, k, Pending(stack)))

\* search() begins at the root.
LEMMA SearchBegins ==
    ASSUME ShapeInv, OrderInv, RoutersStored, NEW x \in Keys, Search(x)
    PROVE  SearchInv'
<1>1. PICK h, u : Searchable(pages, rootPageNum, h, u)
  BY TreeSearchable
<1>2. Spots(pages, x) # {} => KeyUnder(pages, x, rootPageNum)
  BY <1>1, StoredUnder
<1>3. k' = x /\ pages' = pages /\ PageNum(at)' = rootPageNum
  BY DEF Search, Call, treeVars, PageNum, RootWrapper
<1> QED BY <1>2, <1>3 DEF SearchInv

\* Whether key x is stored.
Answer(x) == IF Spots(pages, x) # {} THEN 1 ELSE 0

\* search() follows a stored key down and finds it.
LEMMA SearchStep ==
    ASSUME ShapeInv, OrderInv, RoutersStored, SearchInv, search
    PROVE  SearchInv' /\ (fn' # "search" => Return(Answer(k)))
<1>1. PICK h, u : Searchable(pages, rootPageNum, h, u)
  BY TreeSearchable
<1>2. PICK n : n = PageNum(at)
  OBVIOUS
<1>3. PICK p : p = pages[n]
  OBVIOUS
<1>4. PICK f : f = FirstNotLess(p.keys, k)
  OBVIOUS
<1>5. Data(at) = p /\ n \in 1..Len(pages)
  BY <1>2, <1>3, DataOnDisk DEF ShapeInv
<1>6. fn = "search" /\ k \in Int /\ (Spots(pages, k) # {} => KeyUnder(pages, k, n))
  BY <1>2, KeysAssumption DEF search, SearchInv, ShapeInv, InsertInv, CallOK
<1>7. \/ FoundAt(p, k, f) /\ Return(1)
      \/ ~FoundAt(p, k, f) /\ p.leaf /\ Return(0)
      \/ /\ ~FoundAt(p, k, f) /\ ~p.leaf /\ Exists(p.cursors[f])
         /\ Continue("search", p.cursors[f])
  BY <1>4, <1>5 DEF search, FoundAt
<1>8. pages' = pages /\ rootPageNum' = rootPageNum
  BY DEF search, treeVars
<1>9. KeyUnder(pages, k, n) /\ ~FoundAt(p, k, f) => ~p.leaf /\ KeyUnder(pages, k, p.cursors[f])
  BY <1>1, <1>3, <1>4, <1>5, <1>6, SearchGoesOn
<1>10. CASE FoundAt(p, k, f) /\ Return(1)
  <2>1. HoldsKeys(p) /\ f \in 1..Len(p.keys) /\ p.keys[f] = k
    <3>1. p.keys \in Seq(Int) /\ Ascending(p.keys)
      BY <1>1, <1>3, <1>5, KidsLead DEF Searchable, Ordered, PageOrdered
    <3>2. f \in 1..Len(p.keys) + 1
      BY <1>4, <1>6, <3>1, FirstStops DEF FirstAt
    <3>3. Len(p.keys) \in Nat
      BY <3>1, LenProperties
    <3> QED BY <1>10, <3>2, <3>3 DEF FoundAt
  <2>2. n \in Under(pages, n)
    BY <1>1, <1>5, KidsLead, UnderClosed DEF Searchable
  <2>3. KeyUnder(pages, k, n)
    BY <1>3, <2>1, <2>2 DEF KeyUnder
  <2>4. Answer(k) = 1
    BY <1>1, <1>5, <2>3, StoredUnder DEF Answer
  <2> QED BY <1>10, <2>4 DEF SearchInv, Return
<1>11. CASE ~FoundAt(p, k, f) /\ p.leaf /\ Return(0)
  <2>1. Answer(k) = 0
    BY <1>6, <1>9, <1>11 DEF Answer
  <2> QED BY <1>11, <2>1 DEF SearchInv, Return
<1>12. CASE ~FoundAt(p, k, f) /\ ~p.leaf /\ Exists(p.cursors[f]) /\ Continue("search", p.cursors[f])
  <2>1. fn' = "search" /\ at' = p.cursors[f] /\ k' = k /\ p.cursors[f] \in 1..Len(pages)
    BY <1>12 DEF Continue, Exists
  <2>2. PageNum(at)' = p.cursors[f]
    <3>1. Len(pages) \in Nat
      BY TreeFacts
    <3> QED BY <2>1, <3>1 DEF PageNum, RootWrapper
  <2> QED BY <1>6, <1>8, <1>9, <1>12, <2>1, <2>2 DEF SearchInv
<1> QED BY <1>7, <1>10, <1>11, <1>12

\* searchAll() begins at the root, with everything ahead.
LEMMA SearchAllBegins ==
    ASSUME ShapeInv, OrderInv, RoutersStored, NEW x \in Keys, SearchAll(x)
    PROVE  SearchAllInv'
<1>1. PICK h, u : Searchable(pages, rootPageNum, h, u)
  BY TreeSearchable
<1>2. Under(pages, rootPageNum) = 1..Len(pages)
  BY <1>1, KidsLead, UnderRoot DEF Searchable
<1>3. k' = x /\ pages' = pages /\ rootPageNum' = rootPageNum /\ stack' = <<RootWrapper>> /\ answer' = 0
  BY DEF SearchAll, Call, treeVars
<1>4. Len(stack') = 1 /\ stack'[1] = RootWrapper /\ \A j \in 1..1 : j = 1
  BY <1>3
<1>5. SubtreeOf(stack[1])' = 1..Len(pages)
  BY <1>2, <1>3, <1>4 DEF SubtreeOf, PageNum
<1>6. Apart(stack)'
  BY <1>4 DEF Apart
<1>7. Pending(stack)' = 1..Len(pages)
  BY <1>4, <1>5 DEF Pending
<1>8. Outside(pages, x, 1..Len(pages)) = {}
  BY DEF Outside, Spots, At
<1>9. Outside(pages, k, Pending(stack))' = {}
  BY <1>3, <1>7, <1>8
<1> QED BY <1>3, <1>6, <1>9, FS_EmptySet DEF SearchAllInv

\* searchAll() counts the hits of a page and puts the pages it leads to ahead.
LEMMA SearchAllStep ==
    ASSUME ShapeInv, OrderInv, RoutersStored, SearchAllInv, searchAll
    PROVE  SearchAllInv' /\ (fn' # "searchAll" => Return(Cardinality(Spots(pages, k))))
<1>1. PICK h, u : Searchable(pages, rootPageNum, h, u)
  BY TreeSearchable
<1>2. /\ fn = "searchAll" /\ k \in Int /\ stack \in Seq(0..Len(pages)) /\ stack # <<>>
      /\ rootPage = pages[rootPageNum] /\ rootPageNum \in 1..Len(pages) /\ Len(pages) \in Nat
  BY KeysAssumption, TreeFacts DEF searchAll, ShapeInv, InsertInv, CallOK, RootInMemory
<1>3. PICK w : w = Head(stack)
  OBVIOUS
<1>4. w = stack[1] /\ w \in 0..Len(pages) /\ stack \in Seq(Nat)
  <2>1. stack \in Seq(Nat)
    BY DEF ShapeInv, InsertInv, TypeOK
  <2> QED BY <1>2, <1>3, <2>1
<1>5. PICK n : n = PageNum(w)
  OBVIOUS
<1>6. PICK p : p = pages[n]
  OBVIOUS
<1>7. n \in 1..Len(pages) /\ Data(w) = p
  BY <1>2, <1>4, <1>5, <1>6 DEF PageNum, Data, RootWrapper
<1>8. PICK f : f = FirstNotLess(p.keys, k)
  OBVIOUS
<1>9. PICK e : e = f + EqualRun(p.keys, f, k)
  OBVIOUS
<1>10. PICK hits : hits = PageHits(p, k, f, e)
  OBVIOUS
<1>11. PICK rest : rest = RestOf(stack, p, f, e)
  OBVIOUS
<1>12. /\ pages' = pages /\ rootPageNum' = rootPageNum
       /\ \/ rest = <<>> /\ Return(answer + hits)
          \/ /\ rest # <<>> /\ stack' = rest /\ answer' = answer + hits
             /\ k' = k /\ fn' = fn
  BY <1>3, <1>7, <1>8, <1>9, <1>10, <1>11
     DEF searchAll, treeVars, PageHits, RestOf
<1>13. /\ p.keys \in Seq(Int) /\ Ascending(p.keys) /\ Len(p.keys) \in Nat /\ p.leaf \in BOOLEAN
       /\ p.cursors \in Seq(Nat) /\ Len(p.cursors) = IF p.leaf THEN 0 ELSE Len(p.keys) + 1
  BY <1>1, <1>6, <1>7, KidsLead DEF Searchable, Ordered, PageOrdered, Page
<1>14. FirstAt(p.keys, k, f)
  BY <1>2, <1>8, <1>13, FirstStops
<1>15. RunAt(p.keys, k, f, e)
  BY <1>2, <1>9, <1>13, <1>14, RunStops
<1>16. f \in Nat \ {0} /\ e \in Nat /\ f <= e /\ e <= Len(p.keys) + 1
  BY <1>13, <1>14, <1>15 DEF FirstAt, RunAt
<1>17. PICK a : RestIs(stack, p, f, e, rest, a)
  BY ONLY <1>2, <1>4, <1>11, <1>13, <1>16, RestElements
<1>18. Apart(stack) /\ answer = Cardinality(Outside(pages, k, Pending(stack)))
  BY <1>2 DEF SearchAllInv
<1>19. /\ Apart(rest)
       /\ \E R : Visits(pages, n, f, e, R, Pending(stack), Pending(rest))
  BY <1>1, <1>4, <1>5, <1>6, <1>7, <1>16, <1>17, <1>18, StackVisits
<1>20. PICK R : Visits(pages, n, f, e, R, Pending(stack), Pending(rest))
  BY <1>19
<1>21. IsFiniteSet(Spots(pages, k))
  BY ShapeCounts DEF CountsAgree
<1>22. FirstAt(pages[n].keys, k, f) /\ RunAt(pages[n].keys, k, f, e)
  BY <1>6, <1>14, <1>15
<1>23. Cardinality(Outside(pages, k, Pending(rest))) = Cardinality(Outside(pages, k, Pending(stack)))
                                                     + PageHits(pages[n], k, f, e)
  BY ONLY <1>1, <1>2, <1>7, <1>20, <1>21, <1>22, VisitCounts
<1>24. answer + hits = Cardinality(Outside(pages, k, Pending(rest)))
  BY ONLY <1>6, <1>10, <1>18, <1>23
<1>25. CASE rest = <<>> /\ Return(answer + hits)
  <2>1. Len(rest) = 0 /\ \A j : j \notin 1..0
    BY <1>25
  <2>2. Pending(rest) = {}
    BY <2>1 DEF Pending
  <2>3. Outside(pages, k, Pending(rest)) = Spots(pages, k)
    BY ONLY <2>2 DEF Outside
  <2> QED BY <1>24, <1>25, <2>3 DEF SearchAllInv, Return
<1>26. CASE rest # <<>> /\ stack' = rest /\ answer' = answer + hits /\ k' = k /\ fn' = fn
  <2>2. Apart(stack)' /\ Pending(stack)' = Pending(rest)
    BY <1>12, <1>19, <1>26 DEF Apart, Pending, SubtreeOf, PageNum, RootWrapper
  <2>3. answer' = Cardinality(Outside(pages, k, Pending(stack)))'
    BY <1>12, <1>24, <1>26, <2>2
  <2> QED BY <1>2, <1>26, <2>2, <2>3 DEF SearchAllInv
<1> QED BY <1>12, <1>25, <1>26

-------------------------------------------------------------------------------
(* The tree is a bag of keys. *)

\* The inductive invariant.
BagInv ==
    /\ ShapeInv /\ OrderInv /\ RoutersStored
    /\ OpInv /\ SearchInv /\ SearchAllInv

\* createTree().
LEMMA InitBag == Init => BagInv
<1> SUFFICES ASSUME Init PROVE BagInv
  OBVIOUS
<1>1. ShapeInv
  BY InitInv, InitTree DEF ShapeInv
<1>2. OpInv /\ SearchInv /\ SearchAllInv
  BY DEF Init, OpInv, SearchInv, SearchAllInv
<1> QED BY <1>1, <1>2, InitOrder, InitRouters DEF BagInv

\* The steps of the functions by what they do to the call.
LEMMA CallSteps ==
    ASSUME ShapeInv, OpInv, [BaseNext]_vars
    PROVE  \/ \E x \in Keys : Search(x)
           \/ \E x \in Keys : SearchAll(x)
           \/ \E x \in Keys : Call("insert", x, "insertNonFull")
           \/ search \/ searchAll
           \/ fn = "insertNonFull" /\ InsertIntoLeaf
           \/ fn = "insertNonFull" /\ fn' = fn /\ UNCHANGED <<op, k, answer>>
           \/ UNCHANGED <<pages, rootPageNum, callVars>>
<1>1. ASSUME NEW x \in Keys, Insert(x) PROVE Call("insert", x, "insertNonFull")
  BY <1>1 DEF Insert
<1>2. CASE fn = "insertNonFull" /\ (Descend \/ SplitAndDescend)
  BY <1>2 DEF Descend, SplitAndDescend, Continue
<1>3. CASE LoadTree
  BY <1>3 DEF LoadTree
<1>4. CASE UNCHANGED vars
  BY <1>4 DEF vars, treeVars
<1> QED BY <1>1, <1>2, <1>3, <1>4 DEF BaseNext, BaseCall, BaseStep, insertNonFull

\* Every step keeps it.
LEMMA BagStep == BagInv /\ [BaseNext]_vars => BagInv'
<1> SUFFICES ASSUME ShapeInv, OrderInv, RoutersStored, OpInv, SearchInv, SearchAllInv,
                    [BaseNext]_vars
             PROVE  OpInv' /\ SearchInv' /\ SearchAllInv'
  BY ShapeStep, OrderStep, RoutersStep DEF BagInv
<1>1. ASSUME NEW x \in Keys, Search(x) PROVE OpInv' /\ SearchInv' /\ SearchAllInv'
  <2>1. fn' = "search" /\ op' = "search"
    BY <1>1 DEF Search, Call
  <2> QED BY <1>1, <2>1, SearchBegins DEF OpInv, SearchAllInv
<1>2. ASSUME NEW x \in Keys, SearchAll(x) PROVE OpInv' /\ SearchInv' /\ SearchAllInv'
  <2>1. fn' = "searchAll" /\ op' = "searchAll"
    BY <1>2 DEF SearchAll, Call
  <2> QED BY <1>2, <2>1, SearchAllBegins DEF OpInv, SearchInv
<1>3. ASSUME NEW x \in Keys, Call("insert", x, "insertNonFull")
      PROVE  OpInv' /\ SearchInv' /\ SearchAllInv'
  BY <1>3 DEF Call, OpInv, SearchInv, SearchAllInv
<1>4. CASE search
  <2>1. SearchInv'
    BY <1>4, SearchStep
  <2>2. \/ fn' = "idle" /\ op' = "none"
        \/ fn' = "search" /\ op' = op /\ fn = "search"
    BY <1>4 DEF search, Return, Continue
  <2> QED BY <2>1, <2>2 DEF OpInv, SearchAllInv
<1>5. CASE searchAll
  <2>1. SearchAllInv'
    BY <1>5, SearchAllStep
  <2>2. \/ fn' = "idle" /\ op' = "none"
        \/ fn' = "searchAll" /\ op' = op /\ fn = "searchAll"
    BY <1>5 DEF searchAll, Return
  <2> QED BY <2>1, <2>2 DEF OpInv, SearchInv
<1>6. CASE fn = "insertNonFull" /\ InsertIntoLeaf
  BY <1>6 DEF InsertIntoLeaf, Return, OpInv, SearchInv, SearchAllInv
<1>7. CASE fn = "insertNonFull" /\ fn' = fn /\ UNCHANGED <<op, k, answer>>
  BY <1>7 DEF OpInv, SearchInv, SearchAllInv
<1>8. CASE UNCHANGED <<pages, rootPageNum, callVars>>
  <2>1. OpInv' /\ SearchInv'
    BY <1>8 DEF callVars, OpInv, SearchInv, PageNum
  <2>2. Apart(stack)' = Apart(stack) /\ Pending(stack)' = Pending(stack)
    BY <1>8 DEF callVars, Apart, Pending, SubtreeOf, PageNum
  <2>3. SearchAllInv'
    BY <1>8, <2>2 DEF callVars, SearchAllInv
  <2> QED BY <2>1, <2>3
<1> QED BY <1>1, <1>2, <1>3, <1>4, <1>5, <1>6, <1>7, <1>8, CallSteps

\* How often a key is stored is the number of its places.
LEMMA StoredSpots ==
    ASSUME ShapeInv, NEW x \in Keys
    PROVE  /\ Stored[x] = Cardinality(Spots(pages, x)) /\ Stored[x] \in Nat
           /\ Answer(x) = IF Stored[x] > 0 THEN 1 ELSE 0
<1>1. IsFiniteSet(Spots(pages, x)) /\ Stored[x] = Cardinality(Spots(pages, x))
  BY ShapeCounts DEF CountsAgree, Stored
<1>2. Stored[x] \in Nat /\ (Stored[x] = 0 <=> Spots(pages, x) = {})
  BY <1>1, FS_CardinalityType, FS_EmptySet
<1> QED BY <1>1, <1>2 DEF Answer

\* What a caller sees of the answer.
Seen == IF fn = "idle" \/ op = "removeAll" THEN answer ELSE 0

\* A call that returns is the same call on the bag.
LEMMA ReturnRefines ==
    ASSUME OpInv, NEW r, Return(r)
    PROVE  Index!Return(r)
<1>1. Seen' = r
  BY DEF Return, Seen
<1> QED BY <1>1 DEF Return, Seen, Index!Return

\* Every step of the tree is a step of the bag, or none.
LEMMA BagRefines ==
    ASSUME BagInv, BagInv', [BaseNext]_vars
    PROVE  [Index!Next]_Index!vars
<1>1. ShapeInv /\ OrderInv /\ RoutersStored /\ OpInv /\ OpInv' /\ SearchInv /\ SearchAllInv
  BY DEF BagInv
<1>2. CountsAgree /\ CountsAgree'
  BY <1>1, ShapeCounts, ShapeCountsNext DEF BagInv
<1>3. SameCounts => Stored' = Stored
  BY DEF SameCounts, Stored
<1>4. CASE fn = "insertNonFull" /\ InsertIntoLeaf
  <2>1. k \in Keys
    BY <1>1, <1>4 DEF ShapeInv, InsertInv, CallOK
  <2>2. \A x : Occurrences(Places', x) =
                  IF x = k THEN Occurrences(Places, x) + 1 ELSE Occurrences(Places, x)
    BY <1>1, <1>2, <1>4, LeafCounts
  <2>3. Stored' = [Stored EXCEPT ![k] = @ + 1]
    <3>1. Stored' = [x \in Keys |-> Occurrences(Places', x)]
      BY DEF Stored
    <3>2. Stored = [x \in Keys |-> Occurrences(Places, x)]
      BY DEF Stored
    <3> QED BY ONLY <2>1, <2>2, <3>1, <3>2
  <2>4. Index!Return(0) /\ op = "insert"
    BY <1>1, <1>4, ReturnRefines DEF InsertIntoLeaf, OpInv
  <2>5. Index!Insert
    BY <2>3, <2>4 DEF Index!Insert
  <2> QED BY <2>5 DEF Index!Next
<1>5. CASE SameCounts
  <2>1. ASSUME NEW x \in Keys, NEW o \in {"insert", "search", "searchAll"}, NEW f, Call(o, x, f),
               f # "idle"
        PROVE  Index!Next
    <3>1. op = "none" /\ op' = o /\ k' = x /\ Seen' = 0
      BY <1>1, <2>1 DEF Call, OpInv, Seen
    <3>2. Index!Call(o, x)
      BY <1>3, <1>5, <3>1 DEF Index!Call, Seen
    <3> QED BY <2>1, <3>2 DEF Index!Next
  <2>2. CASE search
    <3>1. fn = "search" /\ op = "search" /\ k \in Keys
      BY <1>1, <2>2 DEF search, OpInv, ShapeInv, InsertInv, CallOK
    <3>2. CASE fn' # "search"
      <4>1. Return(Answer(k))
        BY <1>1, <2>2, <3>2, SearchStep
      <4>2. Index!Return(IF Stored[k] > 0 THEN 1 ELSE 0)
        BY <1>1, <3>1, <4>1, ReturnRefines, StoredSpots
      <4>3. Index!Search
        BY <1>3, <1>5, <3>1, <4>2 DEF Index!Search
      <4> QED BY <4>3 DEF Index!Next
    <3>3. CASE fn' = "search"
      <4>1. UNCHANGED <<op, k>>
        BY <2>2, <3>3 DEF search, Return, Continue
      <4>2. Seen = 0 /\ Seen' = 0
        BY <3>1, <3>3, <4>1 DEF Seen
      <4> QED BY <1>3, <1>5, <4>1, <4>2 DEF Index!vars, Seen
    <3> QED BY <3>2, <3>3
  <2>3. CASE searchAll
    <3>1. fn = "searchAll" /\ op = "searchAll" /\ k \in Keys
      BY <1>1, <2>3 DEF searchAll, OpInv, ShapeInv, InsertInv, CallOK
    <3>2. CASE fn' # "searchAll"
      <4>1. Return(Cardinality(Spots(pages, k)))
        BY <1>1, <2>3, <3>2, SearchAllStep
      <4>2. Index!Return(Stored[k])
        BY <1>1, <3>1, <4>1, ReturnRefines, StoredSpots
      <4>3. Index!SearchAll
        BY <1>3, <1>5, <3>1, <4>2 DEF Index!SearchAll
      <4> QED BY <4>3 DEF Index!Next
    <3>3. CASE fn' = "searchAll"
      <4>1. UNCHANGED <<op, k>>
        BY <2>3, <3>3 DEF searchAll, Return
      <4>2. Seen = 0 /\ Seen' = 0
        BY <3>1, <3>3, <4>1 DEF Seen
      <4> QED BY <1>3, <1>5, <4>1, <4>2 DEF Index!vars, Seen
    <3> QED BY <3>2, <3>3
  <2>4. CASE fn = "insertNonFull" /\ fn' = fn /\ UNCHANGED <<op, k, answer>>
    <3>1. Seen' = Seen
      BY <2>4 DEF Seen
    <3> QED BY <1>3, <1>5, <2>4, <3>1 DEF Index!vars, Seen
  <2>5. CASE UNCHANGED <<pages, rootPageNum, callVars>>
    <3>1. Seen' = Seen /\ UNCHANGED <<op, k>>
      BY <2>5 DEF Seen, callVars
    <3> QED BY <1>3, <1>5, <3>1 DEF Index!vars, Seen
  <2>6. ASSUME NEW x \in Keys, Search(x) PROVE Index!Next
    BY <2>1, <2>6 DEF Search
  <2>7. ASSUME NEW x \in Keys, SearchAll(x) PROVE Index!Next
    BY <2>1, <2>7 DEF SearchAll
  <2>8. ASSUME NEW x \in Keys, Call("insert", x, "insertNonFull") PROVE Index!Next
    BY <2>1, <2>8
  <2> QED BY <1>1, <1>4, <2>2, <2>3, <2>4, <2>5, <2>6, <2>7, <2>8, CallSteps
<1> QED BY <1>1, <1>2, <1>4, <1>5, StepCounts

\* Insertion and both searches of a B-tree and of a B+-tree have the effect and the
\* answers of the same calls on a bag of keys, for every order and set of keys: insert()
\* stores one occurrence, search() finds a key exactly if it is stored, searchAll()
\* counts every occurrence once, whatever pages insertNonFull() and splitChild() have
\* split before.
THEOREM InsertImplementsKeyBag == BaseSpec => ImplementsKeyBag
<1>1. Init => Index!Init
  <2> SUFFICES ASSUME Init PROVE Index!Init
    OBVIOUS
  <2>1. ShapeInv
    BY InitBag DEF BagInv
  <2>2. ASSUME NEW x \in Keys PROVE Stored[x] = 0
    <3>1. Len(pages) = 1 /\ Len(pages[1].keys) = 0
      BY DEF Init
    <3>2. Spots(pages, x) = {}
      BY <3>1 DEF Spots, At
    <3> QED BY <2>1, <3>2, StoredSpots, FS_EmptySet
  <2>3. Stored = [x \in Keys |-> 0]
    BY <2>2 DEF Stored
  <2>4. Seen = 0
    BY DEF Init, Seen
  <2> QED BY <2>3, <2>4 DEF Init, Seen, Index!Init
<1>2. BagInv /\ BagInv' /\ [BaseNext]_vars => [Index!Next]_Index!vars
  BY BagRefines
<1>3. Init => BagInv
  BY InitBag
<1>4. BagInv /\ [BaseNext]_vars => BagInv'
  BY BagStep
<1> QED BY <1>1, <1>2, <1>3, <1>4, PTL DEF BaseSpec, ImplementsKeyBag, Index!Spec

\* searchAll() answers with the number of occurrences, for every order and set of keys.
THEOREM InsertSearchAllFindsAll == BaseSpec => SearchAllFindsAll
<1>1. ASSUME BagInv, [BaseNext]_vars
      PROVE  [op = "searchAll" /\ op' = "none" => answer' = Stored[k]]_vars
  <2> SUFFICES ASSUME op = "searchAll", op' = "none" PROVE answer' = Stored[k]
    OBVIOUS
  <2>1. ShapeInv /\ OrderInv /\ RoutersStored /\ OpInv /\ SearchAllInv
    BY <1>1 DEF BagInv
  <2>2. fn = "searchAll" /\ k \in Keys
    BY <2>1 DEF OpInv, ShapeInv, InsertInv, CallOK
  <2>3. searchAll /\ fn' # "searchAll"
    <3>1. searchAll
      BY <1>1, <2>1, <2>2, CallSteps DEF Search, SearchAll, Call, search, callVars
    <3> QED BY <3>1, <2>2 DEF searchAll, Return
  <2> QED BY <2>1, <2>2, <2>3, SearchAllStep, StoredSpots DEF Return
<1>2. Init => BagInv
  BY InitBag
<1>3. BagInv /\ [BaseNext]_vars => BagInv'
  BY BagStep
<1> QED BY <1>1, <1>2, <1>3, PTL DEF BaseSpec, SearchAllFindsAll

\* search() answers whether the key is stored, for every order and set of keys: as long
\* as nothing is removed the routers of a B+-tree do not mislead it.
THEOREM InsertSearchFindsStored == BaseSpec => SearchFindsStored
<1>1. ASSUME BagInv, [BaseNext]_vars
      PROVE  [op = "search" /\ op' = "none" => (answer' = 1 <=> Stored[k] > 0)]_vars
  <2> SUFFICES ASSUME op = "search", op' = "none" PROVE answer' = 1 <=> Stored[k] > 0
    OBVIOUS
  <2>1. ShapeInv /\ OrderInv /\ RoutersStored /\ OpInv /\ SearchInv
    BY <1>1 DEF BagInv
  <2>2. fn = "search" /\ k \in Keys
    BY <2>1 DEF OpInv, ShapeInv, InsertInv, CallOK
  <2>3. search /\ fn' # "search"
    <3>1. search
      BY <1>1, <2>1, <2>2, CallSteps DEF Search, SearchAll, Call, searchAll, callVars
    <3> QED BY <3>1, <2>2 DEF search, Return, Continue
  <2>4. answer' = Answer(k)
    BY <2>1, <2>3, SearchStep DEF Return
  <2> QED BY <2>1, <2>2, <2>4, StoredSpots
<1>2. Init => BagInv
  BY InitBag
<1>3. BagInv /\ [BaseNext]_vars => BagInv'
  BY BagStep
<1> QED BY <1>1, <1>2, <1>3, PTL DEF BaseSpec, SearchFindsStored
===============================================================================
