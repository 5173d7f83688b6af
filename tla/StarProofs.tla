------------------------------ MODULE StarProofs ------------------------------
(***************************************************************************)
(* Proofs about StarBase, for the B*-tree and the B*+-tree, every order,   *)
(* set of keys and bound: without deletion no call throws or copies keys   *)
(* out of bounds, every page but the root stays two thirds full, the tree  *)
(* is balanced and every page of the file has exactly one owner.           *)
(*                                                                         *)
(* Sharing lays two neighbours out as one page and cuts it again.  The     *)
(* halves are pages only if both neighbours are leaves or none is, and the *)
(* writes hit three different pages only if no cursor leads to a page      *)
(* twice: the bounds on the keys need the shape of the whole tree.         *)
(***************************************************************************)
EXTENDS StarBase, TreeLemmas

-------------------------------------------------------------------------------
(* The numbers of setOrder(). *)

\* The least number of keys lies well below the greatest, and three pages made of
\* two full ones have numbers between them.
LEMMA StarBounds ==
    /\ MinKeys \in Nat /\ MaxKeys \in Nat /\ MinKeys >= 2 /\ MinKeys + 1 < MaxKeys
    /\ MaxRootKeys = 2 * MinKeys + 1 /\ MaxKeys <= MaxRootKeys
    /\ LeftProduct \in Nat /\ MiddleProduct \in Nat /\ RightProduct \in Nat
    /\ LeftProduct >= MinKeys /\ LeftProduct < MaxKeys
    /\ MiddleProduct >= MinKeys /\ MiddleProduct + 1 < MaxKeys
    /\ RightProduct = MinKeys + 1 /\ RightProduct < MaxKeys
    /\ LeftProduct + MiddleProduct + RightProduct = 2 * MaxKeys - 1
<1>1. Order \in Nat /\ Order >= 4
  BY OrderAssumption, StarAssumption
<1>2. PICK q \in Nat, e \in 0..2 : Order = 3 * q + e
  <2>1. Order = 3 * (Order \div 3) + (Order % 3) /\ Order % 3 \in 0..2 /\ Order \div 3 \in Nat
    BY <1>1
  <2> QED BY <2>1
<1>3. CASE e = 0
  <2>1. /\ (2 * Order - 2) \div 3 = 2 * q - 1 /\ (2 * Order - 1) \div 3 = 2 * q - 1
        /\ (2 * Order) \div 3 = 2 * q /\ (2 * Order + 1) \div 3 = 2 * q /\ Order = 3 * q
    BY <1>1, <1>2, <1>3
  <2> QED BY <1>1, <1>2, <2>1
          DEF MinKeys, MaxKeys, MaxRootKeys, LeftProduct, MiddleProduct, RightProduct
<1>4. CASE e = 1
  <2>1. /\ (2 * Order - 2) \div 3 = 2 * q /\ (2 * Order - 1) \div 3 = 2 * q
        /\ (2 * Order) \div 3 = 2 * q /\ (2 * Order + 1) \div 3 = 2 * q + 1
        /\ Order = 3 * q + 1
    BY <1>1, <1>2, <1>4
  <2> QED BY <1>1, <1>2, <2>1
          DEF MinKeys, MaxKeys, MaxRootKeys, LeftProduct, MiddleProduct, RightProduct
<1>5. CASE e = 2
  <2>1. /\ (2 * Order - 2) \div 3 = 2 * q /\ (2 * Order - 1) \div 3 = 2 * q + 1
        /\ (2 * Order) \div 3 = 2 * q + 1 /\ (2 * Order + 1) \div 3 = 2 * q + 1
        /\ Order = 3 * q + 2
    BY <1>1, <1>2, <1>5
  <2> QED BY <1>1, <1>2, <2>1
          DEF MinKeys, MaxKeys, MaxRootKeys, LeftProduct, MiddleProduct, RightProduct
<1> QED BY <1>3, <1>4, <1>5, <1>2

\* A full page and a neighbour that is not full share their keys: the neighbour gets
\* more than it had, and becomes full only if it lacked one key.
LEMMA ShareBounds ==
    ASSUME NEW m \in Nat, NEW s \in Nat, s < m, NEW d, d = (m + s + 1) \div 2
    PROVE  /\ d \in Nat /\ d > s /\ d <= m /\ m + s - d \in Nat
           /\ m + s - d < m /\ m + s - d >= s
           /\ d = m => s = m - 1 /\ d - s = 1
<1>1. 2 * d <= m + s + 1 /\ m + s + 1 <= 2 * d + 1 /\ d \in Int
  OBVIOUS
<1> QED BY <1>1

-------------------------------------------------------------------------------
(* Pages that are laid out as one and cut again. *)

\* Page p has one cursor more than keys, or none if it is a leaf, and no two of them
\* lead to the same page.
Formed(p) ==
    /\ p \in Page
    /\ Len(p.cursors) = IF p.leaf THEN 0 ELSE Len(p.keys) + 1
    /\ OneCursorEach(p)

\* The kinds of the parts of a page.
LEMMA FormedTypes ==
    ASSUME NEW p, Formed(p)
    PROVE  /\ p \in Page /\ p.leaf \in BOOLEAN /\ p.keys \in Seq(Keys) /\ p.keys \in Seq(Int)
           /\ p.cursors \in Seq(Nat) /\ p.cursors \in Seq(Int)
           /\ Len(p.keys) \in Nat /\ Len(p.cursors) \in Nat
           /\ Gap(p) \in {0, 1} /\ (~p.leaf => Gap(p) = 1)
<1>1. p.keys \in Seq(Keys) /\ p.leaf \in BOOLEAN /\ p.cursors \in Seq(Nat) /\ p \in Page
  BY DEF Formed, Page
<1>2. p.keys \in Seq(Int)
  BY <1>1, KeysAssumption, SeqMonotonic
<1>3. p.cursors \in Seq(Int)
  <2>1. Nat \subseteq Int
    OBVIOUS
  <2> QED BY <1>1, <2>1, SeqMonotonic
<1> QED BY <1>1, <1>2, <1>3, LenProperties DEF Gap

\* The children of page p from cursor a to cursor b.
KidsFrom(p, a, b) == {p.cursors[j] : j \in a..b}

\* Page q is n keys of page p from position first on, with the cursors around them.
IsCut(q, p, first, n) ==
    /\ Formed(q) /\ q.leaf = p.leaf
    /\ Len(q.keys) = n
    /\ \A j \in 1..n : q.keys[j] = p.keys[first + j - 1]
    /\ ~p.leaf => \A j \in 1..n + 1 : q.cursors[j] = p.cursors[first + j - 1]
    /\ Kids(q) = IF p.leaf THEN {} ELSE KidsFrom(p, first, first + n)

\* That is what Cut() makes.
LEMMA CutIs ==
    ASSUME NEW p, Formed(p), NEW first \in Nat \ {0}, NEW n \in Nat,
           first + n <= Len(p.keys) + 1, NEW q, q = Cut(p, first, n)
    PROVE  IsCut(q, p, first, n)
<1> DEFINE ks == SubSeq(p.keys, first, first + n - 1)
           sub == SubSeq(p.cursors, first, first + n)
           cs == IF p.leaf THEN <<>> ELSE sub
<1>1. /\ p \in Page /\ p.leaf \in BOOLEAN /\ p.keys \in Seq(Keys) /\ p.keys \in Seq(Int)
      /\ p.cursors \in Seq(Nat) /\ p.cursors \in Seq(Int)
      /\ Len(p.keys) \in Nat /\ Len(p.cursors) \in Nat
      /\ Len(p.cursors) = IF p.leaf THEN 0 ELSE Len(p.keys) + 1
  BY FormedTypes DEF Formed
<1>2. /\ first + n - 1 \in Nat /\ first + n = first + n - 1 + 1
      /\ first + n - 1 <= Len(p.keys)
      /\ first + n \in Nat /\ n + 1 \in Nat /\ first + (n + 1) = first + n + 1
      /\ (~p.leaf => first + n <= Len(p.cursors))
  BY <1>1
<1>3. ks \in Seq(Keys) /\ Len(ks) = n /\ \A j \in 1..n : ks[j] = p.keys[first + j - 1]
  <2>1. ks \in Seq(Keys)
    BY ONLY <1>1, <1>2, first \in Nat \ {0}, n \in Nat, SubSeqIn
  <2>2. Len(ks) = n /\ \A j \in 1..n : ks[j] = p.keys[first + j - 1]
    BY ONLY <1>1, <1>2, first \in Nat \ {0}, n \in Nat, SubSeqElements
  <2> QED BY <2>1, <2>2
<1>4. ~p.leaf => /\ sub \in Seq(Nat) /\ Len(sub) = n + 1
                 /\ \A j \in 1..n + 1 : sub[j] = p.cursors[first + j - 1]
  <2> SUFFICES ASSUME ~p.leaf
               PROVE  /\ sub \in Seq(Nat) /\ Len(sub) = n + 1
                      /\ \A j \in 1..n + 1 : sub[j] = p.cursors[first + j - 1]
    OBVIOUS
  <2>1. sub \in Seq(Nat)
    BY ONLY <1>1, <1>2, ~p.leaf, first \in Nat \ {0}, n \in Nat, SubSeqIn
  <2>2. Len(sub) = n + 1 /\ \A j \in 1..n + 1 : sub[j] = p.cursors[first + j - 1]
    BY ONLY <1>1, <1>2, ~p.leaf, first \in Nat \ {0}, n \in Nat, SubSeqElements
  <2> QED BY <2>1, <2>2
<1>5. q = [p EXCEPT !.keys = ks, !.cursors = cs]
  BY DEF Cut
<1> HIDE DEF ks, sub
<1>6. cs \in Seq(Nat) /\ Len(cs) = IF p.leaf THEN 0 ELSE n + 1
  BY <1>4, EmptySeq
<1>7. q \in Page /\ q.keys = ks /\ q.cursors = cs /\ q.leaf = p.leaf
  BY <1>1, <1>3, <1>5, <1>6 DEF Page
<1>8. CASE p.leaf
  <2>1. Len(q.cursors) = 0
    BY <1>6, <1>7, <1>8
  <2>2. Kids(q) = {} /\ OneCursorEach(q)
    BY <2>1 DEF Kids, OneCursorEach
  <2> QED BY <1>3, <1>7, <1>8, <2>1, <2>2 DEF IsCut, Formed
<1>9. CASE ~p.leaf
  <2>1. /\ Len(q.cursors) = n + 1
        /\ \A j \in 1..n + 1 : q.cursors[j] = p.cursors[first + j - 1]
    BY <1>4, <1>7, <1>9
  <2>2. \A j \in 1..n + 1 : first + j - 1 \in first..first + n
    OBVIOUS
  <2>3. \A l \in first..first + n : l - first + 1 \in 1..n + 1 /\ first + (l - first + 1) - 1 = l
    OBVIOUS
  <2>4. Kids(q) = KidsFrom(p, first, first + n)
    <3> DEFINE K == KidsFrom(p, first, first + n)
    <3>1. ASSUME NEW x \in Kids(q) PROVE x \in K
      <4>1. PICK j \in 1..n + 1 : x = q.cursors[j]
        BY <2>1, <3>1 DEF Kids
      <4> QED BY <2>1, <2>2, <4>1 DEF KidsFrom
    <3>2. ASSUME NEW x \in K PROVE x \in Kids(q)
      <4>1. PICK l \in first..first + n : x = p.cursors[l]
        BY <3>2 DEF KidsFrom
      <4>2. q.cursors[l - first + 1] = p.cursors[l]
        BY <2>1, <2>3, <4>1
      <4> QED BY <2>1, <2>3, <4>1, <4>2 DEF Kids
    <3> HIDE DEF K
    <3>3. Kids(q) = K
      BY <3>1, <3>2
    <3> QED BY <3>3 DEF K
  <2>5. OneCursorEach(q)
    <3> SUFFICES ASSUME NEW i \in 1..n + 1, NEW j \in 1..n + 1, q.cursors[i] = q.cursors[j]
                 PROVE  i = j
      BY <2>1 DEF OneCursorEach
    <3>1. first + i - 1 \in 1..Len(p.cursors) /\ first + j - 1 \in 1..Len(p.cursors)
      BY <1>1, <1>2, <1>9
    <3>3. p.cursors[first + i - 1] = p.cursors[first + j - 1]
      BY <2>1
    <3>2. first + i - 1 = first + j - 1
      BY <3>1, <3>3 DEF Formed, OneCursorEach
    <3> QED BY <3>2
  <2> QED BY <1>3, <1>6, <1>7, <1>9, <2>1, <2>4, <2>5 DEF IsCut, Formed
<1> QED BY <1>8, <1>9

\* Page p is the layout of pages l and r with the key x between them.
IsJoined(p, l, x, r) ==
    /\ Formed(p) /\ p.leaf = l.leaf /\ Gap(p) = Gap(l)
    /\ Len(p.keys) = Len(l.keys) + Gap(l) + Len(r.keys)
    /\ Kids(p) = Kids(l) \cup Kids(r)
    /\ \A j \in 1..Len(l.keys) : p.keys[j] = l.keys[j]
    /\ Gap(l) = 1 => p.keys[Len(l.keys) + 1] = x
    /\ \A j \in 1..Len(r.keys) : p.keys[Len(l.keys) + Gap(l) + j] = r.keys[j]
    /\ \A j \in 1..Len(l.cursors) : p.cursors[j] = l.cursors[j]
    /\ \A j \in 1..Len(r.cursors) : p.cursors[Len(l.cursors) + j] = r.cursors[j]

\* That is what Joined() makes of two neighbours of the same kind.
LEMMA JoinedIs ==
    ASSUME NEW l, Formed(l), NEW r, Formed(r), l.leaf = r.leaf, Kids(l) \cap Kids(r) = {},
           NEW x \in Keys, NEW p, p = Joined(l, x, r)
    PROVE  IsJoined(p, l, x, r)
<1>1. /\ l \in Page /\ l.leaf \in BOOLEAN /\ l.keys \in Seq(Keys) /\ l.cursors \in Seq(Nat)
      /\ r.keys \in Seq(Keys) /\ r.cursors \in Seq(Nat)
  BY FormedTypes
<1>2. PICK m, n, b, c, g : m = Len(l.keys) /\ n = Len(r.keys) /\ b = Len(l.cursors)
                           /\ c = Len(r.cursors) /\ g = Gap(l)
  OBVIOUS
<1>3. /\ m \in Nat /\ n \in Nat /\ b \in Nat /\ c \in Nat /\ g \in {0, 1} /\ (~l.leaf => g = 1)
      /\ b = (IF l.leaf THEN 0 ELSE m + 1) /\ c = (IF l.leaf THEN 0 ELSE n + 1)
  BY <1>2, FormedTypes DEF Formed
<1>4. PICK a : a = IF g = 0 THEN l.keys ELSE Append(l.keys, x)
  OBVIOUS
<1>5. /\ a \in Seq(Keys) /\ Len(a) = m + g /\ (\A j \in 1..m : a[j] = l.keys[j])
      /\ (g = 1 => a[m + 1] = x)
  <2>1. CASE g = 0
    BY <1>1, <1>2, <1>3, <1>4, <2>1
  <2>2. CASE g = 1
    <3>1. a = Append(l.keys, x)
      BY <1>4, <2>2
    <3> QED BY <1>1, <1>2, <1>3, <2>2, <3>1, AppendProperties
  <2> QED BY <1>3, <2>1, <2>2
<1>6. PICK ks, cs : ks = a \o r.keys /\ cs = l.cursors \o r.cursors
  OBVIOUS
<1>7. /\ ks \in Seq(Keys) /\ Len(ks) = m + g + n
      /\ \A j \in 1..m + g + n : ks[j] = IF j <= m + g THEN a[j] ELSE r.keys[j - (m + g)]
  <2>1. /\ a \o r.keys \in Seq(Keys) /\ Len(a \o r.keys) = Len(a) + Len(r.keys)
        /\ \A j \in 1..Len(a) + Len(r.keys) :
              (a \o r.keys)[j] = IF j <= Len(a) THEN a[j] ELSE r.keys[j - Len(a)]
    BY ONLY <1>1, <1>5, ConcatProperties, Zenon
  <2>2. Len(a) = m + g /\ Len(r.keys) = n
    BY ONLY <1>2, <1>5
  <2> QED BY ONLY <1>6, <2>1, <2>2, Zenon
<1>8. /\ cs \in Seq(Nat) /\ Len(cs) = b + c
      /\ \A j \in 1..b + c : cs[j] = IF j <= b THEN l.cursors[j] ELSE r.cursors[j - b]
  <2>1. /\ l.cursors \o r.cursors \in Seq(Nat)
        /\ Len(l.cursors \o r.cursors) = Len(l.cursors) + Len(r.cursors)
        /\ \A j \in 1..Len(l.cursors) + Len(r.cursors) :
              (l.cursors \o r.cursors)[j] = IF j <= Len(l.cursors) THEN l.cursors[j]
                                            ELSE r.cursors[j - Len(l.cursors)]
    BY ONLY <1>1, ConcatProperties, Zenon
  <2> QED BY ONLY <1>2, <1>6, <2>1, Zenon
<1>9. /\ \A j \in 1..m : ks[j] = l.keys[j]
      /\ g = 1 => ks[m + 1] = x
      /\ \A j \in 1..n : ks[m + g + j] = r.keys[j]
  <2>1. \A j \in 1..m : j \in 1..m + g + n /\ j <= m + g
    BY ONLY <1>3
  <2>2. g = 1 => m + 1 \in 1..m + g + n /\ m + 1 <= m + g
    BY ONLY <1>3
  <2>3. \A j \in 1..n : m + g + j \in 1..m + g + n /\ ~(m + g + j <= m + g)
                        /\ m + g + j - (m + g) = j
    BY ONLY <1>3
  <2> QED BY ONLY <1>5, <1>7, <2>1, <2>2, <2>3
<1>10. /\ \A j \in 1..b : cs[j] = l.cursors[j]
       /\ \A j \in 1..c : cs[b + j] = r.cursors[j]
  <2>1. \A j \in 1..b : j \in 1..b + c /\ j <= b
    BY ONLY <1>3
  <2>2. \A j \in 1..c : b + j \in 1..b + c /\ ~(b + j <= b) /\ b + j - b = j
    BY ONLY <1>3
  <2>3. \A j \in 1..b : cs[j] = l.cursors[j]
    BY ONLY <1>8, <2>1
  <2>4. \A j \in 1..c : cs[b + j] = r.cursors[j]
    <3> TAKE j \in 1..c
    <3>1. b + j \in 1..b + c /\ ~(b + j <= b) /\ b + j - b = j
      BY ONLY <2>2, j \in 1..c
    <3>2. PICK e : e = b + j
      OBVIOUS
    <3>3. cs[e] = r.cursors[e - b]
      BY ONLY <1>8, <3>1, <3>2
    <3>4. e - b = j
      BY ONLY <1>3, <3>2
    <3>5. cs[e] = r.cursors[j]
      BY ONLY <3>3, <3>4, Zenon
    <3> QED BY ONLY <3>2, <3>5, Zenon
  <2> QED BY <2>3, <2>4
<1>11. p = [l EXCEPT !.keys = ks, !.cursors = cs]
  BY <1>2, <1>4, <1>6 DEF Joined
<1>12. p \in Page /\ p.keys = ks /\ p.cursors = cs /\ p.leaf = l.leaf
  BY ONLY <1>1, <1>7, <1>8, <1>11 DEF Page
<1>13. Gap(p) = g
  BY <1>2, <1>12 DEF Gap
<1>14. /\ \A y : y \in Kids(l) <=> \E j \in 1..b : y = l.cursors[j]
       /\ \A y : y \in Kids(r) <=> \E j \in 1..c : y = r.cursors[j]
       /\ \A y : y \in Kids(p) <=> \E j \in 1..b + c : y = cs[j]
  BY ONLY <1>2, <1>8, <1>12 DEF Kids
<1>15. \A j \in 1..b + c : \/ j \in 1..b /\ cs[j] = l.cursors[j] /\ cs[j] \in Kids(l)
                           \/ /\ j - b \in 1..c /\ cs[j] = r.cursors[j - b]
                              /\ cs[j] \in Kids(r)
  <2> TAKE j \in 1..b + c
  <2>1. j \in 1..b \/ (j - b \in 1..c /\ ~(j <= b))
    BY ONLY <1>3, j \in 1..b + c
  <2>2. CASE j \in 1..b
    BY ONLY <1>10, <1>14, <2>2
  <2>3. CASE j - b \in 1..c /\ ~(j <= b)
    BY ONLY <1>8, <1>14, <2>3, j \in 1..b + c
  <2> QED BY ONLY <2>1, <2>2, <2>3
<1>16. Kids(p) = Kids(l) \cup Kids(r)
  <2>1. ASSUME NEW y \in Kids(p) PROVE y \in Kids(l) \cup Kids(r)
    BY ONLY <1>14, <1>15, <2>1
  <2>2. ASSUME NEW y \in Kids(l) PROVE y \in Kids(p)
    <3>1. PICK j \in 1..b : y = l.cursors[j]
      BY ONLY <1>14, <2>2
    <3>2. j \in 1..b + c /\ y = cs[j]
      BY ONLY <1>3, <1>10, <3>1
    <3> QED BY ONLY <1>14, <3>2
  <2>3. ASSUME NEW y \in Kids(r) PROVE y \in Kids(p)
    <3>1. PICK j \in 1..c : y = r.cursors[j]
      BY ONLY <1>14, <2>3
    <3>2. b + j \in 1..b + c /\ y = cs[b + j]
      BY ONLY <1>3, <1>10, <3>1
    <3> QED BY ONLY <1>14, <3>2
  <2> QED BY ONLY <2>1, <2>2, <2>3
<1>17. OneCursorEach(p)
  <2>1. /\ \A i, j \in 1..b : l.cursors[i] = l.cursors[j] => i = j
        /\ \A i, j \in 1..c : r.cursors[i] = r.cursors[j] => i = j
    BY <1>2 DEF Formed, OneCursorEach
  <2>2. \A y : ~(y \in Kids(l) /\ y \in Kids(r))
    OBVIOUS
  <2>3. ASSUME NEW i \in 1..b + c, NEW j \in 1..b + c, cs[i] = cs[j]
        PROVE  i = j
    <3>1. CASE i \in 1..b /\ j \in 1..b /\ cs[i] = l.cursors[i] /\ cs[j] = l.cursors[j]
      BY ONLY <2>1, <2>3, <3>1
    <3>2. CASE /\ i - b \in 1..c /\ cs[i] = r.cursors[i - b]
               /\ j - b \in 1..c /\ cs[j] = r.cursors[j - b]
      <4>1. i - b = j - b
        BY ONLY <2>1, <2>3, <3>2
      <4> QED BY ONLY <1>3, <4>1, i \in 1..b + c, j \in 1..b + c
    <3> QED BY ONLY <1>15, <2>2, <2>3, <3>1, <3>2, i \in 1..b + c, j \in 1..b + c
  <2> QED BY ONLY <1>8, <1>12, <2>3 DEF OneCursorEach
<1>18. Formed(p)
  <2>1. Len(cs) = IF l.leaf THEN 0 ELSE Len(ks) + 1
    BY ONLY <1>1, <1>3, <1>7, <1>8
  <2> QED BY ONLY <1>12, <1>17, <2>1 DEF Formed
<1> QED BY ONLY <1>2, <1>7, <1>9, <1>10, <1>12, <1>13, <1>16, <1>18 DEF IsJoined

\* Neighbouring stretches of cursors make one stretch.
LEMMA KidsFromJoin ==
    ASSUME NEW p, NEW a \in Int, NEW b \in Int, NEW c \in Int, a <= b + 1, b <= c
    PROVE  KidsFrom(p, a, b) \cup KidsFrom(p, b + 1, c) = KidsFrom(p, a, c)
<1>1. \A j : j \in a..c <=> j \in a..b \/ j \in b + 1..c
  OBVIOUS
<1> QED BY <1>1 DEF KidsFrom

\* Stretches of cursors that do not overlap have no child in common.
LEMMA KidsFromApart ==
    ASSUME NEW p, OneCursorEach(p), Len(p.cursors) \in Nat,
           NEW a \in Int, NEW b \in Int, NEW c \in Int, NEW d \in Int,
           1 <= a, b < c, b <= Len(p.cursors), 1 <= c, d <= Len(p.cursors)
    PROVE  KidsFrom(p, a, b) \cap KidsFrom(p, c, d) = {}
<1> SUFFICES ASSUME NEW i \in a..b, NEW j \in c..d, p.cursors[i] = p.cursors[j]
             PROVE  FALSE
  BY DEF KidsFrom
<1>1. i \in 1..Len(p.cursors) /\ j \in 1..Len(p.cursors) /\ i # j
  OBVIOUS
<1> QED BY <1>1 DEF OneCursorEach

\* The children of an inner page.
LEMMA KidsAll ==
    ASSUME NEW p, Formed(p), ~p.leaf
    PROVE  Kids(p) = KidsFrom(p, 1, Len(p.keys) + 1)
  BY DEF Formed, Kids, KidsFrom

\* Pages l and r are page p cut after n keys.
InTwo(l, r, p, n) ==
    /\ IsCut(l, p, 1, n) /\ IsCut(r, p, n + Gap(p) + 1, Len(p.keys) - n - Gap(p))
    /\ Halves(l, r, p)
    /\ n + Gap(p) \in 1..Len(p.keys) => MedianOf(p, n) \in Keys

\* That is what LeftOf() and RightOf() make.
LEMMA CutInTwo ==
    ASSUME NEW p, Formed(p), NEW n \in Nat, n + Gap(p) <= Len(p.keys)
    PROVE  InTwo(LeftOf(p, n), RightOf(p, n), p, n)
<1>1. PICK L, g, l, r, f, u : L = Len(p.keys) /\ g = Gap(p) /\ l = LeftOf(p, n)
                              /\ r = RightOf(p, n) /\ f = n + g + 1 /\ u = L - n - g
  OBVIOUS
<1>2. /\ L \in Nat /\ g \in {0, 1} /\ (~p.leaf => g = 1) /\ p.keys \in Seq(Keys)
      /\ p.leaf \in BOOLEAN /\ OneCursorEach(p) /\ Len(p.cursors) \in Nat
      /\ Len(p.cursors) = IF p.leaf THEN 0 ELSE L + 1
  BY <1>1, FormedTypes DEF Formed
<1>3. /\ f \in Nat \ {0} /\ u \in Nat /\ f + u <= L + 1 /\ 1 + n <= L + 1
      /\ 1 \in Nat \ {0} /\ f + u = L + 1
  <2>1. n + g <= L
    BY <1>1
  <2>2. f = n + g + 1 /\ u = L - n - g
    BY <1>1
  <2> QED BY ONLY <1>2, <2>1, <2>2, n \in Nat
<1>4. IsCut(l, p, 1, n)
  <2>1. l = Cut(p, 1, n)
    BY <1>1 DEF LeftOf
  <2> QED BY <1>1, <1>3, <2>1, CutIs
<1>5. IsCut(r, p, f, u)
  <2>1. r = Cut(p, f, u)
    BY <1>1 DEF RightOf
  <2> QED BY <1>1, <1>3, <2>1, CutIs
<1>6. /\ OneCursorEach(l) /\ OneCursorEach(r) /\ l.leaf = p.leaf /\ r.leaf = p.leaf
      /\ Kids(l) = (IF p.leaf THEN {} ELSE KidsFrom(p, 1, 1 + n))
      /\ Kids(r) = (IF p.leaf THEN {} ELSE KidsFrom(p, f, f + u))
  BY <1>4, <1>5 DEF IsCut, Formed
<1>7. Kids(l) \cup Kids(r) = Kids(p) /\ Kids(l) \cap Kids(r) = {}
  <2>1. CASE p.leaf
    <3>1. Kids(p) = {}
      BY <1>2, <2>1 DEF Kids
    <3> QED BY <1>6, <2>1, <3>1
  <2>2. CASE ~p.leaf
    <3>1. f = 1 + n + 1 /\ f + u = L + 1
      BY <1>1, <1>2, <1>3, <2>2
    <3>2. KidsFrom(p, 1, 1 + n) \cup KidsFrom(p, 1 + n + 1, L + 1) = KidsFrom(p, 1, L + 1)
      <4>1. 1 + n \in Int /\ L + 1 \in Int /\ 1 <= 1 + n + 1 /\ 1 + n <= L + 1
        BY <1>2, <1>3
      <4> QED BY ONLY <4>1, KidsFromJoin
    <3>3. KidsFrom(p, 1, 1 + n) \cap KidsFrom(p, f, L + 1) = {}
      <4>1. /\ 1 \in Int /\ 1 + n \in Int /\ L + 1 \in Int /\ f \in Int /\ 1 <= 1
            /\ 1 + n < f /\ 1 + n <= Len(p.cursors) /\ 1 <= f /\ L + 1 <= Len(p.cursors)
        BY <1>2, <1>3, <2>2, <3>1
      <4> QED BY ONLY <1>2, <4>1, KidsFromApart, Zenon
    <3>4. Kids(p) = KidsFrom(p, 1, L + 1)
      BY <1>1, <2>2, KidsAll
    <3> QED BY <1>6, <2>2, <3>1, <3>2, <3>3, <3>4
  <2> QED BY <2>1, <2>2
<1>8. n + g \in 1..L => MedianOf(p, n) \in Keys
  <2> SUFFICES ASSUME n + g \in 1..L PROVE p.keys[n + g] \in Keys
    BY <1>1 DEF MedianOf
  <2> QED BY <1>1, <1>2, ElementOfSeq
<1>9. Halves(l, r, p)
  BY <1>6, <1>7 DEF Halves
<1> QED BY ONLY <1>1, <1>4, <1>5, <1>8, <1>9 DEF InTwo

\* Pages l, m and r, with a, b and c keys, are page p cut twice.
InThree(l, m, r, p, a, b, c) ==
    /\ Formed(l) /\ Formed(m) /\ Formed(r)
    /\ Len(l.keys) = a /\ Len(m.keys) = b /\ Len(r.keys) = c
    /\ l.leaf = p.leaf /\ m.leaf = p.leaf /\ r.leaf = p.leaf
    /\ Kids(l) \cup Kids(m) \cup Kids(r) = Kids(p)
    /\ Kids(l) \cap Kids(m) = {} /\ Kids(l) \cap Kids(r) = {} /\ Kids(m) \cap Kids(r) = {}

\* That is what the three calls of Cut() make.
LEMMA CutInThree ==
    ASSUME NEW p, Formed(p), NEW a \in Nat, NEW b \in Nat, NEW c \in Nat, a >= 1, b >= 1,
           NEW f, f = a + Gap(p) + 1, NEW e, e = f + b + Gap(p), e + c = Len(p.keys) + 1,
           NEW l, l = Cut(p, 1, a), NEW m, m = Cut(p, f, b), NEW r, r = Cut(p, e, c)
    PROVE  InThree(l, m, r, p, a, b, c)
<1>1. PICK L, g : L = Len(p.keys) /\ g = Gap(p)
  OBVIOUS
<1>2. /\ L \in Nat /\ g \in {0, 1} /\ (~p.leaf => g = 1) /\ p.keys \in Seq(Keys)
      /\ p.leaf \in BOOLEAN /\ OneCursorEach(p) /\ Len(p.cursors) \in Nat
      /\ Len(p.cursors) = IF p.leaf THEN 0 ELSE L + 1
  BY <1>1, FormedTypes DEF Formed
<1>3. f = a + g + 1 /\ e = f + b + g /\ e + c = L + 1
  BY <1>1
<1>4. /\ f \in Nat \ {0} /\ e \in Nat \ {0} /\ f + b <= L + 1 /\ 1 + a <= L + 1
      /\ e + c <= L + 1 /\ 1 \in Nat \ {0}
  BY ONLY <1>2, <1>3, a \in Nat, b \in Nat, c \in Nat, a >= 1, b >= 1
<1>5. IsCut(l, p, 1, a)
  BY <1>1, <1>4, CutIs
<1>6. IsCut(m, p, f, b)
  BY <1>1, <1>4, CutIs
<1>7. IsCut(r, p, e, c)
  BY <1>1, <1>4, CutIs
<1>8. /\ Formed(l) /\ Formed(m) /\ Formed(r)
      /\ Len(l.keys) = a /\ Len(m.keys) = b /\ Len(r.keys) = c
      /\ l.leaf = p.leaf /\ m.leaf = p.leaf /\ r.leaf = p.leaf
      /\ Kids(l) = (IF p.leaf THEN {} ELSE KidsFrom(p, 1, 1 + a))
      /\ Kids(m) = (IF p.leaf THEN {} ELSE KidsFrom(p, f, f + b))
      /\ Kids(r) = (IF p.leaf THEN {} ELSE KidsFrom(p, e, e + c))
  BY <1>5, <1>6, <1>7 DEF IsCut
<1>9. CASE p.leaf
  <2>1. Kids(p) = {}
    BY <1>2, <1>9 DEF Kids
  <2> QED BY <1>8, <1>9, <2>1 DEF InThree
<1>10. CASE ~p.leaf
  <2>1. /\ f = 1 + a + 1 /\ e = f + b + 1 /\ e + c = L + 1 /\ L + 1 = Len(p.cursors)
        /\ 1 + a \in Int /\ f + b \in Int /\ f \in Int /\ e \in Int /\ L + 1 \in Int
        /\ 1 <= 1 + a + 1 /\ 1 + a <= L + 1 /\ 1 <= f + b + 1 /\ f <= f + b + 1
        /\ f + b <= L + 1 /\ 1 + a < f /\ f + b < e /\ 1 + a < e /\ 1 <= f /\ 1 <= e
        /\ 1 + a <= f + b /\ e + c \in Int /\ e + c <= L + 1
    BY ONLY <1>2, <1>3, <1>4, <1>10, a \in Nat, b \in Nat, c \in Nat
  <2>2. KidsFrom(p, 1, 1 + a) \cup KidsFrom(p, f, f + b) = KidsFrom(p, 1, f + b)
    BY ONLY <2>1, KidsFromJoin
  <2>3. KidsFrom(p, 1, f + b) \cup KidsFrom(p, e, e + c) = KidsFrom(p, 1, L + 1)
    <3>1. PICK d : d = f + b
      OBVIOUS
    <3>2. d \in Int /\ L + 1 \in Int /\ 1 <= d + 1 /\ d <= L + 1 /\ e = d + 1
      BY ONLY <2>1, <3>1
    <3>3. KidsFrom(p, 1, d) \cup KidsFrom(p, d + 1, L + 1) = KidsFrom(p, 1, L + 1)
      BY ONLY <3>2, KidsFromJoin
    <3> QED BY <2>1, <3>1, <3>2, <3>3
  <2>4. KidsFrom(p, 1, 1 + a) \cap KidsFrom(p, f, f + b) = {}
    BY ONLY <1>2, <2>1, KidsFromApart
  <2>5. KidsFrom(p, 1, 1 + a) \cap KidsFrom(p, e, e + c) = {}
    BY ONLY <1>2, <2>1, KidsFromApart
  <2>6. KidsFrom(p, f, f + b) \cap KidsFrom(p, e, e + c) = {}
    BY ONLY <1>2, <2>1, KidsFromApart
  <2>7. Kids(p) = KidsFrom(p, 1, L + 1)
    BY <1>1, <1>10, KidsAll
  <2> QED BY ONLY <1>8, <1>10, <2>2, <2>3, <2>4, <2>5, <2>6, <2>7 DEF InThree
<1> QED BY <1>9, <1>10

-------------------------------------------------------------------------------
(* The inductive invariant. *)

\* Page p has no more keys than its place allows and, but for the root, no fewer.
Filled(p, root) ==
    /\ Formed(p)
    /\ Len(p.keys) <= IF root THEN MaxRootKeys ELSE MaxKeys
    /\ ~root => Len(p.keys) >= MinKeys
    /\ root /\ ~p.leaf => Len(p.keys) >= 1

AllFilled(ps, r) == \A n \in 1..Len(ps) : Filled(ps[n], n = r)

\* An insertion works on a page that has room for a key.
HasRoom == fn = "insertNonFull" => ~isFull(at) /\ size < MaxSize

StarInv == CoreOK /\ TreeInv /\ AllFilled(pages, rootPageNum) /\ HasRoom

\* The pages of a tree have cursors that lead to its pages.
LEMMA FilledLinks ==
    ASSUME NEW ps, NEW r, NEW h, Heights(ps, r, h), AllFilled(ps, r)
    PROVE  LinksOK(ps, r)
<1>1. \A n \in 1..Len(ps) :
         /\ ps[n] \in Page
         /\ Len(ps[n].cursors) = IF ps[n].leaf THEN 0 ELSE Len(ps[n].keys) + 1
  BY DEF AllFilled, Filled, Formed
<1> QED BY <1>1, HeightsLink

\* createTree() builds such a tree.
LEMMA StarInit == Init => StarInv
<1> SUFFICES ASSUME Init PROVE StarInv
  OBVIOUS
<1>1. /\ pages = <<[leaf |-> TRUE, keys |-> <<>>, cursors |-> <<>>]>> /\ rootPageNum = 1
      /\ rootPage = [leaf |-> TRUE, keys |-> <<>>, cursors |-> <<>>] /\ freePages = <<>>
      /\ size = 0 /\ op = "none" /\ k = NoKey /\ fn = "idle" /\ at = 0
      /\ stack = <<>> /\ answer = 0
  BY DEF Init, RootWrapper
<1>2. rootPage \in Page /\ Len(rootPage.keys) = 0 /\ Len(rootPage.cursors) = 0 /\ rootPage.leaf
  BY <1>1, EmptySeq DEF Page
<1>3. /\ pages \in Seq(Page) /\ Len(pages) = 1 /\ pages[1] = rootPage
      /\ \A n \in 1..Len(pages) : n = 1
  BY <1>1, <1>2
<1>4. AllFilled(pages, rootPageNum)
  <2>1. Formed(rootPage)
    BY <1>2 DEF Formed, OneCursorEach
  <2>2. MaxRootKeys >= 0
    BY StarBounds
  <2>3. Filled(rootPage, TRUE)
    BY <1>2, <2>1, <2>2 DEF Filled
  <2> QED BY <1>1, <1>3, <2>3 DEF AllFilled
<1>5. TreeInv
  BY InitTree
<1>6. LinksOK(pages, rootPageNum)
  BY <1>4, <1>5, FilledLinks DEF TreeInv
<1>7. TypeOK
  <2>1. freePages \in Seq(1..Len(pages)) /\ stack \in Seq(Nat)
    BY <1>1, EmptySeq
  <2> QED BY <1>1, <1>2, <1>3, <2>1, SizeAssumption DEF TypeOK
<1>8. CoreOK
  BY <1>1, <1>3, <1>6, <1>7 DEF CoreOK, CoreCall, RootInMemory
<1> QED BY <1>1, <1>4, <1>5, <1>8 DEF StarInv, HasRoom

\* A step that only reads keeps it.
LEMMA StarReads ==
    ASSUME StarInv, CoreOK', ReadsOnly
    PROVE  StarInv'
<1>1. pages' = pages /\ rootPageNum' = rootPageNum /\ fn' # "insertNonFull"
  BY DEF ReadsOnly, treeVars
<1>2. TreeInv'
  BY <1>1, QuietKeepsTree DEF StarInv
<1> QED BY <1>1, <1>2 DEF StarInv, AllFilled, HasRoom

\* The page an insertion works on, as it is on disk.
LEMMA StarPage ==
    ASSUME StarInv, NEW n, n = PageNum(at)
    PROVE  /\ n \in 1..Len(pages) /\ Data(at) = pages[n] /\ Filled(pages[n], n = rootPageNum)
           /\ pages \in Seq(Page) /\ Len(pages) \in Nat /\ rootPageNum \in 1..Len(pages)
           /\ isRoot(at) = (n = rootPageNum) /\ freePages = <<>>
           /\ (at = RootWrapper) = (n = rootPageNum)
<1>1. n \in 1..Len(pages) /\ Data(at) = pages[n]
  BY WrapperOnDisk DEF StarInv
<1>2. (at = RootWrapper) = (n = rootPageNum)
  BY WrapperOnDisk DEF StarInv
<1> QED BY <1>1, <1>2, LenProperties DEF StarInv, AllFilled, CoreOK, TypeOK, isRoot

\* The numbers of keys of the page an insertion works on.
LEMMA RoomHere ==
    ASSUME StarInv, fn = "insertNonFull", NEW n, n = PageNum(at)
    PROVE  /\ Len(pages[n].keys) \in Nat
           /\ Len(pages[n].keys) + 1 <= IF n = rootPageNum THEN MaxRootKeys ELSE MaxKeys
           /\ Len(pages[n].keys) < Capacity
           /\ ~pages[n].leaf => Len(pages[n].keys) >= 1
<1>1. /\ Data(at) = pages[n] /\ Filled(pages[n], n = rootPageNum)
      /\ isRoot(at) = (n = rootPageNum)
  BY StarPage
<1>2. Len(pages[n].keys) # IF n = rootPageNum THEN MaxRootKeys ELSE MaxKeys
  BY <1>1 DEF StarInv, HasRoom, isFull
<1>3. /\ Len(pages[n].keys) <= (IF n = rootPageNum THEN MaxRootKeys ELSE MaxKeys)
      /\ (n # rootPageNum => Len(pages[n].keys) >= MinKeys)
      /\ (n = rootPageNum /\ ~pages[n].leaf => Len(pages[n].keys) >= 1)
      /\ Len(pages[n].keys) \in Nat
  BY <1>1, FormedTypes DEF Filled
<1> QED BY <1>2, <1>3, StarBounds DEF Capacity

\* The pages of the children of page n have been rearranged, and the insertion goes on
\* with child c of page n, which has room.
LEMMA RoomMade ==
    ASSUME StarInv, fn = "insertNonFull", NEW n, n = PageNum(at), NEW A,
           NEW qs, qs = pages', qs \in Seq(Page), Spread(pages, qs, n, A),
           AllFilled(qs, rootPageNum), rootPageNum' = rootPageNum, freePages' = <<>>,
           rootPage' = IF at = RootWrapper THEN qs[n] ELSE rootPage,
           NEW c \in Kids(qs[n]), Len(qs[c].keys) < MaxKeys, Len(qs[c].keys) \in Nat,
           Continue("insertNonFull", c), UNCHANGED <<size, stack>>
    PROVE  StarInv'
<1> DEFINE r == rootPageNum
<1>1. /\ n \in 1..Len(pages) /\ Len(pages) \in Nat /\ r \in 1..Len(pages)
      /\ (at = RootWrapper) = (n = r)
  BY StarPage
<1>2. PICK h : Heights(pages, r, h)
  BY DEF StarInv, TreeInv
<1>3. Owned(qs, r) /\ \E g : Heights(qs, r, g)
  BY <1>1, <1>2, SpreadKeepsTree DEF StarInv, TreeInv
<1>4. PICK g : Heights(qs, r, g)
  BY <1>3
<1>5. /\ Len(qs) \in Nat /\ Len(qs) >= Len(pages) /\ A \subseteq Kids(pages[n])
      /\ \A m \in (1..Len(pages)) \ (A \cup {n}) : qs[m] = pages[m]
  BY DEF Spread
<1>6. n \in 1..Len(qs) /\ r \in 1..Len(qs)
  BY <1>1, <1>5
<1>7. c \in 1..Len(qs) /\ c # r
  <2>1. /\ g \in [1..Len(qs) -> Nat] /\ c \in 1..Len(qs) /\ g[n] = g[c] + 1
        /\ (n # r => g[n] < g[r])
    BY <1>4, <1>6 DEF Heights
  <2> QED BY <1>6, <2>1
<1>8. r \notin A
  <2>1. \A m \in Kids(pages[n]) : /\ h \in [1..Len(pages) -> Nat] /\ m \in 1..Len(pages)
                                  /\ h[n] = h[m] + 1 /\ (n # r => h[n] < h[r])
    BY <1>1, <1>2 DEF Heights
  <2> QED BY <1>1, <1>5, <2>1
<1>9. RootInMemory'
  <2>1. CASE n = r
    BY <1>1, <2>1 DEF RootInMemory
  <2>2. CASE n # r
    <3>1. qs[r] = pages[r] /\ rootPage' = rootPage /\ rootPage = pages[r]
      BY <1>1, <1>5, <1>8, <2>2 DEF StarInv, CoreOK, RootInMemory
    <3> QED BY <3>1 DEF RootInMemory
  <2> QED BY <2>1, <2>2
<1>10. TreeInv'
  BY <1>3 DEF TreeInv
<1>11. LinksOK(pages, rootPageNum)'
  <2>1. LinksOK(qs, r)
    BY <1>4, FilledLinks
  <2> QED BY <2>1
<1>12. /\ fn' = "insertNonFull" /\ at' = c /\ op' = op /\ k' = k /\ answer' = answer
       /\ size' = size /\ stack' = stack
  BY DEF Continue
<1>13. /\ k \in Keys /\ size < MaxSize /\ rootPage \in Page /\ stack \in Seq(Nat)
       /\ answer \in Nat /\ size \in 0..MaxSize
       /\ op \in {"none", "insert", "search", "searchAll", "remove", "removeAll"}
  BY DEF StarInv, HasRoom, CoreOK, CoreCall, TypeOK
<1>14. CoreCall'
  BY <1>7, <1>12, <1>13 DEF CoreCall
<1>15. TypeOK'
  <2>1. rootPage' \in Page
    BY <1>6, <1>13, ElementOfSeq
  <2>2. freePages' \in Seq(1..Len(pages'))
    BY EmptySeq
  <2>3. at' \in 0..Len(pages')
    BY <1>7, <1>12
  <2> QED BY <1>6, <1>12, <1>13, <2>1, <2>2, <2>3 DEF TypeOK
<1>16. CoreOK'
  BY <1>9, <1>11, <1>14, <1>15 DEF CoreOK
<1>17. HasRoom'
  <2>1. c # 0
    BY <1>7
  <2>2. isFull(at)' = (Len(qs[c].keys) = MaxKeys)
    BY <1>7, <1>12, <2>1 DEF isFull, isRoot, Data, PageNum, RootWrapper
  <2>3. Len(qs[c].keys) # MaxKeys
    BY StarBounds
  <2> QED BY <1>12, <1>13, <2>2, <2>3 DEF HasRoom
<1> QED BY <1>10, <1>16, <1>17 DEF StarInv

\* The insertion goes on with a child that is not full.
LEMMA StarDescend ==
    ASSUME StarInv, fn = "insertNonFull", Descend
    PROVE  StarInv'
<1> DEFINE p == Data(at)
           i == Position(at)
           c == p.cursors[i]
<1>1. ~p.leaf /\ ~isFull(c) /\ Continue(fn, c) /\ UNCHANGED <<treeVars, size, stack>>
  BY DEF Descend
<1>2. i \in 1..Len(p.keys) + 1
  <2>1. p.keys \in Seq(Keys)
    BY StarPage, FormedTypes DEF Filled
  <2> QED BY <2>1, AfterLastNotGreaterRange DEF Position
<1>3. CoreOK'
  BY <1>1, <1>2, TailCall DEF StarInv
<1>4. /\ pages' = pages /\ rootPageNum' = rootPageNum /\ rootPage' = rootPage
      /\ fn' = fn /\ at' = c /\ size' = size
  BY <1>1 DEF treeVars, Continue
<1>5. TreeInv'
  BY <1>4, QuietKeepsTree DEF StarInv
<1> HIDE DEF c
<1>6. isFull(at)' = isFull(c)
  BY <1>4 DEF isFull, isRoot, Data, PageNum
<1> QED BY <1>1, <1>3, <1>4, <1>5, <1>6 DEF StarInv, AllFilled, HasRoom

\* The new key goes into a leaf.
LEMMA StarLeaf ==
    ASSUME StarInv, fn = "insertNonFull", InsertIntoLeaf
    PROVE  StarInv'
<1>1. PICK n : n = PageNum(at)
  OBVIOUS
<1>2. /\ n \in 1..Len(pages) /\ Data(at) = pages[n] /\ Filled(pages[n], n = rootPageNum)
      /\ pages \in Seq(Page) /\ Len(pages) \in Nat /\ rootPageNum \in 1..Len(pages)
      /\ (at = RootWrapper) = (n = rootPageNum) /\ freePages = <<>>
  BY <1>1, StarPage
<1>3. PICK p, ks, q : /\ p = pages[n] /\ ks = InsertAt(p.keys, AfterLastNotGreater(p.keys, k), k)
                      /\ q = [p EXCEPT !.keys = ks]
  OBVIOUS
<1>4. /\ p.leaf /\ pages' = [pages EXCEPT ![n] = q] /\ size' = size + 1 /\ Return(0)
      /\ rootPage' = (IF at = RootWrapper THEN q ELSE rootPage)
      /\ rootPageNum' = rootPageNum /\ freePages' = freePages
  BY <1>1, <1>2, <1>3 DEF InsertIntoLeaf, Write
<1>5. /\ p \in Page /\ p.keys \in Seq(Keys) /\ Formed(p) /\ Len(p.keys) \in Nat
      /\ Filled(p, n = rootPageNum)
  BY <1>2, <1>3, FormedTypes DEF Filled
<1>6. k \in Keys /\ size < MaxSize /\ size \in 0..MaxSize
  BY DEF StarInv, CoreOK, CoreCall, HasRoom, TypeOK
<1>7. ks \in Seq(Keys) /\ Len(ks) = Len(p.keys) + 1
  <2>1. AfterLastNotGreater(p.keys, k) \in 1..Len(p.keys) + 1
    BY <1>5, AfterLastNotGreaterRange
  <2> QED BY ONLY <1>3, <1>5, <1>6, <2>1, InsertAtProperties, Zenon
<1>8. q \in Page /\ q.keys = ks /\ q.leaf = p.leaf /\ q.cursors = p.cursors
  BY <1>3, <1>5, <1>7 DEF Page
<1>9. Kids(q) = Kids(p) /\ (OneCursorEach(q) <=> OneCursorEach(p))
  BY <1>8 DEF Kids, OneCursorEach
<1>10. Filled(q, n = rootPageNum)
  <2>1. Formed(q)
    BY <1>4, <1>5, <1>8, <1>9 DEF Formed
  <2>2. Len(p.keys) + 1 <= IF n = rootPageNum THEN MaxRootKeys ELSE MaxKeys
    BY <1>1, <1>3, RoomHere
  <2> QED BY <1>5, <1>7, <1>8, <2>1, <2>2, StarBounds DEF Filled
<1>11. /\ pages' \in Seq(Page) /\ Len(pages') = Len(pages) /\ pages'[n] = q
       /\ \A m \in 1..Len(pages) : m # n => pages'[m] = pages[m]
  BY <1>2, <1>4, <1>8, ExceptSeq
<1>12. AllFilled(pages', rootPageNum)
  BY <1>10, <1>11 DEF StarInv, AllFilled
<1>13. /\ \A m \in 1..Len(pages) : /\ Kids(pages'[m]) = Kids(pages[m])
                                   /\ pages'[m].leaf = pages[m].leaf
                                   /\ OneCursorEach(pages'[m]) <=> OneCursorEach(pages[m])
  BY <1>3, <1>8, <1>9, <1>11
<1>14. Owned(pages', rootPageNum)
  BY <1>11, <1>13 DEF Owned, StarInv, TreeInv
<1>15. PICK h : Heights(pages, rootPageNum, h)
  BY DEF StarInv, TreeInv
<1>16. Heights(pages', rootPageNum, h)
  BY <1>11, <1>13, <1>15 DEF Heights
<1>17. TreeInv'
  BY <1>4, <1>14, <1>16 DEF TreeInv
<1>18. LinksOK(pages', rootPageNum)
  BY <1>12, <1>16, FilledLinks
<1>19. RootInMemory'
  BY <1>2, <1>4, <1>11 DEF StarInv, CoreOK, RootInMemory
<1>20. CoreCall' /\ fn' = "idle"
  BY <1>2, <1>4, ReturnOK
<1>21. TypeOK'
  <2>1. /\ op' = "none" /\ k' = NoKey /\ at' = 0 /\ stack' = <<>> /\ answer' = 0
    BY <1>4 DEF Return, RootWrapper
  <2>2. stack' \in Seq(Nat) /\ freePages' \in Seq(1..Len(pages')) /\ rootPage' \in Page
    BY <1>2, <1>4, <1>8, <2>1, EmptySeq DEF StarInv, CoreOK, TypeOK
  <2>3. size' \in 0..MaxSize
    BY <1>4, <1>6, SizeAssumption
  <2> QED BY <1>2, <1>4, <1>11, <1>20, <2>1, <2>2, <2>3 DEF TypeOK
<1> QED BY <1>2, <1>4, <1>12, <1>17, <1>18, <1>19, <1>20, <1>21
        DEF StarInv, CoreOK, AllFilled, HasRoom

-------------------------------------------------------------------------------
(* Sharing keys between neighbours. *)

\* Pages m and r are children of page n, next to each other around its key j.
Neighbours(n, j, m, r) ==
    /\ m \in 1..Len(pages) /\ r \in 1..Len(pages) /\ {m, r} \subseteq Kids(pages[n])
    /\ m # n /\ r # n /\ m # r /\ m # rootPageNum /\ r # rootPageNum
    /\ Filled(pages[m], FALSE) /\ Filled(pages[r], FALSE)
    /\ pages[m].leaf = pages[r].leaf
    /\ Kids(pages[m]) \cap Kids(pages[r]) = {}
    /\ pages[n].keys[j] \in Keys

\* The pages under neighbouring cursors are such children, of the same height.
LEMMA AreNeighbours ==
    ASSUME StarInv, NEW n, n = PageNum(at), ~pages[n].leaf, NEW j \in 1..Len(pages[n].keys),
           NEW m, m = pages[n].cursors[j], NEW r, r = pages[n].cursors[j + 1]
    PROVE  Neighbours(n, j, m, r)
<1>1. /\ n \in 1..Len(pages) /\ Data(at) = pages[n] /\ Formed(pages[n])
      /\ pages[n].keys \in Seq(Keys) /\ Len(pages[n].keys) \in Nat
  BY StarPage, FormedTypes DEF Filled
<1>2. /\ j \in 1..Len(pages[n].cursors) /\ j + 1 \in 1..Len(pages[n].cursors)
      /\ j \in 1..Len(pages[n].keys) + 1 /\ j + 1 \in 1..Len(pages[n].keys) + 1 /\ j # j + 1
  BY <1>1 DEF Formed
<1>3. m # r
  BY <1>1, <1>2 DEF Formed, OneCursorEach
<1>4. m \in Kids(pages[n]) /\ r \in Kids(pages[n])
  BY <1>2 DEF Kids
<1>5. /\ m \in (1..Len(pages)) \ {rootPageNum, n}
      /\ r \in (1..Len(pages)) \ {rootPageNum, n}
  BY <1>1, <1>2, CursorLeads DEF StarInv
<1>6. Filled(pages[m], FALSE) /\ Filled(pages[r], FALSE)
  BY <1>5 DEF StarInv, AllFilled
<1>7. PICK h : Heights(pages, rootPageNum, h)
  BY DEF StarInv, TreeInv
<1>8. /\ h \in [1..Len(pages) -> Nat] /\ h[n] = h[m] + 1 /\ h[n] = h[r] + 1
      /\ pages[m].leaf <=> h[m] = 0
      /\ pages[r].leaf <=> h[r] = 0
  BY <1>1, <1>4, <1>5, <1>7 DEF Heights
<1>9. pages[m].leaf = pages[r].leaf
  <2>1. h[m] = h[r]
    <3>1. h[m] \in Nat /\ h[r] \in Nat
      BY <1>5, <1>8
    <3>2. h[m] + 1 = h[r] + 1
      BY <1>8
    <3> QED BY ONLY <3>1, <3>2
  <2>2. pages[m].leaf \in BOOLEAN /\ pages[r].leaf \in BOOLEAN
    BY <1>6, FormedTypes DEF Filled
  <2> QED BY <1>8, <2>1, <2>2
<1>10. Kids(pages[m]) \cap Kids(pages[r]) = {}
  BY <1>3, <1>5 DEF StarInv, TreeInv, Owned
<1>11. pages[n].keys[j] \in Keys
  BY <1>1, ElementOfSeq
<1> QED BY <1>3, <1>4, <1>5, <1>6, <1>9, <1>10, <1>11 DEF Neighbours

\* The pages qs are the pages ps with x, y and z in the places of three of them.
Rewritten(ps, qs, n, m, r, x, y, z) ==
    /\ qs \in Seq(Page) /\ Len(qs) = Len(ps)
    /\ qs[n] = x /\ qs[m] = y /\ qs[r] = z
    /\ \A e \in (1..Len(ps)) \ {n, m, r} : qs[e] = ps[e]

\* Three writes to different pages.
LEMMA WritesThree ==
    ASSUME NEW ps \in Seq(Page), NEW n \in 1..Len(ps), NEW m \in 1..Len(ps),
           NEW r \in 1..Len(ps), n # m, n # r, m # r,
           NEW x \in Page, NEW y \in Page, NEW z \in Page,
           NEW qs, qs = [[[ps EXCEPT ![n] = x] EXCEPT ![m] = y] EXCEPT ![r] = z]
    PROVE  Rewritten(ps, qs, n, m, r, x, y, z)
<1>1. PICK one, two : one = [ps EXCEPT ![n] = x] /\ two = [one EXCEPT ![m] = y]
  OBVIOUS
<1>2. /\ one \in Seq(Page) /\ Len(one) = Len(ps)
      /\ \A e \in 1..Len(ps) : one[e] = IF e = n THEN x ELSE ps[e]
  BY <1>1, ExceptSeq
<1>3. /\ two \in Seq(Page) /\ Len(two) = Len(ps)
      /\ \A e \in 1..Len(ps) : two[e] = IF e = m THEN y ELSE one[e]
  BY <1>1, <1>2, ExceptSeq
<1>4. qs = [two EXCEPT ![r] = z]
  BY <1>1
<1>5. /\ qs \in Seq(Page) /\ Len(qs) = Len(ps)
      /\ \A e \in 1..Len(ps) : qs[e] = IF e = r THEN z ELSE two[e]
  BY ONLY <1>3, <1>4, r \in 1..Len(ps), z \in Page, ExceptSeq
<1> QED BY <1>2, <1>3, <1>5 DEF Rewritten

\* The layout of two neighbours, and page n with another key j.
LEMMA Layout ==
    ASSUME NEW n, NEW j, NEW m, NEW r, Neighbours(n, j, m, r), NEW both,
           both = Joined(pages[m], pages[n].keys[j], pages[r])
    PROVE  IsJoined(both, pages[m], pages[n].keys[j], pages[r])
  BY JoinedIs DEF Neighbours, Filled

\* Page q is page p with the keys ks, as many as before.
LEMMA OtherKeys ==
    ASSUME NEW p, NEW root, Filled(p, root), NEW ks \in Seq(Keys), Len(ks) = Len(p.keys),
           NEW q, q = [p EXCEPT !.keys = ks]
    PROVE  Filled(q, root) /\ q.leaf = p.leaf /\ q.cursors = p.cursors /\ q.keys = ks
<1>1. p \in Page /\ p.keys \in Seq(Keys) /\ Formed(p)
  BY FormedTypes DEF Filled
<1>2. q \in Page /\ q.keys = ks /\ q.leaf = p.leaf /\ q.cursors = p.cursors
  BY <1>1 DEF Page
<1>3. Formed(q)
  BY <1>1, <1>2 DEF Formed, OneCursorEach
<1> QED BY <1>2, <1>3 DEF Filled

\* What the cut of the layout of two neighbours after c keys writes: u keys to the
\* right one.
CutWrites(n, j, m, r, c, u, both, s) ==
    /\ s.node = [pages[n] EXCEPT !.keys[j] = MedianOf(both, c)]
    /\ MedianOf(both, c) \in Keys
    /\ s.disk = [pages EXCEPT ![m] = LeftOf(both, c), ![r] = RightOf(both, c)]
    /\ InTwo(LeftOf(both, c), RightOf(both, c), both, c)
    /\ Len(LeftOf(both, c).keys) = c /\ Len(RightOf(both, c).keys) = u

\* That is what CutBetween() computes.
LEMMA CutBetweenWrites ==
    ASSUME StarInv, NEW n, n = PageNum(at), NEW j, NEW m, m = pages[n].cursors[j],
           NEW r, r = pages[n].cursors[j + 1], Neighbours(n, j, m, r), NEW both,
           both = Joined(pages[m], pages[n].keys[j], pages[r]), NEW c \in Nat, NEW u \in Nat,
           c >= 1, c + u = Len(pages[m].keys) + Len(pages[r].keys), NEW s, s = CutBetween(j, c)
    PROVE  CutWrites(n, j, m, r, c, u, both, s)
<1>1. Data(at) = pages[n]
  BY StarPage
<1>2. /\ s.node = [pages[n] EXCEPT !.keys[j] = MedianOf(both, c)]
      /\ s.disk = [pages EXCEPT ![m] = LeftOf(both, c), ![r] = RightOf(both, c)]
  BY <1>1 DEF CutBetween
<1>3. IsJoined(both, pages[m], pages[n].keys[j], pages[r])
  BY Layout
<1>4. PICK L, g : L = Len(both.keys) /\ g = Gap(both)
  OBVIOUS
<1>5. /\ Formed(both) /\ L = Len(pages[m].keys) + g + Len(pages[r].keys) /\ g \in {0, 1}
      /\ Len(pages[m].keys) \in Nat /\ Len(pages[r].keys) \in Nat
  BY <1>3, <1>4, FormedTypes DEF IsJoined, Neighbours, Filled
<1>6. /\ c + g <= L /\ c + g \in 1..L /\ L - c - g = u
  <2>1. PICK a, b : a = Len(pages[m].keys) /\ b = Len(pages[r].keys)
    OBVIOUS
  <2>2. a \in Nat /\ b \in Nat /\ L = a + g + b /\ g \in {0, 1} /\ c + u = a + b
    BY <1>5, <2>1
  <2> QED BY ONLY <2>2, c \in Nat, u \in Nat, c >= 1
<1>7. InTwo(LeftOf(both, c), RightOf(both, c), both, c)
  BY <1>4, <1>5, <1>6, CutInTwo
<1>8. /\ Len(LeftOf(both, c).keys) = c /\ Len(RightOf(both, c).keys) = u
      /\ MedianOf(both, c) \in Keys
  BY <1>4, <1>6, <1>7 DEF InTwo, IsCut
<1> QED BY <1>2, <1>7, <1>8 DEF CutWrites

\* The pages qs after page node was written to page n and two of its children have
\* shared their keys, c to page m and u to page r.
Shared(n, m, r, c, u, node, qs) ==
    /\ qs \in Seq(Page) /\ Spread(pages, qs, n, {m, r}) /\ AllFilled(qs, rootPageNum)
    /\ qs[n] = node /\ Len(qs[m].keys) = c /\ Len(qs[r].keys) = u

\* The writes of two neighbours that share their keys anew.
LEMMA CutSpreads ==
    ASSUME NEW n \in 1..Len(pages), NEW j \in 1..Len(pages[n].keys), NEW m, NEW r,
           Neighbours(n, j, m, r), Filled(pages[n], n = rootPageNum),
           pages \in Seq(Page), Len(pages) \in Nat, NEW both,
           IsJoined(both, pages[m], pages[n].keys[j], pages[r]),
           NEW c \in MinKeys..MaxKeys, NEW u \in MinKeys..MaxKeys, NEW s,
           CutWrites(n, j, m, r, c, u, both, s), NEW qs, qs = [s.disk EXCEPT ![n] = s.node],
           AllFilled(pages, rootPageNum)
    PROVE  Shared(n, m, r, c, u, s.node, qs)
<1>1. PICK x, y, z : x = LeftOf(both, c) /\ y = RightOf(both, c) /\ z = s.node
  OBVIOUS
<1>2. /\ z = [pages[n] EXCEPT !.keys[j] = MedianOf(both, c)] /\ MedianOf(both, c) \in Keys
      /\ s.disk = [pages EXCEPT ![m] = x, ![r] = y] /\ InTwo(x, y, both, c)
      /\ Len(x.keys) = c /\ Len(y.keys) = u
  BY <1>1 DEF CutWrites
<1>3. /\ Filled(z, n = rootPageNum) /\ z.leaf = pages[n].leaf /\ z.cursors = pages[n].cursors
      /\ z.keys[j] = MedianOf(both, c)
  <2>1. PICK p, root, ks : /\ p = pages[n] /\ root = (n = rootPageNum)
                           /\ ks = [p.keys EXCEPT ![j] = MedianOf(both, c)]
    OBVIOUS
  <2>2. Filled(p, root) /\ j \in 1..Len(p.keys) /\ z = [p EXCEPT !.keys = ks]
    BY <1>2, <2>1
  <2>3. p.keys \in Seq(Keys)
    BY <2>2, FormedTypes DEF Filled
  <2>4. ks \in Seq(Keys) /\ Len(ks) = Len(p.keys) /\ ks[j] = MedianOf(both, c)
    BY <1>2, <2>1, <2>2, <2>3, ExceptSeq
  <2>5. Filled(z, root) /\ z.leaf = p.leaf /\ z.cursors = p.cursors /\ z.keys = ks
    BY ONLY <2>2, <2>4, OtherKeys
  <2> QED BY <2>1, <2>4, <2>5
<1>4. /\ Formed(x) /\ Formed(y) /\ Halves(x, y, both)
  BY <1>2 DEF InTwo, IsCut
<1>5. MinKeys \in Nat /\ MaxKeys \in Nat
  BY StarBounds
<1>6. Filled(x, FALSE) /\ Filled(y, FALSE)
  BY <1>2, <1>4, <1>5 DEF Filled
<1>7. x \in Page /\ y \in Page /\ z \in Page
  BY <1>3, <1>4 DEF Filled, Formed
<1>8. /\ m \in 1..Len(pages) /\ r \in 1..Len(pages) /\ {m, r} \subseteq Kids(pages[n])
      /\ m # n /\ r # n /\ m # r /\ m # rootPageNum /\ r # rootPageNum
      /\ pages[m].leaf = pages[r].leaf
  BY DEF Neighbours
<1>9. qs = [[[pages EXCEPT ![m] = x] EXCEPT ![r] = y] EXCEPT ![n] = z]
  BY <1>1, <1>2
<1>10. Rewritten(pages, qs, m, r, n, x, y, z)
  BY ONLY <1>7, <1>8, <1>9, WritesThree, pages \in Seq(Page), n \in 1..Len(pages)
<1>11. /\ qs \in Seq(Page) /\ Len(qs) = Len(pages) /\ qs[m] = x /\ qs[r] = y /\ qs[n] = z
       /\ \A e \in (1..Len(pages)) \ {m, r, n} : qs[e] = pages[e]
  BY <1>10 DEF Rewritten
<1>12. AllFilled(qs, rootPageNum)
  <2> SUFFICES ASSUME NEW e \in 1..Len(pages) PROVE Filled(qs[e], e = rootPageNum)
    BY <1>11 DEF AllFilled
  <2>1. CASE e = n
    BY <1>3, <1>11, <2>1
  <2>2. CASE e \in {m, r}
    <3>1. (e = rootPageNum) = FALSE
      BY <1>8, <2>2
    <3>2. Filled(qs[e], FALSE)
      BY <1>6, <1>11, <2>2
    <3> QED BY <3>1, <3>2
  <2>3. CASE e \notin {m, r, n}
    BY <1>11, <2>3 DEF AllFilled
  <2> QED BY <2>1, <2>2, <2>3
<1>13. Kids(z) = Kids(pages[n]) /\ OneCursorEach(z)
  BY <1>3 DEF Kids, Filled, Formed
<1>14. /\ Kids(x) \cup Kids(y) = Kids(pages[m]) \cup Kids(pages[r])
       /\ Kids(x) \cap Kids(y) = {} /\ OneCursorEach(x) /\ OneCursorEach(y)
       /\ x.leaf = pages[m].leaf /\ y.leaf = pages[m].leaf
  BY <1>4 DEF Halves, IsJoined
<1>15. Spread(pages, qs, n, {m, r})
  <2>1. Len(pages) + 1..Len(qs) = {} /\ Len(qs) >= Len(pages)
    BY <1>11
  <2>2. /\ UNION {Kids(qs[e]) : e \in {m, r}} = UNION {Kids(pages[e]) : e \in {m, r}}
    BY <1>11, <1>14
  <2>3. \A e, d \in {m, r} : e # d => Kids(qs[e]) \cap Kids(qs[d]) = {}
    BY <1>11, <1>14
  <2>4. \A e \in {m, r} : OneCursorEach(qs[e]) /\ \A d \in {m, r} : qs[e].leaf = pages[d].leaf
    BY <1>8, <1>11, <1>14
  <2>5. {m, r} \cup (Len(pages) + 1..Len(qs)) = {m, r}
        /\ Kids(pages[n]) \cup (Len(pages) + 1..Len(qs)) = Kids(pages[n])
    BY <2>1
  <2>6. (1..Len(pages)) \ ({m, r} \cup {n}) = (1..Len(pages)) \ {m, r, n}
    OBVIOUS
  <2>7. /\ Len(qs) \in Nat /\ {m, r} # {} /\ qs[n].leaf = pages[n].leaf /\ OneCursorEach(qs[n])
        /\ Kids(qs[n]) = Kids(pages[n])
    BY <1>3, <1>11, <1>13
  <2> QED BY ONLY <1>8, <1>11, <2>1, <2>2, <2>3, <2>4, <2>5, <2>6, <2>7, n \in 1..Len(pages)
          DEF Spread
<1> QED BY <1>1, <1>2, <1>3, <1>11, <1>12, <1>15 DEF Shared

\* The insertion cuts the layout of neighbours m and r, the children of page n around
\* its key j, so that they get c and u keys; s is what it writes.
Sharing(n, j, m, r, c, u, s) ==
    /\ n = PageNum(at) /\ ~pages[n].leaf /\ j \in 1..Len(pages[n].keys)
    /\ m = pages[n].cursors[j] /\ r = pages[n].cursors[j + 1]
    /\ c \in MinKeys..MaxKeys /\ u \in MinKeys..MaxKeys
    /\ c + u = Len(pages[m].keys) + Len(pages[r].keys)
    /\ s = CutBetween(j, c)

\* The numbers of keys in such a step.
LEMMA SharingNumbers ==
    ASSUME NEW n, NEW j, NEW m, NEW r, NEW c, NEW u, NEW s, Sharing(n, j, m, r, c, u, s)
    PROVE  c \in Nat /\ u \in Nat /\ c >= 1
<1>1. c \in MinKeys..MaxKeys /\ u \in MinKeys..MaxKeys
  BY DEF Sharing
<1>2. MinKeys \in Nat /\ MaxKeys \in Nat /\ MinKeys >= 2
  BY StarBounds
<1> QED BY ONLY <1>1, <1>2

\* The layout is page both, and its key behind the first c goes up.
GoesUp(n, j, m, r, c, both, s) ==
    /\ IsJoined(both, pages[m], pages[n].keys[j], pages[r])
    /\ s.node.keys[j] = both.keys[c + Gap(pages[m])]

\* The key that goes up between two neighbours.
LEMMA SharedMedian ==
    ASSUME StarInv, NEW n, NEW j, NEW m, NEW r, NEW c, NEW u, NEW s,
           Sharing(n, j, m, r, c, u, s),
           NEW both, both = Joined(pages[m], pages[n].keys[j], pages[r])
    PROVE  GoesUp(n, j, m, r, c, both, s)
<1>0. /\ n = PageNum(at) /\ ~pages[n].leaf /\ j \in 1..Len(pages[n].keys)
      /\ m = pages[n].cursors[j] /\ r = pages[n].cursors[j + 1]
      /\ c \in Nat /\ u \in Nat /\ c >= 1 /\ s = CutBetween(j, c)
      /\ c + u = Len(pages[m].keys) + Len(pages[r].keys)
  BY SharingNumbers, Zenon DEF Sharing
<1>1. Neighbours(n, j, m, r)
  BY <1>0, AreNeighbours
<1>2. IsJoined(both, pages[m], pages[n].keys[j], pages[r])
  BY <1>1, Layout
<1>3. CutWrites(n, j, m, r, c, u, both, s)
  BY <1>0, <1>1, CutBetweenWrites
<1>4. s.node = [pages[n] EXCEPT !.keys[j] = MedianOf(both, c)]
  BY <1>3 DEF CutWrites
<1>5. pages[n] \in Page /\ pages[n].keys \in Seq(Keys) /\ j \in 1..Len(pages[n].keys)
  BY <1>0, StarPage, FormedTypes DEF Filled
<1>6. s.node.keys[j] = MedianOf(both, c)
  <2>1. PICK p : p = pages[n]
    OBVIOUS
  <2>2. s.node.keys = [p.keys EXCEPT ![j] = MedianOf(both, c)]
    BY <1>4, <1>5, <2>1 DEF Page
  <2> QED BY <1>5, <2>1, <2>2
<1>7. Gap(both) = Gap(pages[m])
  BY <1>2 DEF IsJoined
<1> QED BY <1>2, <1>6, <1>7 DEF MedianOf, GoesUp

\* Two neighbours share their keys, c to the left one and u to the right one, and the
\* insertion goes on with one of them that is not full.
LEMMA ShareStep ==
    ASSUME StarInv, fn = "insertNonFull", NEW n, NEW j, NEW m, NEW r, NEW c, NEW u, NEW s,
           Sharing(n, j, m, r, c, u, s), Moved(at, s), UNCHANGED <<freePages, size, stack>>,
           NEW t \in {m, r}, Continue("insertNonFull", t),
           t = m => c < MaxKeys, t = r => u < MaxKeys
    PROVE  StarInv'
<1>1. /\ n = PageNum(at) /\ ~pages[n].leaf /\ j \in 1..Len(pages[n].keys)
      /\ m = pages[n].cursors[j] /\ r = pages[n].cursors[j + 1]
      /\ c \in Nat /\ u \in Nat /\ c >= 1 /\ s = CutBetween(j, c)
      /\ c \in MinKeys..MaxKeys /\ u \in MinKeys..MaxKeys
      /\ c + u = Len(pages[m].keys) + Len(pages[r].keys)
  BY SharingNumbers, Zenon DEF Sharing
<1>2. Neighbours(n, j, m, r)
  BY <1>1, AreNeighbours
<1>3. PICK both : both = Joined(pages[m], pages[n].keys[j], pages[r])
  OBVIOUS
<1>4. IsJoined(both, pages[m], pages[n].keys[j], pages[r])
  BY <1>2, <1>3, Layout
<1>5. CutWrites(n, j, m, r, c, u, both, s)
  BY <1>1, <1>2, <1>3, CutBetweenWrites
<1>6. /\ n \in 1..Len(pages) /\ Filled(pages[n], n = rootPageNum) /\ pages \in Seq(Page)
      /\ Len(pages) \in Nat /\ freePages = <<>>
  BY <1>1, StarPage
<1>7. PICK qs : qs = pages'
  OBVIOUS
<1>8. /\ qs = [s.disk EXCEPT ![n] = s.node] /\ rootPageNum' = rootPageNum /\ freePages' = <<>>
      /\ rootPage' = (IF at = RootWrapper THEN s.node ELSE rootPage)
      /\ size' = size /\ stack' = stack
  BY <1>1, <1>6, <1>7 DEF Moved
<1>9. AllFilled(pages, rootPageNum)
  BY DEF StarInv
<1>10. Shared(n, m, r, c, u, s.node, qs)
  BY ONLY <1>1, <1>2, <1>4, <1>5, <1>6, <1>8, <1>9, CutSpreads, ZenonT(30)
<1>11. /\ qs \in Seq(Page) /\ Spread(pages, qs, n, {m, r}) /\ AllFilled(qs, rootPageNum)
       /\ qs[n] = s.node /\ Len(qs[m].keys) = c /\ Len(qs[r].keys) = u
  BY <1>10 DEF Shared
<1>12. t \in Kids(qs[n])
  <2>1. {m, r} \subseteq Kids(qs[n])
    BY <1>11 DEF Spread
  <2> QED BY <2>1
<1>13. Len(qs[t].keys) < MaxKeys /\ Len(qs[t].keys) \in Nat
  BY <1>1, <1>11
<1> QED BY <1>1, <1>7, <1>8, <1>11, <1>12, <1>13, RoomMade

\* A page other than the root is full when it has getMaxKeys() keys.
LEMMA ChildFull ==
    ASSUME NEW x \in 1..Len(pages), x # rootPageNum
    PROVE  isFull(x) <=> Len(pages[x].keys) = MaxKeys
  BY DEF isFull, isRoot, PageNum, Data, RootWrapper

\* The position a key goes to in an inner page.
LEMMA PositionRange ==
    ASSUME StarInv, NEW n, n = PageNum(at), NEW i, i = Position(at)
    PROVE  /\ i \in 1..Len(pages[n].keys) + 1 /\ Data(at) = pages[n]
           /\ Len(pages[n].keys) \in Nat
<1>1. Data(at) = pages[n] /\ pages[n].keys \in Seq(Keys) /\ Len(pages[n].keys) \in Nat
  BY StarPage, FormedTypes DEF Filled
<1> QED BY <1>1, AfterLastNotGreaterRange DEF Position

\* The full child shares its keys with its left neighbour.
LEMMA StarShareLeft ==
    ASSUME StarInv, fn = "insertNonFull", ~Data(at).leaf, NEW i, i = Position(at),
           isFull(Data(at).cursors[i]), ShareWithLeft(i), UNCHANGED <<size, stack>>
    PROVE  StarInv'
<1>1. PICK n, j : n = PageNum(at) /\ j = i - 1
  OBVIOUS
<1>2. /\ i \in 1..Len(pages[n].keys) + 1 /\ Data(at) = pages[n] /\ Len(pages[n].keys) \in Nat
  BY <1>1, PositionRange
<1>3. i > 1 /\ SharesLeft(i)
  BY DEF ShareWithLeft, SharesLeft
<1>4. j \in 1..Len(pages[n].keys) /\ i = j + 1 /\ i - 1 = j
  BY <1>1, <1>2, <1>3
<1>5. PICK m, r : m = pages[n].cursors[j] /\ r = pages[n].cursors[j + 1]
  OBVIOUS
<1>6. Neighbours(n, j, m, r)
  BY <1>1, <1>2, <1>4, <1>5, AreNeighbours
<1>7. PICK a, d, x : a = Len(pages[m].keys) /\ d = Share(pages[r], pages[m]) /\ x = pages[n].keys[j]
  OBVIOUS
<1>8. Len(pages[r].keys) = MaxKeys /\ a # MaxKeys
  <2>1. isFull(r) /\ ~isFull(m)
    BY <1>2, <1>3, <1>4, <1>5 DEF SharesLeft
  <2> QED BY <1>6, <1>7, <2>1, ChildFull DEF Neighbours
<1>9. a \in Nat /\ a >= MinKeys /\ a < MaxKeys /\ MaxKeys \in Nat /\ MinKeys \in Nat
  <2>1. a \in Nat /\ a >= MinKeys /\ a <= MaxKeys
    BY <1>6, <1>7, FormedTypes DEF Neighbours, Filled
  <2> QED BY <1>8, <2>1, StarBounds
<1>10. d = (MaxKeys + a + 1) \div 2
  BY <1>7, <1>8 DEF Share
<1>11. /\ d \in Nat /\ d > a /\ d <= MaxKeys /\ MaxKeys + a - d \in Nat
       /\ MaxKeys + a - d < MaxKeys /\ MaxKeys + a - d >= a
       /\ (d = MaxKeys => a = MaxKeys - 1 /\ d - a = 1)
  BY ONLY <1>9, <1>10, ShareBounds
<1>12. PICK u : u = MaxKeys + a - d
  OBVIOUS
<1>13. /\ d \in MinKeys..MaxKeys /\ u \in MinKeys..MaxKeys /\ u < MaxKeys /\ d + u = a + MaxKeys
       /\ u \in Nat /\ d >= 1
  BY ONLY <1>9, <1>11, <1>12
<1>14. PICK s, both : s = CutBetween(j, d) /\ both = Joined(pages[m], x, pages[r])
  OBVIOUS
<1>15. PICK t : t = pages[n].cursors[IF k < s.node.keys[j] THEN j ELSE i]
  OBVIOUS
<1>16. Moved(at, s) /\ Continue("insertNonFull", t) /\ freePages' = freePages
  BY <1>2, <1>4, <1>5, <1>7, <1>14, <1>15 DEF ShareWithLeft
<1>17. t = IF k < s.node.keys[j] THEN m ELSE r
  BY <1>4, <1>5, <1>15
<1>18. Sharing(n, j, m, r, d, u, s)
  BY <1>1, <1>2, <1>4, <1>5, <1>7, <1>8, <1>13, <1>14 DEF Sharing
<1>19. GoesUp(n, j, m, r, d, both, s)
  BY <1>7, <1>14, <1>18, SharedMedian
<1>20. t = m => d < MaxKeys
  <2> SUFFICES ASSUME t = m, d = MaxKeys PROVE FALSE
    BY <1>9, <1>11
  <2>1. k < s.node.keys[j]
    BY <1>6, <1>17 DEF Neighbours
  <2>2. ~(k < pages[r].keys[1])
    <3>1. ~RefusedByLeft(pages[r], pages[m])
      BY <1>2, <1>3, <1>4, <1>5 DEF SharesLeft
    <3>2. d = MaxKeys /\ d - Len(pages[m].keys) = 1
      BY <1>7, <1>11
    <3> QED BY <1>7, <3>1, <3>2 DEF RefusedByLeft
  <2>3. both.keys[a + Gap(pages[m]) + 1] = pages[r].keys[1]
    <3>1. 1 \in 1..Len(pages[r].keys)
      BY <1>8, <1>9, StarBounds
    <3> QED BY <1>7, <1>19, <3>1 DEF GoesUp, IsJoined
  <2>4. d + Gap(pages[m]) = a + Gap(pages[m]) + 1
    <3>1. Gap(pages[m]) \in {0, 1}
      BY DEF Gap
    <3> QED BY <1>9, <1>11, <3>1
  <2> QED BY <1>19, <2>1, <2>2, <2>3, <2>4 DEF GoesUp
<1>21. t \in {m, r} /\ (t = r => u < MaxKeys)
  BY <1>13, <1>17
<1>22. UNCHANGED <<freePages, size, stack>>
  BY <1>16
<1> QED BY <1>16, <1>18, <1>20, <1>21, <1>22, ShareStep

\* The full child shares its keys with its right neighbour.
LEMMA StarShareRight ==
    ASSUME StarInv, fn = "insertNonFull", ~Data(at).leaf, NEW i, i = Position(at),
           isFull(Data(at).cursors[i]), ShareWithRight(i), UNCHANGED <<size, stack>>
    PROVE  StarInv'
<1>1. PICK n : n = PageNum(at)
  OBVIOUS
<1>2. /\ i \in 1..Len(pages[n].keys) + 1 /\ Data(at) = pages[n] /\ Len(pages[n].keys) \in Nat
  BY <1>1, PositionRange
<1>3. i <= Len(pages[n].keys) /\ SharesRight(i)
  BY <1>2 DEF ShareWithRight, SharesRight
<1>4. i \in 1..Len(pages[n].keys)
  BY <1>2, <1>3
<1>5. PICK m, r : m = pages[n].cursors[i] /\ r = pages[n].cursors[i + 1]
  OBVIOUS
<1>6. Neighbours(n, i, m, r)
  BY <1>1, <1>2, <1>4, <1>5, AreNeighbours
<1>7. PICK a, d, x : a = Len(pages[r].keys) /\ d = Share(pages[m], pages[r]) /\ x = pages[n].keys[i]
  OBVIOUS
<1>8. Len(pages[m].keys) = MaxKeys /\ a # MaxKeys
  <2>1. isFull(m) /\ ~isFull(r)
    BY <1>2, <1>3, <1>5 DEF SharesRight
  <2> QED BY <1>6, <1>7, <2>1, ChildFull DEF Neighbours
<1>9. a \in Nat /\ a >= MinKeys /\ a < MaxKeys /\ MaxKeys \in Nat /\ MinKeys \in Nat
  <2>1. a \in Nat /\ a >= MinKeys /\ a <= MaxKeys
    BY <1>6, <1>7, FormedTypes DEF Neighbours, Filled
  <2> QED BY <1>8, <2>1, StarBounds
<1>10. d = (MaxKeys + a + 1) \div 2
  BY <1>7, <1>8 DEF Share
<1>11. /\ d \in Nat /\ d > a /\ d <= MaxKeys /\ MaxKeys + a - d \in Nat
       /\ MaxKeys + a - d < MaxKeys /\ MaxKeys + a - d >= a
       /\ (d = MaxKeys => a = MaxKeys - 1 /\ d - a = 1)
  BY ONLY <1>9, <1>10, ShareBounds
<1>12. PICK c : c = MaxKeys - (d - a)
  OBVIOUS
<1>13. /\ d \in MinKeys..MaxKeys /\ c \in MinKeys..MaxKeys /\ c < MaxKeys /\ c + d = MaxKeys + a
       /\ c \in Nat /\ c >= 1 /\ (d = MaxKeys => c = MaxKeys - 1)
  <2>1. MinKeys >= 2
    BY StarBounds
  <2> QED BY ONLY <1>9, <1>11, <1>12, <2>1
<1>14. PICK s, both : s = CutBetween(i, c) /\ both = Joined(pages[m], x, pages[r])
  OBVIOUS
<1>15. PICK t : t = pages[n].cursors[IF s.node.keys[i] < k THEN i + 1 ELSE i]
  OBVIOUS
<1>16. Moved(at, s) /\ Continue("insertNonFull", t) /\ freePages' = freePages
  BY <1>2, <1>5, <1>7, <1>8, <1>12, <1>14, <1>15 DEF ShareWithRight
<1>17. t = IF s.node.keys[i] < k THEN r ELSE m
  BY <1>5, <1>15
<1>18. Sharing(n, i, m, r, c, d, s)
  BY <1>1, <1>2, <1>4, <1>5, <1>7, <1>8, <1>13, <1>14 DEF Sharing
<1>19. GoesUp(n, i, m, r, c, both, s)
  BY <1>7, <1>14, <1>18, SharedMedian
<1>20. t = r => d < MaxKeys
  <2> SUFFICES ASSUME t = r, d = MaxKeys PROVE FALSE
    BY <1>9, <1>11
  <2>1. s.node.keys[i] < k
    BY <1>6, <1>17 DEF Neighbours
  <2>2. PICK g : g = Gap(pages[m])
    OBVIOUS
  <2>3. g \in {0, 1}
    BY <2>2 DEF Gap
  <2>4. ~(pages[m].keys[MaxKeys - 1 + g] < k)
    <3>1. ~RefusedByRight(pages[m], pages[r])
      BY <1>2, <1>3, <1>5 DEF SharesRight
    <3>2. d = MaxKeys /\ d - Len(pages[r].keys) = 1
      BY <1>7, <1>11
    <3> QED BY <1>7, <1>8, <2>2, <3>1, <3>2 DEF RefusedByRight
  <2>5. c + g = MaxKeys - 1 + g /\ c + g \in 1..Len(pages[m].keys)
    BY <1>8, <1>9, <1>13, <2>3
  <2>6. both.keys[c + g] = pages[m].keys[c + g]
    BY <1>19, <2>5 DEF GoesUp, IsJoined
  <2> QED BY <1>19, <2>1, <2>2, <2>4, <2>5, <2>6 DEF GoesUp
<1>21. t \in {m, r} /\ (t = m => c < MaxKeys)
  BY <1>13, <1>17
<1>22. UNCHANGED <<freePages, size, stack>>
  BY <1>16
<1> QED BY <1>16, <1>18, <1>20, <1>21, <1>22, ShareStep

-------------------------------------------------------------------------------
(* Two pages become three. *)

\* Page q, in the place of page p, has the child mid more.
Grown(q, p, root, mid) == Filled(q, root) /\ MoreKids(q, p, mid)

\* That is a page with one key and one cursor more.
LEMMA GrownNode ==
    ASSUME NEW p, NEW root, Filled(p, root), ~p.leaf, NEW v \in 1..Len(p.keys) + 1,
           Len(p.keys) + 1 <= IF root THEN MaxRootKeys ELSE MaxKeys,
           NEW y \in Keys, NEW mid \in Nat \ Kids(p),
           NEW one \in Seq(Keys), Len(one) = Len(p.keys),
           NEW ks, ks = InsertAt(one, v, y), NEW cs, cs = InsertAt(p.cursors, v, mid),
           NEW q, q = [p EXCEPT !.keys = ks, !.cursors = cs]
    PROVE  Grown(q, p, root, mid)
<1>1. /\ p \in Page /\ p.keys \in Seq(Keys) /\ p.cursors \in Seq(Nat) /\ Formed(p)
      /\ Len(p.keys) \in Nat /\ Len(p.cursors) = Len(p.keys) + 1 /\ OneCursorEach(p)
  BY FormedTypes DEF Filled, Formed
<1>2. /\ one \in Seq(Keys) /\ Len(one) = Len(p.keys) /\ ks = InsertAt(one, v, y)
      /\ cs = InsertAt(p.cursors, v, mid)
  OBVIOUS
<1>3. mid \in Nat
  OBVIOUS
<1>4. v \in 1..Len(one) + 1 /\ v \in 1..Len(p.cursors) + 1
  BY <1>1, <1>2
<1>5. ks \in Seq(Keys) /\ Len(ks) = Len(p.keys) + 1
  <2>1. ks \in Seq(Keys) /\ Len(ks) = Len(one) + 1
    BY ONLY <1>2, <1>4, y \in Keys, InsertAtProperties, Zenon
  <2> QED BY <1>2, <2>1
<1>6. cs \in Seq(Nat) /\ Len(cs) = Len(p.cursors) + 1
  <2>1. PICK S, s : S = Nat /\ s = p.cursors
    OBVIOUS
  <2>2. s \in Seq(S) /\ v \in 1..Len(s) + 1 /\ mid \in S /\ cs = InsertAt(s, v, mid)
    BY <1>1, <1>2, <1>3, <1>4, <2>1
  <2>3. cs \in Seq(S) /\ Len(cs) = Len(s) + 1
    BY ONLY <2>2, InsertAtProperties
  <2> QED BY <2>1, <2>3
<1>7. q = [p EXCEPT !.keys = ks, !.cursors = cs]
  OBVIOUS
<1>8. q \in Page /\ q.keys = ks /\ q.cursors = cs /\ q.leaf = p.leaf
  BY ONLY <1>1, <1>5, <1>6, <1>7 DEF Page
<1>9. MoreKids(q, p, mid)
  <2>1. q.cursors = InsertAt(p.cursors, v, mid)
    BY <1>2, <1>8
  <2> QED BY ONLY <1>1, <1>4, <1>8, <2>1, mid \in Nat \ Kids(p), InsertedKid, Zenon
<1>10. Formed(q)
  <2>1. ~q.leaf /\ OneCursorEach(q)
    BY <1>8, <1>9 DEF MoreKids
  <2>2. Len(q.cursors) = Len(q.keys) + 1
    BY <1>1, <1>5, <1>6, <1>8
  <2> QED BY <1>8, <2>1, <2>2 DEF Formed
<1>11. Len(q.keys) = Len(p.keys) + 1
  BY <1>5, <1>8
<1>12. MinKeys \in Nat /\ (~root => Len(p.keys) >= MinKeys)
  BY StarBounds DEF Filled
<1>13. Filled(q, root)
  BY <1>1, <1>10, <1>11, <1>12 DEF Filled
<1> QED BY <1>9, <1>13 DEF Grown

\* The pages qs after page m, page r and a new page have got the children of pages m
\* and r, and page n the new page.
Thirds(n, m, r, node, x, y, z, qs) ==
    /\ n \in 1..Len(pages) /\ pages \in Seq(Page) /\ Len(pages) \in Nat
    /\ AllFilled(pages, rootPageNum)
    /\ Filled(node, n = rootPageNum) /\ MoreKids(node, pages[n], Len(pages) + 1)
    /\ Filled(x, FALSE) /\ Filled(y, FALSE) /\ Filled(z, FALSE)
    /\ Kids(x) \cup Kids(y) \cup Kids(z) = Kids(pages[m]) \cup Kids(pages[r])
    /\ Kids(x) \cap Kids(y) = {} /\ Kids(x) \cap Kids(z) = {} /\ Kids(y) \cap Kids(z) = {}
    /\ x.leaf = pages[m].leaf /\ y.leaf = pages[m].leaf /\ z.leaf = pages[m].leaf
    /\ qs = WritePage([pages EXCEPT ![n] = node, ![m] = x, ![r] = z], Len(pages) + 1, y)

\* What such writes leave.
IsThirds(n, m, r, node, x, y, z, qs) ==
    /\ qs \in Seq(Page) /\ Spread(pages, qs, n, {m, r}) /\ AllFilled(qs, rootPageNum)
    /\ qs[n] = node /\ qs[m] = x /\ qs[Len(pages) + 1] = y /\ qs[r] = z

\* They rearrange the children of page n.
LEMMA ThirdsSpread ==
    ASSUME NEW n, NEW j, NEW m, NEW r, Neighbours(n, j, m, r), rootPageNum \in 1..Len(pages),
           NEW node, NEW x, NEW y, NEW z, NEW qs,
           Thirds(n, m, r, node, x, y, z, qs)
    PROVE  IsThirds(n, m, r, node, x, y, z, qs)
<1>1. PICK N, e : N = Len(pages) /\ e = N + 1
  OBVIOUS
<1>2. /\ n \in 1..N /\ pages \in Seq(Page) /\ N \in Nat
      /\ Filled(node, n = rootPageNum) /\ MoreKids(node, pages[n], e)
      /\ Filled(x, FALSE) /\ Filled(y, FALSE) /\ Filled(z, FALSE)
      /\ qs = WritePage([pages EXCEPT ![n] = node, ![m] = x, ![r] = z], e, y)
      /\ e \in Nat /\ e \notin 1..N /\ \A d \in 1..e : d = e \/ d \in 1..N
  <2>1. /\ n \in 1..N /\ pages \in Seq(Page) /\ N \in Nat
        /\ Filled(node, n = rootPageNum) /\ MoreKids(node, pages[n], e)
        /\ Filled(x, FALSE) /\ Filled(y, FALSE) /\ Filled(z, FALSE)
        /\ qs = WritePage([pages EXCEPT ![n] = node, ![m] = x, ![r] = z], e, y)
    BY <1>1, Zenon DEF Thirds
  <2>2. e \in Nat /\ e \notin 1..N /\ \A d \in 1..e : d = e \/ d \in 1..N
    BY ONLY <1>1, <2>1
  <2> QED BY <2>1, <2>2
<1>3. /\ m \in 1..N /\ r \in 1..N /\ {m, r} \subseteq Kids(pages[n])
      /\ m # n /\ r # n /\ m # r /\ m # rootPageNum /\ r # rootPageNum
      /\ pages[m].leaf = pages[r].leaf
  BY <1>1 DEF Neighbours
<1>4. node \in Page /\ x \in Page /\ y \in Page /\ z \in Page
  BY <1>2 DEF Filled, Formed
<1>5. PICK ws : ws = [[[pages EXCEPT ![n] = node] EXCEPT ![m] = x] EXCEPT ![r] = z]
  OBVIOUS
<1>6. Rewritten(pages, ws, n, m, r, node, x, z)
  BY ONLY <1>1, <1>2, <1>3, <1>4, <1>5, WritesThree
<1>7. /\ ws \in Seq(Page) /\ Len(ws) = N /\ ws[n] = node /\ ws[m] = x /\ ws[r] = z
      /\ \A d \in (1..N) \ {n, m, r} : ws[d] = pages[d]
  BY <1>1, <1>6 DEF Rewritten
<1>8. qs = Append(ws, y)
  <2>1. qs = WritePage(ws, e, y)
    BY <1>2, <1>5
  <2> QED BY <1>1, <1>7, <2>1 DEF WritePage
<1>9. /\ qs \in Seq(Page) /\ Len(qs) = e /\ qs[e] = y /\ \A d \in 1..N : qs[d] = ws[d]
  BY ONLY <1>1, <1>4, <1>7, <1>8, AppendProperties
<1>10. /\ qs[n] = node /\ qs[m] = x /\ qs[r] = z
       /\ \A d \in (1..N) \ {n, m, r} : qs[d] = pages[d]
  BY <1>2, <1>3, <1>7, <1>9
<1>11. AllFilled(qs, rootPageNum)
  <2> SUFFICES ASSUME NEW d \in 1..e PROVE Filled(qs[d], d = rootPageNum)
    BY <1>9 DEF AllFilled
  <2>1. CASE d = n
    BY <1>2, <1>10, <2>1
  <2>2. CASE d \in {m, r, e}
    <3>1. (d = rootPageNum) = FALSE
      BY <1>1, <1>2, <1>3, <2>2
    <3>2. Filled(qs[d], FALSE)
      BY <1>2, <1>9, <1>10, <2>2
    <3> QED BY <3>1, <3>2
  <2>3. CASE d \notin {m, r, n, e}
    <3>1. d \in 1..N /\ qs[d] = pages[d]
      BY <1>2, <1>10, <2>3
    <3> QED BY <1>1, <3>1 DEF Thirds, AllFilled
  <2> QED BY <2>1, <2>2, <2>3
<1>12. /\ Kids(x) \cup Kids(y) \cup Kids(z) = Kids(pages[m]) \cup Kids(pages[r])
       /\ Kids(x) \cap Kids(y) = {} /\ Kids(x) \cap Kids(z) = {} /\ Kids(y) \cap Kids(z) = {}
       /\ x.leaf = pages[m].leaf /\ y.leaf = pages[m].leaf /\ z.leaf = pages[m].leaf
  BY DEF Thirds
<1>13. OneCursorEach(x) /\ OneCursorEach(y) /\ OneCursorEach(z)
  BY <1>2 DEF Filled, Formed
<1>14. PICK B : B = {m, r, e}
  OBVIOUS
<1>15. Spread(pages, qs, n, {m, r})
  <2>1. N + 1..Len(qs) = {e} /\ Len(qs) >= N /\ Len(qs) \in Nat
    BY <1>1, <1>2, <1>9
  <2>2. UNION {Kids(qs[d]) : d \in B} = UNION {Kids(pages[d]) : d \in {m, r}}
    BY <1>9, <1>10, <1>12, <1>14
  <2>3. \A d, f \in B : d # f => Kids(qs[d]) \cap Kids(qs[f]) = {}
    BY <1>9, <1>10, <1>12, <1>14
  <2>4. \A d \in B : OneCursorEach(qs[d]) /\ \A f \in {m, r} : qs[d].leaf = pages[f].leaf
    BY <1>3, <1>9, <1>10, <1>12, <1>13, <1>14
  <2>5. {m, r} \cup (N + 1..Len(qs)) = B
    BY <1>14, <2>1
  <2>6. (1..N) \ ({m, r} \cup {n}) = (1..N) \ {n, m, r}
    OBVIOUS
  <2>7. /\ {m, r} # {} /\ qs[n].leaf = pages[n].leaf /\ OneCursorEach(qs[n])
        /\ Kids(qs[n]) = Kids(pages[n]) \cup (N + 1..Len(qs))
    BY <1>2, <1>10, <2>1 DEF MoreKids
  <2>8. /\ Len(qs) \in Nat /\ Len(qs) >= Len(pages) /\ n \in 1..Len(pages)
        /\ {m, r} \cup (Len(pages) + 1..Len(qs)) = B
        /\ Kids(qs[n]) = Kids(pages[n]) \cup (Len(pages) + 1..Len(qs))
        /\ \A d \in (1..Len(pages)) \ ({m, r} \cup {n}) : qs[d] = pages[d]
    BY <1>1, <1>2, <1>10, <2>1, <2>5, <2>6, <2>7, Zenon
  <2> QED BY ONLY <1>3, <2>2, <2>3, <2>4, <2>7, <2>8 DEF Spread
<1> QED BY <1>1, <1>9, <1>10, <1>11, <1>15 DEF IsThirds

\* splitChildren() on two children that together lack at most one key.
LEMMA StarSplitPair ==
    ASSUME StarInv, fn = "insertNonFull", NEW n, n = PageNum(at), ~pages[n].leaf,
           NEW j \in 1..Len(pages[n].keys), NEW m, m = pages[n].cursors[j],
           NEW r, r = pages[n].cursors[j + 1], NEW short \in {0, 1},
           Len(pages[m].keys) + Len(pages[r].keys) = 2 * MaxKeys - short,
           splitChildren(j, short), UNCHANGED <<size, stack>>
    PROVE  StarInv'
<1>1. Neighbours(n, j, m, r)
  BY AreNeighbours
<1>2. /\ n \in 1..Len(pages) /\ Data(at) = pages[n] /\ Filled(pages[n], n = rootPageNum)
      /\ pages \in Seq(Page) /\ Len(pages) \in Nat /\ rootPageNum \in 1..Len(pages)
      /\ freePages = <<>>
  BY StarPage
<1>3. PICK both : both = Joined(pages[m], pages[n].keys[j], pages[r])
  OBVIOUS
<1>4. IsJoined(both, pages[m], pages[n].keys[j], pages[r])
  BY <1>1, <1>3, Layout
<1>5. PICK g, a, b, c, f, e, mid :
         /\ g = Gap(both) /\ a = LeftProduct /\ b = LeftProduct - LeftProduct + MiddleProduct + 1 - g
         /\ c = RightProduct - short /\ f = a + g + 1 /\ e = f + b + g /\ mid = Len(pages) + 1
  OBVIOUS
<1>6. PICK x, y, z : x = Cut(both, 1, a) /\ y = Cut(both, f, b) /\ z = Cut(both, e, c)
  OBVIOUS
<1>7. PICK p, node :
         /\ p = pages[n]
         /\ node = [p EXCEPT
                      !.keys = InsertAt([p.keys EXCEPT ![j] = both.keys[f - 1]], j + 1,
                                        both.keys[e - 1]),
                      !.cursors = InsertAt(p.cursors, j + 1, mid)]
  OBVIOUS
<1>8. PICK t : t = IF node.keys[j + 1] < k THEN r ELSE IF node.keys[j] < k THEN mid ELSE m
  OBVIOUS
<1>9. AllocPage(1) = mid /\ FreeAfterAlloc(1) = <<>>
  BY <1>2, <1>5 DEF AllocPage, FreeAfterAlloc
<1>10. /\ pages' = WritePage([pages EXCEPT ![n] = node, ![m] = x, ![r] = z], mid, y)
       /\ rootPage' = (IF at = RootWrapper THEN node ELSE rootPage)
       /\ freePages' = <<>> /\ Continue("insertNonFull", t) /\ rootPageNum' = rootPageNum
  <2>1. SplitAfter(j, short, LeftProduct)
    BY DEF splitChildren
  <2> QED BY <1>2, <1>3, <1>5, <1>6, <1>7, <1>8, <1>9, <2>1 DEF SplitAfter
<1>11. PICK L : L = Len(both.keys)
  OBVIOUS
<1>12. g \in {0, 1} /\ Formed(both) /\ L = 2 * MaxKeys - short + g
  <2>1. PICK u, v : u = Len(pages[m].keys) /\ v = Len(pages[r].keys)
    OBVIOUS
  <2>2. /\ u \in Nat /\ v \in Nat /\ L = u + g + v /\ u + v = 2 * MaxKeys - short
        /\ Formed(both) /\ g \in {0, 1}
    BY <1>1, <1>4, <1>5, <1>11, <2>1, FormedTypes DEF IsJoined, Neighbours, Filled
  <2>3. MaxKeys \in Nat
    BY StarBounds
  <2> QED BY <2>2, <2>3
<1>13. /\ a \in Nat /\ b \in Nat /\ c \in Nat /\ a >= 1 /\ b >= 1 /\ e + c = L + 1
       /\ MinKeys \in Nat /\ MaxKeys \in Nat
       /\ a >= MinKeys /\ b >= MinKeys /\ c >= MinKeys /\ a < MaxKeys /\ b < MaxKeys /\ c < MaxKeys
  <2>1. /\ MinKeys \in Nat /\ MaxKeys \in Nat /\ MinKeys >= 2
        /\ LeftProduct \in Nat /\ MiddleProduct \in Nat /\ RightProduct \in Nat
        /\ LeftProduct >= MinKeys /\ LeftProduct < MaxKeys
        /\ MiddleProduct >= MinKeys /\ MiddleProduct + 1 < MaxKeys
        /\ RightProduct = MinKeys + 1 /\ RightProduct < MaxKeys
        /\ LeftProduct + MiddleProduct + RightProduct = 2 * MaxKeys - 1
    BY StarBounds
  <2>2. /\ a = LeftProduct /\ b = LeftProduct - LeftProduct + MiddleProduct + 1 - g
        /\ c = RightProduct - short /\ f = a + g + 1 /\ e = f + b + g
    BY <1>5
  <2> QED BY ONLY <1>12, <2>1, <2>2, short \in {0, 1}
<1>14. /\ InThree(x, y, z, both, a, b, c)
       /\ both.keys[f - 1] \in Keys /\ both.keys[e - 1] \in Keys
  <2>1. /\ f = a + Gap(both) + 1 /\ e = f + b + Gap(both) /\ e + c = Len(both.keys) + 1
    BY ONLY <1>5, <1>11, <1>13, Zenon
  <2>2. InThree(x, y, z, both, a, b, c)
    BY ONLY <1>6, <1>12, <1>13, <2>1, CutInThree
  <2>3. f - 1 \in 1..L /\ e - 1 \in 1..L
    <3>1. f = a + g + 1 /\ e = f + b + g
      BY <1>5
    <3> QED BY ONLY <1>12, <1>13, <3>1
  <2>4. both.keys \in Seq(Keys)
    BY <1>12, FormedTypes
  <2> QED BY <1>11, <2>2, <2>3, <2>4, ElementOfSeq
<1>15. Filled(x, FALSE) /\ Filled(y, FALSE) /\ Filled(z, FALSE)
  BY <1>13, <1>14 DEF InThree, Filled
<1>16. Filled(node, n = rootPageNum) /\ MoreKids(node, p, mid)
  <2>1. PICK root, u, v : root = (n = rootPageNum) /\ u = both.keys[f - 1] /\ v = both.keys[e - 1]
    OBVIOUS
  <2>2. /\ Filled(p, root) /\ ~p.leaf /\ j \in 1..Len(p.keys) /\ u \in Keys /\ v \in Keys
    BY <1>2, <1>7, <1>14, <2>1
  <2>3. Len(p.keys) + 1 <= IF root THEN MaxRootKeys ELSE MaxKeys
    BY <1>7, <2>1, RoomHere
  <2>4. mid \in Nat \ Kids(p)
    <3>1. PICK h : Heights(pages, rootPageNum, h)
      BY DEF StarInv, TreeInv
    <3>2. \A d \in Kids(pages[n]) : d \in 1..Len(pages)
      BY <1>2, <3>1 DEF Heights
    <3>3. mid \in Nat /\ mid \notin 1..Len(pages)
      BY <1>2, <1>5
    <3> QED BY <1>7, <3>2, <3>3
  <2>5. PICK one, w, ks, cs : /\ one = [p.keys EXCEPT ![j] = u] /\ w = j + 1
                              /\ ks = InsertAt(one, w, v) /\ cs = InsertAt(p.cursors, w, mid)
    OBVIOUS
  <2>6. one \in Seq(Keys) /\ Len(one) = Len(p.keys)
    <3>1. p.keys \in Seq(Keys)
      BY <2>2, FormedTypes DEF Filled
    <3> QED BY ONLY <2>2, <2>5, <3>1, ExceptSeq
  <2>7. node = [p EXCEPT !.keys = ks, !.cursors = cs]
    BY <1>7, <2>1, <2>5
  <2>8. w \in 1..Len(p.keys) + 1
    BY <2>2, <2>5, <2>6
  <2>9. Grown(node, p, root, mid)
    BY ONLY <2>2, <2>3, <2>4, <2>5, <2>6, <2>7, <2>8, GrownNode
  <2> QED BY <2>1, <2>9 DEF Grown
<1>17. PICK qs : qs = pages'
  OBVIOUS
<1>18. /\ Kids(x) \cup Kids(y) \cup Kids(z) = Kids(pages[m]) \cup Kids(pages[r])
       /\ Kids(x) \cap Kids(y) = {} /\ Kids(x) \cap Kids(z) = {} /\ Kids(y) \cap Kids(z) = {}
       /\ x.leaf = pages[m].leaf /\ y.leaf = pages[m].leaf /\ z.leaf = pages[m].leaf
  BY <1>4, <1>14 DEF InThree, IsJoined
<1>19. Thirds(n, m, r, node, x, y, z, qs)
  BY <1>2, <1>5, <1>7, <1>10, <1>15, <1>16, <1>17, <1>18 DEF Thirds, StarInv
<1>20. IsThirds(n, m, r, node, x, y, z, qs)
  BY <1>1, <1>2, <1>19, ThirdsSpread
<1>21. /\ qs \in Seq(Page) /\ Spread(pages, qs, n, {m, r}) /\ AllFilled(qs, rootPageNum)
       /\ qs[n] = node /\ qs[m] = x /\ qs[mid] = y /\ qs[r] = z
  BY <1>5, <1>20 DEF IsThirds
<1>22. t \in Kids(qs[n])
  <2>1. m \in Kids(p) /\ r \in Kids(p)
    BY <1>1, <1>7 DEF Neighbours
  <2> QED BY <1>8, <1>16, <1>21, <2>1 DEF MoreKids
<1>23. Len(qs[t].keys) < MaxKeys /\ Len(qs[t].keys) \in Nat
  <2>1. t \in {m, mid, r}
    BY <1>8
  <2>2. Len(x.keys) = a /\ Len(y.keys) = b /\ Len(z.keys) = c
    BY <1>14 DEF InThree
  <2> QED BY <1>13, <1>21, <2>1, <2>2
<1> QED BY <1>10, <1>17, <1>21, <1>22, <1>23, RoomMade

\* The full child and a neighbour that cannot take a key become three pages.
LEMMA StarSplitTwo ==
    ASSUME StarInv, fn = "insertNonFull", ~Data(at).leaf, NEW i, i = Position(at),
           isFull(Data(at).cursors[i]), SplitTwo(i), UNCHANGED <<size, stack>>
    PROVE  StarInv'
<1>1. PICK n : n = PageNum(at)
  OBVIOUS
<1>2. /\ i \in 1..Len(pages[n].keys) + 1 /\ Data(at) = pages[n] /\ Len(pages[n].keys) \in Nat
      /\ ~pages[n].leaf
  BY <1>1, PositionRange
<1>3. Len(pages[n].keys) >= 1
  BY <1>1, <1>2, RoomHere
<1>4. MaxKeys \in Nat /\ MinKeys \in Nat
  BY StarBounds
<1>5. CASE i > 1 /\ splitChildren(i - 1, Short(pages[n].cursors[i - 1]))
  <2>1. PICK j, m, r : j = i - 1 /\ m = pages[n].cursors[j] /\ r = pages[n].cursors[j + 1]
    OBVIOUS
  <2>2. j \in 1..Len(pages[n].keys) /\ i = j + 1
    BY <1>2, <1>5, <2>1
  <2>3. Neighbours(n, j, m, r)
    BY <1>1, <1>2, <2>1, <2>2, AreNeighbours
  <2>4. PICK a : a = Len(pages[m].keys)
    OBVIOUS
  <2>5. /\ Len(pages[r].keys) = MaxKeys /\ a \in Nat /\ a <= MaxKeys
        /\ (isFull(m) <=> a = MaxKeys)
    <3>1. isFull(r)
      BY <1>2, <2>1, <2>2
    <3> QED BY <2>3, <2>4, <3>1, ChildFull, FormedTypes DEF Neighbours, Filled
  <2>6. isFull(m) \/ RefusedByLeft(pages[r], pages[m])
    BY <1>2, <1>5, <2>1, <2>2 DEF SplitTwo, SplitsTwo, SharesLeft
  <2>7. a = MaxKeys - Short(m) /\ Short(m) \in {0, 1}
    <3>1. CASE isFull(m)
      BY <1>4, <2>5, <3>1 DEF Short
    <3>2. CASE ~isFull(m)
      <4>1. Share(pages[r], pages[m]) - a = 1 /\ Share(pages[r], pages[m]) = MaxKeys
        BY <2>4, <2>6, <3>2 DEF RefusedByLeft
      <4> QED BY <1>4, <2>5, <3>2, <4>1 DEF Short
    <3> QED BY <3>1, <3>2
  <2>8. Len(pages[m].keys) + Len(pages[r].keys) = 2 * MaxKeys - Short(m)
    BY <1>4, <2>4, <2>5, <2>7
  <2>9. splitChildren(j, Short(m))
    BY <1>5, <2>1
  <2> QED BY <1>1, <1>2, <2>1, <2>2, <2>7, <2>8, <2>9, StarSplitPair
<1>6. CASE i = 1 /\ splitChildren(i, Short(pages[n].cursors[i + 1]))
  <2>1. PICK m, r : m = pages[n].cursors[i] /\ r = pages[n].cursors[i + 1]
    OBVIOUS
  <2>2. i \in 1..Len(pages[n].keys)
    BY <1>2, <1>3, <1>6
  <2>3. Neighbours(n, i, m, r)
    BY <1>1, <1>2, <2>1, <2>2, AreNeighbours
  <2>4. PICK a : a = Len(pages[r].keys)
    OBVIOUS
  <2>5. /\ Len(pages[m].keys) = MaxKeys /\ a \in Nat /\ a <= MaxKeys
        /\ (isFull(r) <=> a = MaxKeys)
    <3>1. isFull(m)
      BY <1>2, <2>1
    <3> QED BY <2>3, <2>4, <3>1, ChildFull, FormedTypes DEF Neighbours, Filled
  <2>6. isFull(r) \/ RefusedByRight(pages[m], pages[r])
    BY <1>2, <2>1, <2>2 DEF SplitTwo, SplitsTwo, SharesRight
  <2>7. a = MaxKeys - Short(r) /\ Short(r) \in {0, 1}
    <3>1. CASE isFull(r)
      BY <1>4, <2>5, <3>1 DEF Short
    <3>2. CASE ~isFull(r)
      <4>1. Share(pages[m], pages[r]) - a = 1 /\ Share(pages[m], pages[r]) = MaxKeys
        BY <2>4, <2>6, <3>2 DEF RefusedByRight
      <4> QED BY <1>4, <2>5, <3>2, <4>1 DEF Short
    <3> QED BY <3>1, <3>2
  <2>8. Len(pages[m].keys) + Len(pages[r].keys) = 2 * MaxKeys - Short(r)
    BY <1>4, <2>4, <2>5, <2>7
  <2>9. splitChildren(i, Short(r))
    BY <1>6, <2>1
  <2> QED BY <1>1, <1>2, <2>1, <2>2, <2>7, <2>8, <2>9, StarSplitPair
<1> QED BY <1>2, <1>5, <1>6 DEF SplitTwo

-------------------------------------------------------------------------------
(* insert() *)

\* The halves of a full root.
LEMMA RootHalves ==
    ASSUME NEW old, Formed(old), Len(old.keys) = MaxRootKeys, NEW h, h = Half(old)
    PROVE  /\ InTwo(LeftOf(old, h), RightOf(old, h), old, h) /\ MedianOf(old, h) \in Keys
           /\ Filled(LeftOf(old, h), FALSE) /\ Filled(RightOf(old, h), FALSE)
<1>1. PICK L, g, M : L = Len(old.keys) /\ g = Gap(old) /\ M = MinKeys
  OBVIOUS
<1>2. M \in Nat /\ M >= 2 /\ M + 1 < MaxKeys /\ MaxKeys \in Nat /\ L = 2 * M + 1 /\ g \in {0, 1}
  BY <1>1, StarBounds DEF Gap
<1>3. h = L - L \div 2 - g
  BY <1>1 DEF Half
<1>4. L \div 2 = M
  BY <1>2
<1>5. h = M + 1 - g
  BY ONLY <1>2, <1>3, <1>4
<1>6. h \in Nat /\ h + g <= L /\ h + g \in 1..L /\ L - h - g = M /\ h >= M /\ h <= MaxKeys
  BY ONLY <1>2, <1>5
<1>7. InTwo(LeftOf(old, h), RightOf(old, h), old, h)
  BY <1>1, <1>6, CutInTwo
<1>8. /\ MedianOf(old, h) \in Keys
      /\ Formed(LeftOf(old, h)) /\ Len(LeftOf(old, h).keys) = h
      /\ Formed(RightOf(old, h)) /\ Len(RightOf(old, h).keys) = M
  BY <1>1, <1>6, <1>7 DEF InTwo, IsCut
<1>9. Filled(LeftOf(old, h), FALSE) /\ Filled(RightOf(old, h), FALSE)
  <2>1. M = MinKeys /\ M <= MaxKeys
    BY <1>1, <1>2
  <2> QED BY <1>6, <1>8, <2>1 DEF Filled
<1> QED BY <1>7, <1>8, <1>9

\* The pages qs of a tree with a new root page, new, above the halves x and y of the
\* old root page r.
RootSplit(r, new, x, y, qs) ==
    /\ qs \in Seq(Page) /\ Len(qs) = Len(pages) + 2
    /\ qs[Len(pages) + 1] = new /\ qs[r] = x /\ qs[Len(pages) + 2] = y
    /\ \A d \in (1..Len(pages)) \ {r} : qs[d] = pages[d]

\* The writes of GrowRoot.
LEMMA RootWrites ==
    ASSUME pages \in Seq(Page), NEW N, N = Len(pages), NEW r \in 1..N,
           NEW new \in Page, NEW x \in Page, NEW y \in Page, NEW qs,
           qs = WritePage([WritePage(pages, N + 1, new) EXCEPT ![r] = x], N + 2, y)
    PROVE  RootSplit(r, new, x, y, qs)
<1>1. PICK one, two : one = Append(pages, new) /\ two = [one EXCEPT ![r] = x]
  OBVIOUS
<1>2. N \in Nat
  BY LenProperties
<1>3. /\ one \in Seq(Page) /\ Len(one) = N + 1 /\ one[N + 1] = new
      /\ \A d \in 1..N : one[d] = pages[d]
  BY <1>1, AppendProperties
<1>4. /\ two \in Seq(Page) /\ Len(two) = N + 1
      /\ \A d \in 1..N + 1 : two[d] = IF d = r THEN x ELSE one[d]
  <2>1. r \in 1..Len(one)
    BY <1>2, <1>3
  <2>2. /\ two \in Seq(Page) /\ Len(two) = Len(one)
        /\ \A d \in 1..Len(one) : two[d] = IF d = r THEN x ELSE one[d]
    <3>1. two = [one EXCEPT ![r] = x] /\ one \in Seq(Page)
      BY <1>1, <1>3
    <3> QED BY ONLY <2>1, <3>1, x \in Page, ExceptSeq
  <2> QED BY ONLY <1>3, <2>2
<1>5. WritePage(pages, N + 1, new) = one
  BY <1>1 DEF WritePage
<1>6. qs = Append(two, y)
  <2>1. qs = WritePage(two, N + 2, y)
    BY <1>1, <1>5
  <2>2. N + 2 = Len(two) + 1
    BY <1>2, <1>4
  <2> QED BY <2>1, <2>2 DEF WritePage
<1>7. /\ qs \in Seq(Page) /\ Len(qs) = N + 2 /\ qs[N + 2] = y
      /\ \A d \in 1..N + 1 : qs[d] = two[d]
  <2>1. /\ qs \in Seq(Page) /\ Len(qs) = Len(two) + 1 /\ qs[Len(two) + 1] = y
        /\ \A d \in 1..Len(two) : qs[d] = two[d]
    BY ONLY <1>4, <1>6, y \in Page, AppendProperties
  <2>2. Len(two) = N + 1 /\ Len(two) + 1 = N + 2
    BY <1>2, <1>4
  <2> QED BY <2>1, <2>2
<1>8. \A d \in 1..N : d \in 1..N + 1 /\ d # N + 1
  BY <1>2
<1>9. qs[N + 1] = new /\ qs[r] = x /\ \A d \in (1..N) \ {r} : qs[d] = pages[d]
  <2>1. N + 1 \in 1..N + 1 /\ r \in 1..N + 1 /\ N + 1 # r
    BY <1>2, <1>8
  <2>2. qs[N + 1] = new /\ qs[r] = x
    BY ONLY <1>3, <1>4, <1>7, <2>1
  <2>3. \A d \in (1..N) \ {r} : qs[d] = pages[d]
    BY ONLY <1>3, <1>4, <1>7, <1>8
  <2> QED BY <2>2, <2>3
<1> QED BY <1>7, <1>9 DEF RootSplit

\* They leave a tree with the new root.
LEMMA RootSplitTree ==
    ASSUME NEW N, N = Len(pages), N \in Nat, pages \in Seq(Page), NEW r, r \in 1..N,
           Owned(pages, r), NEW h, Heights(pages, r, h), NEW new, NEW x, NEW y, NEW qs,
           RootSplit(r, new, x, y, qs), new.leaf = FALSE, new.cursors = <<r, N + 2>>,
           Halves(x, y, pages[r])
    PROVE  Owned(qs, N + 1) /\ \E g : Heights(qs, N + 1, g)
<1>1. PICK root, e, ps : /\ root = N + 1 /\ e = [leaf |-> FALSE, keys |-> <<>>, cursors |-> <<r>>]
                         /\ ps = Append(pages, e)
  OBVIOUS
<1>2. e \in Page /\ e.leaf = FALSE /\ Len(e.cursors) = 1 /\ e.cursors[1] = r
  <2>1. r \in Nat
    OBVIOUS
  <2> QED BY <1>1, <2>1, EmptySeq DEF Page
<1>3. Kids(e) = {r} /\ OneCursorEach(e)
  BY <1>2 DEF Kids, OneCursorEach
<1>4. /\ Len(ps) = root /\ ps[root] = e /\ (\A d \in 1..N : ps[d] = pages[d])
      /\ root \in Nat /\ r \in 1..root /\ r # root
  BY <1>1, <1>2, AppendProperties
<1>5. Owned(ps, root) /\ \E g : Heights(ps, root, g)
  <2>1. /\ Len(ps) = Len(pages) + 1 /\ Kids(ps[Len(ps)]) = {r} /\ OneCursorEach(ps[Len(ps)])
        /\ ps[Len(ps)].leaf = FALSE /\ (\A d \in 1..Len(pages) : ps[d] = pages[d])
        /\ Len(pages) \in Nat /\ r \in 1..Len(pages)
    BY <1>1, <1>2, <1>3, <1>4
  <2>2. Owned(ps, Len(ps)) /\ \E g : Heights(ps, Len(ps), g)
    BY ONLY <2>1, Owned(pages, r), Heights(pages, r, h), NewRootKeepsTree
  <2> QED BY <1>4, <2>2
<1>6. MoreKids(new, e, root + 1)
  <2>1. Len(new.cursors) = 2 /\ new.cursors[1] = r /\ new.cursors[2] = root + 1
    BY <1>1
  <2>2. Kids(new) = {r, root + 1}
    BY <2>1 DEF Kids
  <2>3. OneCursorEach(new)
    <3>1. r # root + 1
      BY <1>4
    <3> QED BY <2>1, <3>1 DEF OneCursorEach
  <2> QED BY <1>2, <1>3, <2>2, <2>3 DEF MoreKids
<1>7. /\ Len(qs) = root + 1 /\ qs[root] = new /\ qs[r] = x /\ qs[root + 1] = y
      /\ \A d \in (1..N) \ {r} : qs[d] = pages[d]
  <2>1. /\ Len(qs) = N + 2 /\ qs[N + 1] = new /\ qs[r] = x /\ qs[N + 2] = y
        /\ \A d \in (1..N) \ {r} : qs[d] = pages[d]
    BY DEF RootSplit
  <2>2. N + 2 = root + 1 /\ N + 1 = root
    BY <1>1
  <2> QED BY <2>1, <2>2
<1>8. IsSplit(ps, qs, root, r)
  <2>1. \A d \in (1..root) \ {root, r} : d \in (1..N) \ {r}
    BY <1>1
  <2>2. \A d \in (1..root) \ {root, r} : qs[d] = ps[d]
    BY <1>4, <1>7, <2>1
  <2>3. ps[r] = pages[r] /\ r \in Kids(ps[root]) /\ root \in 1..Len(ps)
    BY <1>3, <1>4
  <2> QED BY <1>4, <1>6, <1>7, <2>2, <2>3 DEF IsSplit
<1>9. PICK g : Heights(ps, root, g)
  BY <1>5
<1>10. Owned(qs, root) /\ \E f : Heights(qs, root, f)
  <2>1. Len(ps) \in Nat /\ root \in 1..Len(ps)
    BY <1>4
  <2> QED BY ONLY <1>5, <1>8, <1>9, <2>1, SplitKeepsTree
<1> QED BY <1>1, <1>10

\* A full root gets a parent: the first step of an insertion that splits it.
LEMMA StarGrow ==
    ASSUME StarInv, NEW x \in Keys, size < MaxSize, Call("insert", x, "insertNonFull"),
           isFull(RootWrapper), GrowRoot, UNCHANGED <<size, stack>>
    PROVE  StarInv'
<1>1. PICK N, r, old, h, l, q, med, new, qs :
         /\ N = Len(pages) /\ r = rootPageNum /\ old = pages[r] /\ h = Half(old)
         /\ l = LeftOf(old, h) /\ q = RightOf(old, h) /\ med = MedianOf(old, h)
         /\ new = [leaf |-> FALSE, keys |-> <<med>>, cursors |-> <<r, N + 2>>]
         /\ qs = pages'
  OBVIOUS
<1>2. /\ pages \in Seq(Page) /\ N \in Nat /\ r \in 1..N /\ freePages = <<>>
      /\ rootPage = old /\ Filled(old, TRUE) /\ Len(freePages) = 0
      /\ stack \in Seq(Nat) /\ size \in 0..MaxSize
  BY <1>1, LenProperties DEF StarInv, CoreOK, TypeOK, RootInMemory, AllFilled
<1>3. AllocPage(1) = N + 1 /\ AllocPage(2) = N + 2 /\ FreeAfterAlloc(2) = <<>>
  BY <1>1, <1>2 DEF AllocPage, FreeAfterAlloc
<1>4. /\ qs = WritePage([WritePage(pages, N + 1, new) EXCEPT ![r] = l], N + 2, q)
      /\ rootPageNum' = N + 1 /\ rootPage' = new /\ freePages' = <<>>
  BY <1>1, <1>3 DEF GrowRoot
<1>5. Len(old.keys) = MaxRootKeys
  BY <1>2 DEF isFull, isRoot, Data, PageNum, RootWrapper
<1>6. /\ InTwo(l, q, old, h) /\ med \in Keys /\ Filled(l, FALSE) /\ Filled(q, FALSE)
  BY <1>1, <1>2, <1>5, RootHalves DEF Filled
<1>7. /\ new \in Page /\ new.leaf = FALSE /\ new.keys = <<med>> /\ new.cursors = <<r, N + 2>>
      /\ l \in Page /\ q \in Page
  <2>1. <<med>> \in Seq(Keys)
    BY <1>6
  <2>2. <<r, N + 2>> \in Seq(Nat)
    <3>1. r \in Nat /\ N + 2 \in Nat
      BY <1>2
    <3> QED BY <3>1
  <2> QED BY <1>1, <1>6, <2>1, <2>2 DEF Page, Filled, Formed
<1>8. RootSplit(r, new, l, q, qs)
  <2>1. N = Len(pages)
    BY <1>1
  <2> QED BY ONLY <1>2, <1>4, <1>7, <2>1, RootWrites
<1>9. PICK g : Heights(pages, r, g)
  BY <1>1 DEF StarInv, TreeInv
<1>10. Owned(qs, N + 1) /\ \E f : Heights(qs, N + 1, f)
  <2>1. Owned(pages, r) /\ Halves(l, q, pages[r])
    BY <1>1, <1>6 DEF StarInv, TreeInv, InTwo
  <2>2. N = Len(pages)
    BY <1>1
  <2> QED BY ONLY <1>2, <1>7, <1>8, <1>9, <2>1, <2>2, RootSplitTree
<1>11. Filled(new, TRUE)
  <2>1. Len(new.keys) = 1 /\ Len(new.cursors) = 2
    BY <1>7
  <2>2. OneCursorEach(new)
    <3>1. r # N + 2
      BY <1>2
    <3> QED BY <1>7, <3>1 DEF OneCursorEach
  <2>3. MaxRootKeys >= 1
    BY StarBounds
  <2> QED BY <1>7, <2>1, <2>2, <2>3 DEF Filled, Formed
<1>12. /\ qs \in Seq(Page) /\ Len(qs) = N + 2 /\ qs[N + 1] = new /\ qs[r] = l
       /\ qs[N + 2] = q /\ \A d \in (1..N) \ {r} : qs[d] = pages[d]
  BY <1>1, <1>8 DEF RootSplit
<1>13. AllFilled(qs, N + 1)
  <2> SUFFICES ASSUME NEW d \in 1..N + 2 PROVE Filled(qs[d], d = N + 1)
    BY <1>12 DEF AllFilled
  <2>1. \/ d = N + 1 \/ (d = r /\ d # N + 1) \/ (d = N + 2 /\ d # N + 1)
        \/ (d \in (1..N) \ {r} /\ d # N + 1)
    BY <1>2
  <2>2. \A e \in (1..N) \ {r} : Filled(pages[e], FALSE)
    BY <1>1 DEF StarInv, AllFilled
  <2> QED BY <1>6, <1>11, <1>12, <2>1, <2>2
<1>14. LinksOK(qs, N + 1)
  BY <1>10, <1>13, FilledLinks
<1>15. /\ fn' = "insertNonFull" /\ at' = 0 /\ op' = "insert" /\ k' = x /\ answer' = 0
       /\ size' = size /\ stack' = stack
  BY DEF Call, RootWrapper
<1>16. N + 1 \in 1..N + 2 /\ 0 \in 0..N + 2 /\ N + 1 # 0
  BY <1>2
<1>17. TypeOK'
  <2>1. /\ pages' \in Seq(Page) /\ Len(pages') = N + 2 /\ rootPage' \in Page
        /\ rootPageNum' \in 1..Len(pages') /\ at' \in 0..Len(pages')
    BY <1>1, <1>4, <1>7, <1>12, <1>15, <1>16
  <2>2. freePages' \in Seq(1..Len(pages'))
    BY <1>4, EmptySeq
  <2> QED BY <1>2, <1>15, <2>1, <2>2 DEF TypeOK
<1>18. CoreOK'
  <2>1. RootInMemory' /\ freePages' = <<>> /\ LinksOK(pages, rootPageNum)'
    BY <1>1, <1>4, <1>12, <1>14 DEF RootInMemory
  <2>2. CoreCall'
    BY <1>4, <1>15, <1>16 DEF CoreCall
  <2> QED BY <1>17, <2>1, <2>2 DEF CoreOK
<1>19. HasRoom'
  <2>1. isFull(at)' = (Len(new.keys) = MaxRootKeys)
    BY <1>4, <1>15 DEF isFull, isRoot, Data, PageNum, RootWrapper
  <2>2. Len(new.keys) = 1 /\ MaxRootKeys # 1
    BY <1>7, StarBounds
  <2> QED BY <1>15, <2>1, <2>2 DEF HasRoom
<1> QED BY <1>1, <1>4, <1>10, <1>13, <1>18, <1>19 DEF StarInv, TreeInv

\* A call of insert().
LEMMA StarInsert ==
    ASSUME StarInv, NEW x \in Keys, Insert(x)
    PROVE  StarInv'
<1>1. size < MaxSize /\ Call("insert", x, "insertNonFull") /\ UNCHANGED <<size, stack>>
  BY DEF Insert
<1>2. CASE isFull(RootWrapper)
  BY <1>1, <1>2, StarGrow DEF Insert
<1>3. CASE ~isFull(RootWrapper)
  <2>1. /\ fn' = "insertNonFull" /\ at' = 0 /\ op' = "insert" /\ k' = x /\ answer' = 0
        /\ size' = size /\ stack' = stack
    BY <1>1 DEF Call, RootWrapper
  <2>2. /\ pages' = pages /\ rootPageNum' = rootPageNum /\ rootPage' = rootPage
        /\ freePages' = freePages
    BY <1>3 DEF Insert, treeVars
  <2>3. TreeInv'
    BY <2>2, QuietKeepsTree DEF StarInv
  <2>4. CoreCall' /\ TypeOK'
    <3>1. rootPageNum \in 1..Len(pages) /\ pages \in Seq(Page) /\ Len(pages) \in Nat
      BY LenProperties DEF StarInv, CoreOK, TypeOK
    <3>2. rootPageNum # 0 /\ 0 \in 0..Len(pages)
      BY <3>1
    <3> QED BY <2>1, <2>2, <3>1, <3>2 DEF StarInv, CoreOK, TypeOK, CoreCall
  <2>5. CoreOK'
    BY <2>2, <2>4 DEF StarInv, CoreOK, RootInMemory, LinksOK
  <2>6. isFull(at)' = isFull(RootWrapper)
    BY <2>1, <2>2 DEF isFull, isRoot, Data, PageNum, RootWrapper
  <2> QED BY <1>1, <1>3, <2>1, <2>2, <2>3, <2>5, <2>6 DEF StarInv, AllFilled, HasRoom
<1> QED BY <1>2, <1>3

-------------------------------------------------------------------------------
(* The theorems. *)

\* Every call, every recursive call and every reopening keeps the invariant.
LEMMA StarNext == StarInv /\ [BaseNext]_vars => StarInv'
<1> SUFFICES ASSUME StarInv, [BaseNext]_vars PROVE StarInv'
  OBVIOUS
<1>1. CoreOK
  BY DEF StarInv
<1>2. CASE BaseCall
  <2>1. ASSUME NEW x \in Keys, Search(x) \/ SearchAll(x) PROVE StarInv'
    BY <1>1, <2>1, SearchCallReads, SearchAllCallReads, StarReads
  <2> QED BY <1>2, <2>1, StarInsert DEF BaseCall
<1>3. CASE insertNonFull
  <2>1. fn = "insertNonFull"
    BY <1>3 DEF insertNonFull
  <2>2. CASE InsertIntoLeaf
    BY <2>1, <2>2, StarLeaf
  <2>3. CASE Descend
    BY <2>1, <2>3, StarDescend
  <2>4. CASE MakeRoomAndDescend
    <3>1. PICK i : i = Position(at)
      OBVIOUS
    <3>2. /\ ~Data(at).leaf /\ isFull(Data(at).cursors[i]) /\ UNCHANGED <<size, stack>>
          /\ ShareWithLeft(i) \/ ShareWithRight(i) \/ SplitTwo(i)
      BY <2>4, <3>1 DEF MakeRoomAndDescend
    <3> QED BY <2>1, <3>1, <3>2, StarShareLeft, StarShareRight, StarSplitTwo
  <2> QED BY <1>3, <2>2, <2>3, <2>4 DEF insertNonFull
<1>4. CASE search
  BY <1>1, <1>4, SearchReads, StarReads
<1>5. CASE searchAll
  BY <1>1, <1>5, SearchAllReads, StarReads
<1>6. CASE LoadTree
  BY <1>1, <1>6, LoadTreeReads, StarReads
<1>7. CASE UNCHANGED vars
  <2>1. /\ pages' = pages /\ rootPageNum' = rootPageNum /\ rootPage' = rootPage
        /\ freePages' = freePages /\ size' = size /\ op' = op /\ k' = k /\ fn' = fn
        /\ at' = at /\ stack' = stack /\ answer' = answer
    BY <1>7 DEF vars, treeVars, callVars
  <2>2. TypeOK' /\ RootInMemory' /\ LinksOK(pages, rootPageNum)' /\ CoreCall'
    BY <1>1, <2>1 DEF CoreOK, TypeOK, RootInMemory, LinksOK, CoreCall
  <2>3. TreeInv'
    BY <2>1, QuietKeepsTree DEF StarInv
  <2>4. isFull(at)' = isFull(at)
    BY <2>1 DEF isFull, isRoot, Data, PageNum
  <2> QED BY <2>1, <2>2, <2>3, <2>4 DEF StarInv, CoreOK, AllFilled, HasRoom
<1> QED BY <1>2, <1>3, <1>4, <1>5, <1>6, <1>7 DEF BaseNext, BaseStep

\* The inductive invariant holds throughout.
LEMMA StarHolds == BaseSpec => []StarInv
<1>1. Init => StarInv
  BY StarInit
<1>2. StarInv /\ [BaseNext]_vars => StarInv'
  BY StarNext
<1> QED BY <1>1, <1>2, PTL DEF BaseSpec

\* A neighbour that shares keys with a full page has fewer and takes some.
LEMMA NeighbourTakes ==
    ASSUME StarInv, NEW c \in 1..Len(pages), NEW s \in 1..Len(pages),
           c # rootPageNum, s # rootPageNum, isFull(c), ~isFull(s)
    PROVE  Share(pages[c], pages[s]) >= Len(pages[s].keys) + Gap(pages[c])
<1>1. PICK u, v, d : u = Len(pages[c].keys) /\ v = Len(pages[s].keys)
                     /\ d = Share(pages[c], pages[s])
  OBVIOUS
<1>2. Filled(pages[s], FALSE)
  BY DEF StarInv, AllFilled
<1>3. u = MaxKeys /\ MaxKeys \in Nat /\ v \in Nat /\ v # MaxKeys /\ v <= MaxKeys
  BY <1>1, <1>2, ChildFull, StarBounds, FormedTypes DEF Filled
<1>4. d = (u + v + 1) \div 2
  BY <1>1 DEF Share
<1>5. d > v
  <2>1. u \in Nat /\ v < u
    BY ONLY <1>3
  <2> QED BY ONLY <1>3, <1>4, <2>1, ShareBounds
<1>6. \A g \in {0, 1} : d >= v + g
  BY ONLY <1>3, <1>4, <1>5
<1>7. Gap(pages[c]) \in {0, 1}
  BY DEF Gap
<1> QED BY <1>1, <1>6, <1>7

\* So no page is asked to give away fewer keys than none.
LEMMA SharesFit ==
    ASSUME StarInv, ~Data(at).leaf
    PROVE  ~ShareFaults(Position(at))
<1>1. PICK n, p, i : n = PageNum(at) /\ p = Data(at) /\ i = Position(at)
  OBVIOUS
<1>2. i \in 1..Len(p.keys) + 1 /\ Len(p.keys) \in Nat
  BY <1>1, PositionRange
<1>3. \A j \in 1..Len(p.keys) + 1 : p.cursors[j] \in 1..Len(pages) /\ p.cursors[j] # rootPageNum
  BY <1>1, CursorLeads DEF StarInv
<1>4. ASSUME isFull(p.cursors[i]), SharesLeft(i)
      PROVE  Share(pages[p.cursors[i]], pages[p.cursors[i - 1]])
                >= Len(pages[p.cursors[i - 1]].keys) + Gap(pages[p.cursors[i]])
  <2>1. i > 1 /\ ~isFull(p.cursors[i - 1])
    BY <1>1, <1>4 DEF SharesLeft
  <2>2. i - 1 \in 1..Len(p.keys) + 1
    BY <1>2, <2>1
  <2> QED BY <1>2, <1>3, <1>4, <2>1, <2>2, NeighbourTakes
<1>5. ASSUME isFull(p.cursors[i]), SharesRight(i)
      PROVE  Share(pages[p.cursors[i]], pages[p.cursors[i + 1]])
                >= Len(pages[p.cursors[i + 1]].keys) + Gap(pages[p.cursors[i]])
  <2>1. i <= Len(p.keys) /\ ~isFull(p.cursors[i + 1])
    BY <1>1, <1>5 DEF SharesRight
  <2>2. i + 1 \in 1..Len(p.keys) + 1
    BY <1>2, <2>1
  <2> QED BY <1>2, <1>3, <1>5, <2>1, <2>2, NeighbourTakes
<1> QED BY <1>1, <1>4, <1>5 DEF ShareFaults

\* Without deletion the variables of a B*-tree or B*+-tree keep their types: every
\* cursor and every wrapper stays within the file.
THEOREM StarTypeCorrect == BaseSpec => []TypeOK
<1>1. StarInv => TypeOK
  BY DEF StarInv, CoreOK
<1> QED BY <1>1, StarHolds, PTL

\* Whatever the order and the keys, no sequence of insertions, searches and reopenings
\* of a B*-tree or B*+-tree ends in an exception or copies keys out of a page's bounds:
\* sharing keys and splitting two pages into three always leave room in the page the
\* insertion goes on with, no cursor dangles, and the copies of
\* shareKeysWithLeftChildAndInsert() and shareKeysWithRightChildAndInsert() never get
\* a negative length.
THEOREM StarNeverThrows == BaseSpec => []NeverThrows
<1>1. StarInv => NeverThrows
  <2> SUFFICES ASSUME StarInv PROVE ~InsertThrows /\ ~SearchThrows /\ ~SearchAllThrows
    BY DEF NeverThrows
  <2>1. ~SearchThrows /\ ~SearchAllThrows
    BY SearchesReadPages DEF StarInv
  <2>2. ASSUME fn = "insertNonFull" PROVE ~isFull(at)
    BY <2>2 DEF StarInv, HasRoom
  <2>3. ASSUME fn = "insertNonFull" PROVE ~Overflows
    <3>1. PICK n : n = PageNum(at)
      OBVIOUS
    <3>2. /\ Data(at) = pages[n] /\ Len(pages[n].keys) \in Nat
          /\ Len(pages[n].keys) < Capacity
      BY <2>3, <3>1, StarPage, RoomHere
    <3>3. Capacity \in Nat
      BY StarBounds DEF Capacity
    <3>4. ~(Len(pages[n].keys) >= Capacity)
      BY ONLY <3>2, <3>3
    <3> QED BY <3>2, <3>4 DEF Overflows
  <2>4. ASSUME ~Data(at).leaf
        PROVE  Exists(Data(at).cursors[Position(at)]) /\ ~ShareFaults(Position(at))
    <3>1. Position(at) \in 1..Len(Data(at).keys) + 1
      BY PositionRange
    <3>2. Exists(Data(at).cursors[Position(at)])
      BY <2>4, <3>1, CursorLeads DEF StarInv, Exists
    <3> QED BY <2>4, <3>2, SharesFit
  <2>5. ~InsertThrows
    BY <2>2, <2>3, <2>4 DEF InsertThrows
  <2> QED BY <2>1, <2>5
<1> QED BY <1>1, StarHolds, PTL

\* Every page but the root holds between getMinKeys() and getMaxKeys() keys, about two
\* thirds of a page at least, between any two steps of an insertion too; the root holds
\* no more than getMaxRootKeys(), and an inner page one cursor more than keys.
THEOREM StarOccupancy == BaseSpec => []Occupancy
<1>1. StarInv => Occupancy
  <2> SUFFICES ASSUME StarInv, NEW n \in Reachable
               PROVE  LET p == pages[n]
                      IN  /\ Len(p.keys) <= IF n = rootPageNum THEN MaxRootKeys ELSE MaxKeys
                          /\ n # rootPageNum => Len(p.keys) >= MinKeys
                          /\ n = rootPageNum /\ ~p.leaf => Len(p.keys) >= 1
                          /\ Len(p.cursors) = IF p.leaf THEN 0 ELSE Len(p.keys) + 1
    BY DEF Occupancy
  <2>1. n \in 1..Len(pages)
    BY DEF Reachable
  <2>2. Filled(pages[n], n = rootPageNum)
    BY <2>1 DEF StarInv, AllFilled
  <2> QED BY <2>2 DEF Filled, Formed
<1> QED BY <1>1, StarHolds, PTL

\* The root page kept in memory is the root page on disk after every step of an
\* insertion: the sharing and the splits that change the root write both.
THEOREM StarRootInMemory == BaseSpec => []RootInMemory
<1>1. StarInv => RootInMemory
  BY DEF StarInv, CoreOK
<1> QED BY <1>1, StarHolds, PTL

\* What the invariant says of the pages as a tree.
LEMMA StarTree ==
    ASSUME StarInv
    PROVE  /\ rootPageNum \in 1..Len(pages) /\ Len(pages) \in Nat /\ freePages = <<>>
           /\ \A n \in 1..Len(pages) : pages[n].leaf \in BOOLEAN
           /\ Owned(pages, rootPageNum) /\ \E h : Heights(pages, rootPageNum, h)
<1>1. pages \in Seq(Page) /\ rootPageNum \in 1..Len(pages) /\ freePages = <<>>
  BY DEF StarInv, CoreOK, TypeOK
<1>2. \A n \in 1..Len(pages) : pages[n].leaf \in BOOLEAN
  BY FormedTypes DEF StarInv, AllFilled, Filled
<1> QED BY <1>1, <1>2, LenProperties DEF StarInv, TreeInv

\* All the leaves are equally far from the root, after every step of every sequence
\* of insertions: two neighbours and the page between them that splitChildren() makes
\* are on one level, and only insert() adds a level, at the root.
THEOREM StarBalanced == BaseSpec => []Balanced
<1>1. StarInv => Balanced
  BY StarTree, HeightsBalance
<1> QED BY <1>1, StarHolds, PTL

\* Every page of the file is the root or hangs under exactly one cursor of one page,
\* after every step of every sequence of insertions: laying pages out as one and
\* cutting them again neither loses a child nor leaves it with both halves.
THEOREM StarPagesAccounted == BaseSpec => []PagesAccounted
<1>1. StarInv => PagesAccounted
  BY StarTree, OwnedAccounts
<1> QED BY <1>1, StarHolds, PTL
===============================================================================
