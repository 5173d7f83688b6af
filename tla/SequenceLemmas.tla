---------------------------- MODULE SequenceLemmas ----------------------------
(***************************************************************************)
(* Facts about sequences and numbers that the proofs about the trees and   *)
(* about the comparator share.                                             *)
(***************************************************************************)
EXTENDS SequencesExt, SequenceTheorems, FiniteSetTheorems, WellFoundedInduction, TLAPS

-------------------------------------------------------------------------------
\* What InsertAt() returns: one element more, of the same kind.
LEMMA InsertAtProperties ==
    ASSUME NEW S, NEW s \in Seq(S), NEW i \in 1..Len(s) + 1, NEW e \in S
    PROVE  /\ InsertAt(s, i, e) \in Seq(S)
           /\ Len(InsertAt(s, i, e)) = Len(s) + 1
<1> DEFINE a == SubSeq(s, 1, i - 1)
           b == SubSeq(s, i, Len(s))
           c == a \o <<e>>
<1>1. Len(s) \in Nat /\ \A j \in 1..Len(s) : s[j] \in S
  BY LenProperties, ElementOfSeq
<1>2. a \in Seq(S) /\ Len(a) = i - 1
  <2>1. \A j \in 1..i - 1 : s[j] \in S
    BY <1>1
  <2> QED BY <2>1, <1>1, SubSeqProperties
<1>3. b \in Seq(S) /\ Len(b) = Len(s) - i + 1
  <2>1. \A j \in i..Len(s) : s[j] \in S
    BY <1>1
  <2> QED BY <2>1, <1>1, SubSeqProperties
<1>4. <<e>> \in Seq(S) /\ Len(<<e>>) = 1
  OBVIOUS
<1> HIDE DEF a, b
<1>5. c \in Seq(S) /\ Len(c) = i
  BY <1>1, <1>2, <1>4, ConcatProperties
<1> HIDE DEF c
<1>6. c \o b \in Seq(S) /\ Len(c \o b) = Len(c) + Len(b)
  BY ONLY <1>3, <1>5, ConcatProperties
<1>7. Len(c) + Len(b) = Len(s) + 1
  BY <1>1, <1>3, <1>5
<1> QED BY <1>6, <1>7 DEF InsertAt, a, b, c

\* InsertAt() moves the elements behind the new one by one place.
LEMMA InsertAtElements ==
    ASSUME NEW S, NEW s \in Seq(S), NEW i \in 1..Len(s) + 1, NEW e \in S
    PROVE  /\ Len(InsertAt(s, i, e)) = Len(s) + 1
           /\ \A j \in 1..i - 1 : InsertAt(s, i, e)[j] = s[j]
           /\ InsertAt(s, i, e)[i] = e
           /\ \A j \in i + 1..Len(s) + 1 : InsertAt(s, i, e)[j] = s[j - 1]
<1> DEFINE a == SubSeq(s, 1, i - 1)
           b == SubSeq(s, i, Len(s))
           c == a \o <<e>>
<1>1. Len(s) \in Nat /\ \A j \in 1..Len(s) : s[j] \in S
  BY LenProperties, ElementOfSeq
<1>2. a \in Seq(S) /\ Len(a) = i - 1 /\ \A j \in 1..i - 1 : a[j] = s[j]
  <2>1. \A j \in 1..i - 1 : s[j] \in S
    BY <1>1
  <2>2. a \in Seq(S) /\ Len(a) = i - 1
    BY <2>1, <1>1, SubSeqProperties
  <2>3. \A j \in 1..i - 1 : a[j] = s[1 + j - 1]
    BY <2>1, <2>2, <1>1, SubSeqProperties
  <2> QED BY <2>2, <2>3
<1>3. b \in Seq(S) /\ Len(b) = Len(s) + 1 - i /\ \A j \in 1..Len(s) + 1 - i : b[j] = s[i + j - 1]
  <2>1. \A j \in i..Len(s) : s[j] \in S
    BY <1>1
  <2>2. b \in Seq(S) /\ Len(b) = Len(s) + 1 - i
    BY <2>1, <1>1, SubSeqProperties
  <2> QED BY <2>1, <2>2, <1>1, SubSeqProperties
<1>4. <<e>> \in Seq(S) /\ Len(<<e>>) = 1 /\ <<e>>[1] = e
  OBVIOUS
<1> HIDE DEF a, b
<1>5. /\ c \in Seq(S) /\ Len(c) = i
      /\ \A j \in 1..i - 1 : c[j] = s[j]
      /\ c[i] = e
  <2>1. c \in Seq(S) /\ Len(c) = i
        /\ \A j \in 1..i : c[j] = IF j <= i - 1 THEN a[j] ELSE <<e>>[j - (i - 1)]
    BY <1>1, <1>2, <1>4, ConcatProperties
  <2> QED BY <1>2, <1>4, <2>1
<1> HIDE DEF c
<1>6. /\ Len(c \o b) = Len(s) + 1
      /\ \A j \in 1..Len(s) + 1 : (c \o b)[j] = IF j <= i THEN c[j] ELSE b[j - i]
  <2>1. /\ Len(c \o b) = Len(c) + Len(b)
        /\ \A j \in 1..Len(c) + Len(b) : (c \o b)[j] = IF j <= Len(c) THEN c[j] ELSE b[j - Len(c)]
    BY <1>3, <1>5, ConcatProperties
  <2>2. Len(c) + Len(b) = Len(s) + 1
    BY <1>1, <1>3, <1>5
  <2> QED BY <1>5, <2>1, <2>2
<1>7. \A j \in 1..i - 1 : (c \o b)[j] = s[j]
  <2>1. \A j \in 1..i - 1 : j \in 1..Len(s) + 1 /\ j <= i
    BY <1>1
  <2> QED BY <1>5, <1>6, <2>1
<1>8. (c \o b)[i] = e
  BY <1>5, <1>6
<1>9. \A j \in i + 1..Len(s) + 1 : (c \o b)[j] = s[j - 1]
  <2> TAKE j \in i + 1..Len(s) + 1
  <2>1. /\ j \in 1..Len(s) + 1 /\ ~(j <= i)
        /\ j - i \in 1..Len(s) + 1 - i /\ i + (j - i) - 1 = j - 1
    BY <1>1
  <2>2. b[j - i] = s[j - 1]
    BY <1>3, <2>1
  <2> QED BY <1>6, <2>1, <2>2
<1> QED BY <1>6, <1>7, <1>8, <1>9 DEF InsertAt, a, b, c

\* What SubSeq() returns for the l positions from m to n.
LEMMA SubSeqIn ==
    ASSUME NEW S, NEW s \in Seq(S), NEW m \in Nat \ {0}, NEW n \in Nat, NEW l \in Nat,
           m + l = n + 1, n <= Len(s)
    PROVE  SubSeq(s, m, n) \in Seq(S)
<1>1. Len(s) \in Nat /\ \A j \in m..n : s[j] \in S
  BY LenProperties, ElementOfSeq
<1> QED BY <1>1, SubSeqProperties

\* The length of such a SubSeq().
LEMMA SubSeqLen ==
    ASSUME NEW s \in Seq(Int), NEW m \in Nat \ {0}, NEW n \in Nat, NEW l \in Nat,
           m + l = n + 1, n <= Len(s)
    PROVE  Len(SubSeq(s, m, n)) = l
<1>1. Len(s) \in Nat /\ \A j \in m..n : s[j] \in Int
  BY LenProperties, ElementOfSeq
<1> QED BY <1>1, SubSeqProperties

\* The elements of SubSeq().
LEMMA SubSeqElements ==
    ASSUME NEW s \in Seq(Int), NEW m \in Nat \ {0}, NEW n \in Nat, NEW l \in Nat,
           m + l = n + 1, n <= Len(s)
    PROVE  /\ Len(SubSeq(s, m, n)) = l
           /\ \A j \in 1..l : SubSeq(s, m, n)[j] = s[m + j - 1]
<1>1. Len(s) \in Nat /\ \A j \in m..n : s[j] \in Int
  BY LenProperties, ElementOfSeq
<1>2. Len(SubSeq(s, m, n)) = l
  BY SubSeqLen
<1>3. l = IF m <= n THEN n - m + 1 ELSE 0
  OBVIOUS
<1> QED BY <1>1, <1>2, <1>3, SubSeqProperties

\* The number of positions that satisfy a condition is at most their number.
LEMMA CountBound ==
    ASSUME NEW a \in Nat, NEW b \in Nat, NEW T \in SUBSET (a..b), a <= b + 1
    PROVE  /\ IsFiniteSet(T)
           /\ Cardinality(T) \in Nat
           /\ Cardinality(T) <= b - a + 1
<1>1. IsFiniteSet(a..b) /\ Cardinality(a..b) = IF a > b THEN 0 ELSE b - a + 1
  BY FS_Interval
<1>2. IsFiniteSet(T) /\ Cardinality(T) <= Cardinality(a..b)
  BY <1>1, FS_Subset
<1> QED BY <1>1, <1>2, FS_CardinalityType

\* A set of natural numbers has a least element.
LEMMA LeastNumber ==
    ASSUME NEW T, T \subseteq Nat, T # {}
    PROVE  \E x \in T : \A y \in T : x <= y
<1> DEFINE R == {ss \in Nat \X Nat : ss[1] < ss[2]}
<1>1. IsWellFoundedOn(R, Nat)
  BY NatLessThanWellFounded DEF OpToRel
<1>2. PICK x \in T : \A y \in T : ~(<<y, x>> \in R)
  <2> HIDE DEF R
  <2> QED BY <1>1, WFMin
<1>3. \A y \in T : ~(y < x)
  BY <1>2
<1> QED BY <1>3
===============================================================================
