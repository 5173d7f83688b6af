------------------------ MODULE SharedComparatorProofs ------------------------
(***************************************************************************)
(* Every key in a tree is found, whatever the other tables did to the      *)
(* comparator, as long as no rebuilt B*-tree has more than one page.       *)
(*                                                                         *)
(* The invariant is that the keys of each tree ascend under the comparison *)
(* of as many bytes as the table's keys have.  A rebuild with another      *)
(* number of bytes keeps it: fewer bytes make fewer keys less than others, *)
(* and keys that come in order are each put behind the last.               *)
(***************************************************************************)
EXTENDS SharedComparator, SequenceLemmas

-------------------------------------------------------------------------------
(* The comparison of keys. *)

\* A key is a sequence of as many bytes as the table's keys have.
LEMMA KeyLength ==
    ASSUME NEW B, NEW m \in Nat, NEW x \in [1..m -> B]
    PROVE  x \in Seq(B) /\ Len(x) = m
<1>1. x \in Seq(B)
  BY SeqDef
<1>2. Len(x) \in Nat /\ DOMAIN x = 1..Len(x)
  BY <1>1, LenProperties
<1> QED BY <1>1, <1>2

\* On the keys K of m bytes, compare() is a strict total order.
TotalOrder(K, m) ==
    /\ \A x \in K : ~compare(x, x, m)
    /\ \A x, y, z \in K : compare(x, y, m) /\ compare(y, z, m) => compare(x, z, m)
    /\ \A x, y \in K : x = y \/ compare(x, y, m) \/ compare(y, x, m)

\* Comparing fewer bytes makes no other key less.
LEMMA FewerBytes ==
    ASSUME NEW m \in Nat, NEW x \in [1..m -> Bytes], NEW y, NEW n, compare(x, y, n)
    PROVE  compare(x, y, m)
<1>1. Len(x) = m
  BY KeyLength
<1> QED BY <1>1 DEF compare

\* What compare() says about keys of m bytes.
LEMMA CompareAll ==
    ASSUME NEW m \in Nat, NEW x \in [1..m -> Bytes], NEW y
    PROVE  compare(x, y, m) <=>
              \E i \in 1..m : x[i] < y[i] /\ \A j \in 1..i - 1 : x[j] = y[j]
<1>1. Len(x) = m
  BY KeyLength
<1> QED BY <1>1 DEF compare

\* isEqual() on all bytes is equality.
LEMMA EqualAll ==
    ASSUME NEW m \in Nat, NEW x \in [1..m -> Bytes], NEW y \in [1..m -> Bytes]
    PROVE  isEqual(x, y, m) <=> x = y
<1>1. Len(x) = m
  BY KeyLength
<1> QED BY <1>1 DEF isEqual

\* compare() orders the keys of a table.
LEMMA KeysOrdered ==
    ASSUME NEW m \in Nat
    PROVE  TotalOrder([1..m -> Bytes], m)
<1> DEFINE K == [1..m -> Bytes]
           D(x, y) == {i \in 1..m : x[i] # y[i]}
           First(x, y, i) == i \in 1..m /\ x[i] < y[i] /\ \A j \in 1..i - 1 : x[j] = y[j]
<1>1. \A x \in K : \A i \in 1..m : x[i] \in Nat
  BY ComparatorAssumption
<1>2. \A x, y \in K : compare(x, y, m) <=> \E i \in 1..m : First(x, y, i)
  BY CompareAll
<1>3. ASSUME NEW x \in K PROVE ~compare(x, x, m)
  BY <1>1, <1>2
<1>4. ASSUME NEW x \in K, NEW y \in K, NEW z \in K, compare(x, y, m), compare(y, z, m)
      PROVE  compare(x, z, m)
  <2>1. PICK i \in 1..m : First(x, y, i)
    BY <1>2, <1>4
  <2>2. PICK k \in 1..m : First(y, z, k)
    BY <1>2, <1>4
  <2>3. CASE i <= k
    <3>1. First(x, z, i)
      <4>1. x[i] \in Nat /\ y[i] \in Nat /\ z[i] \in Nat
        BY <1>1
      <4>2. y[i] <= z[i]
        BY <2>2, <2>3, <4>1
      <4>3. \A j \in 1..i - 1 : j \in 1..k - 1
        BY <2>3
      <4> QED BY <2>1, <2>2, <4>1, <4>2, <4>3
    <3> QED BY <1>2, <3>1
  <2>4. CASE k < i
    <3>1. First(x, z, k)
      <4>1. x[k] = y[k]
        BY <2>1, <2>4
      <4>3. \A j \in 1..k - 1 : j \in 1..i - 1
        BY <2>4
      <4> QED BY <2>1, <2>2, <4>1, <4>3
    <3> QED BY <1>2, <3>1
  <2> QED BY <2>3, <2>4
<1>5. ASSUME NEW x \in K, NEW y \in K, x # y
      PROVE  compare(x, y, m) \/ compare(y, x, m)
  <2>1. D(x, y) \subseteq Nat /\ D(x, y) # {}
    BY <1>5
  <2>2. PICK i \in D(x, y) : \A j \in D(x, y) : i <= j
    <3> HIDE DEF D
    <3> QED BY <2>1, LeastNumber
  <2>3. i \in 1..m /\ x[i] # y[i] /\ \A j \in 1..i - 1 : x[j] = y[j]
    BY <2>2
  <2>4. x[i] < y[i] \/ y[i] < x[i]
    BY <1>1, <2>3
  <2>5. First(x, y, i) \/ First(y, x, i)
    BY <2>3, <2>4
  <2> QED BY <1>2, <2>3, <2>5
<1> HIDE DEF K
<1> QED BY <1>3, <1>4, <1>5 DEF TotalOrder, K

-------------------------------------------------------------------------------
(* The scans of a tree whose keys are in order. *)

\* The keys of s ascend under the comparison of m bytes.
Ascends(s, m) == \A i, j \in 1..Len(s) : i < j => compare(s[i], s[j], m)

\* The scan for x stops at p: the keys before it are less, no other is.
StopsAt(s, x, p, m) ==
    /\ p \in 1..Len(s) + 1
    /\ \A j \in 1..p - 1 : compare(s[j], x, m)
    /\ \A j \in p..Len(s) : ~compare(s[j], x, m)

\* The place p for x: the keys before it are less, the others greater.
Belongs(s, x, p, m) ==
    /\ p \in 1..Len(s) + 1
    /\ \A j \in 1..p - 1 : compare(s[j], x, m)
    /\ \A j \in p..Len(s) : compare(x, s[j], m)

\* The scan from the left stops at the first key that is not less.
LEMMA ScanFromLeft ==
    ASSUME NEW m, NEW K, TotalOrder(K, m), NEW s \in Seq(K), Ascends(s, m), NEW x \in K
    PROVE  StopsAt(s, x, FirstNotLess(s, x, m), m)
<1> DEFINE L == Len(s)
           T == {j \in 1..L : \A i \in 1..j : compare(s[i], x, m)}
           U == {j \in 1..L : ~compare(s[j], x, m)}
<1>1. L \in Nat /\ \A j \in 1..L : s[j] \in K
  BY LenProperties, ElementOfSeq
<1>2. FirstNotLess(s, x, m) = 1 + Cardinality(T)
  BY DEF FirstNotLess
<1>3. \A i, j \in 1..L : i < j /\ compare(s[j], x, m) => compare(s[i], x, m)
  BY <1>1 DEF TotalOrder, Ascends
<1>4. T \subseteq 1..L /\ \A j \in 1..L : j \in T <=> \A i \in 1..j : compare(s[i], x, m)
  OBVIOUS
<1> HIDE DEF T
<1>5. CASE U = {}
  <2>1. T = 1..L
    <3>1. \A j \in 1..L : \A i \in 1..j : i \in 1..L
      BY <1>1
    <3>2. \A j \in 1..L : compare(s[j], x, m)
      BY <1>5
    <3>3. \A j \in 1..L : j \in T
      BY <1>4, <3>1, <3>2
    <3> QED BY <1>4, <3>3
  <2>2. Cardinality(T) = L
    <3>1. Cardinality(1..L) = IF 1 > L THEN 0 ELSE L - 1 + 1
      BY ONLY <1>1, FS_Interval
    <3>2. Cardinality(1..L) = L
      BY ONLY <1>1, <3>1
    <3> QED BY <2>1, <3>2
  <2>3. FirstNotLess(s, x, m) = L + 1
    BY <1>1, <1>2, <2>2
  <2>4. \A j \in 1..L + 1 - 1 : compare(s[j], x, m)
    BY <1>1, <1>5
  <2> QED BY <1>1, <2>3, <2>4 DEF StopsAt
<1>6. CASE U # {}
  <2>1. PICK p \in U : \A y \in U : p <= y
    <3>1. U \subseteq Nat
      OBVIOUS
    <3> HIDE DEF U
    <3> QED BY <1>6, <3>1, LeastNumber
  <2>2. p \in 1..L /\ ~compare(s[p], x, m) /\ \A j \in 1..p - 1 : compare(s[j], x, m)
    BY <1>1, <2>1
  <2>3. T = 1..p - 1
    <3>1. ASSUME NEW j \in 1..p - 1 PROVE j \in T
      BY <1>1, <1>4, <2>2
    <3>2. ASSUME NEW j \in T PROVE j \in 1..p - 1
      <4>1. j \in 1..L /\ ~(p \in 1..j)
        BY <1>4, <2>2
      <4> QED BY <1>1, <2>2, <4>1
    <3> QED BY <3>1, <3>2
  <2>4. Cardinality(T) = p - 1
    <3>1. Cardinality(1..p - 1) = p - 1
      BY <1>1, <2>2, FS_Interval
    <3> QED BY <2>3, <3>1
  <2>5. FirstNotLess(s, x, m) = p
    BY <1>1, <1>2, <2>2, <2>4
  <2>6. \A j \in p..L : ~compare(s[j], x, m)
    BY <1>1, <1>3, <2>2
  <2> QED BY <1>1, <2>2, <2>5, <2>6 DEF StopsAt
<1> QED BY <1>5, <1>6

\* The scan from the right stops where a new key belongs.
LEMMA ScanFromRight ==
    ASSUME NEW m, NEW K, TotalOrder(K, m), NEW s \in Seq(K), Ascends(s, m), NEW x \in K,
           ~Contains(s, x)
    PROVE  Belongs(s, x, PlaceFor(s, x, m), m)
<1> DEFINE L == Len(s)
           T == {j \in 1..L : \A i \in j..L : compare(x, s[i], m)}
<1>1. L \in Nat /\ \A j \in 1..L : s[j] \in K
  BY LenProperties, ElementOfSeq
<1>2. PlaceFor(s, x, m) = 1 + L - Cardinality(T)
  BY DEF PlaceFor
<1>3. \A i, j \in 1..L : i < j /\ compare(x, s[i], m) => compare(x, s[j], m)
  BY <1>1 DEF TotalOrder, Ascends
<1>4. \A j \in 1..L : compare(x, s[j], m) \/ compare(s[j], x, m)
  BY <1>1 DEF TotalOrder, Contains
<1>5. \A j \in 1..L : j \in T <=> compare(x, s[j], m)
  <2> SUFFICES ASSUME NEW j \in 1..L
               PROVE  (\A i \in j..L : compare(x, s[i], m)) <=> compare(x, s[j], m)
    OBVIOUS
  <2>1. ASSUME compare(x, s[j], m), NEW i \in j..L PROVE compare(x, s[i], m)
    <3>1. i \in 1..L /\ (j = i \/ j < i)
      BY <1>1
    <3> QED BY <1>3, <2>1, <3>1
  <2> QED BY <1>1, <2>1
<1>6. T \subseteq 1..L
  OBVIOUS
<1> HIDE DEF T
<1>7. CASE T = {}
  <2>1. PlaceFor(s, x, m) = 1 + L
    BY <1>1, <1>2, <1>7, FS_EmptySet
  <2> QED BY <1>1, <1>4, <1>5, <1>7, <2>1 DEF Belongs
<1>8. CASE T # {}
  <2>1. PICK p \in T : \A y \in T : p <= y
    <3>1. T \subseteq Nat
      BY <1>6
    <3> QED BY <1>8, <3>1, LeastNumber
  <2>2. p \in 1..L /\ compare(x, s[p], m)
    BY <1>5, <1>6, <2>1
  <2>3. T = p..L
    <3>1. ASSUME NEW j \in p..L PROVE j \in T
      <4>1. j \in 1..L /\ (p = j \/ p < j)
        BY <2>2
      <4> QED BY <1>3, <1>5, <2>1, <2>2, <4>1
    <3>2. ASSUME NEW j \in T PROVE j \in p..L
      BY <1>6, <2>1
    <3> QED BY <3>1, <3>2
  <2>4. Cardinality(T) = L - p + 1
    BY <1>1, <2>2, <2>3, FS_Interval
  <2>5. PlaceFor(s, x, m) = p
    BY <1>1, <1>2, <2>2, <2>4
  <2>6. \A j \in 1..p - 1 : compare(s[j], x, m)
    <3>1. \A j \in 1..p - 1 : j \in 1..L /\ j \notin T
      BY <1>1, <2>1, <2>2
    <3> QED BY <1>4, <1>5, <3>1
  <2>7. \A j \in p..L : compare(x, s[j], m)
    BY <1>5, <1>6, <2>3
  <2> QED BY <1>1, <2>2, <2>5, <2>6, <2>7 DEF Belongs
<1> QED BY <1>7, <1>8

\* A search finds exactly the keys that are there.
LEMMA OrderedFinds ==
    ASSUME NEW m \in Nat, NEW s \in Seq([1..m -> Bytes]), Ascends(s, m),
           NEW x \in [1..m -> Bytes]
    PROVE  Finds(s, x, m) <=> Contains(s, x)
<1> DEFINE K == [1..m -> Bytes]
<1>1. PICK p : p = FirstNotLess(s, x, m)
  OBVIOUS
<1>2. TotalOrder(K, m)
  BY KeysOrdered
<1>3. StopsAt(s, x, p, m)
  <2> HIDE DEF K
  <2>1. s \in Seq(K) /\ x \in K
    BY DEF K
  <2> QED BY <1>1, <1>2, <2>1, ScanFromLeft
<1>4. Len(s) \in Nat /\ \A j \in 1..Len(s) : s[j] \in K
  BY LenProperties, ElementOfSeq
<1>5. \A j \in 1..Len(s) : isEqual(x, s[j], m) <=> x = s[j]
  BY <1>4, EqualAll
<1>6. Finds(s, x, m) <=> p <= Len(s) /\ isEqual(x, s[p], m)
  BY <1>1 DEF Finds
<1> HIDE DEF K
<1>7. ASSUME Finds(s, x, m) PROVE Contains(s, x)
  <2>1. p \in 1..Len(s)
    BY <1>3, <1>4, <1>6, <1>7 DEF StopsAt
  <2> QED BY <1>5, <1>6, <1>7, <2>1 DEF Contains
<1>8. ASSUME Contains(s, x) PROVE Finds(s, x, m)
  <2>1. PICK k \in 1..Len(s) : s[k] = x
    BY <1>8 DEF Contains
  <2>2. ~(k < p)
    BY <1>2, <1>3, <1>4, <2>1 DEF StopsAt, TotalOrder
  <2>3. ~(p < k)
    BY <1>3, <1>4, <2>1 DEF StopsAt, Ascends
  <2>4. p = k
    BY <1>3, <1>4, <2>2, <2>3 DEF StopsAt
  <2>5. p \in 1..Len(s) /\ s[p] = x
    BY <2>1, <2>4
  <2> QED BY <1>4, <1>5, <1>6, <2>5
<1> QED BY <1>7, <1>8

\* A key put where it belongs leaves the keys in order.
LEMMA InsertedAscends ==
    ASSUME NEW m \in Nat, NEW s \in Seq([1..m -> Bytes]), Ascends(s, m),
           NEW x \in [1..m -> Bytes], ~Contains(s, x)
    PROVE  Inserted(s, x, m) \in Seq([1..m -> Bytes]) /\ Ascends(Inserted(s, x, m), m)
<1> DEFINE K == [1..m -> Bytes]
           L == Len(s)
<1>1. PICK p : p = PlaceFor(s, x, m)
  OBVIOUS
<1>2. s \in Seq(K) /\ x \in K /\ TotalOrder(K, m) /\ L \in Nat
  BY KeysOrdered, LenProperties
<1> HIDE DEF K
<1>3. Belongs(s, x, p, m)
  BY <1>1, <1>2, ScanFromRight
<1>4. p \in 1..L + 1 /\ (\A j \in 1..p - 1 : compare(s[j], x, m))
      /\ \A j \in p..L : compare(x, s[j], m)
  BY <1>3 DEF Belongs
<1>5. PICK t : t = InsertAt(s, p, x)
  OBVIOUS
<1>6. t = Inserted(s, x, m)
  BY <1>1, <1>5 DEF Inserted
<1>7. t \in Seq(K) /\ Len(t) = L + 1
  BY <1>2, <1>4, <1>5, InsertAtProperties
<1>8. /\ \A j \in 1..p - 1 : t[j] = s[j]
      /\ t[p] = x
      /\ \A j \in p + 1..L + 1 : t[j] = s[j - 1]
  BY <1>2, <1>4, <1>5, InsertAtElements
<1>9. ASSUME NEW i \in 1..L + 1, NEW j \in 1..L + 1, i < j PROVE compare(t[i], t[j], m)
  <2>1. CASE j < p
    <3>1. i \in 1..p - 1 /\ j \in 1..p - 1 /\ i \in 1..L /\ j \in 1..L
      BY <1>2, <1>4, <1>9, <2>1
    <3> QED BY <1>8, <1>9, <3>1 DEF Ascends
  <2>2. CASE j = p
    <3>1. i \in 1..p - 1
      BY <1>4, <1>9, <2>2
    <3> QED BY <1>4, <1>8, <2>2, <3>1
  <2>3. CASE p < j
    <3>1. j \in p + 1..L + 1 /\ j - 1 \in 1..L /\ j - 1 \in p..L
      BY <1>2, <1>4, <2>3
    <3>2. t[j] = s[j - 1]
      BY <1>8, <3>1
    <3>3. CASE i < p
      <4>1. i \in 1..p - 1 /\ i \in 1..L /\ i < j - 1
        BY <1>2, <1>4, <3>1, <3>3
      <4> QED BY <1>8, <3>1, <3>2, <4>1 DEF Ascends
    <3>4. CASE i = p
      BY <1>4, <1>8, <3>1, <3>2, <3>4
    <3>5. CASE p < i
      <4>1. i \in p + 1..L + 1 /\ i - 1 \in 1..L /\ i - 1 < j - 1
        BY <1>2, <1>4, <1>9, <3>5
      <4>2. t[i] = s[i - 1]
        BY <1>8, <4>1
      <4> QED BY <3>1, <3>2, <4>1, <4>2 DEF Ascends
    <3> QED BY <1>4, <3>3, <3>4, <3>5
  <2> QED BY <1>4, <2>1, <2>2, <2>3
<1>10. Ascends(t, m)
  BY <1>7, <1>9 DEF Ascends
<1> QED BY <1>6, <1>7, <1>10 DEF K

\* What RemoveAt() returns.
LEMMA RemoveAtElements ==
    ASSUME NEW S, NEW s \in Seq(S), NEW p \in 1..Len(s)
    PROVE  /\ RemoveAt(s, p) \in Seq(S)
           /\ Len(RemoveAt(s, p)) = Len(s) - 1
           /\ \A j \in 1..Len(s) - 1 : RemoveAt(s, p)[j] = IF j < p THEN s[j] ELSE s[j + 1]
<1> DEFINE a == SubSeq(s, 1, p - 1)
           b == SubSeq(s, p + 1, Len(s))
<1>1. Len(s) \in Nat /\ \A j \in 1..Len(s) : s[j] \in S
  BY LenProperties, ElementOfSeq
<1>2. a \in Seq(S) /\ Len(a) = p - 1 /\ \A j \in 1..p - 1 : a[j] = s[j]
  <2>1. \A j \in 1..p - 1 : s[j] \in S
    BY <1>1
  <2>2. a \in Seq(S) /\ Len(a) = p - 1
    BY <2>1, <1>1, SubSeqProperties
  <2>3. \A j \in 1..p - 1 : a[j] = s[1 + j - 1]
    BY <2>1, <2>2, <1>1, SubSeqProperties
  <2> QED BY <2>2, <2>3
<1>3. b \in Seq(S) /\ Len(b) = Len(s) - p /\ \A j \in 1..Len(s) - p : b[j] = s[p + j]
  <2>1. \A j \in p + 1..Len(s) : s[j] \in S
    BY <1>1
  <2>2. b \in Seq(S) /\ Len(b) = Len(s) - p
    BY <2>1, <1>1, SubSeqProperties
  <2>3. \A j \in 1..Len(s) - p : b[j] = s[p + 1 + j - 1]
    BY <2>1, <2>2, <1>1, SubSeqProperties
  <2> QED BY <1>1, <2>2, <2>3
<1> HIDE DEF a, b
<1>4. /\ a \o b \in Seq(S) /\ Len(a \o b) = Len(a) + Len(b)
      /\ \A j \in 1..Len(a) + Len(b) : (a \o b)[j] = IF j <= Len(a) THEN a[j] ELSE b[j - Len(a)]
  BY ONLY <1>2, <1>3, ConcatProperties
<1>5. Len(a) + Len(b) = Len(s) - 1
  BY <1>1, <1>2, <1>3
<1>6. ASSUME NEW j \in 1..Len(s) - 1
      PROVE  (a \o b)[j] = IF j < p THEN s[j] ELSE s[j + 1]
  <2>1. CASE j < p
    <3>1. j \in 1..p - 1 /\ j <= Len(a) /\ j \in 1..Len(a) + Len(b)
      BY <1>1, <1>2, <1>5, <2>1
    <3> QED BY <1>2, <1>4, <2>1, <3>1
  <2>2. CASE ~(j < p)
    <3>1. /\ j - Len(a) \in 1..Len(s) - p /\ ~(j <= Len(a)) /\ j \in 1..Len(a) + Len(b)
          /\ p + (j - Len(a)) = j + 1
      BY <1>1, <1>2, <1>5, <2>2
    <3>2. b[j - Len(a)] = s[j + 1]
      BY <1>3, <3>1
    <3> QED BY <1>4, <2>2, <3>1, <3>2
  <2> QED BY <2>1, <2>2
<1>7. RemoveAt(s, p) = a \o b
  BY DEF RemoveAt, a, b
<1> QED BY <1>4, <1>5, <1>6, <1>7

\* A removal leaves the keys in order.
LEMMA RemovalAscends ==
    ASSUME NEW m \in Nat, NEW S, NEW s \in Seq(S), Ascends(s, m), NEW p \in 1..Len(s)
    PROVE  RemoveAt(s, p) \in Seq(S) /\ Ascends(RemoveAt(s, p), m)
<1>1. PICK t : t = RemoveAt(s, p)
  OBVIOUS
<1>2. /\ t \in Seq(S) /\ Len(t) = Len(s) - 1
      /\ \A j \in 1..Len(s) - 1 : t[j] = IF j < p THEN s[j] ELSE s[j + 1]
  BY <1>1, RemoveAtElements
<1>3. Len(s) \in Nat
  BY LenProperties
<1>4. ASSUME NEW i \in 1..Len(t), NEW j \in 1..Len(t), i < j PROVE compare(t[i], t[j], m)
  <2>1. i \in 1..Len(s) - 1 /\ j \in 1..Len(s) - 1
    BY <1>2
  <2>2. PICK a \in 1..Len(s) : t[i] = s[a] /\ a = IF i < p THEN i ELSE i + 1
    BY <1>2, <1>3, <2>1
  <2>3. PICK b \in 1..Len(s) : t[j] = s[b] /\ b = IF j < p THEN j ELSE j + 1
    BY <1>2, <1>3, <2>1
  <2>4. a < b
    BY <1>3, <1>4, <2>1, <2>2, <2>3
  <2> QED BY <2>2, <2>3, <2>4 DEF Ascends
<1>5. Ascends(t, m)
  BY <1>4 DEF Ascends
<1> QED BY <1>1, <1>2, <1>5

-------------------------------------------------------------------------------
(* The rebuild. *)

\* A key of ordered ones is put behind those before it, however few bytes are
\* compared.
LEMMA InsertedLast ==
    ASSUME NEW m \in Nat, NEW s \in Seq([1..m -> Bytes]), Ascends(s, m), NEW n,
           NEW i \in 1..Len(s)
    PROVE  Inserted(SubSeq(s, 1, i - 1), s[i], n) = SubSeq(s, 1, i)
<1> DEFINE K == [1..m -> Bytes]
<1>1. Len(s) \in Nat /\ \A j \in 1..Len(s) : s[j] \in K
  BY LenProperties, ElementOfSeq
<1>2. TotalOrder(K, m)
  BY KeysOrdered
<1>3. PICK a : a = SubSeq(s, 1, i - 1)
  OBVIOUS
<1>4. a \in Seq(K) /\ Len(a) = i - 1 /\ \A j \in 1..i - 1 : a[j] = s[j]
  <2> HIDE DEF K
  <2>1. \A j \in 1..i - 1 : s[j] \in K
    BY <1>1
  <2>2. a \in Seq(K) /\ Len(a) = i - 1
    BY <1>1, <1>3, <2>1, SubSeqProperties
  <2>3. \A j \in 1..i - 1 : a[j] = s[1 + j - 1]
    BY <1>1, <1>3, <2>1, <2>2, SubSeqProperties
  <2> QED BY <2>2, <2>3
<1>5. ASSUME NEW j \in 1..i - 1 PROVE ~compare(s[i], a[j], n)
  <2>1. j \in 1..Len(s) /\ j < i /\ a[j] = s[j]
    BY <1>1, <1>4
  <2>2. compare(s[j], s[i], m)
    BY <2>1 DEF Ascends
  <2>3. ~compare(s[i], s[j], m)
    <3> HIDE DEF K
    <3> QED BY <1>1, <1>2, <2>1, <2>2 DEF TotalOrder
  <2> QED BY <1>1, <2>1, <2>3, FewerBytes
<1>6. {j \in 1..Len(a) : \A k \in j..Len(a) : compare(s[i], a[k], n)} = {}
  BY <1>4, <1>5
<1>7. PlaceFor(a, s[i], n) = Len(a) + 1
  <2>1. PlaceFor(a, s[i], n) = 1 + Len(a) - Cardinality({})
    BY ONLY <1>6 DEF PlaceFor
  <2>2. Cardinality({}) = 0
    BY FS_EmptySet
  <2> QED BY ONLY <1>4, <2>1, <2>2, i \in 1..Len(s), Len(s) \in Nat, <1>1
<1>8. PICK b : b = Inserted(a, s[i], n)
  OBVIOUS
<1>9. b = InsertAt(a, Len(a) + 1, s[i])
  BY <1>7, <1>8 DEF Inserted
<1> HIDE DEF K
<1>9a. PICK e : e = s[i] /\ e \in K
  BY <1>1
<1>9b. PICK d : d = Len(a) + 1
  OBVIOUS
<1>9c. a \in Seq(K) /\ d \in 1..Len(a) + 1 /\ d = i /\ i - 1 \in Nat /\ i \in Nat
  BY <1>1, <1>4, <1>9b
<1>9d. b = InsertAt(a, d, e)
  BY ONLY <1>9, <1>9a, <1>9b
<1>10. b \in Seq(K) /\ Len(b) = i
  <2>1. b \in Seq(K) /\ Len(b) = Len(a) + 1
    BY ONLY <1>9a, <1>9c, <1>9d, InsertAtProperties
  <2> QED BY ONLY <1>9b, <1>9c, <2>1
<1>11. \A j \in 1..i : b[j] = s[j]
  <2>1. (\A j \in 1..d - 1 : b[j] = a[j]) /\ b[d] = e
    BY ONLY <1>9a, <1>9c, <1>9d, InsertAtElements
  <2>2. \A j \in 1..i : j \in 1..i - 1 \/ j = i
    BY ONLY <1>9c
  <2> QED BY ONLY <1>4, <1>9a, <1>9c, <2>1, <2>2
<1>12. PICK c : c = SubSeq(s, 1, i)
  OBVIOUS
<1>13. c \in Seq(K) /\ Len(c) = i /\ \A j \in 1..i : c[j] = s[j]
  <2>1. \A j \in 1..i : s[j] \in K
    BY <1>1
  <2>2. c \in Seq(K) /\ Len(c) = i
    BY <1>1, <1>12, <2>1, SubSeqProperties
  <2>3. \A j \in 1..i : c[j] = s[1 + j - 1]
    BY <1>1, <1>12, <2>1, <2>2, SubSeqProperties
  <2> QED BY <2>2, <2>3
<1>14. b = c
  BY <1>10, <1>11, <1>13, SeqEqual
<1> QED BY <1>3, <1>8, <1>12, <1>14

\* Keys that come in order make the same tree again.
LEMMA RebuiltSame ==
    ASSUME NEW m \in Nat, NEW s \in Seq([1..m -> Bytes]), Ascends(s, m), NEW n
    PROVE  Rebuilt(s, n) = s
<1> DEFINE D == 0..Len(s)
           P(f) == f = [i \in D |-> IF i = 0 THEN <<>> ELSE Inserted(f[i - 1], s[i], n)]
           g == [i \in D |-> SubSeq(s, 1, i)]
           h == CHOOSE f : P(f)
<1>1. Len(s) \in Nat
  BY LenProperties
<1>2. P(g)
  <2>1. g[0] = <<>>
    <3>1. SubSeq(s, 1, 0) = <<>>
      BY SubSeqEmpty
    <3> QED BY <1>1, <3>1
  <2>2. ASSUME NEW i \in D, i # 0 PROVE g[i] = Inserted(g[i - 1], s[i], n)
    <3>1. i \in 1..Len(s) /\ i - 1 \in D
      BY <1>1, <2>2
    <3>2. g[i] = SubSeq(s, 1, i) /\ g[i - 1] = SubSeq(s, 1, i - 1)
      BY <3>1
    <3> QED BY <3>1, <3>2, InsertedLast
  <2>3. \A i \in D : g[i] = IF i = 0 THEN <<>> ELSE Inserted(g[i - 1], s[i], n)
    BY <2>1, <2>2
  <2>4. g = [i \in D |-> g[i]]
    OBVIOUS
  <2> HIDE DEF g, D
  <2> QED BY <2>3, <2>4
<1>3. P(h)
  <2> HIDE DEF P, g
  <2> QED BY <1>2
<1>4. Rebuilt(s, n) = h[Len(s)]
  BY DEF Rebuilt
<1> HIDE DEF h
<1>5. \A i \in D : h[i] = IF i = 0 THEN <<>> ELSE Inserted(h[i - 1], s[i], n)
  <2> HIDE DEF D
  <2>1. h = [i \in D |-> IF i = 0 THEN <<>> ELSE Inserted(h[i - 1], s[i], n)]
    BY <1>3
  <2> QED BY <2>1
<1>6. \A i \in D : g[i] = IF i = 0 THEN <<>> ELSE Inserted(g[i - 1], s[i], n)
  <2> HIDE DEF D, g
  <2>1. g = [i \in D |-> IF i = 0 THEN <<>> ELSE Inserted(g[i - 1], s[i], n)]
    BY <1>2
  <2> QED BY <2>1
<1>7. g[Len(s)] = s
  <2>1. g[Len(s)] = SubSeq(s, 1, Len(s))
    BY <1>1
  <2> QED BY <2>1, SubSeqFull
<1> HIDE DEF g
<1>8. \A i \in D : h[i] = g[i]
  <2> SUFFICES ASSUME NEW T, T = {i \in D : h[i] # g[i]}, T # {} PROVE FALSE
    OBVIOUS
  <2>1. T \subseteq Nat
    BY <1>1
  <2>2. PICK i \in T : \A j \in T : i <= j
    BY <2>1, LeastNumber
  <2>3. i \in D /\ h[i] # g[i]
    BY <2>2
  <2>4. i # 0
    BY <1>5, <1>6, <2>3
  <2>5. i - 1 \in D /\ ~(i <= i - 1)
    BY <1>1, <2>3, <2>4
  <2>6. h[i - 1] = g[i - 1]
    BY <2>2, <2>5
  <2> HIDE DEF D
  <2> QED BY <1>5, <1>6, <2>3, <2>4, <2>6
<1>9. Len(s) \in D
  BY <1>1
<1> QED BY <1>4, <1>7, <1>8, <1>9

-------------------------------------------------------------------------------
(* The specification. *)

\* The keys of every tree are in the order of its own table's comparisons.
TreesInOrder ==
    \A t \in Tables : tree[t] \in Seq(KeysOf(t)) /\ Ascends(tree[t], KeySize[t])

\* TreesInOrder and the shape of tree.
OrderInv == DOMAIN tree = Tables /\ tree = [t \in DOMAIN tree |-> tree[t]] /\ TreesInOrder

\* No B*-tree has more than one page.
SmallBStarTrees ==
    \A t \in Tables : bestIndex[t] = "B_STAR_TREE" => Len(tree[t]) <= PageCapacity

\* A step that changes one table's tree to an ordered one.
LEMMA OneTree ==
    ASSUME OrderInv, NEW t \in Tables, NEW s \in Seq(KeysOf(t)), Ascends(s, KeySize[t]),
           tree' = [tree EXCEPT ![t] = s]
    PROVE  OrderInv'
<1>1. /\ DOMAIN tree' = Tables /\ tree' = [u \in DOMAIN tree' |-> tree'[u]]
      /\ \A u \in Tables : tree'[u] = IF u = t THEN s ELSE tree[u]
  BY DEF OrderInv
<1>2. ASSUME NEW u \in Tables
      PROVE  tree'[u] \in Seq(KeysOf(u)) /\ Ascends(tree'[u], KeySize[u])
  BY <1>1 DEF OrderInv, TreesInOrder
<1> QED BY <1>1, <1>2 DEF OrderInv, TreesInOrder

\* Every step keeps the trees in order, if no tree of several pages is rebuilt.
LEMMA OrderStep == OrderInv /\ SmallBStarTrees /\ [Next]_vars => OrderInv'
<1> SUFFICES ASSUME OrderInv, SmallBStarTrees, [Next]_vars PROVE OrderInv'
  OBVIOUS
<1>1. CASE UNCHANGED vars
  BY <1>1 DEF vars, OrderInv, TreesInOrder
<1>2. ASSUME NEW t \in Tables, NEW x \in KeysOf(t), Insert(t, x) PROVE OrderInv'
  <2>1. KeySize[t] \in Nat /\ KeysOf(t) = [1..KeySize[t] -> Bytes]
    BY ComparatorAssumption DEF KeysOf
  <2>2. tree[t] \in Seq(KeysOf(t)) /\ Ascends(tree[t], KeySize[t]) /\ ~Contains(tree[t], x)
    BY <1>2 DEF OrderInv, TreesInOrder, Insert
  <2>3. PICK s : s = Inserted(tree[t], x, KeySize[t])
    OBVIOUS
  <2>4. s \in Seq(KeysOf(t)) /\ Ascends(s, KeySize[t])
    BY <2>1, <2>2, <2>3, InsertedAscends
  <2>5. tree' = [tree EXCEPT ![t] = s]
    BY <1>2, <2>3 DEF Insert, Use
  <2> QED BY <2>4, <2>5, OneTree
<1>3. ASSUME NEW t \in Tables, NEW x \in KeysOf(t), Delete(t, x) PROVE OrderInv'
  <2>1. KeySize[t] \in Nat /\ KeysOf(t) = [1..KeySize[t] -> Bytes]
    BY ComparatorAssumption DEF KeysOf
  <2>2. tree[t] \in Seq(KeysOf(t)) /\ Ascends(tree[t], KeySize[t])
    BY DEF OrderInv, TreesInOrder
  <2>3. PICK p : p = FirstNotLess(tree[t], x, KeySize[t])
    OBVIOUS
  <2>4. p <= Len(tree[t])
    BY <1>3, <2>3 DEF Delete, Use, Finds
  <2>5. p \in 1..Len(tree[t]) + 1
    <3>1. TotalOrder(KeysOf(t), KeySize[t])
      BY <2>1, KeysOrdered
    <3>2. StopsAt(tree[t], x, p, KeySize[t])
      BY ONLY <2>2, <2>3, <3>1, x \in KeysOf(t), ScanFromLeft
    <3> QED BY <3>2 DEF StopsAt
  <2>6. p \in 1..Len(tree[t])
    BY <2>2, <2>4, <2>5, LenProperties
  <2>7. PICK s : s = RemoveAt(tree[t], p)
    OBVIOUS
  <2>8. s \in Seq(KeysOf(t)) /\ Ascends(s, KeySize[t])
    BY <2>1, <2>2, <2>6, <2>7, RemovalAscends
  <2>9. tree' = [tree EXCEPT ![t] = s]
    BY <1>3, <2>3, <2>7 DEF Delete, Use
  <2> QED BY <2>8, <2>9, OneTree
<1>4. ASSUME NEW t \in Tables, Filter(t) PROVE OrderInv'
  BY <1>4 DEF Filter, OrderInv, TreesInOrder
<1>5. ASSUME NEW t \in Tables, NEW type, rebuildIndex(t, type) PROVE OrderInv'
  <2>1. KeySize[t] \in Nat /\ KeysOf(t) = [1..KeySize[t] -> Bytes]
    BY ComparatorAssumption DEF KeysOf
  <2>2. tree[t] \in Seq(KeysOf(t)) /\ Ascends(tree[t], KeySize[t])
    BY DEF OrderInv, TreesInOrder
  <2>3. AllKeys(t) = {tree[t]}
    BY DEF AllKeys, SmallBStarTrees
  <2>4. tree' = [tree EXCEPT ![t] = Rebuilt(tree[t], firstPartBytes)]
    BY <1>5, <2>3 DEF rebuildIndex
  <2>5. Rebuilt(tree[t], firstPartBytes) = tree[t]
    BY <2>1, <2>2, RebuiltSame
  <2> QED BY <2>2, <2>4, <2>5, OneTree
<1> QED BY <1>1, <1>2, <1>3, <1>4, <1>5 DEF Next

\* The trees are empty at first.
LEMMA InitOrder == Init => OrderInv
<1> SUFFICES ASSUME Init PROVE OrderInv
  OBVIOUS
<1>1. DOMAIN tree = Tables /\ tree = [t \in DOMAIN tree |-> tree[t]]
      /\ \A t \in Tables : tree[t] = <<>>
  BY DEF Init
<1>2. ASSUME NEW t \in Tables
      PROVE  tree[t] \in Seq(KeysOf(t)) /\ Ascends(tree[t], KeySize[t])
  <2>1. PICK s : s = tree[t]
    OBVIOUS
  <2>2. s = <<>>
    BY <1>1, <2>1
  <2>3. s \in Seq(KeysOf(t)) /\ Len(s) = 0
    BY ONLY <2>2, EmptySeq
  <2>4. Ascends(s, KeySize[t])
    BY ONLY <2>3 DEF Ascends
  <2> QED BY <2>1, <2>3, <2>4
<1> QED BY <1>1, <1>2 DEF OrderInv, TreesInOrder

\* In ordered trees all stored keys are found.
LEMMA OrderFinds == OrderInv => StoredKeysAreFound
<1> SUFFICES ASSUME OrderInv, NEW t \in Tables, NEW x \in KeysOf(t)
             PROVE  Finds(tree[t], x, KeySize[t]) <=> Contains(tree[t], x)
  BY DEF StoredKeysAreFound
<1>1. KeySize[t] \in Nat /\ KeysOf(t) = [1..KeySize[t] -> Bytes]
  BY ComparatorAssumption DEF KeysOf
<1>2. tree[t] \in Seq(KeysOf(t)) /\ Ascends(tree[t], KeySize[t])
  BY DEF OrderInv, TreesInOrder
<1> QED BY <1>1, <1>2, OrderedFinds

\* As long as no B*-tree outgrows its root page, an operation finds every key in
\* the tree of its table and no other, whatever size rebuildIndex() found in
\* byteComparator.firstPartBytes.
THEOREM SmallTreesFindStored ==
    Init /\ [][Next /\ SmallBStarTrees]_vars => []StoredKeysAreFound
<1>1. OrderInv /\ [Next /\ SmallBStarTrees]_vars => OrderInv'
  BY OrderStep DEF vars, OrderInv, TreesInOrder
<1> QED BY <1>1, InitOrder, OrderFinds, PTL

\* The keys in order are different ones: there are no more than the table has.
LEMMA FewKeys ==
    ASSUME NEW K, IsFiniteSet(K), NEW m, TotalOrder(K, m), NEW s \in Seq(K), Ascends(s, m)
    PROVE  Len(s) <= Cardinality(K)
<1>1. Len(s) \in Nat /\ \A j \in 1..Len(s) : s[j] \in K
  BY LenProperties, ElementOfSeq
<1>2. PICK f : f = [j \in 1..Len(s) |-> s[j]]
  OBVIOUS
<1>3. f \in Injection(1..Len(s), K)
  <2>1. f \in [1..Len(s) -> K]
    BY <1>1, <1>2
  <2>2. ASSUME NEW i \in 1..Len(s), NEW j \in 1..Len(s), f[i] = f[j] PROVE i = j
    <3>1. s[i] = s[j] /\ ~compare(s[i], s[j], m) /\ ~compare(s[j], s[i], m)
      BY <1>1, <1>2, <2>2 DEF TotalOrder
    <3>2. ~(i < j) /\ ~(j < i)
      BY <3>1 DEF Ascends
    <3> QED BY <1>1, <3>2
  <2> QED BY <2>1, <2>2 DEF Injection, IsInjective
<1>4. IsFiniteSet(1..Len(s)) /\ Cardinality(1..Len(s)) = Len(s)
  <2>1. /\ IsFiniteSet(1..Len(s))
        /\ Cardinality(1..Len(s)) = IF 1 > Len(s) THEN 0 ELSE Len(s) - 1 + 1
    BY ONLY <1>1, FS_Interval
  <2> QED BY ONLY <1>1, <2>1
<1>5. Cardinality(1..Len(s)) <= Cardinality(K)
  BY <1>3, <1>4, FS_Injection
<1> QED BY <1>4, <1>5

\* When all the keys a table can have fit into one page, the tables that share the
\* comparator do not disturb each other.
THEOREM OnePageFindsStored ==
    ASSUME \A t \in Tables : IsFiniteSet(KeysOf(t)) /\ Cardinality(KeysOf(t)) <= PageCapacity
    PROVE  Spec => []StoredKeysAreFound
<1>1. ASSUME OrderInv PROVE SmallBStarTrees
  <2> SUFFICES ASSUME NEW t \in Tables PROVE Len(tree[t]) <= PageCapacity
    BY DEF SmallBStarTrees
  <2>1. KeySize[t] \in Nat /\ KeysOf(t) = [1..KeySize[t] -> Bytes] /\ PageCapacity \in Nat
    BY ComparatorAssumption DEF KeysOf
  <2>2. tree[t] \in Seq(KeysOf(t)) /\ Ascends(tree[t], KeySize[t])
    BY <1>1 DEF OrderInv, TreesInOrder
  <2>3. TotalOrder(KeysOf(t), KeySize[t])
    BY <2>1, KeysOrdered
  <2>4. Len(tree[t]) <= Cardinality(KeysOf(t))
    BY <2>2, <2>3, FewKeys
  <2>5. Len(tree[t]) \in Nat
    BY ONLY <2>2, LenProperties
  <2>6. PICK c : c = Cardinality(KeysOf(t))
    OBVIOUS
  <2>7. c \in Nat /\ c <= PageCapacity
    BY <2>6, FS_CardinalityType
  <2> QED BY ONLY <2>1, <2>4, <2>5, <2>6, <2>7
<1>2. OrderInv /\ [Next]_vars => OrderInv'
  BY <1>1, OrderStep
<1> QED BY <1>2, InitOrder, OrderFinds, PTL DEF Spec
===============================================================================
